----------------------------- MODULE MachineWords ------------------------------
(***************************************************************************)
(* The words of the simulated machine: integers in two's complement, of    *)
(* four bytes.  A byte has 8 bits in the code, and any even or odd number  *)
(* of them here, so that every word of a small machine can be tried.       *)
(***************************************************************************)
EXTENDS Integers

CONSTANT ByteBits

ASSUME ByteBitsAssumption == ByteBits \in Nat \ {0}

WordBits == 4 * ByteBits

Word == -(2 ^ (WordBits - 1)) .. 2 ^ (WordBits - 1) - 1

(* What an int holds after an operation that overflows.                    *)
Wrap(x) == ((x + 2 ^ (WordBits - 1)) % (2 ^ WordBits)) - 2 ^ (WordBits - 1)

Unsigned(x) == x % (2 ^ WordBits)

Bits(x) == {k \in 0 .. WordBits - 1 : (x \div 2 ^ k) % 2 = 1}

(* The word with these bits.                                               *)
FromBits[S \in SUBSET (0 .. WordBits - 1)] == CHOOSE x \in Word : Bits(x) = S

(* n bits of a word from bit k up, and the word with others in that place. *)
Field(x, k, n) == (x \div 2 ^ k) % (2 ^ n)

WithField(x, k, n, v) == Wrap(x + (Field(v, 0, n) - Field(x, k, n)) * 2 ^ k)

(* A field of n bits as a signed number.                                   *)
SignExtended(v, n) ==
  IF Field(v, 0, n) >= 2 ^ (n - 1) THEN Field(v, 0, n) - 2 ^ n ELSE Field(v, 0, n)


=============================================================================
