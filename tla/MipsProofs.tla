------------------------------ MODULE MipsProofs ------------------------------
(***************************************************************************)
(* Theorems about the processor (Mips.tla), for a machine of any width and *)
(* any programs.                                                           *)
(*                                                                         *)
(* 1. Arithmetic of words: what 2^n is (the number of subsets of n things: *)
(*    the provers know nothing of powers), division by it, the word a sum  *)
(*    is cut to, the bits of a word, and that the bits tell the word.      *)
(* 2. The operators of the C code: masks, sign extension, the fields of    *)
(*    ReadMem and WriteMem, the unaligned accesses.                        *)
(* 3. The loop of Mult: after n turns it holds the product by the n bits   *)
(*    of a it has shifted out (LoopMultiplies); so MULT and MULTU leave    *)
(*    the exact product in HI and LO, and DIV and DIVU the quotient and    *)
(*    the remainder.                                                       *)
(* 4. MachineInv, inductive: every variable has its type, the code is of   *)
(*    decoded instructions.                                                *)
(* 5. Every step is a step of MipsArchitecture, or leaves its variables.   *)
(***************************************************************************)
EXTENDS Mips, FiniteSetTheorems, WellFoundedInduction, TLAPS

-------------------------------------------------------------------------------
(* Powers of two.                                                            *)

(* A set of n elements has 2^n subsets: so a power of two is a number.       *)
LEMMA PowerCounts ==
  ASSUME NEW n \in Nat
  PROVE  /\ IsFiniteSet(SUBSET (1 .. n)) /\ Cardinality(SUBSET (1 .. n)) = 2 ^ n
         /\ 2 ^ n \in Nat
<1>1. IsFiniteSet(1 .. n) /\ Cardinality(1 .. n) = n
  BY FS_Interval
<1>2. IsFiniteSet(SUBSET (1 .. n)) /\ Cardinality(SUBSET (1 .. n)) = 2 ^ Cardinality(1 .. n)
  BY <1>1, FS_SUBSET
<1>3. Cardinality(SUBSET (1 .. n)) \in Nat
  BY <1>2, FS_CardinalityType
<1> QED
  BY <1>1, <1>2, <1>3

(* One more element doubles the subsets.                                     *)
LEMMA PowerDoubles ==
  ASSUME NEW n \in Nat
  PROVE  2 ^ (n + 1) = 2 * 2 ^ n
<1> DEFINE A == SUBSET (1 .. n)
           f == [s \in A |-> s \cup {n + 1}]
           B == {s \cup {n + 1} : s \in A}
<1>1. IsFiniteSet(A) /\ Cardinality(A) = 2 ^ n /\ 2 ^ n \in Nat
  BY PowerCounts
<1>2. f \in Bijection(A, B)
  <2>1. \A s \in A : n + 1 \notin s
    OBVIOUS
  <2>2. \A s, t \in A : f[s] = f[t] => s = t
    BY <2>1
  <2>3. f \in [A -> B]
    OBVIOUS
  <2>4. \A t \in B : \E s \in A : f[s] = t
    OBVIOUS
  <2> HIDE DEF A, B, f
  <2>5. DOMAIN f = A
    BY <2>3
  <2> QED
    BY <2>2, <2>3, <2>4, <2>5 DEF Bijection, Injection, Surjection, IsInjective
<1>3. IsFiniteSet(B) /\ Cardinality(B) = Cardinality(A)
  BY <1>1, <1>2, FS_Bijection DEF ExistsBijection
<1>4. A \cap B = {}
  OBVIOUS
<1>5. A \cup B = SUBSET (1 .. n + 1)
  <2>1. ASSUME NEW s \in SUBSET (1 .. n + 1), n + 1 \in s
        PROVE  s \in B
    <3>1. s \ {n + 1} \in A /\ s = (s \ {n + 1}) \cup {n + 1}
      BY <2>1
    <3> QED
      BY <3>1
  <2>2. ASSUME NEW s \in SUBSET (1 .. n + 1), n + 1 \notin s
        PROVE  s \in A
    BY <2>2
  <2>3. A \subseteq SUBSET (1 .. n + 1) /\ B \subseteq SUBSET (1 .. n + 1)
    <3>1. 1 .. n \subseteq 1 .. n + 1 /\ n + 1 \in 1 .. n + 1
      OBVIOUS
    <3> QED
      BY <3>1, Zenon
  <2> HIDE DEF A, B
  <2> QED
    BY <2>1, <2>2, <2>3
<1> HIDE DEF A, B, f
<1>6. Cardinality(A \cup B) = Cardinality(A) + Cardinality(B) - Cardinality({})
  BY <1>1, <1>3, <1>4, FS_Union
<1>7. Cardinality(A \cup B) = 2 ^ (n + 1)
  <2>1. n + 1 \in Nat
    OBVIOUS
  <2> QED
    BY <1>5, <2>1, PowerCounts
<1>8. Cardinality({}) = 0
  BY FS_EmptySet
<1> QED
  BY <1>1, <1>3, <1>6, <1>7, <1>8

(* A set of natural numbers has a least element: the intervals that end at its *)
(* elements are ordered as they are.                                         *)
LEMMA Least ==
  ASSUME NEW S \in SUBSET Nat, S # {}
  PROVE  \E i \in S : \A j \in S : i <= j
<1> DEFINE T == {0 .. i : i \in S}
<1>1. T \subseteq FiniteSubsetsOf(Nat)
  <2> SUFFICES ASSUME NEW i \in S PROVE 0 .. i \in FiniteSubsetsOf(Nat)
    OBVIOUS
  <2>1. IsFiniteSet(0 .. i)
    BY FS_Interval
  <2>2. 0 .. i \in SUBSET Nat
    OBVIOUS
  <2> QED
    BY <2>1, <2>2 DEF FiniteSubsetsOf
<1>2. IsWellFoundedOn(StrictSubsetOrdering(Nat), FiniteSubsetsOf(Nat))
  BY FS_StrictSubsetOrderingWellFounded
<1>3. T # {}
  OBVIOUS
<1> HIDE DEF T
<1>4. PICK x \in T : \A y \in T : ~(<<y, x>> \in StrictSubsetOrdering(Nat))
  BY <1>1, <1>2, <1>3, WFMin
<1>5. PICK i \in S : x = 0 .. i
  BY DEF T
<1>6. ASSUME NEW j \in S, j < i
      PROVE  FALSE
  <2>1. 0 .. j \in T
    BY DEF T
  <2>2. 0 .. j \subseteq 0 .. i /\ 0 .. j \in SUBSET Nat /\ 0 .. i \in SUBSET Nat
    BY <1>6
  <2>3. i \in 0 .. i /\ i \notin 0 .. j
    BY <1>6
  <2>4. <<0 .. j, 0 .. i>> \in StrictSubsetOrdering(Nat)
    BY <2>2, <2>3 DEF StrictSubsetOrdering
  <2> QED
    BY <1>4, <1>5, <2>1, <2>4
<1> QED
  BY <1>6

(* What no number is the first to miss, no number misses.                    *)
LEMMA FirstMissed ==
  ASSUME NEW S \in SUBSET Nat,
         \A n \in S : \E m \in S : m < n
  PROVE  S = {}
<1> SUFFICES ASSUME S # {} PROVE FALSE
  OBVIOUS
<1>1. PICK i \in S : \A j \in S : i <= j
  BY Least
<1>2. PICK m \in S : m < i
  OBVIOUS
<1> QED
  BY <1>1, <1>2

(* Powers of two are positive.                                               *)
LEMMA PowerPositive ==
  ASSUME NEW n \in Nat
  PROVE  2 ^ n \in Nat \ {0}
<1> DEFINE S == {i \in Nat : 2 ^ i = 0}
<1>1. S \in SUBSET Nat
  OBVIOUS
<1>2. ASSUME NEW i \in S PROVE \E j \in S : j < i
  <2>1. i # 0
    <3>1. 2 ^ 0 # 0
      OBVIOUS
    <3> QED BY <3>1
  <2>2. i - 1 \in Nat /\ (i - 1) + 1 = i
    BY <2>1
  <2>3. 2 ^ i = 2 * 2 ^ (i - 1) /\ 2 ^ (i - 1) \in Nat
    BY <2>2, PowerDoubles, PowerCounts
  <2>4. 2 ^ (i - 1) = 0
    BY <2>3
  <2> QED
    BY <2>2, <2>4
<1> HIDE DEF S
<1>3. S = {}
  BY <1>1, <1>2, FirstMissed
<1> QED
  BY <1>3, PowerCounts DEF S

(* The exponents of a product add up.                                        *)
LEMMA PowerAdds ==
  ASSUME NEW m \in Nat, NEW n \in Nat
  PROVE  2 ^ (m + n) = 2 ^ m * 2 ^ n
<1> DEFINE S == {i \in Nat : 2 ^ (m + i) # 2 ^ m * 2 ^ i}
<1>1. S \in SUBSET Nat
  OBVIOUS
<1>2. ASSUME NEW i \in S PROVE \E j \in S : j < i
  <2>0. 2 ^ m \in Nat /\ i \in Nat
    BY PowerCounts
  <2>1. i # 0
    <3>1. 2 ^ 0 = 1 /\ m + 0 = m
      OBVIOUS
    <3>2. 2 ^ m * 1 = 2 ^ m
      BY <2>0
    <3> QED BY <3>1, <3>2
  <2>2. PICK j \in Nat : i = j + 1
    <3>1. i - 1 \in Nat /\ i = (i - 1) + 1
      BY <2>0, <2>1
    <3> QED BY <3>1
  <2>3. 2 ^ (j + 1) = 2 * 2 ^ j /\ 2 ^ j \in Nat
    BY PowerDoubles, PowerCounts
  <2>4. 2 ^ ((m + j) + 1) = 2 * 2 ^ (m + j) /\ m + j \in Nat /\ 2 ^ (m + j) \in Nat
    <3>1. m + j \in Nat
      OBVIOUS
    <3> QED BY <3>1, PowerDoubles, PowerCounts
  <2>5. (m + j) + 1 = m + (j + 1)
    OBVIOUS
  <2>6. SUFFICES ASSUME 2 ^ (m + j) = 2 ^ m * 2 ^ j PROVE 2 ^ (m + i) = 2 ^ m * 2 ^ i
    <3>1. j < i
      BY <2>2
    <3> QED BY <3>1, <2>6
  <2>7. 2 * (2 ^ m * 2 ^ j) = 2 ^ m * (2 * 2 ^ j)
    <3>1. PICK a \in Nat : a = 2 ^ m
      BY <2>0
    <3>2. PICK b \in Nat : b = 2 ^ j
      BY <2>3
    <3>3. 2 * (a * b) = a * (2 * b)
      OBVIOUS
    <3> QED BY <3>1, <3>2, <3>3
  <2> QED
    BY <2>2, <2>3, <2>4, <2>5, <2>6, <2>7
<1> HIDE DEF S
<1>3. S = {}
  BY <1>1, <1>2, FirstMissed
<1> QED
  BY <1>3 DEF S

-------------------------------------------------------------------------------
(* Division.                                                                 *)

(* What division gives.                                                      *)
LEMMA DivMod ==
  ASSUME NEW x \in Int, NEW d \in Nat \ {0}
  PROVE  x \div d \in Int /\ x % d \in 0 .. d - 1 /\ x = d * (x \div d) + (x % d)
  OBVIOUS

(* And nothing else is.                                                      *)
LEMMA DivUnique ==
  ASSUME NEW d \in Nat \ {0}, NEW q \in Int, NEW r \in 0 .. d - 1,
         NEW x \in Int, x = d * q + r
  PROVE  x \div d = q /\ x % d = r
<1>1. PICK p \in Int : p = x \div d
  BY DivMod
<1>2. PICK s \in 0 .. d - 1 : s = x % d
  BY DivMod
<1>3. d * p + s = d * q + r
  BY <1>1, <1>2, DivMod
<1>4. PICK k \in Int : k = q - p
  OBVIOUS
<1>5. d * k = s - r
  <2>1. d * k = d * q - d * p
    BY <1>4
  <2>2. d * q \in Int /\ d * p \in Int
    OBVIOUS
  <2> QED
    BY <1>3, <2>1, <2>2
<1>6. s - r < d /\ r - s < d
  OBVIOUS
<1>7. ~(k >= 1)
  <2> SUFFICES ASSUME k >= 1 PROVE FALSE
    OBVIOUS
  <2>1. d * k >= d
    OBVIOUS
  <2> QED BY <1>5, <1>6, <2>1
<1>8. ~(k <= -1)
  <2> SUFFICES ASSUME k <= -1 PROVE FALSE
    OBVIOUS
  <2>1. d * k <= -d
    OBVIOUS
  <2> QED BY <1>5, <1>6, <2>1
<1>9. k = 0
  BY <1>7, <1>8
<1> QED
  BY <1>1, <1>2, <1>4, <1>5, <1>9

(* A multiple of the divisor changes the quotient only.                      *)
LEMMA DivShift ==
  ASSUME NEW d \in Nat \ {0}, NEW x \in Int, NEW k \in Int
  PROVE  (x + d * k) \div d = (x \div d) + k /\ (x + d * k) % d = x % d
<1>1. PICK p \in Int : p = x \div d
  BY DivMod
<1>2. PICK s \in 0 .. d - 1 : s = x % d
  BY DivMod
<1>3. x = d * p + s
  BY <1>1, <1>2, DivMod
<1>4. d * (p + k) = d * p + d * k
  OBVIOUS
<1>5. d * p \in Int /\ d * k \in Int /\ p + k \in Int /\ x + d * k \in Int
  OBVIOUS
<1>6. x + d * k = d * (p + k) + s
  BY <1>3, <1>4, <1>5
<1>7. PICK y \in Int : y = x + d * k
  BY <1>5
<1>8. PICK q \in Int : q = p + k
  OBVIOUS
<1>9. y \div d = q /\ y % d = s
  BY <1>6, <1>7, <1>8, DivUnique
<1> QED
  BY <1>1, <1>2, <1>7, <1>8, <1>9

(* To divide by a product is to divide twice.                                *)
Product(a, b, c) == c = a * b

(* To divide by a and then by b is to divide by a * b; a remainder by a * b, *)
(* divided by a, is a remainder by b.                                        *)
LEMMA DivTwice ==
  ASSUME NEW a \in Nat \ {0}, NEW b \in Nat \ {0}, NEW x \in Int, NEW c, Product(a, b, c)
  PROVE  /\ c \in Nat \ {0}
         /\ (x \div a) \div b = x \div c
         /\ (x % c) \div a = (x \div a) % b
         /\ (x % c) % a = x % a
<1>p. c = a * b
  BY DEF Product
<1>0. c \in Nat \ {0}
  BY <1>p
<1>1. PICK p \in Int : p = x \div a
  BY DivMod
<1>2. PICK r \in 0 .. a - 1 : r = x % a
  BY DivMod
<1>3. PICK q \in Int : q = p \div b
  BY DivMod
<1>4. PICK s \in 0 .. b - 1 : s = p % b
  BY DivMod
<1>5. x = a * p + r /\ p = b * q + s
  BY <1>1, <1>2, <1>3, <1>4, DivMod
<1>6. PICK t \in Int : t = a * s + r
  OBVIOUS
<1>7. t \in 0 .. a * b - 1
  <2>1. 0 <= a * s
    OBVIOUS
  <2>2. a * s <= a * (b - 1)
    <3>1. s <= b - 1 /\ b - 1 \in Nat
      OBVIOUS
    <3>2. PICK g \in Nat : g = (b - 1) - s
      BY <3>1
    <3>3. a * (b - 1) = a * s + a * g
      BY <3>2
    <3>4. a * g \in Nat /\ a * s \in Nat
      OBVIOUS
    <3> QED BY <3>3, <3>4
  <2>3. a * (b - 1) = a * b - a
    OBVIOUS
  <2>4. a * s \in Int /\ a * b \in Int
    OBVIOUS
  <2> QED BY <1>6, <2>1, <2>2, <2>3, <2>4
<1>8. x = (a * b) * q + t
  <2>1. a * (b * q + s) = (a * b) * q + a * s
    OBVIOUS
  <2>2. a * s \in Int /\ (a * b) * q \in Int
    OBVIOUS
  <2>3. x = ((a * b) * q + a * s) + r
    BY <1>5, <2>1
  <2> QED BY <1>6, <2>2, <2>3
<1>9. x \div c = q /\ x % c = t
  <2>1. x = c * q + t /\ t \in 0 .. c - 1
    BY <1>p, <1>7, <1>8
  <2> QED BY <1>0, <2>1, DivUnique
<1>10. t \div a = s /\ t % a = r
  BY <1>6, DivUnique
<1> QED
  BY <1>0, <1>1, <1>2, <1>3, <1>4, <1>9, <1>10

(* A number below the divisor.                                               *)
LEMMA DivSmall ==
  ASSUME NEW d \in Nat \ {0}, NEW x \in 0 .. d - 1
  PROVE  x \div d = 0 /\ x % d = x
<1>1. x = d * 0 + x /\ 0 \in Int /\ x \in Int
  OBVIOUS
<1> QED
  BY <1>1, DivUnique

-------------------------------------------------------------------------------
(* Words.                                                                    *)

Modulus == 2 ^ WordBits
Sign2 == 2 ^ (WordBits - 1)

(* The size of a word: a byte has a bit, a word four.                        *)
LEMMA WordSize ==
  /\ WordBits \in Nat /\ WordBits >= 4 /\ ByteBits \in Nat /\ ByteBits >= 1
  /\ Modulus \in Nat \ {0} /\ Sign2 \in Nat \ {0} /\ Modulus = 2 * Sign2 /\ Sign2 >= 8
<1>1. WordBits \in Nat /\ WordBits >= 4 /\ ByteBits \in Nat /\ ByteBits >= 1
  BY ByteBitsAssumption DEF WordBits
<1>2. PICK n \in Nat : WordBits = n + 4
  <2>1. WordBits - 4 \in Nat /\ WordBits = (WordBits - 4) + 4
    BY <1>1
  <2> QED BY <2>1
<1>3. n + 3 \in Nat /\ n + 2 \in Nat /\ n + 1 \in Nat
  OBVIOUS
<1>4. /\ 2 ^ ((n + 3) + 1) = 2 * 2 ^ (n + 3)
      /\ 2 ^ ((n + 2) + 1) = 2 * 2 ^ (n + 2)
      /\ 2 ^ ((n + 1) + 1) = 2 * 2 ^ (n + 1)
      /\ 2 ^ (n + 1) = 2 * 2 ^ n
  BY <1>3, PowerDoubles
<1>5. 2 ^ n \in Nat \ {0} /\ 2 ^ (n + 3) \in Nat \ {0} /\ 2 ^ (n + 1) \in Nat /\ 2 ^ (n + 2) \in Nat
  BY <1>3, PowerPositive
<1>6. (n + 3) + 1 = WordBits /\ n + 3 = WordBits - 1 /\ (n + 2) + 1 = n + 3 /\ (n + 1) + 1 = n + 2
  BY <1>2
<1>7. Modulus = 2 * 2 ^ (n + 3) /\ Sign2 = 2 ^ (n + 3)
  BY <1>4, <1>6 DEF Modulus, Sign2
<1>8. 2 ^ (n + 3) = 2 * (2 * (2 * 2 ^ n))
  BY <1>4, <1>6
<1>9. 2 ^ (n + 3) >= 8
  BY <1>5, <1>8
<1> QED
  BY <1>1, <1>5, <1>7, <1>9

(* Words are the numbers from the least to the greatest.                     *)
LEMMA WordIs ==
  /\ Word = -Sign2 .. Sign2 - 1
  /\ \A x : Wrap(x) = ((x + Sign2) % Modulus) - Sign2
  /\ \A x : Unsigned(x) = x % Modulus
  BY DEF Word, Wrap, Unsigned, Sign2, Modulus

(* x is d times q and r more.                                                *)
DividesTo(d, q, r, x) == x = d * q + r

(* If x is d times q and r more, q is its quotient and r its remainder.      *)
LEMMA Division ==
  ASSUME NEW d \in Nat \ {0}, NEW q \in Int, NEW r \in 0 .. d - 1,
         NEW x \in Int, DividesTo(d, q, r, x)
  PROVE  x \div d = q /\ x % d = r
  BY DivUnique DEF DividesTo

(* Wrap gives the word that differs by a multiple of the modulus.            *)
LEMMA WrapUnique ==
  ASSUME NEW x \in Int, NEW y \in Word, NEW k \in Int, y = x + Modulus * k
  PROVE  Wrap(x) = y
<1>1. PICK m \in Nat \ {0} : m = Modulus
  BY WordSize
<1>2. PICK h \in Nat \ {0} : h = Sign2
  BY WordSize
<1>3. m = 2 * h
  BY <1>1, <1>2, WordSize
<1>4. y \in -h .. h - 1
  BY <1>2, WordIs
<1>5. PICK r \in 0 .. m - 1 : r = y + h
  BY <1>3, <1>4
<1>6. PICK j \in Int : j = -k
  OBVIOUS
<1>7. m * j = -(m * k)
  BY <1>6
<1>8. PICK z \in Int : z = x + h
  OBVIOUS
<1>9. z = m * j + r
  <2>1. m * k \in Int /\ m * j \in Int
    OBVIOUS
  <2>2. y = x + m * k
    BY <1>1
  <2> QED BY <1>5, <1>7, <1>8, <2>1, <2>2
<1>10. z % m = r
  <2>1. DividesTo(m, j, r, z)
    BY <1>9 DEF DividesTo
  <2> QED BY <2>1, Division
<1>11. Wrap(x) = ((x + Sign2) % Modulus) - Sign2
  BY WordIs
<1>12. Wrap(x) = r - h
  BY <1>1, <1>2, <1>8, <1>10, <1>11
<1>13. r - h = y
  BY <1>4, <1>5
<1> QED
  BY <1>12, <1>13

(* There is one.                                                             *)
LEMMA WrapIs ==
  ASSUME NEW x \in Int
  PROVE  Wrap(x) \in Word /\ \E k \in Int : Wrap(x) = x + Modulus * k
<1>1. PICK m \in Nat \ {0} : m = Modulus
  BY WordSize
<1>2. PICK h \in Nat \ {0} : h = Sign2
  BY WordSize
<1>3. m = 2 * h
  BY <1>1, <1>2, WordSize
<1>4. PICK z \in Int : z = x + h
  OBVIOUS
<1>5. PICK r \in 0 .. m - 1 : r = z % m
  BY DivMod
<1>6. PICK q \in Int : q = z \div m
  BY DivMod
<1>7. z = m * q + r
  BY <1>5, <1>6, DivMod
<1>8. Wrap(x) = r - h
  BY <1>1, <1>2, <1>4, <1>5, WordIs
<1>9. r - h \in Word
  BY <1>2, <1>3, WordIs
<1>10. PICK k \in Int : k = -q
  OBVIOUS
<1>11. m * k = -(m * q)
  BY <1>10
<1>12. r - h = x + m * k
  <2>1. m * k \in Int /\ m * q \in Int
    OBVIOUS
  <2> QED BY <1>4, <1>7, <1>11, <2>1
<1> QED
  BY <1>1, <1>8, <1>9, <1>12

(* The same of Unsigned.                                                     *)
LEMMA UnsignedUnique ==
  ASSUME NEW x \in Int, NEW y \in 0 .. Modulus - 1, NEW k \in Int, y = x + Modulus * k
  PROVE  Unsigned(x) = y
<1>1. PICK m \in Nat \ {0} : m = Modulus
  BY WordSize
<1>2. PICK j \in Int : j = -k
  OBVIOUS
<1>3. m * j = -(m * k)
  BY <1>2
<1>4. PICK r \in 0 .. m - 1 : r = y
  BY <1>1
<1>5. x = m * j + r
  <2>1. m * k \in Int /\ m * j \in Int
    OBVIOUS
  <2>2. y = x + m * k
    BY <1>1
  <2> QED BY <1>3, <1>4, <2>1, <2>2
<1>6. x % m = r
  BY <1>5, DivUnique
<1> QED
  BY <1>1, <1>4, <1>6, WordIs

(* And there is one.                                                         *)
LEMMA UnsignedIs ==
  ASSUME NEW x \in Int
  PROVE  Unsigned(x) \in 0 .. Modulus - 1 /\ \E k \in Int : Unsigned(x) = x + Modulus * k
<1>1. PICK m \in Nat \ {0} : m = Modulus
  BY WordSize
<1>2. PICK r \in 0 .. m - 1 : r = x % m
  BY DivMod
<1>3. PICK q \in Int : q = x \div m
  BY DivMod
<1>4. x = m * q + r
  BY <1>2, <1>3, DivMod
<1>5. PICK k \in Int : k = -q
  OBVIOUS
<1>6. m * k = -(m * q)
  BY <1>5
<1>7. r = x + m * k
  <2>1. m * k \in Int /\ m * q \in Int
    OBVIOUS
  <2> QED BY <1>4, <1>6, <2>1
<1>8. Unsigned(x) = r
  BY <1>1, <1>2, WordIs
<1> QED
  BY <1>1, <1>7, <1>8

(* What differs by a multiple of the modulus is the same word.               *)
LEMMA SameWord ==
  ASSUME NEW x \in Int, NEW y \in Int, NEW k \in Int, y = x + Modulus * k
  PROVE  Wrap(y) = Wrap(x) /\ Unsigned(y) = Unsigned(x)
<1>1. PICK m \in Nat \ {0} : m = Modulus
  BY WordSize
<1>2. PICK j \in Int : Wrap(x) = x + m * j
  BY <1>1, WrapIs
<1>3. PICK i \in Int : Unsigned(x) = x + m * i
  BY <1>1, UnsignedIs
<1>4. PICK jk \in Int : jk = j - k
  OBVIOUS
<1>5. PICK ik \in Int : ik = i - k
  OBVIOUS
<1>6. m * jk = m * j - m * k /\ m * ik = m * i - m * k
  BY <1>4, <1>5
<1>7. m * k \in Int /\ m * i \in Int /\ m * j \in Int
  OBVIOUS
<1>8. Wrap(x) = y + m * jk /\ Unsigned(x) = y + m * ik
  BY <1>1, <1>2, <1>3, <1>6, <1>7
<1>9. Wrap(x) \in Word /\ Unsigned(x) \in 0 .. Modulus - 1
  BY WrapIs, UnsignedIs
<1> QED
  BY <1>1, <1>8, <1>9, WrapUnique, UnsignedUnique

(* A word is itself.                                                         *)
LEMMA WrapWord ==
  ASSUME NEW x \in Word
  PROVE  /\ x \in Int /\ Wrap(x) = x
         /\ Unsigned(x) = IF x < 0 THEN x + Modulus ELSE x
<1>1. x \in Int /\ x >= -Sign2 /\ x < Sign2 /\ Sign2 \in Nat /\ Modulus = 2 * Sign2
  BY WordIs, WordSize
<1>2. Modulus \in Nat /\ Modulus * 0 = 0 /\ Modulus * 1 = Modulus
  BY WordSize
<1>3. Wrap(x) = x
  <2>1. x = x + Modulus * 0
    BY <1>1, <1>2
  <2> QED BY <1>1, <2>1, WrapUnique
<1>4. CASE x < 0
  <2>1. x + Modulus \in 0 .. Modulus - 1 /\ x + Modulus = x + Modulus * 1
    BY <1>1, <1>2, <1>4
  <2>2. Unsigned(x) = x + Modulus
    BY <1>1, <2>1, UnsignedUnique
  <2> QED BY <1>1, <1>3, <1>4, <2>2
<1>5. CASE x >= 0
  <2>1. x \in 0 .. Modulus - 1 /\ x = x + Modulus * 0
    BY <1>1, <1>2, <1>5
  <2>2. Unsigned(x) = x
    BY <1>1, <2>1, UnsignedUnique
  <2> QED BY <1>1, <1>3, <1>5, <2>2
<1> QED
  BY <1>1, <1>4, <1>5

(* Cutting to a word, then adding, then cutting again.                       *)
LEMMA WrapTwice ==
  ASSUME NEW x \in Int, NEW y \in Int
  PROVE  /\ Wrap(Wrap(x) + y) = Wrap(x + y)
         /\ Unsigned(Wrap(x)) = Unsigned(x)
         /\ Wrap(Unsigned(x)) = Wrap(x)
<1>1. PICK m \in Nat \ {0} : m = Modulus
  BY WordSize
<1>2. PICK j \in Int : Wrap(x) = x + m * j
  BY <1>1, WrapIs
<1>3. PICK i \in Int : Unsigned(x) = x + m * i
  BY <1>1, UnsignedIs
<1>4. m * j \in Int /\ m * i \in Int /\ x + y \in Int
  OBVIOUS
<1>5. PICK w \in Int : w = Wrap(x)
  BY <1>2, <1>4
<1>6. PICK u \in Int : u = Unsigned(x)
  BY <1>3, <1>4
<1>7. w + y \in Int /\ w + y = (x + y) + m * j
  BY <1>2, <1>4, <1>5
<1>8. Wrap(w + y) = Wrap(x + y)
  BY <1>1, <1>4, <1>7, SameWord
<1>9. Unsigned(w) = Unsigned(x)
  BY <1>1, <1>2, <1>5, SameWord
<1>10. Wrap(u) = Wrap(x)
  BY <1>1, <1>3, <1>6, SameWord
<1> QED
  BY <1>5, <1>6, <1>8, <1>9, <1>10

(* The result of an addition, or of a subtraction, that overflows or not.    *)
LEMMA WrapNear ==
  ASSUME NEW x \in Int, -Modulus <= x, x < Modulus
  PROVE  Wrap(x) = IF x >= Sign2 THEN x - Modulus
                   ELSE IF x < -Sign2 THEN x + Modulus ELSE x
<1>1. /\ Sign2 \in Nat /\ Modulus = 2 * Sign2 /\ Modulus \in Nat
      /\ Modulus * 0 = 0 /\ Modulus * 1 = Modulus /\ Modulus * (-1) = -Modulus
  BY WordSize
<1>2. CASE x >= Sign2
  <2>1. PICK y \in Int : y = x - Modulus
    BY <1>1
  <2>2. y \in Word /\ y = x + Modulus * (-1)
    BY <1>1, <1>2, <2>1, WordIs
  <2>3. Wrap(x) = y
    BY <2>2, WrapUnique
  <2> QED BY <1>2, <2>1, <2>3
<1>3. CASE x < -Sign2
  <2>1. PICK y \in Int : y = x + Modulus
    BY <1>1
  <2>2. y \in Word /\ y = x + Modulus * 1
    BY <1>1, <1>3, <2>1, WordIs
  <2>3. Wrap(x) = y
    BY <2>2, WrapUnique
  <2>4. ~(x >= Sign2)
    BY <1>1, <1>3
  <2> QED BY <1>3, <2>1, <2>3, <2>4
<1>4. CASE ~(x >= Sign2) /\ ~(x < -Sign2)
  <2>1. x \in Word
    BY <1>1, <1>4, WordIs
  <2> QED BY <1>4, <2>1, WrapWord
<1> QED
  BY <1>2, <1>3, <1>4

-------------------------------------------------------------------------------
(* Bits.                                                                     *)

Bit(x, k) == (x \div 2 ^ k) % 2

(* A bit is 0 or 1.                                                          *)
LEMMA BitIs ==
  ASSUME NEW x \in Int, NEW k \in Nat
  PROVE  Bit(x, k) \in 0 .. 1 /\ x \div 2 ^ k \in Int
<1>1. PICK d \in Nat \ {0} : d = 2 ^ k
  BY PowerPositive
<1>2. PICK q \in Int : q = x \div d
  BY DivMod
<1>3. q % 2 \in 0 .. 1
  BY DivMod
<1> QED
  BY <1>1, <1>2, <1>3 DEF Bit

(* The bits of a number of two parts: the low n are those of the low part, the *)
(* others those of the high one.                                             *)
Parted(n, x, h, l) == h \in Int /\ l \in 0 .. 2 ^ n - 1 /\ x = 2 ^ n * h + l

SameBits(n, x, y) == \A k \in Nat : k < n => Bit(x, k) = Bit(y, k)
HighBits(n, x, h) == \A k \in Nat : Bit(x, n + k) = Bit(h, k)

(* A number of two parts has the bits of the low one, then those of the high. *)
LEMMA BitsOfParts ==
  ASSUME NEW n \in Nat, NEW x \in Int, NEW h, NEW l, Parted(n, x, h, l)
  PROVE  SameBits(n, x, l) /\ HighBits(n, x, h)
<1>0. h \in Int /\ l \in 0 .. 2 ^ n - 1 /\ x = 2 ^ n * h + l
  BY DEF Parted
<1>1. PICK d \in Nat \ {0} : d = 2 ^ n
  BY PowerPositive
<1>2. h \in Int /\ l \in 0 .. d - 1 /\ x = d * h + l
  BY <1>0, <1>1
<1>3. ASSUME NEW k \in Nat
      PROVE  Bit(x, n + k) = Bit(h, k)
  <2>1. PICK e \in Nat \ {0} : e = 2 ^ k
    BY PowerPositive
  <2>2. 2 ^ (n + k) = d * e
    BY <1>1, <2>1, PowerAdds
  <2>3. x \div d = h
    BY <1>2, DivUnique
  <2>h. h \in Int
    BY <1>2
  <2>4. PICK c : c = d * e
    OBVIOUS
  <2>5. Product(d, e, c)
    BY <2>4 DEF Product
  <2>6. (x \div d) \div e = x \div c
    BY <2>5, DivTwice
  <2> QED
    BY <2>1, <2>2, <2>3, <2>4, <2>6 DEF Bit
<1>4. ASSUME NEW k \in Nat, k < n
      PROVE  Bit(x, k) = Bit(l, k)
  <2>1. PICK j \in Nat : n = (j + 1) + k
    <3>1. n - k - 1 \in Nat /\ n = ((n - k - 1) + 1) + k
      BY <1>4
    <3> QED BY <3>1
  <2>2. PICK e \in Nat \ {0} : e = 2 ^ k
    BY PowerPositive
  <2>3. PICK f \in Nat \ {0} : f = 2 ^ j
    BY PowerPositive
  <2>4. d = (2 * f) * e
    <3>1. j + 1 \in Nat
      OBVIOUS
    <3>2. 2 ^ ((j + 1) + k) = 2 ^ (j + 1) * 2 ^ k
      BY <3>1, PowerAdds
    <3>3. 2 ^ (j + 1) = 2 * f
      BY <2>3, PowerDoubles
    <3> QED BY <1>1, <2>1, <2>2, <3>2, <3>3
  <2>5. PICK c \in Int : c = f * h
    BY <1>2
  <2>6. x = l + e * (2 * c)
    <3>1. ((2 * f) * e) * h = e * (2 * (f * h))
      BY <1>2
    <3>2. d * h = e * (2 * c)
      BY <2>4, <2>5, <3>1
    <3>3. d * h \in Int
      BY <1>2
    <3> QED BY <1>2, <3>2, <3>3
  <2>7. PICK c2 \in Int : c2 = 2 * c
    OBVIOUS
  <2>8. PICK i \in Int : i = l
    BY <1>2
  <2>9. x \div e = (i \div e) + c2
    BY <2>6, <2>7, <2>8, DivShift
  <2>10. PICK q \in Int : q = i \div e
    BY DivMod
  <2>11. (q + 2 * c) % 2 = q % 2
    BY DivShift
  <2> QED
    BY <2>2, <2>7, <2>8, <2>9, <2>10, <2>11 DEF Bit
<1> QED
  BY <1>3, <1>4 DEF SameBits, HighBits

(* The parts that n cuts a number in.                                        *)
LEMMA Parts ==
  ASSUME NEW n \in Nat, NEW x \in Int
  PROVE  Parted(n, x, x \div 2 ^ n, x % 2 ^ n)
<1>1. PICK d \in Nat \ {0} : d = 2 ^ n
  BY PowerPositive
<1>2. x \div d \in Int /\ x % d \in 0 .. d - 1 /\ x = d * (x \div d) + (x % d)
  BY DivMod
<1> QED
  BY <1>1, <1>2 DEF Parted

(* And with n bits more than m.                                              *)
LEMMA HighPart ==
  ASSUME NEW n \in Nat, NEW x \in 0 .. 2 ^ (n + 1) - 1
  PROVE  \E h \in 0 .. 1, l \in 0 .. 2 ^ n - 1 : Parted(n, x, h, l)
<1>1. PICK d \in Nat \ {0} : d = 2 ^ n
  BY PowerPositive
<1>2. x \in 0 .. 2 * d - 1
  BY <1>1, PowerDoubles
<1>3. CASE x < d
  <2>1. x = d * 0 + x /\ x \in 0 .. d - 1 /\ 0 \in 0 .. 1
    BY <1>2, <1>3
  <2> QED BY <1>1, <2>1 DEF Parted
<1>4. CASE x >= d
  <2>1. PICK l \in 0 .. d - 1 : l = x - d
    BY <1>2, <1>4
  <2>2. x = d * 1 + l /\ 1 \in 0 .. 1
    BY <1>2, <2>1
  <2> QED BY <1>1, <2>1, <2>2 DEF Parted
<1> QED
  BY <1>2, <1>3, <1>4

(* A natural number has no bits above its highest.                           *)
LEMMA NoHighBits ==
  ASSUME NEW n \in Nat, NEW x \in 0 .. 2 ^ n - 1, NEW k \in Nat, k >= n
  PROVE  Bit(x, k) = 0
<1>1. PICK j \in Nat : k = n + j
  <2>1. k - n \in Nat /\ k = n + (k - n)
    OBVIOUS
  <2> QED BY <2>1
<1>2. PICK d \in Nat \ {0} : d = 2 ^ n
  BY PowerPositive
<1>3. x \in Int /\ Parted(n, x, 0, x)
  BY <1>2 DEF Parted
<1>4. Bit(x, n + j) = Bit(0, j)
  BY <1>3, BitsOfParts DEF HighBits
<1>5. PICK e \in Nat \ {0} : e = 2 ^ j
  BY PowerPositive
<1>6. 0 \div e = 0 /\ 0 % 2 = 0
  BY DivSmall
<1> QED
  BY <1>1, <1>4, <1>5, <1>6 DEF Bit

(* The bits of a natural number tell it from the others.                     *)
LEMMA BitsTell ==
  ASSUME NEW n \in Nat
  PROVE  \A x, y \in 0 .. 2 ^ n - 1 : SameBits(n, x, y) => x = y
<1> DEFINE Told(i) == \A x, y \in 0 .. 2 ^ i - 1 : SameBits(i, x, y) => x = y
           S == {i \in Nat : ~Told(i)}
<1>1. S \in SUBSET Nat
  OBVIOUS
<1>2. ASSUME NEW i \in S PROVE \E j \in S : j < i
  <2>1. i # 0
    <3>1. 2 ^ 0 = 1
      OBVIOUS
    <3>2. Told(0)
      BY <3>1
    <3> QED BY <3>2
  <2>2. PICK j \in Nat : i = j + 1
    <3>1. i - 1 \in Nat /\ i = (i - 1) + 1
      BY <2>1
    <3> QED BY <3>1
  <2>3. SUFFICES ASSUME Told(j) PROVE Told(i)
    <3>1. j < i
      BY <2>2
    <3> QED BY <2>3, <3>1
  <2>4. SUFFICES ASSUME NEW x \in 0 .. 2 ^ i - 1, NEW y \in 0 .. 2 ^ i - 1, SameBits(i, x, y)
                 PROVE  x = y
    OBVIOUS
  <2>5. PICK hx \in 0 .. 1, lx \in 0 .. 2 ^ j - 1 : Parted(j, x, hx, lx)
    BY <2>2, HighPart
  <2>6. PICK hy \in 0 .. 1, ly \in 0 .. 2 ^ j - 1 : Parted(j, y, hy, ly)
    BY <2>2, HighPart
  <2> HIDE DEF Told, S
  <2>i. PICK d \in Nat \ {0} : d = 2 ^ j
    BY PowerPositive
  <2>t. x \in Int /\ y \in Int
    BY <2>i, <2>5, <2>6 DEF Parted
  <2>7. SameBits(j, x, lx) /\ Bit(x, j + 0) = Bit(hx, 0)
    <3>1. SameBits(j, x, lx) /\ HighBits(j, x, hx)
      BY <2>5, <2>t, BitsOfParts
    <3> QED BY <3>1 DEF HighBits
  <2>8. SameBits(j, y, ly) /\ Bit(y, j + 0) = Bit(hy, 0)
    <3>1. SameBits(j, y, ly) /\ HighBits(j, y, hy)
      BY <2>6, <2>t, BitsOfParts
    <3> QED BY <3>1 DEF HighBits
  <2>9. lx = ly
    <3>1. SameBits(j, lx, ly)
      BY <2>2, <2>4, <2>7, <2>8 DEF SameBits
    <3> QED BY <2>3, <3>1 DEF Told
  <2>10. hx = hy
    <3>1. Bit(x, j) = Bit(y, j)
      BY <2>2, <2>4 DEF SameBits
    <3>2. j + 0 = j
      OBVIOUS
    <3>3. \A h \in 0 .. 1 : Bit(h, 0) = h
      <4>1. 2 ^ 0 = 1
        OBVIOUS
      <4>2. \A h \in 0 .. 1 : h \div 1 = h /\ h % 2 = h
        OBVIOUS
      <4> QED BY <4>1, <4>2 DEF Bit
    <3>4. Bit(hx, 0) = hx /\ Bit(hy, 0) = hy
      BY <3>3
    <3> QED BY <2>7, <2>8, <3>1, <3>2, <3>4
  <2> QED BY <2>5, <2>6, <2>9, <2>10 DEF Parted
<1>3. S = {}
  <2> HIDE DEF S
  <2> QED BY <1>1, <1>2, FirstMissed
<1> QED
  BY <1>3

(* Every set of bits is that of a number.                                    *)
LEMMA BitsMade ==
  ASSUME NEW n \in Nat
  PROVE  \A B \in SUBSET (0 .. n - 1) :
           \E x \in 0 .. 2 ^ n - 1 : \A k \in Nat : k < n => (Bit(x, k) = 1 <=> k \in B)
<1> DEFINE Has(i, B, x) == \A k \in Nat : k < i => (Bit(x, k) = 1 <=> k \in B)
           Made(i) == \A B \in SUBSET (0 .. i - 1) : \E x \in 0 .. 2 ^ i - 1 : Has(i, B, x)
           S == {i \in Nat : ~Made(i)}
<1>1. S \in SUBSET Nat
  OBVIOUS
<1>2. ASSUME NEW i \in S PROVE \E j \in S : j < i
  <2>1. i # 0
    <3>1. 0 \in 0 .. 2 ^ 0 - 1
      OBVIOUS
    <3>2. Made(0)
      BY <3>1
    <3> QED BY <3>2
  <2>2. PICK j \in Nat : i = j + 1
    <3>1. i - 1 \in Nat /\ i = (i - 1) + 1
      BY <2>1
    <3> QED BY <3>1
  <2>3. SUFFICES ASSUME Made(j) PROVE Made(i)
    <3>1. j < i
      BY <2>2
    <3> QED BY <2>3, <3>1
  <2> SUFFICES ASSUME NEW B \in SUBSET (0 .. i - 1)
               PROVE  \E x \in 0 .. 2 ^ i - 1 : Has(i, B, x)
    OBVIOUS
  <2> HIDE DEF S
  <2>4. PICK C \in SUBSET (0 .. j - 1) : C = B \ {j}
    <3>1. B \ {j} \in SUBSET (0 .. j - 1)
      BY <2>2
    <3> QED BY <3>1
  <2>5. PICK l \in 0 .. 2 ^ j - 1 : Has(j, C, l)
    BY <2>3
  <2>6. PICK h \in 0 .. 1 : h = 1 <=> j \in B
    <3>1. (1 \in 0 .. 1) /\ (0 \in 0 .. 1) /\ 0 # 1
      OBVIOUS
    <3>2. CASE j \in B
      BY <3>1, <3>2
    <3>3. CASE j \notin B
      BY <3>1, <3>3
    <3> QED BY <3>2, <3>3
  <2>7. PICK d \in Nat \ {0} : d = 2 ^ j
    BY PowerPositive
  <2>8. PICK x \in 0 .. 2 ^ i - 1 : x = 2 ^ j * h + l
    <3>1. 2 ^ i = 2 * d
      BY <2>2, <2>7, PowerDoubles
    <3>2. h = 0 \/ h = 1
      OBVIOUS
    <3>3. d * 0 = 0 /\ d * 1 = d /\ l \in 0 .. d - 1
      BY <2>7
    <3>4. d * h + l \in 0 .. 2 * d - 1
      BY <3>2, <3>3
    <3> QED BY <2>7, <3>1, <3>4
  <2>t. x \in Int /\ h \in Int
    <3>1. 2 ^ i = 2 * d
      BY <2>2, <2>7, PowerDoubles
    <3> QED BY <3>1
  <2>9. SameBits(j, x, l) /\ Bit(x, j + 0) = Bit(h, 0)
    <3>1. Parted(j, x, h, l)
      BY <2>8, <2>t DEF Parted
    <3>2. SameBits(j, x, l) /\ HighBits(j, x, h)
      BY <2>t, <3>1, BitsOfParts
    <3> QED BY <3>2 DEF HighBits
  <2>10. Bit(x, j) = h
    <3>1. 2 ^ 0 = 1 /\ h \div 1 = h /\ h % 2 = h /\ j + 0 = j
      OBVIOUS
    <3> QED BY <2>9, <3>1 DEF Bit
  <2>11. ASSUME NEW k \in Nat, k < i
         PROVE  Bit(x, k) = 1 <=> k \in B
    <3>1. CASE k = j
      BY <2>6, <2>10, <3>1
    <3>2. CASE k # j
      <4>1. k < j
        BY <2>2, <2>11, <3>2
      <4>2. Bit(x, k) = Bit(l, k)
        BY <2>9, <4>1 DEF SameBits
      <4>3. Bit(l, k) = 1 <=> k \in C
        BY <2>5, <4>1
      <4> QED BY <2>4, <3>2, <4>2, <4>3
    <3> QED BY <3>1, <3>2
  <2> QED BY <2>11
<1>3. S = {}
  <2> HIDE DEF S
  <2> QED BY <1>1, <1>2, FirstMissed
<1> QED
  BY <1>3

-------------------------------------------------------------------------------
(* The bits of words.                                                        *)

(* The places of a word.                                                     *)
Places == 0 .. WordBits - 1

(* They are numbers, and the bits of a word are in them.                     *)
LEMMA PlacesAre ==
  /\ \A k \in Places : k \in Nat /\ k < WordBits
  /\ \A k \in Nat : k < WordBits => k \in Places
  /\ \A x : Bits(x) = {k \in Places : Bit(x, k) = 1}
  BY WordSize DEF Places, Bits, Bit

(* A multiple of the modulus has no bit in a word.                           *)
LEMMA BitsAgain ==
  ASSUME NEW x \in Int, NEW y \in Int, NEW k \in Int, y = x + Modulus * k
  PROVE  Bits(y) = Bits(x)
<1>1. PICK m \in Nat \ {0} : m = Modulus
  BY WordSize
<1>2. PICK q \in Int : q = x \div m
  BY DivMod
<1>3. PICK r \in 0 .. m - 1 : r = x % m
  BY DivMod
<1>4. x = m * q + r
  BY <1>2, <1>3, DivMod
<1>5. PICK j \in Int : j = q + k
  OBVIOUS
<1>6. m * j = m * q + m * k /\ m * q \in Int /\ m * k \in Int
  BY <1>5
<1>7. y = m * j + r
  BY <1>1, <1>4, <1>6
<1>8. WordBits \in Nat /\ m = 2 ^ WordBits
  BY <1>1, WordSize DEF Modulus
<1>9. Parted(WordBits, x, q, r) /\ Parted(WordBits, y, j, r)
  BY <1>4, <1>7, <1>8 DEF Parted
<1>10. SameBits(WordBits, x, r) /\ SameBits(WordBits, y, r)
  BY <1>8, <1>9, BitsOfParts
<1>11. \A i \in Places : Bit(x, i) = Bit(y, i)
  BY <1>10, PlacesAre DEF SameBits
<1> QED
  BY <1>11, PlacesAre

(* So a number has the bits of the word it is cut to.                        *)
LEMMA BitsOfWrap ==
  ASSUME NEW x \in Int
  PROVE  Bits(Wrap(x)) = Bits(x) /\ Bits(Unsigned(x)) = Bits(x)
<1>1. PICK w \in Int : w = Wrap(x) /\ \E k \in Int : w = x + Modulus * k
  <2>1. Wrap(x) \in Int
    BY WrapIs, WordIs, WordSize
  <2> QED BY <2>1, WrapIs
<1>2. PICK u \in Int : u = Unsigned(x) /\ \E k \in Int : u = x + Modulus * k
  <2>1. Unsigned(x) \in Int
    BY UnsignedIs, WordSize
  <2> QED BY <2>1, UnsignedIs
<1> QED
  BY <1>1, <1>2, BitsAgain

(* The bits of a word tell it from the others.                               *)
LEMMA BitsTellWord ==
  ASSUME NEW x \in Int, NEW y \in Int, Bits(x) = Bits(y)
  PROVE  Wrap(x) = Wrap(y)
<1>1. PICK u \in 0 .. 2 ^ WordBits - 1 : u = Unsigned(x)
  BY UnsignedIs DEF Modulus
<1>2. PICK v \in 0 .. 2 ^ WordBits - 1 : v = Unsigned(y)
  BY UnsignedIs DEF Modulus
<1>3. u \in Int /\ v \in Int /\ WordBits \in Nat
  BY <1>1, <1>2, WordSize DEF Modulus
<1>4. Bits(u) = Bits(v)
  BY <1>1, <1>2, BitsOfWrap
<1>5. ASSUME NEW k \in Nat, k < WordBits
      PROVE  Bit(u, k) = Bit(v, k)
  <2>1. Bit(u, k) = 1 <=> Bit(v, k) = 1
    BY <1>4, <1>5, PlacesAre
  <2>2. Bit(u, k) \in 0 .. 1 /\ Bit(v, k) \in 0 .. 1
    BY <1>3, BitIs
  <2> QED BY <2>1, <2>2
<1>6. SameBits(WordBits, u, v)
  BY <1>5 DEF SameBits
<1>7. u = v
  BY <1>3, <1>6, BitsTell
<1> QED
  BY <1>1, <1>2, <1>7, WrapTwice

(* The word with the bits of a number is the one it is cut to.               *)
LEMMA FromBitsIs ==
  ASSUME NEW x \in Int, NEW S, S = Bits(x)
  PROVE  S \in SUBSET Places /\ FromBits[S] = Wrap(x)
<1>1. S \in SUBSET Places
  BY PlacesAre
<1>2. FromBits[S] = CHOOSE y \in Word : Bits(y) = S
  BY <1>1 DEF FromBits, Places
<1>3. Wrap(x) \in Word /\ Bits(Wrap(x)) = S
  BY WrapIs, BitsOfWrap
<1>4. PICK y \in Word : y = FromBits[S] /\ Bits(y) = S
  BY <1>2, <1>3
<1>5. y \in Int
  BY WordIs, WordSize
<1>6. Wrap(y) = Wrap(x)
  BY <1>4, <1>5, BitsTellWord
<1> QED
  BY <1>1, <1>4, <1>6, WrapWord

(* Every set of bits is that of a word.                                      *)
LEMMA FromBitsWord ==
  ASSUME NEW S \in SUBSET Places
  PROVE  FromBits[S] \in Word /\ Bits(FromBits[S]) = S
<1>1. WordBits \in Nat /\ S \in SUBSET (0 .. WordBits - 1)
  BY WordSize DEF Places
<1>2. PICK x \in 0 .. 2 ^ WordBits - 1 :
        \A k \in Nat : k < WordBits => (Bit(x, k) = 1 <=> k \in S)
  BY <1>1, BitsMade
<1>3. x \in Int
  BY WordSize DEF Modulus
<1>4. Bits(x) = S
  BY <1>2, PlacesAre
<1>5. FromBits[S] = Wrap(x)
  BY <1>3, <1>4, FromBitsIs
<1> QED
  BY <1>3, <1>4, <1>5, WrapIs, BitsOfWrap

-------------------------------------------------------------------------------
(* The masks of C.                                                           *)

(* The powers below the sign.                                                *)
LEMMA PowerFits ==
  ASSUME NEW n \in Nat, n < WordBits
  PROVE  2 ^ n \in 1 .. Sign2 /\ 2 ^ n \in Nat \ {0}
<1>1. PICK j \in Nat : WordBits - 1 = n + j
  <2>1. WordBits - 1 - n \in Nat /\ WordBits - 1 = n + (WordBits - 1 - n)
    BY WordSize
  <2> QED BY <2>1
<1>2. PICK d \in Nat \ {0} : d = 2 ^ n
  BY PowerPositive
<1>3. PICK e \in Nat \ {0} : e = 2 ^ j
  BY PowerPositive
<1>4. Sign2 = d * e
  <2>1. 2 ^ (n + j) = 2 ^ n * 2 ^ j
    BY PowerAdds
  <2> QED BY <1>1, <1>2, <1>3, <2>1 DEF Sign2
<1>5. d * e >= d
  <2>1. PICK g \in Nat : e = g + 1
    <3>1. e - 1 \in Nat /\ e = (e - 1) + 1
      OBVIOUS
    <3> QED BY <3>1
  <2>2. d * (g + 1) = d * g + d /\ d * g \in Nat
    OBVIOUS
  <2> QED BY <2>1, <2>2
<1> QED
  BY <1>2, <1>4, <1>5, WordSize

(* 0 has no bit, -1 every bit.                                               *)
LEMMA ConstantBits ==
  ASSUME NEW k \in Nat
  PROVE  Bit(0, k) = 0 /\ Bit(-1, k) = 1
<1>1. PICK d \in Nat \ {0} : d = 2 ^ k
  BY PowerPositive
<1>2. 0 \div d = 0 /\ 0 % 2 = 0
  BY DivSmall
<1>m. PICK m \in Int : m = -1
  OBVIOUS
<1>3. m \div d = m
  <2>1. m = d * m + (d - 1) /\ d - 1 \in 0 .. d - 1
    BY <1>m
  <2> QED BY <2>1, DivUnique
<1>4. m % 2 = 1
  <2>1. m = 2 * m + 1
    BY <1>m
  <2> QED BY <2>1, DivUnique
<1> QED
  BY <1>1, <1>2, <1>m, <1>3, <1>4 DEF Bit

(* Not turns every bit.                                                      *)
LEMMA BitOfNot ==
  ASSUME NEW x \in Int, NEW k \in Nat
  PROVE  Not(x) \in Int /\ (Bit(Not(x), k) = 1 <=> ~(Bit(x, k) = 1))
<1>1. PICK d \in Nat \ {0} : d = 2 ^ k
  BY PowerPositive
<1>2. PICK q \in Int : q = x \div d
  BY DivMod
<1>3. PICK r \in 0 .. d - 1 : r = x % d
  BY DivMod
<1>4. x = d * q + r
  BY <1>2, <1>3, DivMod
<1>5. PICK y \in Int : y = -1 - x
  OBVIOUS
<1>6. PICK p \in Int : p = -1 - q
  OBVIOUS
<1>7. PICK s \in 0 .. d - 1 : s = d - 1 - r
  OBVIOUS
<1>8. y = d * p + s
  <2>1. d * p = -d - d * q /\ d * q \in Int /\ d * p \in Int
    BY <1>6
  <2> QED BY <1>4, <1>5, <1>7, <2>1
<1>9. y \div d = p
  BY <1>8, DivUnique
<1>10. p % 2 = 1 <=> ~(q % 2 = 1)
  BY <1>6
<1> QED
  BY <1>1, <1>2, <1>5, <1>9, <1>10 DEF Bit, Not

(* So Not has the bits that x has not.                                       *)
LEMMA BitsOfNot ==
  ASSUME NEW x \in Int
  PROVE  Bits(Not(x)) = Places \ Bits(x)
  BY BitOfNot, PlacesAre

(* A mask of n bits.                                                         *)
LEMMA MaskIs ==
  ASSUME NEW n \in Nat, n < WordBits
  PROVE  /\ Mask(n) = 2 ^ n - 1 /\ Mask(n) \in Int
         /\ Bits(Mask(n)) = {k \in Places : k < n}
<1>1. PICK d \in 1 .. Sign2 : d = 2 ^ n
  BY PowerFits
<1>2. PICK x \in 0 .. d - 1 : x = d - 1
  BY WordSize
<1>3. x \in Word
  BY <1>1, <1>2, WordIs, WordSize
<1>4. Mask(n) = x
  BY <1>1, <1>2, <1>3, WrapWord DEF Mask
<1>5. Parted(n, -1, -1, x)
  <2>1. -1 = d * (-1) + x
    BY <1>2, WordSize
  <2> QED BY <1>1, <2>1 DEF Parted
<1>6. SameBits(n, -1, x)
  BY <1>5, BitsOfParts
<1>7. \A k \in Places : k < n => Bit(x, k) = 1
  BY <1>6, ConstantBits, PlacesAre DEF SameBits
<1>8. x \in 0 .. 2 ^ n - 1 /\ x \in Int
  BY <1>1, WordSize
<1>9. \A k \in Nat : k >= n => Bit(x, k) = 0
  BY <1>8, NoHighBits
<1>10. \A k \in Places : Bit(x, k) = 1 <=> k < n
  <2> SUFFICES ASSUME NEW k \in Places PROVE Bit(x, k) = 1 <=> k < n
    OBVIOUS
  <2>1. k \in Nat /\ (k < n \/ k >= n)
    BY PlacesAre
  <2>2. CASE k < n
    BY <1>7, <2>2
  <2>3. CASE k >= n
    BY <1>9, <2>1, <2>3
  <2> QED BY <2>1, <2>2, <2>3
<1>11. Bits(x) = {k \in Places : k < n}
  BY <1>10, PlacesAre
<1> QED
  BY <1>1, <1>2, <1>4, <1>8, <1>11

(* The low part of a number has its low bits, and no other.                  *)
LEMMA LowPart ==
  ASSUME NEW n \in Nat, NEW x \in Int
  PROVE  /\ x % 2 ^ n \in 0 .. 2 ^ n - 1 /\ x % 2 ^ n \in Int
         /\ \A k \in Nat : Bit(x % 2 ^ n, k) = 1 <=> (Bit(x, k) = 1 /\ k < n)
<1>1. Parted(n, x, x \div 2 ^ n, x % 2 ^ n)
  BY Parts
<1>2. PICK l \in 0 .. 2 ^ n - 1 : l = x % 2 ^ n
  BY <1>1 DEF Parted
<1>i. l \in Int
  BY PowerPositive
<1>3. SameBits(n, x, l)
  BY <1>1, <1>2, BitsOfParts
<1>4. \A k \in Nat : k >= n => Bit(l, k) = 0
  BY NoHighBits
<1>5. ASSUME NEW k \in Nat
      PROVE  Bit(l, k) = 1 <=> (Bit(x, k) = 1 /\ k < n)
  <2>1. CASE k < n
    BY <1>3, <2>1 DEF SameBits
  <2>2. CASE ~(k < n)
    <3>1. k >= n
      BY <2>2
    <3> QED BY <1>4, <2>2, <3>1
  <2> QED BY <2>1, <2>2
<1> QED
  BY <1>2, <1>i, <1>5

(* To mask a number is to take its low part.                                 *)
LEMMA AndMask ==
  ASSUME NEW n \in Nat, n < WordBits, NEW x \in Int
  PROVE  And(x, Mask(n)) = x % 2 ^ n /\ x % 2 ^ n \in Word
<1>1. PICK l \in Int : l = x % 2 ^ n
  BY LowPart
<1>2. l \in Word
  <2>1. PICK d \in 1 .. Sign2 : d = 2 ^ n
    BY PowerFits
  <2>2. l \in 0 .. d - 1
    BY <1>1, <2>1, LowPart
  <2> QED BY <2>2, WordIs, WordSize
<1>3. \A k \in Places : Bit(l, k) = 1 <=> (Bit(x, k) = 1 /\ k < n)
  BY <1>1, LowPart, PlacesAre
<1>4. Bits(x) \cap Bits(Mask(n)) = Bits(l)
  BY <1>3, MaskIs, PlacesAre
<1>5. And(x, Mask(n)) = Wrap(l)
  BY <1>4, FromBitsIs DEF And
<1> QED
  BY <1>1, <1>2, <1>5, WrapWord

(* To set the bits that are not in the mask is to make its low part negative.  *)
LEMMA OrNotMask ==
  ASSUME NEW n \in Nat, n < WordBits, NEW x \in Int
  PROVE  BitOr(x, Not(Mask(n))) = (x % 2 ^ n) - 2 ^ n /\ (x % 2 ^ n) - 2 ^ n \in Word
<1>1. PICK l \in Int : l = x % 2 ^ n
  BY LowPart
<1>2. PICK d \in 1 .. Sign2 : d = 2 ^ n
  BY PowerFits
<1>3. l \in 0 .. d - 1
  BY <1>1, <1>2, LowPart
<1>4. PICK y \in Int : y = l - d
  BY WordSize
<1>5. y \in Word
  BY <1>3, <1>4, WordIs, WordSize
<1>6. Parted(n, y, -1, l)
  <2>1. y = d * (-1) + l
    BY <1>4, WordSize
  <2> QED BY <1>2, <1>3, <2>1 DEF Parted
<1>7. SameBits(n, y, l) /\ HighBits(n, y, -1)
  BY <1>6, BitsOfParts
<1>8. ASSUME NEW k \in Nat
      PROVE  Bit(y, k) = 1 <=> (Bit(x, k) = 1 \/ ~(k < n))
  <2>1. CASE k < n
    <3>1. Bit(y, k) = Bit(l, k)
      BY <1>7, <2>1 DEF SameBits
    <3>2. Bit(l, k) = 1 <=> (Bit(x, k) = 1 /\ k < n)
      BY <1>1, LowPart
    <3> QED BY <2>1, <3>1, <3>2
  <2>2. CASE ~(k < n)
    <3>1. PICK j \in Nat : k = n + j
      <4>1. k - n \in Nat /\ k = n + (k - n)
        BY <2>2
      <4> QED BY <4>1
    <3>2. Bit(y, k) = 1
      BY <1>7, <3>1, ConstantBits DEF HighBits
    <3> QED BY <2>2, <3>2
  <2> QED BY <2>1, <2>2
<1>9. Bits(Not(Mask(n))) = {k \in Places : ~(k < n)}
  BY MaskIs, BitsOfNot
<1>10. \A k \in Places : Bit(y, k) = 1 <=> (Bit(x, k) = 1 \/ ~(k < n))
  BY <1>8, PlacesAre
<1>11. Bits(x) \cup Bits(Not(Mask(n))) = Bits(y)
  BY <1>9, <1>10, PlacesAre
<1>12. BitOr(x, Not(Mask(n))) = Wrap(y)
  BY <1>11, FromBitsIs DEF BitOr
<1> QED
  BY <1>1, <1>2, <1>4, <1>5, <1>12, WrapWord

(* The sign of a part of a word.                                             *)
LEMMA AndSign ==
  ASSUME NEW n \in Places, NEW x \in Int
  PROVE  And(x, 2 ^ n) # 0 <=> x % 2 ^ (n + 1) >= 2 ^ n
<1>1. n \in Nat /\ n < WordBits /\ n + 1 \in Nat
  BY PlacesAre
<1>2. PICK d \in Nat \ {0} : d = 2 ^ n
  BY <1>1, PowerPositive
<1>3. Bits(d) = {n}
  <2>1. Parted(n, d, 1, 0)
    <3>1. d = d * 1 + 0
      OBVIOUS
    <3> QED BY <1>2, <3>1 DEF Parted
  <2>2. SameBits(n, d, 0) /\ HighBits(n, d, 1)
    BY <1>1, <2>1, BitsOfParts
  <2>3. Bit(1, 0) = 1
    <3>1. 2 ^ 0 = 1 /\ 1 \div 1 = 1 /\ 1 % 2 = 1
      OBVIOUS
    <3> QED BY <3>1 DEF Bit
  <2>4. \A j \in Nat : j >= 1 => Bit(1, j) = 0
    <3>1. 1 \in 0 .. 2 ^ 1 - 1
      <4>1. 2 ^ 0 = 1 /\ 2 ^ (0 + 1) = 2 * 2 ^ 0
        BY PowerDoubles
      <4> QED BY <4>1
    <3> QED BY <3>1, NoHighBits
  <2>5. ASSUME NEW k \in Nat
        PROVE  Bit(d, k) = 1 <=> k = n
    <3>1. CASE k < n
      <4>1. Bit(d, k) = 0
        BY <2>2, <3>1, ConstantBits DEF SameBits
      <4> QED BY <1>1, <3>1, <4>1
    <3>2. CASE ~(k < n)
      <4>1. PICK j \in Nat : k = n + j
        <5>1. k - n \in Nat /\ k = n + (k - n)
          BY <1>1, <3>2
        <5> QED BY <5>1
      <4>2. Bit(d, k) = Bit(1, j)
        BY <2>2, <4>1 DEF HighBits
      <4>3. j = 0 \/ j >= 1
        OBVIOUS
      <4>4. j = 0 <=> k = n
        BY <1>1, <4>1
      <4> QED BY <2>3, <2>4, <4>2, <4>3, <4>4
    <3> QED BY <3>1, <3>2
  <2>6. \A k \in Places : Bit(d, k) = 1 <=> k = n
    BY <2>5, PlacesAre
  <2> QED BY <2>6, PlacesAre
<1>4. And(x, d) # 0 <=> Bit(x, n) = 1
  <2>1. Bits(0) = {}
    BY ConstantBits, PlacesAre
  <2>2. PICK S \in SUBSET Places : S = Bits(x) \cap Bits(d)
    BY PlacesAre
  <2>3. n \in S <=> Bit(x, n) = 1
    BY <1>3, <2>2, PlacesAre
  <2>4. S = {} <=> ~(n \in S)
    BY <1>3, <2>2
  <2>5. CASE S = {}
    <3>1. FromBits[S] = Wrap(0)
      BY <2>1, <2>5, FromBitsIs
    <3>2. 0 \in Word
      BY WordIs, WordSize
    <3> QED BY <2>2, <2>3, <2>4, <2>5, <3>1, <3>2, WrapWord DEF And
  <2>6. CASE S # {}
    <3>1. Bits(FromBits[S]) = S
      BY FromBitsWord
    <3> QED BY <2>1, <2>2, <2>3, <2>4, <2>6, <3>1 DEF And
  <2> QED BY <2>5, <2>6
<1>5. PICK f \in 0 .. 2 ^ (n + 1) - 1 : f = x % 2 ^ (n + 1)
  BY <1>1, LowPart
<1>6. f \in Int
  BY <1>1, <1>5, LowPart
<1>7. Bit(f, n) = 1 <=> Bit(x, n) = 1
  <2>1. \A k \in Nat : Bit(x % 2 ^ (n + 1), k) = 1 <=> (Bit(x, k) = 1 /\ k < n + 1)
    BY <1>1, LowPart
  <2>2. n < n + 1
    BY <1>1
  <2> QED BY <1>1, <1>5, <2>1, <2>2
<1>8. PICK h \in 0 .. 1, l \in 0 .. 2 ^ n - 1 : Parted(n, f, h, l)
  BY <1>1, HighPart
<1>9. l \in 0 .. d - 1 /\ f = d * h + l
  BY <1>2, <1>8 DEF Parted
<1>10. Bit(f, n) = h
  <2>1. HighBits(n, f, h)
    BY <1>1, <1>6, <1>8, BitsOfParts
  <2>2. Bit(f, n + 0) = Bit(h, 0)
    BY <2>1 DEF HighBits
  <2>3. Bit(h, 0) = h
    <3>1. 2 ^ 0 = 1 /\ h \div 1 = h /\ h % 2 = h
      OBVIOUS
    <3> QED BY <3>1 DEF Bit
  <2>4. n + 0 = n
    BY <1>1
  <2> QED BY <2>2, <2>3, <2>4
<1>11. h = 1 <=> f >= d
  <2>1. h = 0 \/ h = 1
    OBVIOUS
  <2>2. d * 0 = 0 /\ d * 1 = d
    OBVIOUS
  <2> QED BY <1>9, <2>1, <2>2
<1> QED
  BY <1>2, <1>4, <1>5, <1>7, <1>10, <1>11

-------------------------------------------------------------------------------
(* Fields.                                                                   *)

(* The parts of a word: bytes and halves.                                    *)
LEMMA PartSizes ==
  /\ ByteBits \in Nat \ {0} /\ 2 * ByteBits \in Nat \ {0} /\ 3 * ByteBits \in Nat \ {0}
  /\ ByteBits < WordBits /\ 2 * ByteBits < WordBits /\ 3 * ByteBits < WordBits
  /\ HalfBits = 2 * ByteBits /\ WordBits = HalfBits + HalfBits
  /\ WordBits = 3 * ByteBits + ByteBits /\ WordBits = 4 * ByteBits
<1>1. ByteBits \in Nat \ {0}
  BY ByteBitsAssumption
<1>2. WordBits = 2 * (2 * ByteBits) + 0
  BY <1>1 DEF WordBits
<1>3. HalfBits = 2 * ByteBits
  BY <1>1, <1>2, DivUnique DEF HalfBits
<1> QED
  BY <1>1, <1>2, <1>3

(* The field at the bottom of a number.                                      *)
LEMMA LowField ==
  ASSUME NEW x \in Int, NEW n \in Nat
  PROVE  Field(x, 0, n) = x % 2 ^ n
<1>1. 2 ^ 0 = 1 /\ x \div 1 = x
  OBVIOUS
<1> QED
  BY <1>1 DEF Field

(* A field is a number of so many bits, and its own field.                   *)
LEMMA FieldIs ==
  ASSUME NEW x \in Int, NEW k \in Nat, NEW n \in Nat
  PROVE  /\ Field(x, k, n) \in 0 .. 2 ^ n - 1 /\ Field(x, k, n) \in Int
         /\ Field(Field(x, k, n), 0, n) = Field(x, k, n)
<1>1. PICK q \in Int : q = x \div 2 ^ k
  BY BitIs
<1>2. PICK d \in Nat \ {0} : d = 2 ^ n
  BY PowerPositive
<1>3. PICK f \in 0 .. d - 1 : f = q % d
  BY DivMod
<1>4. f % d = f
  BY DivSmall
<1>5. Field(x, k, n) = f
  BY <1>1, <1>2, <1>3 DEF Field
<1>6. f \in Int
  OBVIOUS
<1>7. Field(f, 0, n) = f
  BY <1>2, <1>4, <1>6, LowField
<1> QED
  BY <1>2, <1>5, <1>6, <1>7

(* The signed number that the low bits of another stand for.                 *)
SignedPart(x, n) ==
  IF x % 2 ^ n >= 2 ^ (n - 1) THEN (x % 2 ^ n) - 2 ^ n ELSE x % 2 ^ n

(* It is the number that SignExtended means, a word, and has these low bits. *)
LEMMA SignedPartIs ==
  ASSUME NEW x \in Int, NEW n \in Nat \ {0}, n < WordBits
  PROVE  /\ SignExtended(x, n) = SignedPart(x, n)
         /\ SignedPart(x, n) \in Word /\ SignedPart(x, n) \in Int
         /\ SignedPart(x, n) % 2 ^ n = x % 2 ^ n
<1>1. SignExtended(x, n) = SignedPart(x, n)
  BY LowField DEF SignExtended, SignedPart
<1>2. PICK d \in Nat \ {0} : d = 2 ^ n /\ d <= Sign2
  BY PowerFits
<1>3. PICK f \in 0 .. d - 1 : f = x % d
  BY DivMod
<1>4. SignedPart(x, n) = f \/ SignedPart(x, n) = f - d
  BY <1>2, <1>3 DEF SignedPart
<1>5. PICK y \in Int : y = SignedPart(x, n)
  BY <1>4
<1>6. y \in Word
  BY <1>2, <1>4, <1>5, WordIs, WordSize
<1>7. y % d = f
  <2>1. y = d * 0 + f \/ y = d * (-1) + f
    BY <1>4, <1>5
  <2>2. 0 \in Int /\ -1 \in Int
    OBVIOUS
  <2> QED BY <2>1, <2>2, DivUnique
<1> QED
  BY <1>1, <1>2, <1>3, <1>5, <1>6, <1>7

(* The C that extends the sign of a part.                                    *)
Extended(x, n) ==
  IF And(x, 2 ^ (n - 1)) # 0 THEN BitOr(x, Not(Mask(n))) ELSE And(x, Mask(n))

(* It gives the signed number.                                               *)
LEMMA ExtendedIs ==
  ASSUME NEW x \in Int, NEW n \in Nat \ {0}, n < WordBits
  PROVE  Extended(x, n) = SignedPart(x, n)
<1>1. n - 1 \in Places /\ (n - 1) + 1 = n
  BY WordSize DEF Places
<1>2. And(x, 2 ^ (n - 1)) # 0 <=> x % 2 ^ n >= 2 ^ (n - 1)
  BY <1>1, AndSign
<1>3. And(x, Mask(n)) = x % 2 ^ n
  BY AndMask
<1>4. BitOr(x, Not(Mask(n))) = (x % 2 ^ n) - 2 ^ n
  BY OrNotMask
<1> QED
  BY <1>2, <1>3, <1>4 DEF Extended, SignedPart

(* The immediate field as Decode leaves it.                                  *)
DecodedImmediate(imm) ==
  IF And(imm, 2 ^ (HalfBits - 1)) # 0 THEN BitOr(imm, Not(Mask(HalfBits))) ELSE imm

(* It is the signed number that the field stands for, and masked the field.  *)
LEMMA ImmediateIs ==
  ASSUME NEW imm \in 0 .. 2 ^ HalfBits - 1
  PROVE  /\ DecodedImmediate(imm) = SignExtended(imm, HalfBits)
         /\ DecodedImmediate(imm) \in Word
         /\ And(DecodedImmediate(imm), Mask(HalfBits)) = imm
         /\ imm \in Word /\ imm \in Int
<1>1. HalfBits \in Nat \ {0} /\ HalfBits < WordBits
  BY PartSizes
<1>2. PICK d \in Nat \ {0} : d = 2 ^ HalfBits /\ d <= Sign2
  BY <1>1, PowerFits
<1>3. imm \in 0 .. d - 1 /\ imm \in Int
  BY <1>2
<1>4. imm % d = imm
  BY <1>3, DivSmall
<1>5. And(imm, Mask(HalfBits)) = imm
  BY <1>1, <1>2, <1>3, <1>4, AndMask
<1>6. DecodedImmediate(imm) = Extended(imm, HalfBits)
  BY <1>5 DEF DecodedImmediate, Extended
<1>7. DecodedImmediate(imm) = SignedPart(imm, HalfBits)
  BY <1>1, <1>3, <1>6, ExtendedIs
<1>8. PICK e \in Int : e = DecodedImmediate(imm)
  BY <1>1, <1>3, <1>7, SignedPartIs
<1>9. e \in Word /\ e % d = imm /\ e = SignExtended(imm, HalfBits)
  <2>1. e = SignedPart(imm, HalfBits)
    BY <1>7, <1>8
  <2>2. /\ SignExtended(imm, HalfBits) = SignedPart(imm, HalfBits)
        /\ SignedPart(imm, HalfBits) \in Word
        /\ SignedPart(imm, HalfBits) % 2 ^ HalfBits = imm % 2 ^ HalfBits
    BY <1>1, <1>3, SignedPartIs
  <2> QED BY <1>2, <1>4, <2>1, <2>2
<1>10. And(e, Mask(HalfBits)) = imm
  BY <1>1, <1>2, <1>9, AndMask
<1>11. imm \in Word
  BY <1>2, <1>3, WordIs, WordSize
<1> QED
  BY <1>3, <1>8, <1>9, <1>10, <1>11

(* The word of LUI: the sign is shifted out.                                 *)
LEMMA UpperImmediate ==
  ASSUME NEW imm \in 0 .. 2 ^ HalfBits - 1
  PROVE  Left(DecodedImmediate(imm), HalfBits) = Wrap(imm * 2 ^ HalfBits)
<1>1. HalfBits \in Nat \ {0} /\ HalfBits < WordBits
  BY PartSizes
<1>2. PICK d \in Nat \ {0} : d = 2 ^ HalfBits
  BY <1>1, PowerPositive
<1>3. Modulus = d * d
  BY <1>1, <1>2, PartSizes, PowerAdds DEF Modulus
<1>4. imm \in 0 .. d - 1
  BY <1>2
<1>5. DecodedImmediate(imm) = imm \/ DecodedImmediate(imm) = imm - d
  <2>1. imm % d = imm
    BY <1>4, DivSmall
  <2>2. DecodedImmediate(imm) = SignedPart(imm, HalfBits)
    BY <1>1, <1>4, ImmediateIs, SignedPartIs
  <2> QED BY <1>2, <2>1, <2>2 DEF SignedPart
<1>6. PICK e \in Int : e = DecodedImmediate(imm)
  BY <1>4, <1>5
<1>7. PICK x \in Int : x = imm * d
  BY <1>4
<1>8. e * d = x \/ e * d = x + Modulus * (-1)
  <2>1. CASE e = imm
    BY <1>7, <2>1
  <2>2. CASE e = imm - d
    <3>1. (imm - d) * d = imm * d - d * d
      BY <1>4
    <3>2. (d * d) * (-1) = -(d * d) /\ d * d \in Int
      OBVIOUS
    <3> QED BY <1>3, <1>7, <2>2, <3>1, <3>2
  <2> QED BY <1>5, <1>6, <2>1, <2>2
<1>9. PICK y \in Int : y = e * d
  OBVIOUS
<1>10. Wrap(y) = Wrap(x)
  <2>1. -1 \in Int
    OBVIOUS
  <2> QED BY <1>8, <1>9, <2>1, SameWord
<1> QED
  BY <1>2, <1>6, <1>7, <1>9, <1>10 DEF Left

-------------------------------------------------------------------------------
(* The unaligned accesses.                                                   *)

(* A number of two parts has the bits of the two.                            *)
Joins(n, q, f, z, y) == f \in 0 .. 2 ^ n - 1 /\ z = 2 ^ n * q /\ y = 2 ^ n * q + f

(* The union of the bits, and the high ones apart.                           *)
LEMMA JoinedBits ==
  ASSUME NEW n \in Nat, NEW q \in Int, NEW f, NEW z \in Int, NEW y \in Int, Joins(n, q, f, z, y)
  PROVE  Bits(z) \cup Bits(f) = Bits(y) /\ Bits(z) = {k \in Bits(y) : ~(k < n)}
<1>1. PICK d \in Nat \ {0} : d = 2 ^ n
  BY PowerPositive
<1>2. f \in 0 .. d - 1 /\ f \in Int /\ z = d * q /\ y = d * q + f
  BY <1>1 DEF Joins
<1>f. f \in 0 .. 2 ^ n - 1
  BY DEF Joins
<1>3. Parted(n, z, q, 0) /\ Parted(n, y, q, f)
  <2>1. d * q = d * q + 0
    OBVIOUS
  <2> QED BY <1>1, <1>2, <2>1 DEF Parted
<1>4. SameBits(n, z, 0) /\ HighBits(n, z, q) /\ SameBits(n, y, f) /\ HighBits(n, y, q)
  <2>1. SameBits(n, z, 0) /\ HighBits(n, z, q)
    BY <1>3, BitsOfParts
  <2>2. SameBits(n, y, f) /\ HighBits(n, y, q)
    BY <1>3, BitsOfParts
  <2> QED BY <2>1, <2>2
<1>5. ASSUME NEW k \in Nat
      PROVE  /\ Bit(y, k) = 1 <=> (Bit(z, k) = 1 \/ Bit(f, k) = 1)
             /\ Bit(z, k) = 1 <=> (Bit(y, k) = 1 /\ ~(k < n))
  <2>1. CASE k < n
    <3>1. Bit(z, k) = Bit(0, k) /\ Bit(y, k) = Bit(f, k)
      BY <1>4, <2>1 DEF SameBits
    <3> QED BY <2>1, <3>1, ConstantBits
  <2>2. CASE ~(k < n)
    <3>1. PICK j \in Nat : k = n + j
      <4>1. k - n \in Nat /\ k = n + (k - n)
        BY <2>2
      <4> QED BY <4>1
    <3>2. Bit(z, k) = Bit(q, j) /\ Bit(y, k) = Bit(q, j)
      BY <1>4, <3>1 DEF HighBits
    <3>3. k >= n
      BY <2>2
    <3>4. Bit(f, k) = 0
      BY <1>f, <3>3, NoHighBits
    <3> QED BY <2>2, <3>2, <3>4
  <2> QED BY <2>1, <2>2
<1>6. ASSUME NEW k \in Places
      PROVE  /\ Bit(y, k) = 1 <=> (Bit(z, k) = 1 \/ Bit(f, k) = 1)
             /\ Bit(z, k) = 1 <=> (Bit(y, k) = 1 /\ ~(k < n))
  BY <1>5, PlacesAre
<1> QED
  BY <1>6, PlacesAre

(* To mask the low part off.                                                 *)
LEMMA AndNotMask ==
  ASSUME NEW n \in Nat, n < WordBits, NEW x \in Int, NEW z \in Int, z = 2 ^ n * (x \div 2 ^ n)
  PROVE  And(x, Not(Mask(n))) = Wrap(z)
<1>1. PICK q \in Int : q = x \div 2 ^ n
  BY BitIs
<1>2. PICK f \in 0 .. 2 ^ n - 1 : f = x % 2 ^ n
  BY LowPart
<1>3. x = 2 ^ n * q + f
  BY <1>1, <1>2, Parts DEF Parted
<1>j. Joins(n, q, f, z, x)
  BY <1>1, <1>3 DEF Joins
<1>4. Bits(z) = {k \in Bits(x) : ~(k < n)}
  BY <1>j, JoinedBits
<1>5. Bits(Not(Mask(n))) = {k \in Places : ~(k < n)}
  BY MaskIs, BitsOfNot
<1>6. Bits(x) \cap Bits(Not(Mask(n))) = Bits(z)
  BY <1>4, <1>5, PlacesAre
<1> QED
  BY <1>6, FromBitsIs DEF And

(* To join two parts of a word.                                              *)
LEMMA OrJoins ==
  ASSUME NEW n \in Nat, n < WordBits, NEW q \in Int, NEW f, NEW z \in Int, NEW y \in Int,
         Joins(n, q, f, z, y)
  PROVE  BitOr(Wrap(z), f) = Wrap(y) /\ BitOr(f, Wrap(z)) = Wrap(y)
<1>1. Bits(Wrap(z)) = Bits(z)
  BY BitsOfWrap
<1>2. Bits(z) \cup Bits(f) = Bits(y)
  BY JoinedBits
<1>3. /\ Bits(Wrap(z)) \cup Bits(f) = Bits(y)
      /\ Bits(f) \cup Bits(Wrap(z)) = Bits(y)
  BY <1>1, <1>2
<1> QED
  BY <1>3, FromBitsIs DEF BitOr

(* LWR puts the high byte in memory in the low byte of the register.         *)
LEMMA LowByte ==
  ASSUME NEW old \in Int, NEW v \in Int
  PROVE  BitOr(And(old, Not(Mask(ByteBits))), And(Right(v, 3 * ByteBits), Mask(ByteBits)))
           = WithField(old, 0, ByteBits, Field(v, 3 * ByteBits, ByteBits))
<1>1. ByteBits \in Nat /\ ByteBits < WordBits /\ 3 * ByteBits \in Nat
  BY PartSizes
<1>2. PICK d \in Nat \ {0} : d = 2 ^ ByteBits
  BY <1>1, PowerPositive
<1>3. PICK w \in Int : w = Right(v, 3 * ByteBits)
  BY <1>1, BitIs DEF Right
<1>4. PICK f \in 0 .. d - 1 : f = w % d
  BY DivMod
<1>5. And(w, Mask(ByteBits)) = f
  BY <1>1, <1>2, <1>4, AndMask
<1>6. Field(v, 3 * ByteBits, ByteBits) = f
  BY <1>2, <1>3, <1>4 DEF Field, Right
<1>7. PICK q \in Int : q = old \div d
  BY DivMod
<1>8. PICK r \in 0 .. d - 1 : r = old % d
  BY DivMod
<1>9. old = d * q + r
  BY <1>7, <1>8, DivMod
<1>10. PICK z \in Int : z = d * q
  OBVIOUS
<1>11. PICK y \in Int : y = d * q + f
  OBVIOUS
<1>12. And(old, Not(Mask(ByteBits))) = Wrap(z)
  BY <1>1, <1>2, <1>7, <1>10, AndNotMask
<1>13. BitOr(Wrap(z), f) = Wrap(y)
  <2>1. Joins(ByteBits, q, f, z, y)
    BY <1>2, <1>10, <1>11 DEF Joins
  <2> QED BY <1>1, <2>1, OrJoins
<1>14. WithField(old, 0, ByteBits, f) = Wrap(y)
  <2>1. Field(f, 0, ByteBits) = f /\ Field(old, 0, ByteBits) = r
    <3>1. f % d = f /\ f \in Int
      BY DivSmall
    <3> QED BY <1>1, <1>2, <1>8, <3>1, LowField
  <2>2. 2 ^ 0 = 1
    OBVIOUS
  <2>3. old + (f - r) * 1 = y
    <3>1. d * q \in Int
      OBVIOUS
    <3> QED BY <1>9, <1>11, <3>1
  <2> QED BY <2>1, <2>2, <2>3 DEF WithField
<1> QED
  BY <1>3, <1>5, <1>6, <1>12, <1>13, <1>14

(* A whole word replaces another.                                            *)
LEMMA WholeWord ==
  ASSUME NEW old \in Int, NEW v \in Int
  PROVE  WithField(old, 0, WordBits, v) = Wrap(v)
<1>1. WordBits \in Nat
  BY WordSize
<1>2. Field(v, 0, WordBits) = Unsigned(v) /\ Field(old, 0, WordBits) = Unsigned(old)
  BY <1>1, LowField DEF Unsigned
<1>3. PICK m \in Nat \ {0} : m = Modulus
  BY WordSize
<1>4. PICK i \in Int : Unsigned(v) = v + m * i
  BY <1>3, UnsignedIs
<1>5. PICK j \in Int : Unsigned(old) = old + m * j
  BY <1>3, UnsignedIs
<1>6. PICK k \in Int : k = i - j
  OBVIOUS
<1>7. PICK x \in Int : x = old + (Unsigned(v) - Unsigned(old)) * 1
  BY <1>4, <1>5
<1>8. x = v + m * k
  <2>1. m * k = m * i - m * j /\ m * i \in Int /\ m * j \in Int
    BY <1>6
  <2> QED BY <1>4, <1>5, <1>7, <2>1
<1>9. Wrap(x) = Wrap(v)
  BY <1>3, <1>8, SameWord
<1>10. 2 ^ 0 = 1
  OBVIOUS
<1> QED
  BY <1>2, <1>7, <1>9, <1>10 DEF WithField

(* SWR puts the low byte of the register in the high byte in memory.         *)
LEMMA HighByte ==
  ASSUME NEW old \in Int, NEW v \in Int
  PROVE  WithField(old, 0, WordBits,
                   BitOr(And(old, Mask(3 * ByteBits)), Left(v, 3 * ByteBits)))
           = WithField(old, 3 * ByteBits, ByteBits, v)
<1>1. /\ ByteBits \in Nat /\ 3 * ByteBits \in Nat /\ 3 * ByteBits < WordBits
      /\ WordBits = 3 * ByteBits + ByteBits
  BY PartSizes
<1>2. PICK d \in Nat \ {0} : d = 2 ^ (3 * ByteBits)
  BY <1>1, PowerPositive
<1>3. PICK e \in Nat \ {0} : e = 2 ^ ByteBits
  BY <1>1, PowerPositive
<1>4. Modulus = d * e
  <2>1. 2 ^ (3 * ByteBits + ByteBits) = 2 ^ (3 * ByteBits) * 2 ^ ByteBits
    BY <1>1, PowerAdds
  <2> QED BY <1>1, <1>2, <1>3, <2>1 DEF Modulus
<1>5. PICK l \in 0 .. d - 1 : l = old % d
  BY DivMod
<1>6. And(old, Mask(3 * ByteBits)) = l
  BY <1>1, <1>2, <1>5, AndMask
<1>7. PICK z \in Int : z = d * v
  OBVIOUS
<1>8. PICK y \in Int : y = d * v + l
  OBVIOUS
<1>9. Left(v, 3 * ByteBits) = Wrap(z)
  <2>1. v * d = d * v
    OBVIOUS
  <2> QED BY <1>2, <1>7, <2>1 DEF Left
<1>10. BitOr(l, Wrap(z)) = Wrap(y)
  <2>1. Joins(3 * ByteBits, v, l, z, y)
    BY <1>2, <1>7, <1>8 DEF Joins
  <2> QED BY <1>1, <2>1, OrJoins
<1>11. WithField(old, 0, WordBits, Wrap(y)) = Wrap(y)
  <2>1. PICK w \in Int : w = Wrap(y)
    BY WrapIs, WordIs, WordSize
  <2>2. w \in Word
    BY <2>1, WrapIs
  <2>3. Wrap(w) = w
    BY <2>2, WrapWord
  <2> QED BY <2>1, <2>3, WholeWord
<1>12. PICK q \in Int : q = old \div d
  BY DivMod
<1>13. old = d * q + l
  BY <1>5, <1>12, DivMod
<1>14. PICK qh \in Int : qh = q \div e
  BY DivMod
<1>15. PICK ql \in 0 .. e - 1 : ql = q % e
  BY DivMod
<1>16. PICK vh \in Int : vh = v \div e
  BY DivMod
<1>17. PICK vl \in 0 .. e - 1 : vl = v % e
  BY DivMod
<1>18. q = e * qh + ql /\ v = e * vh + vl
  BY <1>14, <1>15, <1>16, <1>17, DivMod
<1>19. PICK x \in Int : x = old + (vl - ql) * d
  OBVIOUS
<1>20. WithField(old, 3 * ByteBits, ByteBits, v) = Wrap(x)
  <2>1. Field(v, 0, ByteBits) = vl
    BY <1>1, <1>3, <1>17, LowField
  <2>2. Field(old, 3 * ByteBits, ByteBits) = ql
    BY <1>2, <1>3, <1>12, <1>15 DEF Field
  <2> QED BY <1>2, <1>19, <2>1, <2>2 DEF WithField
<1>21. PICK k \in Int : k = qh - vh
  OBVIOUS
<1>22. x = y + (d * e) * k
  <2>1. (e * qh + ql) - (e * vh + vl) = e * k + (ql - vl)
    <3>1. e * k = e * qh - e * vh /\ e * qh \in Int /\ e * vh \in Int
      BY <1>21
    <3> QED BY <3>1
  <2>2. q - v = e * k + (ql - vl)
    BY <1>18, <2>1
  <2>3. d * (q - v) = d * (e * k + (ql - vl))
    BY <2>2
  <2>4. d * (q - v) = d * q - d * v
    OBVIOUS
  <2>5. d * (e * k + (ql - vl)) = (d * e) * k + d * (ql - vl)
    OBVIOUS
  <2>6. d * (ql - vl) = -((vl - ql) * d)
    OBVIOUS
  <2>7. d * q \in Int /\ d * v \in Int /\ (d * e) * k \in Int /\ (vl - ql) * d \in Int
    OBVIOUS
  <2> QED BY <1>8, <1>13, <1>19, <2>3, <2>4, <2>5, <2>6, <2>7
<1>23. Wrap(x) = Wrap(y)
  BY <1>4, <1>22, SameWord
<1> QED
  BY <1>6, <1>9, <1>10, <1>11, <1>20, <1>23

-------------------------------------------------------------------------------
(* Numbers of two words.                                                     *)

TwoWords(h, l, v) ==
  h \in 0 .. Modulus - 1 /\ l \in 0 .. Modulus - 1 /\ v = h * Modulus + l

(* The numbers that fit.                                                     *)
LEMMA TwoWordsFit ==
  ASSUME NEW h \in Int, NEW l \in 0 .. Modulus - 1, 0 <= h, NEW v \in Int, v = h * Modulus + l,
         v < Modulus * Modulus
  PROVE  TwoWords(h, l, v) /\ Unsigned(h) = h
<1>1. PICK m \in Nat \ {0} : m = Modulus
  BY WordSize
<1>2. l \in 0 .. m - 1 /\ v = h * m + l /\ v < m * m
  BY <1>1
<1>3. ~(h >= m)
  <2> SUFFICES ASSUME h >= m PROVE FALSE
    OBVIOUS
  <2>1. PICK g \in Nat : h = m + g
    <3>1. h - m \in Nat /\ h = m + (h - m)
      OBVIOUS
    <3> QED BY <3>1
  <2>2. h * m = m * m + g * m
    BY <2>1
  <2>3. g * m \in Nat /\ m * m \in Nat
    OBVIOUS
  <2> QED BY <1>2, <2>2, <2>3
<1>4. h \in 0 .. m - 1
  BY <1>3
<1>5. Unsigned(h) = h
  BY <1>1, <1>4, DivSmall, WordIs
<1> QED
  BY <1>1, <1>2, <1>4, <1>5 DEF TwoWords

(* To add two: the sum of the low words, its carry, the sum of the high ones.  *)
Added(h1, l1, h2, l2, v, c) ==
  /\ c \in 0 .. 1
  /\ c = 1 <=> Unsigned(l1 + l2) < l2
  /\ c = 1 <=> l1 + l2 >= Modulus
  /\ TwoWords(Unsigned(h1 + c + h2), Unsigned(l1 + l2), v)

(* The code finds the carry of the low words by comparing them.              *)
LEMMA AddWords ==
  ASSUME NEW h1, NEW l1, NEW v1 \in Int, TwoWords(h1, l1, v1),
         NEW h2, NEW l2, NEW v2 \in Int, TwoWords(h2, l2, v2),
         NEW v \in Int, v = v1 + v2, v < Modulus * Modulus
  PROVE  \E c : Added(h1, l1, h2, l2, v, c)
<1>1. PICK m \in Nat \ {0} : m = Modulus
  BY WordSize
<1>2. /\ h1 \in 0 .. m - 1 /\ l1 \in 0 .. m - 1 /\ v1 = h1 * m + l1
      /\ h2 \in 0 .. m - 1 /\ l2 \in 0 .. m - 1 /\ v2 = h2 * m + l2
  BY <1>1 DEF TwoWords
<1>3. PICK c \in 0 .. 1 : c = 1 <=> l1 + l2 >= m
  <2>1. (1 \in 0 .. 1) /\ (0 \in 0 .. 1) /\ 0 # 1
    OBVIOUS
  <2> QED BY <2>1
<1>4. PICK lo \in 0 .. m - 1 : l1 + l2 = m * c + lo
  <2>1. CASE l1 + l2 >= m
    <3>1. l1 + l2 - m \in 0 .. m - 1 /\ c = 1
      BY <1>2, <1>3, <2>1
    <3>2. l1 + l2 = m * 1 + (l1 + l2 - m)
      BY <1>2
    <3> QED BY <3>1, <3>2
  <2>2. CASE ~(l1 + l2 >= m)
    <3>1. l1 + l2 \in 0 .. m - 1 /\ c = 0
      BY <1>2, <1>3, <2>2
    <3>2. l1 + l2 = m * 0 + (l1 + l2)
      BY <1>2
    <3> QED BY <3>1, <3>2
  <2> QED BY <2>1, <2>2
<1>5. Unsigned(l1 + l2) = lo
  <2>1. PICK s \in Int : s = l1 + l2
    BY <1>2
  <2>2. PICK k \in Int : k = c
    OBVIOUS
  <2>3. s = m * k + lo
    BY <1>4, <2>1, <2>2
  <2>4. s % m = lo
    BY <2>3, DivUnique
  <2> QED BY <1>1, <2>1, <2>4, WordIs
<1>6. c = 1 <=> lo < l2
  <2>1. CASE c = 1
    BY <1>2, <1>4, <2>1
  <2>2. CASE c = 0
    BY <1>2, <1>4, <2>2
  <2> QED BY <2>1, <2>2
<1>7. PICK h \in Int : h = h1 + c + h2 /\ 0 <= h
  BY <1>2
<1>8. v = h * m + lo
  <2>1. h * m = h1 * m + m * c + h2 * m
    BY <1>2, <1>7
  <2>2. h1 * m \in Int /\ h2 * m \in Int /\ m * c \in Int
    BY <1>2
  <2> QED BY <1>2, <1>4, <2>1, <2>2
<1>9. TwoWords(h, lo, v) /\ Unsigned(h) = h
  BY <1>1, <1>4, <1>7, <1>8, TwoWordsFit
<1>10. Added(h1, l1, h2, l2, v, c)
  BY <1>1, <1>3, <1>5, <1>6, <1>7, <1>9 DEF Added
<1> QED
  BY <1>10

-------------------------------------------------------------------------------
(* The loop of Mult.                                                         *)

(* The loop takes its turns: the recursive function exists.                  *)
LoopFrom(s0, n, f) == f = [i \in 0 .. n |-> IF i = 0 THEN s0 ELSE MultTurn(f[i - 1])]

(* There is one for every number of turns.                                   *)
LEMMA LoopExists ==
  ASSUME NEW s0
  PROVE  \A n \in Nat : \E f : LoopFrom(s0, n, f)
<1> DEFINE S == {n \in Nat : ~ \E f : LoopFrom(s0, n, f)}
<1>1. ASSUME NEW n \in S PROVE \E m \in S : m < n
  <2>1. CASE n = 0
    <3>1. LoopFrom(s0, 0, [i \in 0 .. 0 |-> s0])
      BY DEF LoopFrom
    <3> QED BY <2>1, <3>1
  <2>2. CASE n # 0
    <3>1. n - 1 \in Nat /\ n - 1 < n
      BY <2>2
    <3>2. SUFFICES ASSUME NEW f, LoopFrom(s0, n - 1, f) PROVE \E g : LoopFrom(s0, n, g)
      BY <3>1
    <3>3. PICK g : g = [i \in 0 .. n |-> IF i = 0 THEN s0 ELSE MultTurn(f[i - 1])]
      OBVIOUS
    <3>4. \A i \in 0 .. n - 1 : g[i] = f[i]
      BY <3>1, <3>2, <3>3 DEF LoopFrom
    <3>5. \A i \in 0 .. n : i # 0 => i - 1 \in 0 .. n - 1
      BY <3>1
    <3>6. \A i \in 0 .. n :
            (IF i = 0 THEN s0 ELSE MultTurn(f[i - 1])) = IF i = 0 THEN s0 ELSE MultTurn(g[i - 1])
      BY <3>4, <3>5
    <3>7. LoopFrom(s0, n, g)
      BY <3>3, <3>6, Zenon DEF LoopFrom
    <3> QED BY <3>7
  <2> QED BY <2>1, <2>2
<1>2. S \in SUBSET Nat
  OBVIOUS
<1> HIDE DEF S
<1>3. S = {}
  BY <1>1, <1>2, FirstMissed
<1> QED BY <1>3 DEF S

(* Its first state.                                                          *)
LoopStart(a, b) == [a |-> a, bLo |-> Unsigned(b), bHi |-> 0, lo |-> 0, hi |-> 0]

(* Its first state, and each of its turns.                                   *)
LEMMA LoopTurns ==
  ASSUME NEW a, NEW b
  PROVE  /\ MultLoop(a, b)[0] = LoopStart(a, b)
         /\ \A n \in Nat : n < WordBits => MultLoop(a, b)[n + 1] = MultTurn(MultLoop(a, b)[n])
<1>1. \E f : LoopFrom(LoopStart(a, b), WordBits, f)
  BY LoopExists, WordSize
<1>2. LoopFrom(LoopStart(a, b), WordBits, MultLoop(a, b))
  BY <1>1, Zenon DEF MultLoop, LoopFrom, LoopStart
<1>3. PICK f : f = MultLoop(a, b)
  OBVIOUS
<1>4. f = [i \in 0 .. WordBits |-> IF i = 0 THEN LoopStart(a, b) ELSE MultTurn(f[i - 1])]
  BY <1>2, <1>3 DEF LoopFrom
<1>5. f[0] = LoopStart(a, b)
  BY <1>4, WordSize
<1>6. ASSUME NEW n \in Nat, n < WordBits
      PROVE  f[n + 1] = MultTurn(f[n])
  <2>1. n + 1 \in 0 .. WordBits /\ n + 1 # 0 /\ (n + 1) - 1 = n
    BY <1>6, WordSize
  <2>2. f[n + 1] = MultTurn(f[(n + 1) - 1])
    BY <1>4, <2>1
  <2> QED BY <2>1, <2>2
<1> QED
  BY <1>3, <1>5, <1>6

LoopStates == [a : Int, bLo : Int, bHi : Int, lo : Int, hi : Int]

(* What a turn does to each variable of the loop.                            *)
LEMMA TurnIs ==
  ASSUME NEW s \in LoopStates, NEW t, t = MultTurn(s)
  PROVE  /\ t = [a |-> t.a, bLo |-> t.bLo, bHi |-> t.bHi, lo |-> t.lo, hi |-> t.hi]
         /\ t.a = Right(s.a, 1)
         /\ t.bLo = Unsigned(2 * s.bLo)
         /\ t.bHi = Unsigned(2 * s.bHi + Bool(Sign(Wrap(s.bLo))))
         /\ s.a % 2 = 1 =>
              /\ t.lo = Unsigned(s.lo + s.bLo)
              /\ t.hi = Unsigned(s.hi + Bool(Unsigned(s.lo + s.bLo) < s.bLo) + s.bHi)
         /\ ~(s.a % 2 = 1) => t.lo = s.lo /\ t.hi = s.hi
<1>1. PICK r : r = [a |-> Right(s.a, 1), bLo |-> Unsigned(2 * s.bLo),
         bHi |-> Unsigned(2 * s.bHi + Bool(Sign(Wrap(s.bLo)))),
         lo |-> IF s.a % 2 = 1 THEN Unsigned(s.lo + s.bLo) ELSE s.lo,
         hi |-> IF s.a % 2 = 1
                  THEN Unsigned(s.hi + Bool(Unsigned(s.lo + s.bLo) < s.bLo) + s.bHi)
                  ELSE s.hi]
  OBVIOUS
<1>2. t = r
  BY <1>1 DEF MultTurn, Carry
<1> QED
  BY <1>1, <1>2

(* The bit of a that a turn takes.                                           *)
LEMMA NextBit ==
  ASSUME NEW x \in Int, NEW n \in Nat, NEW a \in Int, a = x \div 2 ^ n
  PROVE  /\ Right(a, 1) = x \div 2 ^ (n + 1)
         /\ a % 2 \in 0 .. 1
         /\ x % 2 ^ (n + 1) = 2 ^ n * (a % 2) + (x % 2 ^ n)
<1>1. PICK d \in Nat \ {0} : d = 2 ^ n
  BY PowerPositive
<1>2. PICK c : c = d * 2
  OBVIOUS
<1>3. 2 ^ (n + 1) = c
  <2>1. d * 2 = 2 * d
    OBVIOUS
  <2> QED BY <1>1, <1>2, <2>1, PowerDoubles
<1>4. Product(d, 2, c) /\ 2 \in Nat \ {0}
  BY <1>2 DEF Product
<1>5. /\ c \in Nat \ {0}
      /\ (x \div d) \div 2 = x \div c
      /\ (x % c) \div d = (x \div d) % 2
      /\ (x % c) % d = x % d
  BY <1>4, DivTwice
<1>6. 2 ^ 1 = 2
  <2>1. 2 ^ 0 = 1 /\ 2 ^ (0 + 1) = 2 * 2 ^ 0
    BY PowerDoubles
  <2> QED BY <2>1
<1>c. c \in Nat \ {0}
  BY <1>5
<1>7. PICK y \in Int : y = x % c
  <2>1. PICK e \in Nat \ {0} : e = c
    BY <1>c
  <2>2. x % e \in 0 .. e - 1
    BY DivMod
  <2> QED BY <2>1, <2>2
<1>8. y = d * (y \div d) + (y % d)
  BY DivMod
<1>9. a % 2 \in 0 .. 1
  BY DivMod
<1> QED
  BY <1>1, <1>3, <1>5, <1>6, <1>7, <1>8, <1>9 DEF Right

(* What the loop has done after n turns.                                     *)
Turned(s, n, x, u) ==
  /\ s \in LoopStates
  /\ s.a = x \div 2 ^ n
  /\ TwoWords(s.bHi, s.bLo, u * 2 ^ n)
  /\ TwoWords(s.hi, s.lo, (x % 2 ^ n) * u)

(* The numbers in the loop have two words.                                   *)
LEMMA LoopFits ==
  ASSUME NEW n \in Nat, n <= WordBits, NEW x \in Int, NEW u \in 0 .. Modulus - 1
  PROVE  u * 2 ^ n < Modulus * Modulus /\ (x % 2 ^ n) * u < Modulus * Modulus
<1>1. PICK m \in Nat \ {0} : m = Modulus
  BY WordSize
<1>2. PICK d \in Nat \ {0} : d = 2 ^ n
  BY PowerPositive
<1>3. d <= m
  <2>1. CASE n = WordBits
    BY <1>1, <1>2, <2>1 DEF Modulus
  <2>2. CASE n < WordBits
    BY <1>1, <1>2, <2>2, PowerFits, WordSize
  <2> QED BY <2>1, <2>2, WordSize
<1>4. PICK l \in 0 .. d - 1 : l = x % d
  BY DivMod
<1>5. ASSUME NEW y \in 0 .. m
      PROVE  u * y < m * m
  <2>1. PICK g \in Nat : m = y + g
    <3>1. m - y \in Nat /\ m = y + (m - y)
      OBVIOUS
    <3> QED BY <3>1
  <2>2. PICK j \in Nat : m = u + 1 + j
    <3>1. m - 1 - u \in Nat /\ m = u + 1 + (m - 1 - u)
      BY <1>1
    <3> QED BY <3>1
  <2>u. u \in Nat
    BY <1>1
  <2>3. m * m = (u + 1 + j) * m
    BY <2>2
  <2>4. (u + 1 + j) * m = u * m + m + j * m
    BY <2>u
  <2>5. u * m = u * y + u * g
    BY <2>1, <2>u
  <2>6. u * y \in Nat /\ u * g \in Nat /\ j * m \in Nat /\ u * m \in Nat
    BY <2>u
  <2> QED BY <2>3, <2>4, <2>5, <2>6
<1>6. u * d < m * m /\ u * l < m * m
  BY <1>3, <1>5
<1>7. u * l = l * u
  BY <1>1
<1> QED
  BY <1>1, <1>2, <1>4, <1>6, <1>7

(* The carry of the doubling is the sign of the low word.                    *)
LEMMA SignCarry ==
  ASSUME NEW l \in 0 .. Modulus - 1
  PROVE  Sign(Wrap(l)) <=> l + l >= Modulus
<1>1. -Modulus <= l /\ l < Modulus /\ l \in Int /\ Sign2 \in Nat /\ Modulus = 2 * Sign2
  BY WordSize
<1>2. Wrap(l) = IF l >= Sign2 THEN l - Modulus ELSE IF l < -Sign2 THEN l + Modulus ELSE l
  BY <1>1, WrapNear
<1>3. PICK h \in Nat : h = Sign2
  BY <1>1
<1>4. CASE l >= h
  BY <1>1, <1>2, <1>3, <1>4 DEF Sign
<1>5. CASE ~(l >= h)
  BY <1>1, <1>2, <1>3, <1>5, WordSize DEF Sign
<1> QED
  BY <1>1, <1>3, <1>4, <1>5

(* A turn of the loop keeps its account (Turned), with one bit of a more.    *)
LEMMA TurnKeeps ==
  ASSUME NEW n \in Nat, n < WordBits, NEW x \in Int, NEW u \in 0 .. Modulus - 1,
         NEW s, Turned(s, n, x, u)
  PROVE  Turned(MultTurn(s), n + 1, x, u)
<1>1. PICK m \in Nat \ {0} : m = Modulus
  BY WordSize
<1>2. PICK d \in Nat \ {0} : d = 2 ^ n
  BY PowerPositive
<1>u. u \in Int /\ n + 1 \in Nat /\ n + 1 <= WordBits
  BY <1>1, WordSize
<1>3. s \in LoopStates /\ s.a = x \div 2 ^ n
  BY DEF Turned
<1>4. PICK a \in Int : a = s.a
  BY <1>3 DEF LoopStates
<1>5. /\ Right(a, 1) = x \div 2 ^ (n + 1)
      /\ a % 2 \in 0 .. 1
      /\ x % 2 ^ (n + 1) = 2 ^ n * (a % 2) + (x % 2 ^ n)
  BY <1>3, <1>4, NextBit
<1>6. PICK b \in 0 .. 1 : b = a % 2
  BY <1>5
<1>7. PICK l \in Int : l = x % 2 ^ n
  BY LowPart
<1>8. x % 2 ^ (n + 1) = d * b + l
  BY <1>2, <1>5, <1>6, <1>7
<1>9. 2 ^ (n + 1) = 2 * d
  BY <1>2, PowerDoubles
<1>10. PICK vb \in Int : vb = u * d
  BY <1>u
<1>11. PICK vp \in Int : vp = l * u
  BY <1>u
<1>12. PICK wb \in Int : wb = u * 2 ^ (n + 1)
  BY <1>u, <1>9
<1>13. PICK wp \in Int : wp = (x % 2 ^ (n + 1)) * u
  BY <1>u, <1>8
<1>14. wb = vb + vb
  BY <1>u, <1>9, <1>10, <1>12
<1>15. wp = vp + b * vb
  <2>1. (d * b + l) * u = l * u + b * (u * d)
    BY <1>u
  <2> QED BY <1>8, <1>10, <1>11, <1>13, <2>1
<1>16. wb < Modulus * Modulus /\ wp < Modulus * Modulus
  BY <1>u, <1>12, <1>13, LoopFits
<1>17. TwoWords(s.bHi, s.bLo, vb) /\ TwoWords(s.hi, s.lo, vp)
  BY <1>2, <1>7, <1>10, <1>11 DEF Turned
<1>18. PICK t : t = MultTurn(s)
  OBVIOUS
<1>19. /\ t = [a |-> t.a, bLo |-> t.bLo, bHi |-> t.bHi, lo |-> t.lo, hi |-> t.hi]
       /\ t.a = Right(s.a, 1)
       /\ t.bLo = Unsigned(2 * s.bLo)
       /\ t.bHi = Unsigned(2 * s.bHi + Bool(Sign(Wrap(s.bLo))))
       /\ s.a % 2 = 1 =>
            /\ t.lo = Unsigned(s.lo + s.bLo)
            /\ t.hi = Unsigned(s.hi + Bool(Unsigned(s.lo + s.bLo) < s.bLo) + s.bHi)
       /\ ~(s.a % 2 = 1) => t.lo = s.lo /\ t.hi = s.hi
  BY <1>3, <1>18, TurnIs
<1>20. TwoWords(t.bHi, t.bLo, wb)
  <2>1. PICK c : Added(s.bHi, s.bLo, s.bHi, s.bLo, wb, c)
    BY <1>14, <1>16, <1>17, AddWords
  <2>2. /\ c \in 0 .. 1
        /\ c = 1 <=> s.bLo + s.bLo >= Modulus
        /\ TwoWords(Unsigned(s.bHi + c + s.bHi), Unsigned(s.bLo + s.bLo), wb)
    BY <2>1 DEF Added
  <2>3. s.bLo \in 0 .. Modulus - 1 /\ s.bLo \in Int /\ s.bHi \in Int
    BY <1>3, <1>17 DEF TwoWords, LoopStates
  <2>4. Sign(Wrap(s.bLo)) <=> s.bLo + s.bLo >= Modulus
    BY <2>3, SignCarry
  <2>5. Bool(Sign(Wrap(s.bLo))) = c
    BY <2>2, <2>4 DEF Bool
  <2>6. 2 * s.bLo = s.bLo + s.bLo /\ 2 * s.bHi + c = s.bHi + c + s.bHi
    BY <2>2, <2>3
  <2> QED BY <1>19, <2>2, <2>5, <2>6
<1>21. TwoWords(t.hi, t.lo, wp)
  <2>1. CASE b = 1
    <3>1. wp = vp + vb
      BY <1>15, <2>1
    <3>2. PICK c : Added(s.hi, s.lo, s.bHi, s.bLo, wp, c)
      BY <1>16, <1>17, <3>1, AddWords
    <3>3. /\ c \in 0 .. 1
          /\ c = 1 <=> Unsigned(s.lo + s.bLo) < s.bLo
          /\ TwoWords(Unsigned(s.hi + c + s.bHi), Unsigned(s.lo + s.bLo), wp)
      BY <3>2 DEF Added
    <3>4. Bool(Unsigned(s.lo + s.bLo) < s.bLo) = c
      BY <3>3 DEF Bool
    <3> QED BY <1>4, <1>6, <1>19, <2>1, <3>3, <3>4
  <2>2. CASE b = 0
    <3>1. wp = vp
      BY <1>15, <2>2
    <3> QED BY <1>4, <1>6, <1>17, <1>19, <2>2, <3>1
  <2> QED BY <2>1, <2>2
<1>22. t.a \in Int /\ t.a = x \div 2 ^ (n + 1)
  <2>1. x \div 2 ^ (n + 1) \in Int
    BY <1>u, BitIs
  <2> QED BY <1>4, <1>5, <1>19, <2>1
<1>23. t \in LoopStates
  <2>1. /\ t.bHi \in 0 .. Modulus - 1 /\ t.bLo \in 0 .. Modulus - 1
        /\ t.hi \in 0 .. Modulus - 1 /\ t.lo \in 0 .. Modulus - 1
    BY <1>20, <1>21 DEF TwoWords
  <2>2. t.bHi \in Int /\ t.bLo \in Int /\ t.hi \in Int /\ t.lo \in Int
    BY <1>1, <2>1
  <2>3. [a |-> t.a, bLo |-> t.bLo, bHi |-> t.bHi, lo |-> t.lo, hi |-> t.hi] \in LoopStates
    BY <1>22, <2>2 DEF LoopStates
  <2> QED BY <1>19, <2>3
<1> QED
  BY <1>12, <1>13, <1>18, <1>20, <1>21, <1>22, <1>23 DEF Turned

(* After WordBits turns, hi and lo of Mult hold the product of a and b, both *)
(* read as unsigned.                                                         *)
LEMMA LoopMultiplies ==
  ASSUME NEW x \in Int, NEW y \in Int
  PROVE  TwoWords(MultLoop(x, y)[WordBits].hi, MultLoop(x, y)[WordBits].lo,
                  Unsigned(x) * Unsigned(y))
<1>1. PICK u \in 0 .. Modulus - 1 : u = Unsigned(y)
  BY UnsignedIs
<1>2. PICK f : f = MultLoop(x, y)
  OBVIOUS
<1>3. f[0] = LoopStart(x, y) /\ \A n \in Nat : n < WordBits => f[n + 1] = MultTurn(f[n])
  BY <1>2, LoopTurns
<1>m. PICK m \in Nat \ {0} : m = Modulus
  BY WordSize
<1>u. u \in Int /\ u \in 0 .. m - 1
  BY <1>m
<1>4. Turned(f[0], 0, x, u)
  <2>1. PICK s : s = [a |-> x, bLo |-> u, bHi |-> 0, lo |-> 0, hi |-> 0]
    OBVIOUS
  <2>2. f[0] = s
    BY <1>1, <1>3, <2>1 DEF LoopStart
  <2>3. s \in LoopStates
    BY <1>u, <2>1 DEF LoopStates
  <2>4. 2 ^ 0 = 1 /\ x \div 1 = x /\ x % 1 = 0
    OBVIOUS
  <2>5. s.a = x /\ s.bLo = u /\ s.bHi = 0 /\ s.lo = 0 /\ s.hi = 0
    BY <2>1
  <2>6. u * 1 = 0 * m + u /\ 0 * u = 0 * m + 0 /\ 0 \in 0 .. m - 1
    BY <1>u
  <2>7. TwoWords(s.bHi, s.bLo, u * 1) /\ TwoWords(s.hi, s.lo, 0 * u)
    BY <1>m, <1>u, <2>5, <2>6 DEF TwoWords
  <2> QED BY <2>2, <2>3, <2>4, <2>5, <2>7 DEF Turned
<1> DEFINE S == {n \in Nat : n <= WordBits /\ ~Turned(f[n], n, x, u)}
<1>5. ASSUME NEW n \in S PROVE \E k \in S : k < n
  <2>1. n # 0
    BY <1>4
  <2>2. PICK k \in Nat : n = k + 1
    <3>1. n - 1 \in Nat /\ n = (n - 1) + 1
      BY <2>1
    <3> QED BY <3>1
  <2>3. k < WordBits /\ k <= WordBits /\ k < n
    BY <2>2, WordSize
  <2>4. ~Turned(f[k], k, x, u)
    <3> SUFFICES ASSUME Turned(f[k], k, x, u) PROVE FALSE
      OBVIOUS
    <3>1. Turned(MultTurn(f[k]), k + 1, x, u)
      BY <2>3, TurnKeeps
    <3> QED BY <1>3, <2>2, <2>3, <3>1
  <2> QED BY <2>3, <2>4
<1>6. S \in SUBSET Nat
  OBVIOUS
<1> HIDE DEF S
<1>7. S = {}
  BY <1>5, <1>6, FirstMissed
<1>8. Turned(f[WordBits], WordBits, x, u)
  BY <1>7, WordSize DEF S
<1>9. x % 2 ^ WordBits = Unsigned(x)
  BY DEF Unsigned
<1> QED
  BY <1>1, <1>2, <1>8, <1>9 DEF Turned

(* The numbers of a word, and their magnitudes.                              *)
LEMMA Halves ==
  ASSUME NEW x \in Word
  PROVE  /\ x \in Int /\ x >= -Sign2 /\ x < Sign2 /\ Sign2 \in Nat /\ Modulus = 2 * Sign2
         /\ x >= 0 => Unsigned(x) = x
         /\ x < 0 => Unsigned(x) = x + Modulus
         /\ Wrap(x) = x
         /\ Unsigned(x) \in Nat /\ Unsigned(x) \in 0 .. Modulus - 1
<1>1. PICK h \in Nat \ {0} : h = Sign2
  BY WordSize
<1>2. x \in -h .. h - 1 /\ Modulus = 2 * h
  BY <1>1, WordIs, WordSize
<1>3. PICK m \in Nat \ {0} : m = Modulus
  BY WordSize
<1>4. ASSUME x >= 0 PROVE Unsigned(x) = x
  <2>1. x \in 0 .. m - 1
    BY <1>2, <1>3, <1>4
  <2> QED BY <1>3, <2>1, DivSmall, WordIs
<1>5. ASSUME x < 0 PROVE Unsigned(x) = x + Modulus
  <2>1. PICK r \in 0 .. m - 1 : r = x + m
    BY <1>2, <1>3, <1>5
  <2>2. x = m * (-1) + r /\ -1 \in Int /\ x \in Int
    BY <1>2, <2>1
  <2>3. x % m = r
    BY <2>2, DivUnique
  <2> QED BY <1>3, <2>1, <2>3, WordIs
<1>6. Wrap(x) = x
  BY WrapWord
<1>7. x \in Int
  BY <1>2
<1>8. Unsigned(x) \in 0 .. m - 1
  BY <1>3, <1>7, UnsignedIs
<1> QED
  BY <1>1, <1>2, <1>3, <1>4, <1>5, <1>6, <1>7, <1>8

(* A number that is cut again.                                               *)
LEMMA WrapOnce ==
  ASSUME NEW x \in Int
  PROVE  /\ Wrap(x) \in Word /\ Wrap(x) \in Int
         /\ Unsigned(Wrap(x)) = Unsigned(x) /\ Wrap(Unsigned(x)) = Wrap(x)
         /\ Unsigned(x) \in Int /\ Unsigned(x) \in 0 .. Modulus - 1
<1>1. Wrap(x) \in Word
  BY WrapIs
<1>2. 0 \in Int
  OBVIOUS
<1>3. Unsigned(Wrap(x)) = Unsigned(x) /\ Wrap(Unsigned(x)) = Wrap(x)
  BY <1>2, WrapTwice
<1>4. Unsigned(x) \in 0 .. Modulus - 1 /\ Modulus \in Nat
  BY UnsignedIs, WordSize
<1> QED
  BY <1>1, <1>3, <1>4, Halves

(* The absolute value.                                                       *)
Abs(x) == IF x < 0 THEN -x ELSE x

(* Magnitude gives the absolute value of a signed operand.                   *)
LEMMA MagnitudeIs ==
  ASSUME NEW x \in Word
  PROVE  /\ Magnitude(x, FALSE) = x
         /\ Magnitude(x, TRUE) \in Int /\ Unsigned(Magnitude(x, TRUE)) = Abs(x)
<1>1. Magnitude(x, FALSE) = x
  BY DEF Magnitude
<1>2. x \in Int /\ x >= -Sign2 /\ x < Sign2 /\ Sign2 \in Nat /\ Modulus = 2 * Sign2
  BY Halves
<1>3. CASE x >= 0
  <2>1. Magnitude(x, TRUE) = x /\ Abs(x) = x
    BY <1>2, <1>3 DEF Magnitude, Sign, Abs
  <2> QED BY <1>1, <1>2, <1>3, <2>1, Halves
<1>4. CASE x < 0
  <2>1. Magnitude(x, TRUE) = Wrap(-x) /\ Abs(x) = -x
    BY <1>2, <1>4 DEF Magnitude, Sign, Abs
  <2>2. PICK y \in Int : y = -x
    BY <1>2
  <2>3. Unsigned(Wrap(y)) = Unsigned(y) /\ Wrap(y) \in Int
    BY WrapOnce
  <2>4. PICK m \in Nat \ {0} : m = Modulus
    BY WordSize
  <2>5. y \in 0 .. m - 1
    BY <1>2, <1>4, <2>2, <2>4, WordSize
  <2>6. Unsigned(y) = y
    BY <2>4, <2>5, DivSmall, WordIs
  <2> QED BY <1>1, <2>1, <2>2, <2>3, <2>6
<1>5. x >= 0 \/ x < 0
  BY <1>2
<1> QED
  BY <1>3, <1>4, <1>5, Zenon

(* The product of the magnitudes, and its sign.                              *)
LEMMA AbsProduct ==
  ASSUME NEW x \in Word, NEW y \in Word
  PROVE  /\ Abs(x) * Abs(y) \in Nat /\ Abs(x) * Abs(y) <= Sign2 * Sign2
         /\ x * y = IF Sign(x) # Sign(y) THEN -(Abs(x) * Abs(y)) ELSE Abs(x) * Abs(y)
         /\ x # 0 /\ y # 0 => Abs(x) * Abs(y) > 0
<1>1. PICK h \in Nat : h = Sign2
  BY WordSize
<1>2. x \in Int /\ x >= -h /\ x < h /\ y \in Int /\ y >= -h /\ y < h
  BY <1>1, Halves
<1>3. PICK i \in 0 .. h : i = Abs(x)
  BY <1>2 DEF Abs
<1>4. PICK j \in 0 .. h : j = Abs(y)
  BY <1>2 DEF Abs
<1>5. i * j \in Nat
  OBVIOUS
<1>6. i * j <= h * h
  <2>1. PICK a \in Nat : h = i + a
    <3>1. h - i \in Nat /\ h = i + (h - i)
      OBVIOUS
    <3> QED BY <3>1
  <2>2. PICK b \in Nat : h = j + b
    <3>1. h - j \in Nat /\ h = j + (h - j)
      OBVIOUS
    <3> QED BY <3>1
  <2>3. h * h = i * h + a * h
    BY <2>1
  <2>4. i * h = i * j + i * b
    BY <2>2
  <2>5. i * j \in Nat /\ i * b \in Nat /\ a * h \in Nat
    OBVIOUS
  <2> QED BY <2>3, <2>4, <2>5
<1>7. x # 0 /\ y # 0 => i * j > 0
  <2> SUFFICES ASSUME x # 0, y # 0 PROVE i * j > 0
    OBVIOUS
  <2>1. i # 0 /\ j # 0
    BY <1>2, <1>3, <1>4 DEF Abs
  <2>2. PICK a \in Nat : i = 1 + a
    <3>1. i - 1 \in Nat /\ i = 1 + (i - 1)
      BY <2>1
    <3> QED BY <3>1
  <2>3. i * j = j + a * j /\ a * j \in Nat
    BY <2>2
  <2> QED BY <2>1, <2>3
<1>8. (x = i \/ x = -i) /\ (y = j \/ y = -j)
  BY <1>2, <1>3, <1>4 DEF Abs
<1>9. i * j = i * j /\ (-i) * j = -(i * j) /\ i * (-j) = -(i * j) /\ (-i) * (-j) = i * j
  OBVIOUS
<1>10. x * y = IF Sign(x) # Sign(y) THEN -(i * j) ELSE i * j
  <2>1. CASE x < 0 /\ y < 0
    <3>1. x = -i /\ y = -j
      BY <1>2, <1>3, <1>4, <2>1 DEF Abs
    <3> QED BY <1>9, <2>1, <3>1 DEF Sign
  <2>2. CASE x < 0 /\ ~(y < 0)
    <3>1. x = -i /\ y = j
      BY <1>2, <1>3, <1>4, <2>2 DEF Abs
    <3> QED BY <1>9, <2>2, <3>1 DEF Sign
  <2>3. CASE ~(x < 0) /\ y < 0
    <3>1. x = i /\ y = -j
      BY <1>2, <1>3, <1>4, <2>3 DEF Abs
    <3> QED BY <1>9, <2>3, <3>1 DEF Sign
  <2>4. CASE ~(x < 0) /\ ~(y < 0)
    <3>1. x = i /\ y = j
      BY <1>2, <1>3, <1>4, <2>4 DEF Abs
    <3> QED BY <1>9, <2>4, <3>1 DEF Sign
  <2> QED BY <2>1, <2>2, <2>3, <2>4
<1> QED
  BY <1>1, <1>3, <1>4, <1>5, <1>6, <1>7, <1>10

(* The high word of a product of magnitudes is at most half of the sign.     *)
LEMMA HighIsSmall ==
  ASSUME NEW h, NEW l, NEW p \in Nat, TwoWords(h, l, p), p <= Sign2 * Sign2
  PROVE  h \in Word /\ -h \in Word /\ -1 - h \in Word /\ h \in Int /\ l \in Int
<1>1. PICK g \in Nat \ {0} : g = Sign2
  BY WordSize
<1>2. h \in 0 .. 2 * g - 1 /\ l \in 0 .. 2 * g - 1 /\ p = h * (2 * g) + l /\ p <= g * g
  BY <1>1, WordSize DEF TwoWords
<1>3. ~(h >= g)
  <2> SUFFICES ASSUME h >= g PROVE FALSE
    OBVIOUS
  <2>1. PICK a \in Nat : h = g + a
    <3>1. h - g \in Nat /\ h = g + (h - g)
      BY <1>2
    <3> QED BY <3>1
  <2>2. h * (2 * g) = 2 * (g * g) + 2 * (a * g)
    BY <2>1
  <2>3. PICK gg \in Nat : gg = g * g
    OBVIOUS
  <2>4. PICK ag \in Nat : ag = a * g
    OBVIOUS
  <2>5. gg > 0
    <3>1. PICK e \in Nat : g = 1 + e
      <4>1. g - 1 \in Nat /\ g = 1 + (g - 1)
        OBVIOUS
      <4> QED BY <4>1
    <3>2. g * g = g + e * g /\ e * g \in Nat
      BY <3>1
    <3> QED BY <2>3, <3>2
  <2> QED BY <1>2, <2>2, <2>3, <2>4, <2>5
<1> QED
  BY <1>1, <1>2, <1>3, WordIs

-------------------------------------------------------------------------------
(* HI and LO.                                                                *)

(* A number in HI and LO.                                                    *)
Product64(r, v) ==
  /\ r.hi \in Word /\ r.lo \in Word
  /\ r.hi * Modulus + Unsigned(r.lo) = v

(* A high and a low word make one.                                           *)
LEMMA MakeProduct ==
  ASSUME NEW h \in Word, NEW l \in Word, NEW u, u = Unsigned(l), NEW n, n = h * Modulus,
         NEW v, v = n + u, NEW r, r = [hi |-> h, lo |-> l]
  PROVE  Product64(r, v)
<1>1. r.hi = h /\ r.lo = l
  OBVIOUS
<1> QED
  BY <1>1 DEF Product64

(* MULT leaves the exact product of any two words in HI and LO: Mult makes its *)
(* operands positive, multiplies them bit by bit, and negates the two words  *)
(* when the signs differed.                                                  *)
THEOREM MultSigned ==
  ASSUME NEW x \in Word, NEW y \in Word
  PROVE  Product64(Mult(x, y, TRUE), x * y)
<1>1. PICK m \in Nat \ {0} : m = Modulus
  BY WordSize
<1>2. x \in Int /\ y \in Int
  BY Halves
<1>3. PICK a \in Int : a = Magnitude(x, TRUE)
  BY MagnitudeIs
<1>4. PICK b \in Int : b = Magnitude(y, TRUE)
  BY MagnitudeIs
<1>5. PICK s : s = MultLoop(a, b)[WordBits]
  OBVIOUS
<1>6. PICK p \in Nat : p = Abs(x) * Abs(y)
  BY AbsProduct
<1>7. Unsigned(a) = Abs(x) /\ Unsigned(b) = Abs(y)
  BY <1>3, <1>4, MagnitudeIs
<1>8. TwoWords(s.hi, s.lo, p)
  BY <1>5, <1>6, <1>7, LoopMultiplies
<1>9. PICK h : h = s.hi
  OBVIOUS
<1>10. PICK l : l = s.lo
  OBVIOUS
<1>11. TwoWords(h, l, p) /\ p <= Sign2 * Sign2
  BY <1>6, <1>8, <1>9, <1>10, AbsProduct
<1>12. h \in Word /\ -h \in Word /\ -1 - h \in Word /\ h \in Int /\ l \in Int
  BY <1>11, HighIsSmall
<1>13. l \in 0 .. m - 1 /\ p = h * m + l
  BY <1>1, <1>11 DEF TwoWords
<1>14. CASE x = 0 \/ y = 0
  <2>1. Mult(x, y, TRUE) = [hi |-> 0, lo |-> 0]
    BY <1>14 DEF Mult
  <2>2. x * y = 0
    BY <1>2, <1>14
  <2>3. 0 \in Word /\ Unsigned(0) = 0
    <3>1. 0 \in Word
      BY WordIs, WordSize
    <3> QED BY <3>1, Halves
  <2>4. 0 = 0 * Modulus /\ 0 = 0 + 0
    BY WordSize
  <2>5. Product64(Mult(x, y, TRUE), 0)
    BY <2>1, <2>3, <2>4, MakeProduct
  <2> QED BY <2>2, <2>5
<1>15. CASE ~(x = 0 \/ y = 0) /\ Sign(x) # Sign(y)
  <2>1. PICK lo : lo = Unsigned(-l)
    OBVIOUS
  <2>2. PICK hi : hi = Unsigned(Not(h) + Bool(lo = 0))
    OBVIOUS
  <2>3. Mult(x, y, TRUE) = [hi |-> Wrap(hi), lo |-> Wrap(lo)]
    BY <1>3, <1>4, <1>5, <1>9, <1>10, <1>15, <2>1, <2>2 DEF Mult
  <2>4. x * y = -p
    BY <1>6, <1>15, AbsProduct
  <2>5. PICK k \in Int : k = -l
    BY <1>12
  <2>6. lo \in Int /\ Unsigned(Wrap(lo)) = lo /\ Wrap(lo) \in Word
    <3>1. lo = Unsigned(k) /\ lo \in Int
      BY <2>1, <2>5, WrapOnce
    <3>2. Unsigned(Wrap(lo)) = Unsigned(lo) /\ Wrap(lo) \in Word
      BY <3>1, WrapOnce
    <3>3. Wrap(lo) = Wrap(k) /\ Unsigned(Wrap(k)) = Unsigned(k)
      BY <3>1, WrapOnce
    <3> QED BY <3>1, <3>2, <3>3
  <2>7. CASE l = 0
    <3>1. lo = 0
      <4>1. 0 \in Word /\ k = 0
        <5>1. k = 0
          <6>1. k + l = 0
            BY <1>12, <2>5
          <6> QED BY <2>7, <6>1
        <5>2. 0 \in Word
          BY WordIs, WordSize
        <5> QED BY <5>1, <5>2
      <4> QED BY <2>1, <2>5, <4>1, Halves
    <3>2. PICK g \in Int : g = -h
      BY <1>12
    <3>3. Not(h) + Bool(lo = 0) = g
      BY <1>12, <3>1, <3>2 DEF Not, Bool
    <3>4. Wrap(hi) = g /\ g \in Word
      BY <1>12, <2>2, <3>2, <3>3, WrapOnce, Halves
    <3>5. g * m + 0 = -p
      BY <1>12, <1>13, <2>7, <3>2
    <3>6. PICK n \in Int : n = g * m
      OBVIOUS
    <3>7. -p = n + 0
      BY <3>5, <3>6
    <3>8. Product64(Mult(x, y, TRUE), -p)
      BY <1>1, <2>3, <2>6, <3>1, <3>4, <3>6, <3>7, MakeProduct
    <3> QED BY <2>4, <3>8
  <2>8. CASE l # 0
    <3>1. lo = m - l
      <4>1. PICK r \in 0 .. m - 1 : r = m - l
        BY <1>13, <2>8
      <4>2. r = k + Modulus * 1
        BY <1>1, <1>12, <2>5, <4>1
      <4>3. Unsigned(k) = r
        BY <1>1, <4>1, <4>2, UnsignedUnique
      <4> QED BY <2>1, <2>5, <4>1, <4>3
    <3>2. PICK g \in Int : g = -1 - h
      BY <1>12
    <3>3. lo # 0
      BY <1>13, <3>1
    <3>4. Not(h) + Bool(lo = 0) = g
      BY <1>12, <3>2, <3>3 DEF Not, Bool
    <3>5. Wrap(hi) = g /\ g \in Word
      BY <1>12, <2>2, <3>2, <3>4, WrapOnce, Halves
    <3>6. g * m + (m - l) = -p
      <4>1. g * m = -m - h * m
        BY <1>12, <3>2
      <4>2. h * m \in Int /\ g * m \in Int
        BY <1>12
      <4> QED BY <1>12, <1>13, <4>1, <4>2
    <3>7. PICK n \in Int : n = g * m
      OBVIOUS
    <3>8. -p = n + lo
      BY <3>1, <3>6, <3>7
    <3>9. Product64(Mult(x, y, TRUE), -p)
      BY <1>1, <2>3, <2>6, <3>5, <3>7, <3>8, MakeProduct
    <3> QED BY <2>4, <3>9
  <2> QED BY <2>7, <2>8
<1>16. CASE ~(x = 0 \/ y = 0) /\ ~(Sign(x) # Sign(y))
  <2>1. Mult(x, y, TRUE) = [hi |-> Wrap(h), lo |-> Wrap(l)]
    BY <1>3, <1>4, <1>5, <1>9, <1>10, <1>16 DEF Mult
  <2>2. x * y = p
    BY <1>6, <1>16, AbsProduct
  <2>3. Wrap(h) = h
    BY <1>12, Halves
  <2>4. Wrap(l) \in Word /\ Unsigned(Wrap(l)) = l
    <3>1. Unsigned(Wrap(l)) = Unsigned(l) /\ Wrap(l) \in Word
      BY <1>12, WrapOnce
    <3>2. Unsigned(l) = l
      BY <1>1, <1>13, DivSmall, WordIs
    <3> QED BY <3>1, <3>2
  <2>5. PICK n \in Int : n = h * m
    BY <1>12
  <2>6. p = n + l
    BY <1>13, <2>5
  <2>7. Product64(Mult(x, y, TRUE), p)
    BY <1>1, <1>12, <2>1, <2>3, <2>4, <2>5, <2>6, MakeProduct
  <2> QED BY <2>2, <2>7
<1> QED
  BY <1>14, <1>15, <1>16

(* MULTU gives the product of the unsigned numbers.                          *)
ProductU(r, v) ==
  /\ r.hi \in Word /\ r.lo \in Word
  /\ Unsigned(r.hi) * Modulus + Unsigned(r.lo) = v

(* Two words make one, as unsigned numbers.                                  *)
LEMMA MakeProductU ==
  ASSUME NEW h \in Word, NEW l \in Word, NEW u, u = Unsigned(l), NEW w, w = Unsigned(h),
         NEW n, n = w * Modulus, NEW v, v = n + u, NEW r, r = [hi |-> h, lo |-> l]
  PROVE  ProductU(r, v)
<1>1. r.hi = h /\ r.lo = l
  OBVIOUS
<1> QED
  BY <1>1 DEF ProductU

(* MULTU leaves the exact product of the two words read as unsigned: Mult with *)
(* signedArith FALSE is the loop alone.                                      *)
THEOREM MultUnsigned ==
  ASSUME NEW x \in Word, NEW y \in Word
  PROVE  ProductU(Mult(x, y, FALSE), Unsigned(x) * Unsigned(y))
<1>1. PICK m \in Nat \ {0} : m = Modulus
  BY WordSize
<1>2. x \in Int /\ y \in Int
  BY Halves
<1>3. Magnitude(x, FALSE) = x /\ Magnitude(y, FALSE) = y
  BY MagnitudeIs
<1>4. PICK s : s = MultLoop(x, y)[WordBits]
  OBVIOUS
<1>5. PICK p \in Int : p = Unsigned(x) * Unsigned(y)
  BY Halves
<1>6. TwoWords(s.hi, s.lo, p)
  BY <1>2, <1>4, <1>5, LoopMultiplies
<1>7. s.hi \in 0 .. m - 1 /\ s.lo \in 0 .. m - 1 /\ p = s.hi * m + s.lo
  BY <1>1, <1>6 DEF TwoWords
<1>8. CASE x = 0 \/ y = 0
  <2>1. Mult(x, y, FALSE) = [hi |-> 0, lo |-> 0]
    BY <1>8 DEF Mult
  <2>2. 0 \in Word /\ Unsigned(0) = 0
    <3>1. 0 \in Word
      BY WordIs, WordSize
    <3> QED BY <3>1, Halves
  <2>3. Unsigned(x) * Unsigned(y) = 0
    <3>1. Unsigned(x) \in Int /\ Unsigned(y) \in Int
      BY Halves
    <3> QED BY <1>8, <2>2, <3>1
  <2>4. 0 = 0 * Modulus /\ 0 = 0 + 0
    BY WordSize
  <2>5. ProductU(Mult(x, y, FALSE), 0)
    BY <2>1, <2>2, <2>4, MakeProductU
  <2> QED BY <2>3, <2>5
<1>9. CASE ~(x = 0 \/ y = 0)
  <2>1. Mult(x, y, FALSE) = [hi |-> Wrap(s.hi), lo |-> Wrap(s.lo)]
    BY <1>3, <1>4, <1>9 DEF Mult
  <2>2. ASSUME NEW v \in 0 .. m - 1
        PROVE  Wrap(v) \in Word /\ Unsigned(Wrap(v)) = v
    <3>1. v \in Int
      OBVIOUS
    <3>2. Unsigned(Wrap(v)) = Unsigned(v) /\ Wrap(v) \in Word
      BY <3>1, WrapOnce
    <3>3. Unsigned(v) = v
      BY <1>1, DivSmall, WordIs
    <3> QED BY <3>2, <3>3
  <2>3. /\ Wrap(s.hi) \in Word /\ Unsigned(Wrap(s.hi)) = s.hi
        /\ Wrap(s.lo) \in Word /\ Unsigned(Wrap(s.lo)) = s.lo
    BY <1>7, <2>2
  <2>4. PICK n \in Int : n = s.hi * m
    BY <1>7
  <2>5. p = n + s.lo
    BY <1>7, <2>4
  <2>6. ProductU(Mult(x, y, FALSE), p)
    BY <1>1, <2>1, <2>3, <2>4, <2>5, MakeProductU
  <2> QED BY <1>5, <2>6
<1> QED
  BY <1>8, <1>9

(* What DIV leaves in LO and HI.                                             *)
Quotients(a, b, q, r) ==
  /\ q \in Word /\ r \in Word
  /\ a = q * b + r
  /\ r = 0 \/ (r < 0 <=> a < 0)
  /\ -r < Abs(b) /\ r < Abs(b)

(* DIV leaves in LO and HI a quotient and a remainder cut towards zero, both *)
(* words (the case OP_DIV of OneInstruction): not of a division by 0, which the *)
(* code answers with 0, nor of the smallest word by -1, which stops the host. *)
THEOREM DivideSigned ==
  ASSUME NEW x \in Word, NEW y \in Word, y # 0, ~(y = -1 /\ Wrap(-x) = x /\ x # 0)
  PROVE  Quotients(x, y, Divide(x, y).lo, Divide(x, y).hi)
<1>1. PICK h \in Nat \ {0} : h = Sign2
  BY WordSize
<1>2. x \in Int /\ x >= -h /\ x < h /\ y \in Int /\ y >= -h /\ y < h /\ y # 0
  BY <1>1, Halves
<1>3. PICK i \in 0 .. h : i = Abs(x)
  BY <1>2 DEF Abs
<1>4. PICK j \in 1 .. h : j = Abs(y)
  BY <1>2 DEF Abs
<1>5. PICK p \in Int : p = i \div j
  BY DivMod
<1>6. PICK t \in 0 .. j - 1 : t = i % j
  BY DivMod
<1>7. i = j * p + t
  BY <1>5, <1>6, DivMod
<1>8. p >= 0
  <2> SUFFICES ASSUME p < 0 PROVE FALSE
    BY <1>5
  <2>1. PICK e \in Nat : p = -1 - e
    <3>1. -1 - p \in Nat /\ p = -1 - (-1 - p)
      OBVIOUS
    <3> QED BY <3>1
  <2>2. j * p = -j - j * e /\ j * e \in Nat
    BY <2>1
  <2> QED BY <1>7, <2>2
<1>9. p <= i /\ (p = i /\ p # 0 => j = 1)
  <2>1. PICK e \in Nat : j = 1 + e
    <3>1. j - 1 \in Nat /\ j = 1 + (j - 1)
      OBVIOUS
    <3> QED BY <3>1
  <2>2. j * p = p + e * p /\ e * p \in Nat
    BY <1>8, <2>1
  <2>3. p <= i
    BY <1>7, <2>2
  <2>4. p = i /\ p # 0 => e = 0
    <3> SUFFICES ASSUME p = i, p # 0, e # 0 PROVE FALSE
      OBVIOUS
    <3>1. PICK g \in Nat : e = 1 + g
      <4>1. e - 1 \in Nat /\ e = 1 + (e - 1)
        OBVIOUS
      <4> QED BY <4>1
    <3>2. e * p = p + g * p /\ g * p \in Nat
      BY <1>8, <3>1
    <3> QED BY <1>7, <1>8, <2>2, <3>2
  <2> QED BY <2>1, <2>3, <2>4
<1>10. PICK q \in Int : q = IF (x < 0) = (y < 0) THEN p ELSE -p
  BY <1>2
<1>11. Quotient(x, y) = q
  BY <1>3, <1>4, <1>5, <1>10 DEF Quotient, Abs
<1>12. PICK r \in Int : r = IF x < 0 THEN -t ELSE t
  BY <1>2
<1>13. x = q * y + r
  <2>1. p * j = j * p /\ (-p) * j = -(j * p) /\ p * (-j) = -(j * p) /\ (-p) * (-j) = j * p
    OBVIOUS
  <2>2. j * p \in Int
    OBVIOUS
  <2>3. CASE x < 0 /\ y < 0
    <3>1. x = -i /\ y = -j /\ q = p /\ r = -t
      BY <1>2, <1>3, <1>4, <1>10, <1>12, <2>3 DEF Abs
    <3> QED BY <1>7, <2>1, <2>2, <3>1
  <2>4. CASE x < 0 /\ ~(y < 0)
    <3>1. x = -i /\ y = j /\ q = -p /\ r = -t
      BY <1>2, <1>3, <1>4, <1>10, <1>12, <2>4 DEF Abs
    <3> QED BY <1>7, <2>1, <2>2, <3>1
  <2>5. CASE ~(x < 0) /\ y < 0
    <3>1. x = i /\ y = -j /\ q = -p /\ r = t
      BY <1>2, <1>3, <1>4, <1>10, <1>12, <2>5 DEF Abs
    <3> QED BY <1>7, <2>1, <2>2, <3>1
  <2>6. CASE ~(x < 0) /\ ~(y < 0)
    <3>1. x = i /\ y = j /\ q = p /\ r = t
      BY <1>2, <1>3, <1>4, <1>10, <1>12, <2>6 DEF Abs
    <3> QED BY <1>7, <2>1, <2>2, <3>1
  <2> QED BY <2>3, <2>4, <2>5, <2>6
<1>14. ~(q >= h)
  <2> SUFFICES ASSUME q >= h PROVE FALSE
    OBVIOUS
  <2>1. (x < 0) = (y < 0) /\ q = p /\ p = h /\ i = h
    BY <1>8, <1>9, <1>10
  <2>2. j = 1 /\ x = -h
    BY <1>2, <1>3, <1>9, <2>1 DEF Abs
  <2>3. y = -1
    BY <1>2, <1>4, <2>1, <2>2 DEF Abs
  <2>4. h \in Int /\ -Modulus <= h /\ h < Modulus /\ h >= Sign2 /\ Modulus = 2 * h
    BY <1>1, WordSize
  <2>5. Wrap(h) = h - Modulus
    BY <2>4, WrapNear
  <2>6. Wrap(h) = x
    BY <2>2, <2>4, <2>5
  <2>7. -x = h /\ x # 0
    BY <1>2, <2>2
  <2> QED BY <2>3, <2>6, <2>7
<1>15. q \in Word
  <2>1. q >= -h
    BY <1>8, <1>9, <1>10
  <2> QED BY <1>1, <1>14, <2>1, WordIs
<1>16. r \in Word /\ -r < j /\ r < j /\ (r = 0 \/ (r < 0 <=> x < 0))
  <2>1. -r < j /\ r < j
    BY <1>12
  <2>2. r \in Word
    BY <1>1, <2>1, WordIs
  <2>3. r = 0 \/ (r < 0 <=> x < 0)
    BY <1>2, <1>12
  <2> QED BY <2>1, <2>2, <2>3
<1>17. x - y * q = r
  <2>1. y * q = q * y /\ y * q \in Int
    BY <1>2
  <2> QED BY <1>2, <1>13, <2>1
<1>18. Divide(x, y).hi = r /\ Divide(x, y).lo = q
  BY <1>2, <1>11, <1>15, <1>16, <1>17, Halves DEF Divide
<1>19. Quotients(x, y, q, r)
  BY <1>4, <1>13, <1>15, <1>16 DEF Quotients
<1> QED
  BY <1>18, <1>19

(* DIVU leaves the quotient and the remainder of the unsigned numbers (OP_DIVU), *)
(* as words that stand for them.                                             *)
THEOREM DivideUnsigned ==
  ASSUME NEW a \in 0 .. Modulus - 1, NEW b \in 0 .. Modulus - 1, b # 0,
         NEW q, q = Divide(a, b).lo, NEW r, r = Divide(a, b).hi
  PROVE  /\ q \in Word /\ r \in Word
         /\ a = Unsigned(q) * b + Unsigned(r)
         /\ Unsigned(r) >= 0 /\ Unsigned(r) < b /\ Unsigned(q) \in Int /\ Unsigned(r) \in Int
<1>1. PICK m \in Nat \ {0} : m = Modulus
  BY WordSize
<1>2. a \in 0 .. m - 1 /\ b \in 1 .. m - 1
  BY <1>1
<1>d. PICK d \in Nat \ {0} : d = b
  BY <1>2
<1>n. PICK n \in Int : n = a
  BY <1>2
<1>3. PICK p \in Int : p = a \div b
  BY <1>d, <1>n, DivMod
<1>4. PICK t \in 0 .. b - 1 : t = a % b
  BY <1>d, <1>n, DivMod
<1>5. a = b * p + t
  BY <1>d, <1>n, <1>3, <1>4, DivMod
<1>6. p >= 0
  <2> SUFFICES ASSUME p < 0 PROVE FALSE
    BY <1>3
  <2>1. PICK e \in Nat : p = -1 - e
    <3>1. -1 - p \in Nat /\ p = -1 - (-1 - p)
      OBVIOUS
    <3> QED BY <3>1
  <2>2. b * p = -b - b * e /\ b * e \in Nat
    BY <1>2, <2>1
  <2> QED BY <1>2, <1>5, <2>2
<1>7. p <= a
  <2>1. PICK e \in Nat : b = 1 + e
    <3>1. b - 1 \in Nat /\ b = 1 + (b - 1)
      BY <1>2
    <3> QED BY <3>1
  <2>2. b * p = p + e * p /\ e * p \in Nat
    BY <1>6, <2>1
  <2> QED BY <1>2, <1>5, <2>2
<1>8. Quotient(a, b) = p
  BY <1>2, <1>3 DEF Quotient
<1>9. a - b * p = t
  <2>1. b * p \in Int
    BY <1>2
  <2> QED BY <1>2, <1>5, <2>1
<1>10. q = Wrap(p) /\ r = Wrap(t)
  BY <1>2, <1>8, <1>9 DEF Divide
<1>11. ASSUME NEW v \in 0 .. m - 1
       PROVE  Wrap(v) \in Word /\ Unsigned(Wrap(v)) = v
  <2>1. v \in Int
    OBVIOUS
  <2>2. Unsigned(Wrap(v)) = Unsigned(v) /\ Wrap(v) \in Word
    BY <2>1, WrapOnce
  <2>3. Unsigned(v) = v
    BY <1>1, DivSmall, WordIs
  <2> QED BY <2>2, <2>3
<1>12. p \in 0 .. m - 1 /\ t \in 0 .. m - 1
  BY <1>2, <1>6, <1>7
<1>13. q \in Word /\ r \in Word /\ Unsigned(q) = p /\ Unsigned(r) = t
  BY <1>10, <1>11, <1>12
<1>14. a = p * b + t
  <2>1. p * b = b * p
    BY <1>2
  <2> QED BY <1>5, <2>1
<1> QED
  BY <1>2, <1>13, <1>14

-------------------------------------------------------------------------------
(* What the instructions compute are words.                                  *)

(* A shift to the right of a word is a word.                                 *)
LEMMA RightIs ==
  ASSUME NEW x \in Word, NEW n \in Nat
  PROVE  Right(x, n) \in Word /\ (x >= 0 => Right(x, n) >= 0)
<1>1. PICK h \in Nat \ {0} : h = Sign2
  BY WordSize
<1>2. PICK d \in Nat \ {0} : d = 2 ^ n
  BY PowerPositive
<1>3. x \in Int /\ x >= -h /\ x < h
  BY <1>1, Halves
<1>4. PICK q \in Int : q = x \div d
  BY <1>3, DivMod
<1>5. PICK r \in 0 .. d - 1 : r = x % d
  BY <1>3, DivMod
<1>6. x = d * q + r
  BY <1>3, <1>4, <1>5, DivMod
<1>7. PICK e \in Nat : d = 1 + e
  <2>1. d - 1 \in Nat /\ d = 1 + (d - 1)
    OBVIOUS
  <2> QED BY <2>1
<1>8. d * q = q + e * q
  BY <1>7
<1>9. q >= 0 => e * q >= 0
  OBVIOUS
<1>10. q < 0 => e * q <= -e
  <2> SUFFICES ASSUME q < 0 PROVE e * q <= -e
    OBVIOUS
  <2>1. PICK g \in Nat : q = -1 - g
    <3>1. -1 - q \in Nat /\ q = -1 - (-1 - q)
      OBVIOUS
    <3> QED BY <3>1
  <2>2. e * q = -e - e * g /\ e * g \in Nat
    BY <2>1
  <2> QED BY <2>2
<1>11. e * q \in Int
  OBVIOUS
<1>12. q >= -h /\ q < h /\ (x >= 0 => q >= 0)
  <2>1. CASE q >= 0
    BY <1>3, <1>6, <1>8, <1>9, <1>11, <2>1
  <2>2. CASE q < 0
    <3>1. x < 0
      BY <1>3, <1>6, <1>7, <1>8, <1>10, <1>11, <2>2
    <3>2. q >= -h
      <4>1. q >= x
        <5>1. PICK g \in Nat : q = -1 - g
          <6>1. -1 - q \in Nat /\ q = -1 - (-1 - q)
            BY <2>2
          <6> QED BY <6>1
        <5>2. e * q = -e - e * g /\ e * g \in Nat
          BY <5>1
        <5> QED BY <1>3, <1>6, <1>7, <1>8, <5>2
      <4> QED BY <1>3, <4>1
    <3> QED BY <1>3, <2>2, <3>1, <3>2
  <2> QED BY <2>1, <2>2
<1>13. q \in Word
  BY <1>1, <1>12, WordIs
<1> QED
  BY <1>2, <1>4, <1>12, <1>13 DEF Right

(* And so are the results of the masks, of Not and of comparisons.           *)
LEMMA MasksAreWords ==
  ASSUME NEW x \in Int, NEW y \in Int
  PROVE  And(x, y) \in Word /\ BitOr(x, y) \in Word /\ Xor(x, y) \in Word
<1>1. Bits(x) \subseteq Places /\ Bits(y) \subseteq Places
  BY PlacesAre
<1>2. /\ Bits(x) \cap Bits(y) \in SUBSET Places
      /\ Bits(x) \cup Bits(y) \in SUBSET Places
      /\ (Bits(x) \cup Bits(y)) \ (Bits(x) \cap Bits(y)) \in SUBSET Places
  BY <1>1
<1> QED
  BY <1>2, FromBitsWord DEF And, BitOr, Xor

(* 0, 1 and 4 are words, the results of comparisons too, and those of Not.   *)
LEMMA SmallWords ==
  /\ 0 \in Word /\ 1 \in Word /\ 4 \in Word
  /\ \A b \in BOOLEAN : Bool(b) \in Word
  /\ \A x \in Word : Not(x) \in Word
<1>1. PICK h \in Nat : h = Sign2 /\ h >= 8
  BY WordSize
<1>2. 0 \in Word /\ 1 \in Word /\ 4 \in Word
  BY <1>1, WordIs
<1>3. \A b \in BOOLEAN : Bool(b) \in Word
  BY <1>2 DEF Bool
<1>4. ASSUME NEW x \in Word PROVE Not(x) \in Word
  <2>1. x \in Int /\ x >= -h /\ x < h
    BY <1>1, Halves
  <2>2. -1 - x \in -h .. h - 1
    BY <2>1
  <2> QED BY <1>1, <2>2, WordIs DEF Not
<1> QED
  BY <1>2, <1>3, <1>4

(* A sum that is cut is a word.                                              *)
LEMMA CutSums ==
  ASSUME NEW x \in Word, NEW y \in Word
  PROVE  /\ Wrap(x + y) \in Word /\ Wrap(x - y) \in Word /\ Wrap(x + 4) \in Word
         /\ x + y \in Int /\ x - y \in Int
<1>1. x \in Int /\ y \in Int
  BY Halves
<1>2. x + y \in Int /\ x - y \in Int /\ x + 4 \in Int
  BY <1>1
<1> QED
  BY <1>2, WrapIs

(* And a number that is shifted to the left.                                 *)
LEMMA LeftIs ==
  ASSUME NEW x \in Int, NEW n \in Nat
  PROVE  Left(x, n) \in Word /\ Left(x, n) = Wrap(x * 2 ^ n) /\ x * 2 ^ n \in Int
<1>1. PICK d \in Nat \ {0} : d = 2 ^ n
  BY PowerPositive
<1>2. x * d \in Int
  OBVIOUS
<1> QED
  BY <1>1, <1>2, WrapIs DEF Left

-------------------------------------------------------------------------------
(* The invariant.                                                            *)

(* The code is that of a program: every instruction is decoded.              *)
CodeOK == Len(code) \in Nat /\ \A k \in 1 .. Len(code) : Decoded(code[k])

(* The inductive invariant.                                                  *)
MachineInv == TypeOK /\ CodeOK

(* An instruction that is fetched is one of them.                            *)
LEMMA Fetched ==
  ASSUME MachineInv, FetchOK
  PROVE  /\ Decoded(instr) /\ op = instr.op
         /\ instr.rs \in GPRegs /\ instr.rt \in GPRegs /\ instr.rd \in GPRegs
<1>1. PICK a \in Int : a = Unsigned(PCReg) /\ a >= 0
  <2>1. PCReg \in Word
    BY DEF MachineInv, TypeOK
  <2> QED BY <2>1, Halves
<1>2. PICK q \in Int : q = a \div 4
  OBVIOUS
<1>3. q >= 0
  BY <1>1, <1>2
<1>4. q < Len(code) /\ Len(code) \in Nat
  BY <1>1, <1>2 DEF FetchOK, MachineInv, CodeOK
<1>5. q + 1 \in 1 .. Len(code)
  BY <1>3, <1>4
<1>6. Decoded(code[q + 1])
  BY <1>5 DEF MachineInv, CodeOK
<1>7. Decoded(instr)
  BY <1>1, <1>2, <1>6 DEF instr
<1> QED
  BY <1>7 DEF Decoded, op

(* The operands of an instruction are words.                                 *)
LEMMA Operands ==
  ASSUME MachineInv, FetchOK
  PROVE  /\ rs \in Word /\ rt \in Word /\ rs \in Int /\ rt \in Int
         /\ HiReg \in Word /\ LoReg \in Word /\ PCReg \in Word /\ NextPCReg \in Word
         /\ LoadValueReg \in Word /\ LoadReg \in GPRegs
         /\ registers \in [GPRegs -> Word] /\ registers[0] = 0 /\ 0 \in GPRegs
<1>1. /\ HiReg \in Word /\ LoReg \in Word /\ PCReg \in Word /\ NextPCReg \in Word
      /\ LoadValueReg \in Word /\ LoadReg \in GPRegs
      /\ registers \in [GPRegs -> Word] /\ registers[0] = 0
  BY DEF MachineInv, TypeOK
<1>2. rs \in Word /\ rt \in Word
  BY <1>1, Fetched DEF rs, rt
<1>3. 0 \in GPRegs
  BY MipsAssumption DEF GPRegs
<1> QED
  BY <1>1, <1>2, <1>3, Halves

(* The immediate field, as a signed number.                                  *)
LEMMA Immediates ==
  ASSUME MachineInv, FetchOK, op \in ImmediateOps
  PROVE  /\ instr.imm \in 0 .. 2 ^ HalfBits - 1 /\ instr.imm \in Int
         /\ extra = DecodedImmediate(instr.imm)
         /\ extra = SignExtended(instr.imm, HalfBits)
         /\ extra \in Word /\ extra \in Int
         /\ And(extra, Mask(HalfBits)) = instr.imm
<1>1. instr.imm \in 0 .. 2 ^ HalfBits - 1
  BY Fetched DEF Decoded
<1>2. extra = DecodedImmediate(instr.imm)
  BY DEF extra, DecodedImmediate
<1> QED
  BY <1>1, <1>2, ImmediateIs, Halves

(* The amount of a shift.                                                    *)
LEMMA Amounts ==
  ASSUME MachineInv, FetchOK
  PROVE  /\ Amount \in Nat /\ Amount = rs % WordBits
         /\ op \in ShiftOps => instr.imm \in Nat
<1>1. PICK n \in Nat \ {0} : n = WordBits
  BY WordSize
<1>2. rs % n \in 0 .. n - 1
  BY Operands, DivMod
<1>3. op \in ShiftOps => instr.imm \in Nat
  <2>1. op \in ShiftOps => instr.imm \in 0 .. WordBits - 1
    BY Fetched DEF Decoded
  <2> QED BY <1>1, <2>1
<1> QED
  BY <1>1, <1>2, <1>3 DEF Amount

(* A result for rd is a word.                                                *)
LEMMA RdResultIsWord ==
  ASSUME MachineInv, FetchOK, op \in RdOps
  PROVE  RdResult \in Word
<1>1. /\ rs \in Word /\ rt \in Word /\ rs \in Int /\ rt \in Int
      /\ HiReg \in Word /\ LoReg \in Word
  BY Operands
<1>2. CASE op \in {"ADD", "ADDU", "SUB", "SUBU"}
  BY <1>1, <1>2, CutSums DEF RdResult
<1>3. CASE op \in {"AND", "OR", "XOR"}
  BY <1>1, <1>3, MasksAreWords DEF RdResult
<1>4. CASE op = "NOR"
  <2>1. PICK w \in Word : w = BitOr(rs, rt)
    BY <1>1, MasksAreWords
  <2> QED BY <1>4, <2>1, SmallWords DEF RdResult
<1>5. CASE op \in {"SLL", "SLLV"}
  <2>1. op = "SLL" => instr.imm \in Nat
    BY Amounts DEF ShiftOps
  <2> QED BY <1>1, <1>5, <2>1, Amounts, LeftIs DEF RdResult
<1>6. CASE op \in {"SRA", "SRAV", "SRL", "SRLV"}
  <2>1. op \in {"SRA", "SRL"} => instr.imm \in Nat
    BY Amounts DEF ShiftOps
  <2> QED BY <1>1, <1>6, <2>1, Amounts, RightIs DEF RdResult, ShiftedTmp
<1>7. CASE op \in {"SLT", "SLTU"}
  BY <1>7, SmallWords DEF RdResult, Bool
<1>8. CASE op \in {"MFHI", "MFLO"}
  BY <1>1, <1>8 DEF RdResult
<1> QED
  BY <1>2, <1>3, <1>4, <1>5, <1>6, <1>7, <1>8 DEF RdOps

(* And one for rt.                                                           *)
LEMMA RtResultIsWord ==
  ASSUME MachineInv, FetchOK, op \in RtOps
  PROVE  RtResult \in Word
<1>1. op \in ImmediateOps
  BY DEF RtOps, ImmediateOps
<1>2. /\ rs \in Word /\ rs \in Int /\ extra \in Word /\ extra \in Int
      /\ And(extra, Mask(HalfBits)) = instr.imm /\ instr.imm \in Int
  BY <1>1, Operands, Immediates
<1>3. CASE op \in {"ADDI", "ADDIU"}
  BY <1>2, <1>3, CutSums DEF RtResult
<1>4. CASE op \in {"ANDI", "ORI", "XORI"}
  BY <1>2, <1>4, MasksAreWords DEF RtResult
<1>5. CASE op = "LUI"
  <2>1. HalfBits \in Nat
    BY PartSizes
  <2> QED BY <1>2, <1>5, <2>1, LeftIs DEF RtResult
<1>6. CASE op \in {"SLTI", "SLTIU"}
  BY <1>6, SmallWords DEF RtResult, Bool
<1> QED
  BY <1>3, <1>4, <1>5, <1>6 DEF RtOps

(* What a multiplication or a division leaves are words.                     *)
LEMMA HiLoAreWords ==
  ASSUME MachineInv, FetchOK, op \in {"MULT", "MULTU", "DIV", "DIVU", "MTHI", "MTLO"}, ~HostTraps
  PROVE  HiLoResult.hi \in Word /\ HiLoResult.lo \in Word
<1>1. rs \in Word /\ rt \in Word /\ HiReg \in Word /\ LoReg \in Word
  BY Operands
<1>2. CASE op = "MULT"
  <2>1. Product64(Mult(rs, rt, TRUE), rs * rt)
    BY <1>1, MultSigned
  <2> QED BY <1>2, <2>1 DEF HiLoResult, Product64
<1>3. CASE op = "MULTU"
  <2>1. ProductU(Mult(rs, rt, FALSE), Unsigned(rs) * Unsigned(rt))
    BY <1>1, MultUnsigned
  <2> QED BY <1>3, <2>1 DEF HiLoResult, ProductU
<1>4. CASE op = "DIV"
  <2>1. CASE rt = 0
    BY <1>4, <2>1, SmallWords DEF HiLoResult, Divide
  <2>2. CASE rt # 0
    <3>1. ~(rt = -1 /\ Wrap(-rs) = rs /\ rs # 0)
      BY <1>4 DEF HostTraps
    <3>2. Quotients(rs, rt, Divide(rs, rt).lo, Divide(rs, rt).hi)
      BY <1>1, <2>2, <3>1, DivideSigned
    <3> QED BY <1>4, <3>2 DEF HiLoResult, Quotients
  <2> QED BY <2>1, <2>2
<1>5. CASE op = "DIVU"
  <2>1. Unsigned(rs) \in 0 .. Modulus - 1 /\ Unsigned(rt) \in 0 .. Modulus - 1
    BY <1>1, Halves
  <2>2. CASE Unsigned(rt) = 0
    BY <1>5, <2>2, SmallWords DEF HiLoResult, Divide
  <2>3. CASE Unsigned(rt) # 0
    BY <1>5, <2>1, <2>3, DivideUnsigned DEF HiLoResult
  <2> QED BY <2>2, <2>3
<1>6. CASE op \in {"MTHI", "MTLO"}
  BY <1>1, <1>6 DEF HiLoResult
<1> QED
  BY <1>2, <1>3, <1>4, <1>5, <1>6

(* Where a branch goes is a word.                                            *)
LEMMA PcAfterIsWord ==
  ASSUME MachineInv, FetchOK, op \in Branches
  PROVE  PcAfter \in Word /\ Next4 \in Word
<1>1. rs \in Word /\ NextPCReg \in Word /\ NextPCReg \in Int
  BY Operands, Halves
<1>2. Next4 \in Word
  BY <1>1, CutSums, SmallWords DEF Next4
<1>3. CASE op \in {"J", "JAL"}
  <2>1. instr.imm \in Nat
    BY <1>3, Fetched DEF Decoded, JumpOps
  <2>2. IndexToAddr(instr.imm) \in Word
    BY <2>1, LeftIs DEF IndexToAddr
  <2> QED BY <1>2, <1>3, <2>2 DEF PcAfter
<1>4. CASE op \in {"JR", "JALR"}
  BY <1>1, <1>2, <1>4 DEF PcAfter
<1>5. CASE op \notin {"J", "JAL", "JR", "JALR"}
  <2>1. op \in ImmediateOps
    BY <1>5 DEF Branches, Links, ImmediateOps
  <2>2. extra \in Int
    BY <2>1, Immediates
  <2>3. IndexToAddr(extra) \in Word
    BY <2>2, LeftIs DEF IndexToAddr
  <2>4. Wrap(NextPCReg + IndexToAddr(extra)) \in Word
    BY <1>1, <2>3, CutSums
  <2> QED BY <1>2, <1>5, <2>4 DEF PcAfter
<1> QED
  BY <1>3, <1>4, <1>5

(* The instructions that use the memory.                                     *)
MemoryInstructions ==
  {"LB", "LBU", "LH", "LHU", "LW", "LWL", "LWR", "SB", "SH", "SW", "SWL", "SWR"}

(* The word of memory that is used.                                          *)
LEMMA Slots ==
  ASSUME MachineInv, FetchOK, op \in MemoryInstructions
  PROVE  /\ tmp \in Word /\ tmp = Wrap(rs + extra) /\ rs + extra \in Int
         /\ Unsigned(tmp) \in Nat /\ Slot \in Nat /\ Unsigned(tmp) % 4 \in 0 .. 3
         /\ Size \in {1, 2, 4} /\ Bits8 \in Nat \ {0}
         /\ ~AddressError => Slot \in 0 .. MemoryWords - 1 /\ memory[Slot] \in Word
<1>1. op \in ImmediateOps
  BY DEF MemoryInstructions, ImmediateOps
<1>2. rs \in Word /\ extra \in Word
  BY <1>1, Operands, Immediates
<1>3. tmp \in Word /\ rs + extra \in Int
  BY <1>2, CutSums DEF tmp
<1>4. Unsigned(tmp) \in Nat
  BY <1>3, Halves
<1>5. PICK a \in Nat : a = Unsigned(tmp)
  BY <1>4
<1>6. a \div 4 \in Nat /\ a % 4 \in 0 .. 3
  OBVIOUS
<1>7. Size \in {1, 2, 4} /\ Bits8 \in Nat \ {0}
  BY PartSizes DEF Size, Bits8
<1>8. ~AddressError => Slot \in 0 .. MemoryWords - 1
  BY <1>5, <1>6, MipsAssumption DEF AddressError, Slot
<1>9. \A k \in 0 .. MemoryWords - 1 : memory[k] \in Word
  BY DEF MachineInv, TypeOK
<1> QED
  BY <1>3, <1>4, <1>5, <1>6, <1>7, <1>8, <1>9 DEF Slot, tmp

(* A word with another field is a word.                                      *)
LEMMA WithFieldIs ==
  ASSUME NEW x \in Int, NEW k \in Nat, NEW n \in Nat, NEW v \in Int
  PROVE  WithField(x, k, n, v) \in Word
<1>1. PICK d \in Nat \ {0} : d = 2 ^ k
  BY PowerPositive
<1>2. PICK f \in Int : f = Field(v, 0, n)
  BY FieldIs
<1>3. PICK g \in Int : g = Field(x, k, n)
  BY FieldIs
<1>4. PICK y \in Int : y = x + (f - g) * d
  OBVIOUS
<1>5. WithField(x, k, n, v) = Wrap(y)
  BY <1>1, <1>2, <1>3, <1>4 DEF WithField
<1> QED
  BY <1>5, WrapIs

(* The first bit of a field in memory.                                       *)
StartBit == (Unsigned(tmp) % 4) * ByteBits

(* It is the first of the word when the address is a multiple of four.       *)
LEMMA StartBits ==
  ASSUME MachineInv, FetchOK, op \in MemoryInstructions
  PROVE  StartBit \in Nat /\ (Unsigned(tmp) % 4 = 0 => StartBit = 0)
<1>1. PICK a \in 0 .. 3 : a = Unsigned(tmp) % 4
  BY Slots
<1>2. a * ByteBits \in Nat /\ (a = 0 => a * ByteBits = 0)
  BY PartSizes
<1> QED
  BY <1>1, <1>2 DEF StartBit

(* What the loads of a byte or of a half load.                               *)
LEMMA PartLoads ==
  ASSUME MachineInv, FetchOK, op \in {"LB", "LBU", "LH", "LHU"}, ~AddressError
  PROVE  /\ op \in {"LB", "LH"} =>
              nextLoadValue = SignExtended(Field(memory[Slot], StartBit, Bits8), Bits8)
         /\ op \in {"LBU", "LHU"} =>
              nextLoadValue = Field(memory[Slot], StartBit, Bits8)
         /\ nextLoadValue \in Word
<1>1. op \in MemoryInstructions
  BY DEF MemoryInstructions
<1>2. memory[Slot] \in Int /\ StartBit \in Nat /\ Bits8 \in Nat \ {0}
  BY <1>1, Slots, StartBits, Halves
<1>3. (Size = 1 \/ Size = 2) /\ Bits8 < WordBits
  BY PartSizes DEF Size, Bits8
<1>4. PICK f \in Int : f = Field(memory[Slot], StartBit, Bits8)
  BY <1>2, FieldIs
<1>5. f % 2 ^ Bits8 = f
  <2>1. Field(f, 0, Bits8) = f
    BY <1>2, <1>4, FieldIs
  <2> QED BY <1>2, <2>1, LowField
<1>6. PICK v \in Int : v = value /\ v % 2 ^ Bits8 = f
  <2>1. CASE Size = 1
    <3>1. value = SignExtended(f, Bits8)
      BY <1>4, <2>1 DEF value, StartBit
    <3>2. /\ SignExtended(f, Bits8) = SignedPart(f, Bits8) /\ SignedPart(f, Bits8) \in Int
          /\ SignedPart(f, Bits8) % 2 ^ Bits8 = f % 2 ^ Bits8
      BY <1>2, <1>3, SignedPartIs
    <3> QED BY <1>5, <3>1, <3>2
  <2>2. CASE Size = 2
    <3>1. value = f
      BY <1>4, <2>2 DEF value, StartBit
    <3> QED BY <1>5, <3>1
  <2> QED BY <1>3, <2>1, <2>2
<1>7. CASE op \in {"LB", "LH"}
  <2>1. nextLoadValue = Extended(v, Bits8)
    BY <1>6, <1>7 DEF nextLoadValue, Extends, Extended
  <2>2. Extended(v, Bits8) = SignedPart(v, Bits8)
    BY <1>2, <1>3, ExtendedIs
  <2>3. SignedPart(v, Bits8) = SignedPart(f, Bits8)
    BY <1>5, <1>6 DEF SignedPart
  <2>4. SignExtended(f, Bits8) = SignedPart(f, Bits8) /\ SignedPart(f, Bits8) \in Word
    BY <1>2, <1>3, SignedPartIs
  <2> QED BY <1>4, <1>7, <2>1, <2>2, <2>3, <2>4
<1>8. CASE op \in {"LBU", "LHU"}
  <2>1. nextLoadValue = And(v, Mask(Bits8))
    BY <1>6, <1>8 DEF nextLoadValue, Extends
  <2>2. And(v, Mask(Bits8)) = f /\ f \in Word
    BY <1>2, <1>3, <1>6, AndMask
  <2> QED BY <1>4, <1>8, <2>1, <2>2
<1> QED
  BY <1>7, <1>8

(* The register as LWR finds it.                                             *)
OldRt == IF LoadReg = instr.rt THEN LoadValueReg ELSE rt

(* What the loads of a word load.                                            *)
LEMMA WordLoads ==
  ASSUME MachineInv, FetchOK, op \in {"LW", "LWL", "LWR"}, ~AddressError
  PROVE  /\ op \in {"LW", "LWL"} => nextLoadValue = memory[Slot]
         /\ op = "LWR" =>
              nextLoadValue
                = WithField(OldRt, 0, ByteBits, Field(memory[Slot], 3 * ByteBits, ByteBits))
         /\ nextLoadValue \in Word
<1>1. op \in MemoryInstructions
  BY DEF MemoryInstructions
<1>2. memory[Slot] \in Int /\ memory[Slot] \in Word
  BY <1>1, Slots, Halves
<1>3. value = memory[Slot]
  BY DEF value, Size
<1>4. CASE op \in {"LW", "LWL"}
  BY <1>2, <1>3, <1>4 DEF nextLoadValue
<1>5. CASE op = "LWR"
  <2>1. OldRt \in Int
    BY Operands, Halves DEF OldRt
  <2>2. PICK f \in Int : f = Field(memory[Slot], 3 * ByteBits, ByteBits)
    BY <1>2, PartSizes, FieldIs
  <2>3. nextLoadValue
          = BitOr(And(OldRt, Not(Mask(ByteBits))),
                  And(Right(memory[Slot], 3 * ByteBits), Mask(ByteBits)))
    BY <1>3, <1>5 DEF nextLoadValue, OldRt
  <2>4. nextLoadValue = WithField(OldRt, 0, ByteBits, f)
    BY <1>2, <2>1, <2>2, <2>3, LowByte
  <2>5. WithField(OldRt, 0, ByteBits, f) \in Word
    BY <2>1, PartSizes, WithFieldIs
  <2> QED BY <1>5, <2>2, <2>4, <2>5
<1> QED
  BY <1>4, <1>5

(* What a store puts in memory.                                              *)
Stored == IF op = "SWR"
            THEN BitOr(And(value, Mask(3 * ByteBits)), Left(rt, 3 * ByteBits))
            ELSE rt

(* WriteMem leaves a word; SWR stores the low byte in the high place.        *)
LEMMA Stores ==
  ASSUME MachineInv, FetchOK, op \in {"SB", "SH", "SW", "SWL", "SWR"}, ~AddressError
  PROVE  /\ WithField(memory[Slot], StartBit, Bits8, Stored) \in Word
         /\ op # "SWR" => Stored = rt
         /\ op = "SWR" /\ Unsigned(tmp) % 4 = 0 =>
              WithField(memory[Slot], StartBit, Bits8, Stored)
                = WithField(memory[Slot], 3 * ByteBits, ByteBits, rt)
<1>1. op \in MemoryInstructions
  BY DEF MemoryInstructions
<1>2. /\ memory[Slot] \in Int /\ rt \in Int /\ StartBit \in Nat /\ Bits8 \in Nat
      /\ 3 * ByteBits \in Nat
  BY <1>1, Slots, StartBits, Operands, Halves, PartSizes
<1>3. value = memory[Slot] \/ op # "SWR"
  BY DEF value, Size
<1>4. Stored \in Int
  <2>1. CASE op = "SWR"
    <3>1. PICK y \in Int : y = Left(rt, 3 * ByteBits)
      BY <1>2, LeftIs, Halves
    <3>2. PICK z \in Int : z = And(value, Mask(3 * ByteBits))
      <4>1. Mask(3 * ByteBits) \in Int
        BY PartSizes, MaskIs
      <4> QED BY <1>2, <1>3, <2>1, <4>1, MasksAreWords, Halves
    <3> QED BY <2>1, <3>1, <3>2, MasksAreWords, Halves DEF Stored
  <2>2. CASE op # "SWR"
    BY <1>2, <2>2 DEF Stored
  <2> QED BY <2>1, <2>2
<1>5. WithField(memory[Slot], StartBit, Bits8, Stored) \in Word
  BY <1>2, <1>4, WithFieldIs
<1>6. ASSUME op = "SWR", Unsigned(tmp) % 4 = 0
      PROVE  WithField(memory[Slot], StartBit, Bits8, Stored)
               = WithField(memory[Slot], 3 * ByteBits, ByteBits, rt)
  <2>1. StartBit = 0 /\ Bits8 = WordBits
    BY <1>1, <1>6, StartBits, PartSizes DEF Bits8, Size
  <2>2. Stored = BitOr(And(memory[Slot], Mask(3 * ByteBits)), Left(rt, 3 * ByteBits))
    BY <1>3, <1>6 DEF Stored
  <2> QED BY <1>2, <2>1, <2>2, HighByte
<1> QED
  BY <1>5, <1>6 DEF Stored

-------------------------------------------------------------------------------
(* The invariant holds.                                                      *)

(* The registers once a load is applied.                                     *)
LEMMA AppliedIs ==
  ASSUME MachineInv, NEW written \in [GPRegs -> Word]
  PROVE  Applied(written) \in [GPRegs -> Word] /\ Applied(written)[0] = 0
<1>1. 0 \in GPRegs /\ LoadReg \in GPRegs /\ LoadValueReg \in Word /\ 0 \in Word
  BY SmallWords, MipsAssumption DEF MachineInv, TypeOK, GPRegs
<1> QED
  BY <1>1 DEF Applied

(* The next instruction but one.                                             *)
LEMMA Next4Is ==
  ASSUME MachineInv
  PROVE  Next4 \in Word
<1>1. NextPCReg \in Word
  BY DEF MachineInv, TypeOK
<1> QED
  BY <1>1, CutSums DEF Next4

(* An instruction that is completed.                                         *)
LEMMA CompleteKeeps ==
  ASSUME MachineInv, NEW written \in [GPRegs -> Word], NEW pcAfter \in Word,
         Complete(written, pcAfter), HiReg' \in Word, LoReg' \in Word,
         memory' \in [0 .. MemoryWords - 1 -> Word]
  PROVE  MachineInv'
<1>1. registers' \in [GPRegs -> Word] /\ registers'[0] = 0
  BY AppliedIs DEF Complete, DelayedLoad
<1>2. LoadReg' = 0 /\ LoadValueReg' = 0 /\ 0 \in GPRegs /\ 0 \in Word
  BY SmallWords, MipsAssumption DEF Complete, DelayedLoad, GPRegs
<1>3. /\ PCReg' = NextPCReg /\ NextPCReg' = pcAfter /\ exception' = "none"
      /\ code' = code /\ halted' = halted
  BY DEF Complete, Advance
<1>4. NextPCReg \in Word /\ halted \in BOOLEAN
  BY DEF MachineInv, TypeOK
<1>5. TypeOK'
  BY <1>1, <1>2, <1>3, <1>4 DEF TypeOK
<1>6. CodeOK'
  BY <1>3 DEF MachineInv, CodeOK
<1> QED
  BY <1>5, <1>6 DEF MachineInv

(* An exception.                                                             *)
LEMMA RaiseKeeps ==
  ASSUME MachineInv,
         NEW which \in {"PageFault", "AddressError", "Overflow", "IllegalInstr"},
         RaiseException(which)
  PROVE  MachineInv'
<1>1. registers \in [GPRegs -> Word]
  BY DEF MachineInv, TypeOK
<1>2. registers' \in [GPRegs -> Word] /\ registers'[0] = 0
  BY <1>1, AppliedIs DEF RaiseException, DelayedLoad
<1>3. LoadReg' = 0 /\ LoadValueReg' = 0 /\ 0 \in GPRegs /\ 0 \in Word
  BY SmallWords, MipsAssumption DEF RaiseException, DelayedLoad, GPRegs
<1>4. /\ exception' = which
      /\ UNCHANGED <<code, HiReg, LoReg, PCReg, NextPCReg, memory, halted>>
  BY DEF RaiseException
<1>5. TypeOK'
  BY <1>2, <1>3, <1>4 DEF MachineInv, TypeOK
<1>6. CodeOK'
  BY <1>4 DEF MachineInv, CodeOK
<1> QED
  BY <1>5, <1>6 DEF MachineInv

(* A stop.                                                                   *)
LEMMA HaltKeeps ==
  ASSUME MachineInv, Halt
  PROVE  MachineInv'
  BY DEF MachineInv, TypeOK, CodeOK, Halt

(* An instruction with a result in rd or rt keeps the invariant.             *)
LEMMA ComputeKeeps ==
  ASSUME MachineInv, FetchOK, Compute
  PROVE  MachineInv'
<1>1. CASE RaiseException("Overflow")
  BY <1>1, RaiseKeeps
<1>2. CASE /\ \/ op \in RdOps /\ Complete(Written(instr.rd, RdResult), Next4)
              \/ op \in RtOps /\ Complete(Written(instr.rt, RtResult), Next4)
           /\ UNCHANGED <<HiReg, LoReg, memory>>
  <2>1. /\ registers \in [GPRegs -> Word] /\ instr.rd \in GPRegs /\ instr.rt \in GPRegs
    BY Operands, Fetched
  <2>2. HiReg' \in Word /\ LoReg' \in Word /\ memory' \in [0 .. MemoryWords - 1 -> Word]
    BY <1>2 DEF MachineInv, TypeOK
  <2>3. Next4 \in Word
    BY Next4Is
  <2>4. ASSUME NEW w \in [GPRegs -> Word], Complete(w, Next4) PROVE MachineInv'
    BY <2>2, <2>3, <2>4, CompleteKeeps
  <2>5. ASSUME op \in RdOps, Complete(Written(instr.rd, RdResult), Next4) PROVE MachineInv'
    <3>1. RdResult \in Word
      BY <2>5, RdResultIsWord
    <3>2. Written(instr.rd, RdResult) \in [GPRegs -> Word]
      BY <2>1, <3>1 DEF Written
    <3> QED BY <2>4, <2>5, <3>2
  <2>6. ASSUME op \in RtOps, Complete(Written(instr.rt, RtResult), Next4) PROVE MachineInv'
    <3>1. RtResult \in Word
      BY <2>6, RtResultIsWord
    <3>2. Written(instr.rt, RtResult) \in [GPRegs -> Word]
      BY <2>1, <3>1 DEF Written
    <3> QED BY <2>4, <2>6, <3>2
  <2> QED BY <1>2, <2>5, <2>6
<1> QED
  BY <1>1, <1>2 DEF Compute

(* A multiplication or a division.                                           *)
LEMMA MultiplyOrDivideKeeps ==
  ASSUME MachineInv, FetchOK, MultiplyOrDivide
  PROVE  MachineInv'
<1>1. CASE Halt
  BY <1>1, HaltKeeps
<1>2. CASE /\ ~HostTraps
           /\ HiReg' = HiLoResult.hi /\ LoReg' = HiLoResult.lo
           /\ Complete(registers, Next4)
           /\ UNCHANGED memory
  <2>1. HiReg' \in Word /\ LoReg' \in Word
    BY <1>2, HiLoAreWords DEF MultiplyOrDivide
  <2>2. memory' \in [0 .. MemoryWords - 1 -> Word] /\ registers \in [GPRegs -> Word]
    BY <1>2 DEF MachineInv, TypeOK
  <2> QED BY <1>2, <2>1, <2>2, Next4Is, CompleteKeeps
<1> QED
  BY <1>1, <1>2 DEF MultiplyOrDivide

(* A branch.                                                                 *)
LEMMA BranchKeeps ==
  ASSUME MachineInv, FetchOK, Branch
  PROVE  MachineInv'
<1>1. PcAfter \in Word /\ Next4 \in Word
  BY PcAfterIsWord DEF Branch
<1>2. /\ HiReg' \in Word /\ LoReg' \in Word
      /\ memory' \in [0 .. MemoryWords - 1 -> Word] /\ registers \in [GPRegs -> Word]
  BY DEF MachineInv, TypeOK, Branch
<1>3. LinkReg \in GPRegs
  BY Fetched, MipsAssumption DEF LinkReg
<1>4. PICK w \in [GPRegs -> Word] :
        w = IF op \in Links THEN Written(LinkReg, Next4) ELSE registers
  BY <1>1, <1>2, <1>3 DEF Written
<1>5. Complete(w, PcAfter)
  BY <1>4 DEF Branch
<1> QED
  BY <1>1, <1>2, <1>5, CompleteKeeps

(* A load.                                                                   *)
LEMMA LoadKeeps ==
  ASSUME MachineInv, FetchOK, ~AddressError, Load
  PROVE  MachineInv'
<1>1. nextLoadValue \in Word
  BY PartLoads, WordLoads DEF Load
<1>2. /\ registers' = Applied(registers) /\ LoadReg' = instr.rt /\ LoadValueReg' = nextLoadValue
      /\ PCReg' = NextPCReg /\ NextPCReg' = Next4 /\ exception' = "none"
      /\ UNCHANGED <<code, halted, HiReg, LoReg, memory>>
  BY DEF Load, DelayedLoad, Advance
<1>3. registers' \in [GPRegs -> Word] /\ registers'[0] = 0
  BY <1>2, AppliedIs DEF MachineInv, TypeOK
<1>4. instr.rt \in GPRegs /\ Next4 \in Word
  BY Fetched, Next4Is
<1>5. TypeOK'
  BY <1>1, <1>2, <1>3, <1>4 DEF MachineInv, TypeOK
<1>6. CodeOK'
  BY <1>2 DEF MachineInv, CodeOK
<1> QED
  BY <1>5, <1>6 DEF MachineInv

(* A store.                                                                  *)
LEMMA StoreKeeps ==
  ASSUME MachineInv, FetchOK, ~AddressError, Store
  PROVE  MachineInv'
<1>1. WithField(memory[Slot], StartBit, Bits8, Stored) \in Word
  BY Stores DEF Store
<1>2. memory' = [memory EXCEPT ![Slot] = WithField(memory[Slot], StartBit, Bits8, Stored)]
  BY DEF Store, WriteMem, Stored, StartBit
<1>3. HiReg' \in Word /\ LoReg' \in Word /\ registers \in [GPRegs -> Word]
  BY DEF MachineInv, TypeOK, Store
<1>4. memory' \in [0 .. MemoryWords - 1 -> Word]
  BY <1>1, <1>2 DEF MachineInv, TypeOK
<1>5. Complete(registers, Next4)
  BY DEF Store
<1> QED
  BY <1>3, <1>4, <1>5, Next4Is, CompleteKeeps

(* A system call.                                                            *)
LEMMA SyscallKeeps ==
  ASSUME MachineInv, FetchOK, Syscall
  PROVE  MachineInv'
<1>1. PICK v \in Results : registers' = [Applied(registers) EXCEPT ![V0] = v]
  BY DEF Syscall
<1>2. v \in Word /\ V0 \in GPRegs \ {0} /\ 0 \in GPRegs /\ 0 \in Word
  BY SmallWords, MipsAssumption DEF GPRegs
<1>3. Applied(registers) \in [GPRegs -> Word] /\ Applied(registers)[0] = 0
  BY AppliedIs DEF MachineInv, TypeOK
<1>4. registers' \in [GPRegs -> Word] /\ registers'[0] = 0
  BY <1>1, <1>2, <1>3
<1>5. TypeOK'
  BY <1>2, <1>4, Next4Is DEF MachineInv, TypeOK, Syscall
<1>6. CodeOK'
  BY DEF MachineInv, CodeOK, Syscall
<1> QED
  BY <1>5, <1>6 DEF MachineInv

(* An interrupt.                                                             *)
LEMMA InterruptKeeps ==
  ASSUME MachineInv, Interrupt
  PROVE  MachineInv'
<1>1. registers' \in [GPRegs -> Word] /\ registers'[0] = 0
  BY AppliedIs DEF MachineInv, TypeOK, Interrupt, DelayedLoad
<1>2. LoadReg' = 0 /\ LoadValueReg' = 0 /\ 0 \in GPRegs /\ 0 \in Word
  BY SmallWords, MipsAssumption DEF Interrupt, DelayedLoad, GPRegs
<1>3. UNCHANGED <<code, HiReg, LoReg, PCReg, NextPCReg, memory, exception, halted>>
  BY DEF Interrupt
<1>4. TypeOK'
  BY <1>1, <1>2, <1>3 DEF MachineInv, TypeOK
<1>5. CodeOK'
  BY <1>3 DEF MachineInv, CodeOK
<1> QED
  BY <1>4, <1>5 DEF MachineInv

(* A program starts in it.                                                   *)
LEMMA InitKeeps ==
  ASSUME Init
  PROVE  MachineInv
<1>1. PICK start \in Starts :
        code = start.code /\ registers = start.registers /\ memory = start.memory
  BY DEF Init
<1>2. CodeOK
  BY <1>1, MipsAssumption DEF CodeOK
<1>3. 0 \in Word /\ 4 \in Word /\ 0 \in GPRegs
  BY SmallWords, MipsAssumption DEF GPRegs
<1>4. TypeOK
  BY <1>1, <1>3, MipsAssumption DEF TypeOK, Init
<1> QED
  BY <1>2, <1>4 DEF MachineInv

(* An access to memory.                                                      *)
LEMMA AccessKeeps ==
  ASSUME MachineInv, FetchOK, Access
  PROVE  MachineInv'
  BY HaltKeeps, RaiseKeeps, LoadKeeps, StoreKeeps DEF Access

(* Every step keeps the invariant.                                           *)
LEMMA StepKeeps ==
  ASSUME MachineInv, [Next]_vars
  PROVE  MachineInv'
<1>1. CASE UNCHANGED vars
  BY <1>1 DEF MachineInv, TypeOK, CodeOK, vars
<1>2. CASE OneInstruction
  BY <1>2, RaiseKeeps, ComputeKeeps, MultiplyOrDivideKeeps, BranchKeeps, AccessKeeps,
     SyscallKeeps DEF OneInstruction
<1>3. CASE PageFault
  BY <1>3, RaiseKeeps DEF PageFault
<1>4. CASE Interrupt
  BY <1>4, InterruptKeeps
<1> QED
  BY <1>1, <1>2, <1>3, <1>4 DEF Next

(* Every state of every execution has the types of TypeOK and a code of decoded *)
(* instructions: a program starts so, and each instruction of OneInstruction, *)
(* each exception and each interrupt leaves it so.                           *)
THEOREM MachineInvariance == Spec => []MachineInv
<1>1. Init => MachineInv
  BY InitKeeps
<1>2. MachineInv /\ [Next]_vars => MachineInv'
  BY StepKeeps
<1> QED
  BY <1>1, <1>2, PTL DEF Spec

(* What OneInstruction, ReadMem and WriteMem put in a register or in memory is *)
(* always a word, and DelayedLoad keeps register 0 at zero, whatever is loaded. *)
THEOREM TypeCorrect == Spec => []TypeOK
<1>1. MachineInv => TypeOK
  BY DEF MachineInv
<1> QED
  BY <1>1, MachineInvariance, PTL

-------------------------------------------------------------------------------
(* The architecture.                                                         *)

(* Its words are those of the machine.                                       *)
LEMMA KaneWords ==
  /\ Kane!WordBits = WordBits /\ Kane!Word = Word /\ Kane!Half = HalfBits
  /\ \A x : Kane!Wrap(x) = Wrap(x)
  /\ \A x : Kane!Unsigned(x) = Unsigned(x)
  /\ \A x : Kane!Bits(x) = Bits(x)
<1>1. Kane!WordBits = WordBits
  BY DEF Kane!WordBits, WordBits
<1>2. Kane!Word = Word
  BY <1>1 DEF Kane!Word, Word
<1>3. Kane!Half = HalfBits
  BY <1>1 DEF Kane!Half, HalfBits
<1>4. /\ \A x : Kane!Wrap(x) = Wrap(x)
      /\ \A x : Kane!Unsigned(x) = Unsigned(x)
  BY <1>1 DEF Kane!Wrap, Wrap, Kane!Unsigned, Unsigned
<1>5. \A x : Kane!Bits(x) = Bits(x)
  BY <1>1 DEF Kane!Bits, Bits
<1> QED
  BY <1>1, <1>2, <1>3, <1>4, <1>5

(* So are its fields.                                                        *)
LEMMA KaneFields ==
  /\ \A x, k, n : Kane!Field(x, k, n) = Field(x, k, n)
  /\ \A x, k, n, v : Kane!WithField(x, k, n, v) = WithField(x, k, n, v)
  /\ \A v, n : Kane!SignExtended(v, n) = SignExtended(v, n)
<1>1. \A x, k, n : Kane!Field(x, k, n) = Field(x, k, n)
  BY DEF Kane!Field, Field
<1>2. ASSUME NEW x, NEW k, NEW n, NEW v
      PROVE  Kane!WithField(x, k, n, v) = WithField(x, k, n, v)
  BY <1>1, KaneWords DEF Kane!WithField, WithField
<1>3. ASSUME NEW n, NEW v
      PROVE  Kane!SignExtended(v, n) = SignExtended(v, n)
  BY <1>1 DEF Kane!SignExtended, SignExtended
<1> QED
  BY <1>1, <1>2, <1>3

(* And the word that has some bits.                                          *)
LEMMA KaneFromBits == Kane!FromBits = FromBits
<1>1. \A x : Kane!Bits(x) = Bits(x)
  BY KaneWords
<1>2. \A S : (CHOOSE x \in Kane!Word : Kane!Bits(x) = S) = (CHOOSE x \in Word : Bits(x) = S)
  BY KaneWords, Zenon
<1>3. Kane!FromBits
        = [S \in SUBSET (0 .. Kane!WordBits - 1) |-> CHOOSE x \in Kane!Word : Kane!Bits(x) = S]
  BY DEF Kane!FromBits
<1>4. FromBits = [S \in SUBSET (0 .. WordBits - 1) |-> CHOOSE x \in Word : Bits(x) = S]
  BY DEF FromBits
<1>5. Kane!WordBits = WordBits
  BY KaneWords
<1> QED
  BY <1>2, <1>3, <1>4, <1>5

(* The registers of the program: those of the machine once the load is applied *)
LEMMA GprIs ==
  ASSUME MachineInv
  PROVE  /\ gpr = Applied(registers) /\ gpr \in [GPRegs -> Word] /\ gpr[0] = 0
         /\ \A r \in GPRegs : gpr[r] = IF r = 0 THEN 0
                                       ELSE IF r = LoadReg THEN LoadValueReg ELSE registers[r]
         /\ LoadReg = 0 => gpr = registers
<1>1. /\ registers \in [GPRegs -> Word] /\ registers[0] = 0 /\ LoadReg \in GPRegs
      /\ LoadValueReg \in Word /\ 0 \in GPRegs
  BY MipsAssumption DEF MachineInv, TypeOK, GPRegs
<1>2. gpr = Applied(registers)
  BY DEF gpr, Applied
<1>3. gpr \in [GPRegs -> Word] /\ gpr[0] = 0
  BY <1>1, <1>2, AppliedIs
<1>4. \A r \in GPRegs : gpr[r] = IF r = 0 THEN 0
                                 ELSE IF r = LoadReg THEN LoadValueReg ELSE registers[r]
  BY <1>1 DEF gpr
<1>5. LoadReg = 0 => gpr = registers
  <2> SUFFICES ASSUME LoadReg = 0 PROVE gpr = registers
    OBVIOUS
  <2>1. \A r \in GPRegs : gpr[r] = registers[r]
    BY <1>1, <1>4
  <2>2. gpr = [r \in GPRegs |-> gpr[r]] /\ registers = [r \in GPRegs |-> registers[r]]
    BY <1>1, <1>3
  <2> QED BY <2>1, <2>2
<1> QED
  BY <1>2, <1>3, <1>4, <1>5

(* After a load that is applied and no other: a result is in its register.   *)
LEMMA GprAfter ==
  ASSUME MachineInv, NEW r \in GPRegs, NEW v \in Word, LoadReg # 0 => LoadReg # r
  PROVE  Applied(Written(r, v)) = [gpr EXCEPT ![r] = IF r = 0 THEN 0 ELSE v]
<1>1. /\ registers \in [GPRegs -> Word] /\ registers[0] = 0 /\ LoadReg \in GPRegs
      /\ LoadValueReg \in Word /\ 0 \in GPRegs
  BY MipsAssumption DEF MachineInv, TypeOK, GPRegs
<1>2. PICK f : f = Applied(Written(r, v))
  OBVIOUS
<1>3. f = [k \in GPRegs |-> IF k = 0 THEN 0 ELSE IF k = LoadReg THEN LoadValueReg
                            ELSE IF k = r THEN v ELSE registers[k]]
  BY <1>1, <1>2 DEF Applied, Written
<1>4. PICK g : g = [gpr EXCEPT ![r] = IF r = 0 THEN 0 ELSE v]
  OBVIOUS
<1>5. g = [k \in GPRegs |-> IF k = r THEN (IF r = 0 THEN 0 ELSE v) ELSE gpr[k]]
  BY <1>4, GprIs
<1>6. \A k \in GPRegs : f[k] = g[k]
  BY <1>3, <1>5, GprIs
<1> QED
  BY <1>2, <1>3, <1>4, <1>5, <1>6

(* And when there is no load to apply, the registers are the program's.      *)
LEMMA GprNext ==
  ASSUME MachineInv', NEW written, registers' = written, LoadReg' = 0
  PROVE  gpr' = written
<1>1. registers' \in [GPRegs -> Word] /\ registers'[0] = 0 /\ 0 \in GPRegs
  BY MipsAssumption DEF MachineInv, TypeOK, GPRegs
<1>2. gpr' = [registers' EXCEPT ![0] = LoadValueReg', ![0] = 0]
  BY DEF gpr
<1>3. \A k \in GPRegs : (gpr')[k] = registers'[k]
  BY <1>1, <1>2
<1>4. gpr' = [k \in GPRegs |-> (gpr')[k]]
  BY <1>1, <1>2
<1>5. registers' = [k \in GPRegs |-> registers'[k]]
  BY <1>1
<1> QED
  BY <1>3, <1>4, <1>5

(* The instruction and its operands are the same.                            *)
LEMMA KaneOperands ==
  ASSUME MachineInv
  PROVE  /\ Kane!InCode(PCReg) <=> FetchOK
         /\ Kane!i = instr
         /\ FetchOK /\ Scheduled => Kane!rs = rs
         /\ FetchOK /\ (LoadReg # 0 => LoadReg # instr.rt) => Kane!rt = rt
         /\ FetchOK /\ op \in ImmediateOps => Kane!extra = extra
<1>1. Kane!InCode(PCReg) <=> FetchOK
  BY KaneWords DEF Kane!InCode, FetchOK
<1>2. Kane!i = instr
  BY KaneWords DEF Kane!i, instr
<1>3. ASSUME NEW r \in GPRegs, LoadReg # 0 => LoadReg # r PROVE gpr[r] = registers[r]
  <2>1. registers[0] = 0
    BY DEF MachineInv, TypeOK
  <2> QED BY <1>3, <2>1, GprIs
<1>4. ASSUME FetchOK, Scheduled PROVE Kane!rs = rs
  <2>1. instr.rs \in GPRegs
    BY <1>4, Fetched
  <2>2. LoadReg # 0 => LoadReg # instr.rs
    BY <1>4 DEF Scheduled
  <2>3. gpr[instr.rs] = registers[instr.rs]
    BY <1>3, <2>1, <2>2
  <2> QED BY <1>2, <2>3 DEF Kane!rs, rs
<1>5. ASSUME FetchOK, LoadReg # 0 => LoadReg # instr.rt PROVE Kane!rt = rt
  <2>1. instr.rt \in GPRegs
    BY <1>5, Fetched
  <2>2. gpr[instr.rt] = registers[instr.rt]
    BY <1>3, <1>5, <2>1
  <2> QED BY <1>2, <2>2 DEF Kane!rt, rt
<1>6. ASSUME FetchOK, op \in ImmediateOps PROVE Kane!extra = extra
  <2>1. extra = SignExtended(instr.imm, HalfBits)
    BY <1>6, Immediates
  <2>2. Kane!SignExtended(instr.imm, HalfBits) = SignExtended(instr.imm, HalfBits)
    BY KaneFields
  <2>3. Kane!Half = HalfBits
    BY KaneWords
  <2> QED BY <1>2, <2>1, <2>2, <2>3 DEF Kane!extra
<1> QED
  BY <1>1, <1>2, <1>4, <1>5, <1>6

(* The architecture computes what the processor does.                        *)
LEMMA RdComputed ==
  ASSUME MachineInv, FetchOK, Scheduled, op \in RdOps
  PROVE  Kane!Wrap(Kane!Computed) = RdResult
<1>1. /\ rs \in Word /\ rt \in Word /\ rs \in Int /\ rt \in Int
      /\ HiReg \in Word /\ LoReg \in Word
  BY Operands
<1>2. Kane!i = instr /\ Kane!i.op = op
  BY KaneOperands DEF op
<1>3. Kane!rs = rs
  BY KaneOperands
<1>4. Kane!rt = rt
  <2>1. LoadReg # 0 => LoadReg # instr.rt
    BY DEF Scheduled, RdOps
  <2> QED BY <2>1, KaneOperands
<1>5. \A x : Kane!Wrap(x) = Wrap(x)
  BY KaneWords
<1>6. RdResult \in Word
  BY RdResultIsWord
<1>7. ASSUME Kane!Computed = RdResult PROVE Kane!Wrap(Kane!Computed) = RdResult
  BY <1>5, <1>6, <1>7, Halves
<1>8. CASE op \in {"ADD", "ADDU", "SUB", "SUBU"}
  BY <1>2, <1>3, <1>4, <1>5, <1>8 DEF RdResult, Kane!Computed
<1>9. CASE op \in {"AND", "XOR", "NOR"}
  <2>1. \A x : Kane!Bits(x) = Bits(x)
    BY KaneWords
  <2>2. CASE op = "AND"
    <3>1. Kane!Computed = Kane!BothBits(LAMBDA a, b : a \cap b, Kane!rt)
      BY <1>2, <2>2 DEF Kane!Computed
    <3>2. Kane!Computed = Kane!FromBits[Kane!Bits(Kane!rs) \cap Kane!Bits(Kane!rt)]
      BY <3>1 DEF Kane!BothBits
    <3>3. RdResult = FromBits[Bits(rs) \cap Bits(rt)]
      BY <2>2 DEF RdResult, And
    <3> QED BY <1>3, <1>4, <1>7, <2>1, <3>2, <3>3, KaneFromBits
  <2>3. CASE op = "XOR"
    <3>1. Kane!Computed = Kane!BothBits(LAMBDA a, b : (a \cup b) \ (a \cap b), Kane!rt)
      BY <1>2, <2>3 DEF Kane!Computed
    <3>2. Kane!Computed
            = Kane!FromBits[(Kane!Bits(Kane!rs) \cup Kane!Bits(Kane!rt))
                              \ (Kane!Bits(Kane!rs) \cap Kane!Bits(Kane!rt))]
      BY <3>1 DEF Kane!BothBits
    <3>3. RdResult = FromBits[(Bits(rs) \cup Bits(rt)) \ (Bits(rs) \cap Bits(rt))]
      BY <2>3 DEF RdResult, Xor
    <3> QED BY <1>3, <1>4, <1>7, <2>1, <3>2, <3>3, KaneFromBits
  <2>4. CASE op = "NOR"
    <3>1. Kane!Computed = -1 - Kane!BothBits(LAMBDA a, b : a \cup b, Kane!rt)
      BY <1>2, <2>4 DEF Kane!Computed
    <3>2. Kane!BothBits(LAMBDA a, b : a \cup b, Kane!rt)
            = Kane!FromBits[Kane!Bits(Kane!rs) \cup Kane!Bits(Kane!rt)]
      BY DEF Kane!BothBits
    <3>3. RdResult = -1 - FromBits[Bits(rs) \cup Bits(rt)]
      BY <2>4 DEF RdResult, BitOr, Not
    <3> QED BY <1>3, <1>4, <1>7, <2>1, <3>1, <3>2, <3>3, KaneFromBits
  <2> QED BY <1>9, <2>2, <2>3, <2>4
<1>10. CASE op = "OR"
  <2>1. Kane!Computed = rs
    BY <1>2, <1>3, <1>10 DEF Kane!Computed, Kane!Or
  <2>2. RdResult = FromBits[Bits(rs)]
    <3>1. Bits(rs) \cup Bits(rs) = Bits(rs)
      OBVIOUS
    <3> QED BY <1>10, <3>1 DEF RdResult, BitOr
  <2>3. FromBits[Bits(rs)] = Wrap(rs)
    BY <1>1, FromBitsIs
  <2> QED BY <1>5, <2>1, <2>2, <2>3
<1>11. Kane!Shift(Kane!rs) = Amount
  BY <1>3, KaneWords DEF Kane!Shift, Amount
<1>12. CASE op \in {"SLL", "SLLV"}
  BY <1>2, <1>4, <1>5, <1>11, <1>12 DEF RdResult, Kane!Computed, Left
<1>13. CASE op \in {"SRA", "SRAV"}
  <2>1. Kane!Computed = RdResult
    BY <1>2, <1>4, <1>11, <1>13 DEF RdResult, Kane!Computed, Right
  <2> QED BY <1>7, <2>1
<1>14. CASE op \in {"SRL", "SRLV"}
  <2>1. PICK n \in Nat : n = IF op = "SRL" THEN instr.imm ELSE Amount
    BY <1>14, Amounts DEF ShiftOps
  <2>2. Kane!Computed = Kane!ShiftRightLogical(rt, n)
    BY <1>2, <1>4, <1>11, <1>14, <2>1 DEF Kane!Computed
  <2>3. RdResult = Right(rt, n)
    BY <1>14, <2>1 DEF RdResult, ShiftedTmp
  <2>4. Kane!Unsigned(rt) = Unsigned(rt)
    BY KaneWords
  <2>5. CASE rt >= 0
    <3>1. Kane!Computed = RdResult
      BY <1>1, <2>2, <2>3, <2>4, <2>5, Halves DEF Kane!ShiftRightLogical, Right
    <3> QED BY <1>7, <3>1
  <2>6. CASE n = 0
    <3>1. 2 ^ 0 = 1 /\ rt \div 1 = rt
      BY <1>1
    <3>2. PICK u \in Int : u = Unsigned(rt)
      BY <1>1, Halves
    <3>3. u \div 1 = u
      OBVIOUS
    <3>4. Kane!Computed = u
      BY <2>2, <2>4, <2>6, <3>1, <3>2, <3>3 DEF Kane!ShiftRightLogical
    <3>5. RdResult = rt
      BY <2>3, <2>6, <3>1 DEF Right
    <3>6. Wrap(u) = rt
      BY <1>1, <3>2, WrapOnce, Halves
    <3> QED BY <1>5, <3>4, <3>5, <3>6
  <2>7. CASE ~(rt >= 0 \/ n = 0)
    <3>1. Kane!Computed = RdResult
      BY <2>2, <2>3, <2>7 DEF Kane!ShiftRightLogical, Right
    <3> QED BY <1>7, <3>1
  <2> QED BY <2>5, <2>6, <2>7
<1>15. CASE op \in {"SLT", "SLTU"}
  <2>1. Kane!Unsigned(rs) = Unsigned(rs) /\ Kane!Unsigned(rt) = Unsigned(rt)
    BY KaneWords
  <2>2. Kane!Computed = RdResult
    BY <1>2, <1>3, <1>4, <1>15, <2>1 DEF RdResult, Kane!Computed, Kane!Flag, Bool
  <2> QED BY <1>7, <2>2
<1>16. CASE op \in {"MFHI", "MFLO"}
  <2>1. Kane!Computed = RdResult
    BY <1>2, <1>16 DEF RdResult, Kane!Computed
  <2> QED BY <1>7, <2>1
<1> QED
  BY <1>8, <1>9, <1>10, <1>12, <1>13, <1>14, <1>15, <1>16 DEF RdOps

(* For an immediate operand too.                                             *)
LEMMA RtComputed ==
  ASSUME MachineInv, FetchOK, Scheduled, op \in RtOps
  PROVE  Kane!Wrap(Kane!Computed) = RtResult
<1>i. op \in ImmediateOps
  BY DEF RtOps, ImmediateOps
<1>1. /\ rs \in Word /\ rs \in Int /\ extra \in Word /\ extra \in Int
      /\ instr.imm \in 0 .. 2 ^ HalfBits - 1 /\ And(extra, Mask(HalfBits)) = instr.imm
      /\ extra = DecodedImmediate(instr.imm)
  BY <1>i, Operands, Immediates
<1>2. Kane!i = instr /\ Kane!i.op = op
  BY KaneOperands DEF op
<1>3. Kane!rs = rs /\ Kane!extra = extra
  BY <1>i, KaneOperands
<1>5. \A x : Kane!Wrap(x) = Wrap(x)
  BY KaneWords
<1>6. RtResult \in Word
  BY RtResultIsWord
<1>7. ASSUME Kane!Computed = RtResult PROVE Kane!Wrap(Kane!Computed) = RtResult
  BY <1>5, <1>6, <1>7, Halves
<1>8. CASE op \in {"ADDI", "ADDIU"}
  BY <1>2, <1>3, <1>5, <1>8 DEF RtResult, Kane!Computed
<1>9. CASE op \in {"ANDI", "ORI", "XORI"}
  <2>1. \A x : Kane!Bits(x) = Bits(x)
    BY KaneWords
  <2>2. CASE op = "ANDI"
    <3>1. Kane!Computed = Kane!BothBits(LAMBDA a, b : a \cap b, instr.imm)
      BY <1>2, <2>2 DEF Kane!Computed
    <3>2. Kane!Computed = Kane!FromBits[Kane!Bits(Kane!rs) \cap Kane!Bits(instr.imm)]
      BY <3>1 DEF Kane!BothBits
    <3>3. RtResult = FromBits[Bits(rs) \cap Bits(instr.imm)]
      BY <1>1, <2>2 DEF RtResult, And
    <3> QED BY <1>3, <1>7, <2>1, <3>2, <3>3, KaneFromBits
  <2>3. CASE op = "XORI"
    <3>1. Kane!Computed = Kane!BothBits(LAMBDA a, b : (a \cup b) \ (a \cap b), instr.imm)
      BY <1>2, <2>3 DEF Kane!Computed
    <3>2. Kane!Computed
            = Kane!FromBits[(Kane!Bits(Kane!rs) \cup Kane!Bits(instr.imm))
                              \ (Kane!Bits(Kane!rs) \cap Kane!Bits(instr.imm))]
      BY <3>1 DEF Kane!BothBits
    <3>3. RtResult
            = FromBits[(Bits(rs) \cup Bits(instr.imm)) \ (Bits(rs) \cap Bits(instr.imm))]
      BY <1>1, <2>3 DEF RtResult, Xor
    <3> QED BY <1>3, <1>7, <2>1, <3>2, <3>3, KaneFromBits
  <2>4. CASE op = "ORI"
    <3>1. Kane!Computed = Kane!BothBits(LAMBDA a, b : a \cup b, instr.imm)
      BY <1>2, <2>4 DEF Kane!Computed
    <3>2. Kane!Computed = Kane!FromBits[Kane!Bits(Kane!rs) \cup Kane!Bits(instr.imm)]
      BY <3>1 DEF Kane!BothBits
    <3>3. RtResult = FromBits[Bits(rs) \cup Bits(instr.imm)]
      BY <1>1, <2>4 DEF RtResult, BitOr
    <3> QED BY <1>3, <1>7, <2>1, <3>2, <3>3, KaneFromBits
  <2> QED BY <1>9, <2>2, <2>3, <2>4
<1>10. CASE op = "LUI"
  <2>1. Left(DecodedImmediate(instr.imm), HalfBits) = Wrap(instr.imm * 2 ^ HalfBits)
    BY <1>1, UpperImmediate
  <2>2. Kane!Computed = instr.imm * 2 ^ HalfBits
    BY <1>2, <1>10, KaneWords DEF Kane!Computed
  <2>3. RtResult = Left(extra, HalfBits)
    BY <1>10 DEF RtResult
  <2> QED BY <1>1, <1>5, <2>1, <2>2, <2>3
<1>11. CASE op \in {"SLTI", "SLTIU"}
  <2>1. Kane!Unsigned(rs) = Unsigned(rs) /\ Kane!Unsigned(extra) = Unsigned(extra)
    BY KaneWords
  <2>2. Kane!Computed = RtResult
    BY <1>2, <1>3, <1>11, <2>1 DEF RtResult, Kane!Computed, Kane!Flag, Bool
  <2> QED BY <1>7, <2>2
<1> QED
  BY <1>8, <1>9, <1>10, <1>11 DEF RtOps

(* The carry into the sign: the sum is not a word.                           *)
LEMMA SumOverflows ==
  ASSUME NEW x \in Word, NEW y \in Word
  PROVE  /\ OverflowsSum(x, y, Wrap(x + y)) <=> x + y \notin Word
         /\ Sign(x) # Sign(y) /\ Sign(x) # Sign(Wrap(x - y)) <=> x - y \notin Word
<1>1. PICK h \in Nat \ {0} : h = Sign2 /\ Modulus = 2 * h
  BY WordSize
<1>2. x \in Int /\ x >= -h /\ x < h /\ y \in Int /\ y >= -h /\ y < h
  BY <1>1, Halves
<1>3. ASSUME NEW z \in Int, -2 * h <= z, z < 2 * h
      PROVE  /\ z \in Word <=> (z >= -h /\ z < h)
             /\ z \in Word => Wrap(z) = z
             /\ z >= h => Wrap(z) = z - 2 * h
             /\ z < -h => Wrap(z) = z + 2 * h
  <2>1. -Modulus <= z /\ z < Modulus
    BY <1>1, <1>3
  <2>2. Wrap(z) = IF z >= Sign2 THEN z - Modulus
                  ELSE IF z < -Sign2 THEN z + Modulus ELSE z
    BY <2>1, WrapNear
  <2>3. z \in Word <=> (z >= -h /\ z < h)
    BY <1>1, WordIs
  <2> QED BY <1>1, <2>2, <2>3
<1>4. PICK s \in Int : s = x + y
  BY <1>2
<1>5. PICK t \in Int : t = x - y
  BY <1>2
<1>6. OverflowsSum(x, y, Wrap(s)) <=> s \notin Word
  <2>1. -2 * h <= s /\ s < 2 * h
    BY <1>2, <1>4
  <2>2. CASE s >= h
    BY <1>2, <1>3, <1>4, <2>1, <2>2 DEF OverflowsSum, Sign
  <2>3. CASE s < -h
    BY <1>2, <1>3, <1>4, <2>1, <2>3 DEF OverflowsSum, Sign
  <2>4. CASE s >= -h /\ s < h
    BY <1>2, <1>3, <1>4, <2>1, <2>4 DEF OverflowsSum, Sign
  <2> QED BY <2>2, <2>3, <2>4
<1>7. Sign(x) # Sign(y) /\ Sign(x) # Sign(Wrap(t)) <=> t \notin Word
  <2>1. -2 * h <= t /\ t < 2 * h
    BY <1>2, <1>5
  <2>2. CASE t >= h
    BY <1>2, <1>3, <1>5, <2>1, <2>2 DEF Sign
  <2>3. CASE t < -h
    BY <1>2, <1>3, <1>5, <2>1, <2>3 DEF Sign
  <2>4. CASE t >= -h /\ t < h
    BY <1>2, <1>3, <1>5, <2>1, <2>4 DEF Sign
  <2> QED BY <2>2, <2>3, <2>4
<1> QED
  BY <1>4, <1>5, <1>6, <1>7

(* ADD, ADDI and SUB raise an overflow exception, after OneInstruction has   *)
(* compared the three signs, exactly when the exact result is not a word.    *)
THEOREM OverflowIs ==
  ASSUME MachineInv, FetchOK, Scheduled
  PROVE  Overflows <=> (op \in Kane!Trapping /\ Kane!Computed \notin Kane!Word)
<1>1. rs \in Word /\ rt \in Word /\ rs \in Int /\ rt \in Int
  BY Operands
<1>2. Kane!i = instr /\ Kane!i.op = op /\ Kane!rs = rs /\ Kane!Word = Word
  BY KaneOperands, KaneWords DEF op
<1>3. CASE op = "ADD"
  <2>1. LoadReg # 0 => LoadReg # instr.rt
    BY <1>3 DEF Scheduled
  <2>2. Kane!Computed = rs + rt
    BY <1>2, <1>3, <2>1, KaneOperands DEF Kane!Computed
  <2> QED BY <1>1, <1>2, <1>3, <2>2, SumOverflows DEF Overflows, Kane!Trapping
<1>4. CASE op = "SUB"
  <2>1. LoadReg # 0 => LoadReg # instr.rt
    BY <1>4 DEF Scheduled
  <2>2. Kane!Computed = rs - rt
    BY <1>2, <1>4, <2>1, KaneOperands DEF Kane!Computed
  <2> QED BY <1>1, <1>2, <1>4, <2>2, SumOverflows DEF Overflows, Kane!Trapping
<1>5. CASE op = "ADDI"
  <2>1. op \in ImmediateOps
    BY <1>5 DEF ImmediateOps
  <2>2. extra \in Word /\ extra \in Int /\ Kane!extra = extra
    BY <2>1, Immediates, KaneOperands
  <2>3. Kane!Computed = rs + extra
    BY <1>2, <1>5, <2>2 DEF Kane!Computed
  <2>4. rs + extra = extra + rs
    BY <1>1, <2>2
  <2>5. OverflowsSum(extra, rs, Wrap(extra + rs)) <=> extra + rs \notin Word
    BY <1>1, <2>2, SumOverflows
  <2> QED BY <1>2, <1>5, <2>3, <2>4, <2>5 DEF Overflows, Kane!Trapping
<1>6. CASE op \notin {"ADD", "SUB", "ADDI"}
  BY <1>6 DEF Overflows, Kane!Trapping
<1> QED
  BY <1>3, <1>4, <1>5, <1>6

-------------------------------------------------------------------------------
(* Every step is one of the architecture's.                                  *)

(* The sizes of the accesses are the same.                                   *)
LEMMA KaneSizes ==
  /\ Kane!MemoryOps = MemoryInstructions
  /\ op \in MemoryInstructions => Kane!Sizes[op] = Size
<1>1. Kane!MemoryOps = MemoryInstructions
  BY DEF Kane!MemoryOps, Kane!Sizes, MemoryInstructions
<1>2. ASSUME op \in MemoryInstructions PROVE Kane!Sizes[op] = Size
  BY <1>2 DEF Kane!Sizes, MemoryInstructions, Size
<1> QED
  BY <1>1, <1>2

(* Which of its steps executes an instruction.                               *)
LEMMA ExecuteIs ==
  ASSUME MachineInv, FetchOK, exception' = "none", code' = code
  PROVE  /\ op \in Branches /\ Kane!Branch => Kane!Next
         /\ op \in Kane!HiLo /\ Kane!MultiplyOrDivide => Kane!Next
         /\ op \in MemoryInstructions /\ Kane!Access => Kane!Next
         /\ op \in RdOps \cup RtOps /\ Kane!Compute => Kane!Next
<1>1. Kane!InCode(PCReg) /\ Kane!i.op = op
  BY KaneOperands DEF op
<1>2. Kane!Branches = Branches
  BY DEF Kane!Branches, Branches, Links
<1>3. Kane!MemoryOps = MemoryInstructions
  BY KaneSizes
<1>4. ASSUME CASE op \in Branches -> Kane!Branch
               [] op \in Kane!HiLo -> Kane!MultiplyOrDivide
               [] op \in MemoryInstructions -> Kane!Access
               [] op \in {"SYSCALL", "RES"} -> FALSE
               [] OTHER -> Kane!Compute
      PROVE  Kane!Next
  <2>1. Kane!Execute
    BY <1>1, <1>2, <1>3, <1>4 DEF Kane!Execute
  <2> QED BY <2>1 DEF Kane!Next
<1>5. ASSUME op \in Branches, Kane!Branch PROVE Kane!Next
  BY <1>4, <1>5 DEF Branches, Links, Kane!HiLo, MemoryInstructions
<1>6. ASSUME op \in Kane!HiLo, Kane!MultiplyOrDivide PROVE Kane!Next
  BY <1>4, <1>6 DEF Branches, Links, Kane!HiLo, MemoryInstructions
<1>7. ASSUME op \in MemoryInstructions, Kane!Access PROVE Kane!Next
  BY <1>4, <1>7 DEF Branches, Links, Kane!HiLo, MemoryInstructions
<1>8. ASSUME op \in RdOps \cup RtOps, Kane!Compute PROVE Kane!Next
  BY <1>4, <1>8 DEF Branches, Links, Kane!HiLo, MemoryInstructions, RdOps, RtOps
<1> QED
  BY <1>5, <1>6, <1>7, <1>8

(* A load that is applied changes no register of the program.                *)
LEMMA GprKept ==
  ASSUME MachineInv, MachineInv', registers' = Applied(registers), LoadReg' = 0
  PROVE  gpr' = gpr
<1>1. gpr' = Applied(registers)
  BY GprNext
<1> QED
  BY <1>1, GprIs

(* An exception is a trap.                                                   *)
LEMMA RaiseIsTrap ==
  ASSUME MachineInv, MachineInv', NEW which, RaiseException(which),
         \/ which = "PageFault"
         \/ which = "AddressError" /\ ~FetchOK
         \/ /\ FetchOK
            /\ \/ which = "AddressError" /\ op \in Kane!MemoryOps
                    /\ ~Kane!InMemory(Kane!Sizes[op])
               \/ which = "Overflow" /\ op \in Kane!Trapping /\ Kane!Computed \notin Kane!Word
               \/ which = "IllegalInstr" /\ op = "RES"
  PROVE  Kane!Next
<1>1. gpr' = gpr
  BY GprKept DEF RaiseException, DelayedLoad
<1>2. /\ exception' = which
      /\ UNCHANGED <<code, HiReg, LoReg, PCReg, NextPCReg, memory>>
  BY DEF RaiseException
<1>3. Kane!i.op = op /\ (Kane!InCode(PCReg) <=> FetchOK)
  BY KaneOperands DEF op
<1>4. Kane!Trap
  BY <1>1, <1>2, <1>3 DEF Kane!Trap
<1> QED
  BY <1>4 DEF Kane!Next

(* A step after which the architecture is at the next instruction.           *)
LEMMA GoesOn ==
  ASSUME PCReg' = NextPCReg, NextPCReg' = Next4
  PROVE  Kane!GoOn
  BY KaneWords DEF Kane!GoOn, Next4

(* A result in rd or rt.                                                     *)
LEMMA ComputeIs ==
  ASSUME MachineInv, MachineInv', FetchOK, Scheduled, Compute
  PROVE  Kane!Next
<1>1. CASE Overflows /\ RaiseException("Overflow")
  <2>1. op \in Kane!Trapping /\ Kane!Computed \notin Kane!Word
    BY <1>1, OverflowIs
  <2> QED BY <1>1, <2>1, RaiseIsTrap
<1>2. ASSUME ~Overflows, NEW r \in GPRegs, NEW v \in Word, Complete(Written(r, v), Next4),
             UNCHANGED <<HiReg, LoReg, memory>>,
             LoadReg # 0 => LoadReg # r, op \in RdOps \cup RtOps,
             r = IF op \in Kane!Immediate THEN instr.rt ELSE instr.rd,
             v = Kane!Wrap(Kane!Computed)
      PROVE  Kane!Next
  <2>1. gpr' = Applied(Written(r, v))
    BY <1>2, GprNext DEF Complete, DelayedLoad
  <2>2. gpr' = [gpr EXCEPT ![r] = IF r = 0 THEN 0 ELSE v]
    BY <1>2, <2>1, GprAfter
  <2>3. Kane!i = instr /\ Kane!i.op = op
    BY KaneOperands DEF op
  <2>4. Kane!Register(IF Kane!i.op \in Kane!Immediate THEN Kane!i.rt ELSE Kane!i.rd,
                      Kane!Wrap(Kane!Computed))
    BY <1>2, <2>2, <2>3 DEF Kane!Register
  <2>5. Kane!GoOn /\ exception' = "none" /\ code' = code
    BY <1>2, GoesOn DEF Complete, Advance
  <2>6. op \in Kane!Trapping => Kane!Computed \in Kane!Word
    BY <1>2, OverflowIs
  <2>7. Kane!Compute
    BY <1>2, <2>3, <2>4, <2>5, <2>6 DEF Kane!Compute
  <2> QED BY <1>2, <2>5, <2>7, ExecuteIs
<1>3. CASE /\ ~Overflows /\ op \in RdOps /\ Complete(Written(instr.rd, RdResult), Next4)
           /\ UNCHANGED <<HiReg, LoReg, memory>>
  <2>1. RdResult \in Word /\ instr.rd \in GPRegs
    BY <1>3, RdResultIsWord, Fetched
  <2>2. RdResult = Kane!Wrap(Kane!Computed)
    BY <1>3, RdComputed
  <2>3. LoadReg # 0 => LoadReg # instr.rd
    BY DEF Scheduled
  <2>4. op \notin Kane!Immediate
    BY <1>3 DEF RdOps, Kane!Immediate
  <2> QED BY <1>2, <1>3, <2>1, <2>2, <2>3, <2>4
<1>4. CASE /\ ~Overflows /\ op \in RtOps /\ Complete(Written(instr.rt, RtResult), Next4)
           /\ UNCHANGED <<HiReg, LoReg, memory>>
  <2>1. RtResult \in Word /\ instr.rt \in GPRegs
    BY <1>4, RtResultIsWord, Fetched
  <2>2. RtResult = Kane!Wrap(Kane!Computed)
    BY <1>4, RtComputed
  <2>3. LoadReg # 0 => LoadReg # instr.rt
    BY <1>4 DEF Scheduled, RtOps
  <2>4. op \in Kane!Immediate
    BY <1>4 DEF RtOps, Kane!Immediate
  <2> QED BY <1>2, <1>4, <2>1, <2>2, <2>3, <2>4
<1> QED
  BY <1>1, <1>3, <1>4 DEF Compute

(* A product or a quotient in the registers HI and LO.                       *)
LEMMA MultiplyOrDivideIs ==
  ASSUME MachineInv, MachineInv', FetchOK, Scheduled, MultiplyOrDivide
  PROVE  Kane!Next \/ UNCHANGED Kane!vars
<1>1. CASE Halt
  <2>1. UNCHANGED gpr
    BY <1>1 DEF Halt, gpr
  <2> QED BY <1>1, <2>1 DEF Halt, Kane!vars
<1>2. CASE /\ ~HostTraps
           /\ HiReg' = HiLoResult.hi /\ LoReg' = HiLoResult.lo
           /\ Complete(registers, Next4)
           /\ UNCHANGED memory
  <2>1. gpr' = gpr
    BY <1>2, GprKept DEF Complete, DelayedLoad
  <2>2. Kane!GoOn /\ exception' = "none" /\ code' = code
    BY <1>2, GoesOn DEF Complete, Advance
  <2>3. op \in Kane!HiLo
    BY DEF MultiplyOrDivide, Kane!HiLo
  <2>4. HiReg' \in Word /\ LoReg' \in Word
    BY <1>2, HiLoAreWords DEF MultiplyOrDivide
  <2>5. rs \in Word /\ rt \in Word /\ rs \in Int /\ rt \in Int
    BY Operands
  <2>6. Kane!i.op = op /\ Kane!rs = rs
    BY KaneOperands DEF op
  <2>7. LoadReg = instr.rt => LoadReg = 0
    BY <2>3 DEF Scheduled, Kane!HiLo
  <2>8. Kane!rt = rt
    BY <2>7, KaneOperands
  <2>9. Modulus = 2 ^ Kane!WordBits
    BY KaneWords DEF Modulus
  <2>10. \A x : Kane!Unsigned(x) = Unsigned(x)
    BY KaneWords
  <2>11. ASSUME \/ op = "MULT" /\ HiReg' * Modulus + Unsigned(LoReg') = rs * rt
                \/ /\ op = "MULTU"
                   /\ Unsigned(HiReg') * Modulus + Unsigned(LoReg') = Unsigned(rs) * Unsigned(rt)
                \/ op = "DIV" /\ Kane!Divided(rs, rt, LoReg', HiReg')
                \/ /\ op = "DIVU"
                   /\ Kane!Divided(Unsigned(rs), Unsigned(rt), Unsigned(LoReg'), Unsigned(HiReg'))
                \/ op = "MTHI" /\ HiReg' = rs /\ LoReg' = LoReg
                \/ op = "MTLO" /\ LoReg' = rs /\ HiReg' = HiReg
         PROVE  Kane!Next
    <3>1. Kane!MultiplyOrDivide
      BY <1>2, <2>1, <2>2, <2>4, <2>6, <2>8, <2>9, <2>10, <2>11, KaneWords DEF Kane!MultiplyOrDivide
    <3> QED BY <2>2, <2>3, <3>1, ExecuteIs
  <2>12. CASE op = "MULT"
    <3>1. Product64(Mult(rs, rt, TRUE), rs * rt)
      BY <2>5, MultSigned
    <3>2. HiLoResult = Mult(rs, rt, TRUE)
      BY <2>12 DEF HiLoResult
    <3> QED BY <1>2, <2>11, <2>12, <3>1, <3>2 DEF Product64
  <2>13. CASE op = "MULTU"
    <3>1. ProductU(Mult(rs, rt, FALSE), Unsigned(rs) * Unsigned(rt))
      BY <2>5, MultUnsigned
    <3>2. HiLoResult = Mult(rs, rt, FALSE)
      BY <2>13 DEF HiLoResult
    <3> QED BY <1>2, <2>11, <2>13, <3>1, <3>2 DEF ProductU
  <2>14. CASE op = "DIV"
    <3>1. HiLoResult = Divide(rs, rt)
      BY <2>14 DEF HiLoResult
    <3>2. CASE rt = 0
      BY <1>2, <2>11, <2>14, <3>1, <3>2 DEF Divide, Kane!Divided
    <3>3. CASE rt # 0
      <4>1. ~(rt = -1 /\ Wrap(-rs) = rs /\ rs # 0)
        BY <1>2, <2>14 DEF HostTraps
      <4>2. Quotients(rs, rt, LoReg', HiReg')
        BY <1>2, <2>5, <3>1, <3>3, <4>1, DivideSigned
      <4>3. Kane!Divided(rs, rt, LoReg', HiReg')
        BY <3>3, <4>2 DEF Quotients, Abs, Kane!Divided
      <4> QED BY <2>11, <2>14, <4>3
    <3> QED BY <3>2, <3>3
  <2>15. CASE op = "DIVU"
    <3>1. HiLoResult = Divide(Unsigned(rs), Unsigned(rt))
      BY <2>15 DEF HiLoResult
    <3>2. PICK a \in 0 .. Modulus - 1 : a = Unsigned(rs)
      BY <2>5, Halves
    <3>3. PICK b \in 0 .. Modulus - 1 : b = Unsigned(rt)
      BY <2>5, Halves
    <3>4. CASE b = 0
      <4>1. LoReg' = 0 /\ HiReg' = 0
        BY <1>2, <3>1, <3>3, <3>4 DEF Divide
      <4>2. Unsigned(0) = 0
        BY SmallWords, Halves
      <4>3. Kane!Divided(a, b, Unsigned(LoReg'), Unsigned(HiReg'))
        BY <3>4, <4>1, <4>2 DEF Kane!Divided
      <4> QED BY <2>11, <2>15, <3>2, <3>3, <4>3
    <3>5. CASE b # 0
      <4>1. LoReg' = Divide(a, b).lo /\ HiReg' = Divide(a, b).hi
        BY <1>2, <3>1, <3>2, <3>3
      <4>2. PICK q \in Int : q = Unsigned(LoReg')
        BY <3>5, <4>1, DivideUnsigned
      <4>3. PICK r \in Int : r = Unsigned(HiReg')
        BY <3>5, <4>1, DivideUnsigned
      <4>4. a = q * b + r /\ r >= 0 /\ r < b
        BY <3>5, <4>1, <4>2, <4>3, DivideUnsigned
      <4>5. a >= 0 /\ b > 0
        BY <3>5, WordSize
      <4>6. Kane!Divided(a, b, q, r)
        BY <3>5, <4>4, <4>5 DEF Kane!Divided
      <4> QED BY <2>11, <2>15, <3>2, <3>3, <4>2, <4>3, <4>6
    <3> QED BY <3>4, <3>5
  <2>16. CASE op = "MTHI"
    BY <1>2, <2>11, <2>16 DEF HiLoResult
  <2>17. CASE op = "MTLO"
    BY <1>2, <2>11, <2>17 DEF HiLoResult
  <2> QED BY <2>12, <2>13, <2>14, <2>15, <2>16, <2>17 DEF MultiplyOrDivide
<1> QED
  BY <1>1, <1>2 DEF MultiplyOrDivide

(* An index of instructions is one of four bytes.                            *)
LEMMA IndexIs ==
  ASSUME NEW n \in Int
  PROVE  IndexToAddr(n) = Wrap(4 * n) /\ 4 * n \in Int
<1>1. 2 ^ 0 = 1
  OBVIOUS
<1>2. 2 ^ (0 + 1) = 2
  BY <1>1, PowerDoubles
<1>3. 2 ^ (1 + 1) = 2 * 2 ^ 1
  BY PowerDoubles
<1>4. 2 ^ 2 = 4
  BY <1>2, <1>3
<1>5. n * 4 = 4 * n
  OBVIOUS
<1> QED
  BY <1>4, <1>5 DEF IndexToAddr, Left

(* Two numbers that are cut before they are added.                           *)
LEMMA WrapBoth ==
  ASSUME NEW x \in Int, NEW y \in Int
  PROVE  Wrap(Wrap(x) + Wrap(y)) = Wrap(x + y)
<1>1. PICK w \in Int : w = Wrap(y)
  BY WrapOnce
<1>2. PICK z \in Int : z = Wrap(x)
  BY WrapOnce
<1>3. Wrap(z + w) = Wrap(x + w)
  BY <1>2, WrapTwice
<1>4. x + w = w + x /\ x + y = y + x
  OBVIOUS
<1>5. Wrap(w + x) = Wrap(y + x)
  BY <1>1, WrapTwice
<1> QED
  BY <1>1, <1>2, <1>3, <1>4, <1>5

(* Where a branch goes.                                                      *)
LEMMA TargetIs ==
  ASSUME MachineInv, FetchOK, Scheduled, op \in Branches
  PROVE  Kane!Target = PcAfter /\ Next4 = Wrap(PCReg + 8)
<1>1. Kane!i = instr /\ Kane!i.op = op /\ Kane!rs = rs
  BY KaneOperands DEF op
<1>2. \A x : Kane!Wrap(x) = Wrap(x)
  BY KaneWords
<1>3. PICK p \in Int : p = PCReg
  BY Operands, Halves
<1>4. NextPCReg = Wrap(p + 4)
  BY <1>3 DEF Scheduled
<1>5. Next4 = Wrap(p + 8)
  <2>1. Wrap(Wrap(p + 4) + 4) = Wrap((p + 4) + 4)
    BY WrapTwice
  <2>2. (p + 4) + 4 = p + 8
    OBVIOUS
  <2> QED BY <1>4, <2>1, <2>2 DEF Next4
<1>6. CASE op \in {"J", "JAL"}
  <2>1. instr.imm \in Int
    BY <1>6, Fetched DEF Decoded, JumpOps
  <2>2. IndexToAddr(instr.imm) = Wrap(4 * instr.imm)
    BY <2>1, IndexIs
  <2>3. PcAfter = IndexToAddr(instr.imm)
    BY <1>6 DEF PcAfter
  <2>4. Kane!Target = Kane!Wrap(4 * instr.imm)
    BY <1>1, <1>6 DEF Kane!Target
  <2> QED BY <1>2, <1>3, <1>5, <2>2, <2>3, <2>4
<1>7. CASE op \in {"JR", "JALR"}
  <2>1. PcAfter = rs
    BY <1>7 DEF PcAfter
  <2>2. Kane!Target = rs
    BY <1>1, <1>7 DEF Kane!Target
  <2> QED BY <1>3, <1>5, <2>1, <2>2
<1>8. CASE op \notin {"J", "JAL", "JR", "JALR"}
  <2>1. op \in ImmediateOps
    BY <1>8 DEF Branches, Links, ImmediateOps
  <2>2. PICK e \in Int : e = extra /\ e = Kane!extra
    BY <2>1, Immediates, KaneOperands
  <2>3. rs \in Int /\ rt \in Int
    BY Operands
  <2>4. LoadReg # 0 => LoadReg # instr.rt
    BY DEF Scheduled, Branches, Links
  <2>5. Kane!rt = rt
    BY <2>4, KaneOperands
  <2>6. Kane!Taken <=> Taken
    BY <1>1, <2>3, <2>5 DEF Kane!Taken, Taken, Sign
  <2>7. Kane!Target = Kane!Wrap(p + 4 + (IF Kane!Taken THEN 4 * e ELSE 4))
    BY <1>1, <1>3, <1>8, <2>2 DEF Kane!Target
  <2>8. CASE Taken
    <3>1. PcAfter = Wrap(NextPCReg + IndexToAddr(e))
      BY <1>8, <2>2, <2>8 DEF PcAfter
    <3>2. PICK f \in Int : f = 4 * e /\ IndexToAddr(e) = Wrap(f)
      BY IndexIs
    <3>3. Wrap(Wrap(p + 4) + Wrap(f)) = Wrap((p + 4) + f)
      BY WrapBoth
    <3>4. Kane!Target = Wrap(p + 4 + f)
      BY <1>2, <2>6, <2>7, <2>8, <3>2
    <3> QED BY <1>3, <1>4, <1>5, <3>1, <3>2, <3>3, <3>4
  <2>9. CASE ~Taken
    <3>1. PcAfter = Wrap(p + 8)
      BY <1>5, <1>8, <2>9 DEF PcAfter
    <3>2. p + 4 + 4 = p + 8
      OBVIOUS
    <3>3. Kane!Target = Wrap(p + 4 + 4)
      BY <1>2, <2>6, <2>7, <2>9
    <3> QED BY <1>3, <1>5, <3>1, <3>2, <3>3
  <2> QED BY <2>8, <2>9
<1> QED
  BY <1>6, <1>7, <1>8

(* A branch.                                                                 *)
LEMMA BranchIs ==
  ASSUME MachineInv, MachineInv', FetchOK, Scheduled, Branch
  PROVE  Kane!Next
<1>1. op \in Branches
  BY DEF Branch
<1>2. /\ PCReg' = NextPCReg /\ NextPCReg' = PcAfter /\ exception' = "none" /\ code' = code
      /\ LoadReg' = 0 /\ UNCHANGED <<HiReg, LoReg, memory>>
      /\ registers' = Applied(IF op \in Links THEN Written(LinkReg, Next4) ELSE registers)
  BY DEF Branch, Complete, DelayedLoad, Advance
<1>3. Kane!Target = PcAfter /\ Next4 = Wrap(PCReg + 8) /\ Next4 \in Word
  BY <1>1, TargetIs, Next4Is
<1>4. Kane!i = instr /\ Kane!i.op = op
  BY KaneOperands DEF op
<1>5. op \notin Links => gpr' = gpr
  BY <1>2, GprKept
<1>6. op \in Links => Kane!Register(LinkReg, Kane!Wrap(PCReg + 8))
  <2> SUFFICES ASSUME op \in Links PROVE Kane!Register(LinkReg, Kane!Wrap(PCReg + 8))
    OBVIOUS
  <2>1. LinkReg \in GPRegs /\ (LoadReg # 0 => LoadReg # LinkReg)
    BY Fetched, MipsAssumption DEF LinkReg, Scheduled
  <2>2. gpr' = Applied(Written(LinkReg, Next4))
    BY <1>2, GprNext
  <2>3. gpr' = [gpr EXCEPT ![LinkReg] = IF LinkReg = 0 THEN 0 ELSE Next4]
    BY <1>3, <2>1, <2>2, GprAfter
  <2>4. Kane!Wrap(PCReg + 8) = Next4
    BY <1>3, KaneWords
  <2> QED BY <2>3, <2>4 DEF Kane!Register
<1>7. (CASE op \in {"BGEZAL", "BLTZAL", "JAL"} -> Kane!Register(R31, Kane!Wrap(PCReg + 8))
         [] op = "JALR" -> Kane!Register(instr.rd, Kane!Wrap(PCReg + 8))
         [] OTHER -> UNCHANGED gpr)
  <2>1. CASE op \in {"BGEZAL", "BLTZAL", "JAL"}
    <3>1. op \in Links /\ LinkReg = R31
      BY <2>1 DEF Links, LinkReg
    <3>2. Kane!Register(R31, Kane!Wrap(PCReg + 8))
      BY <1>6, <3>1
    <3> QED BY <2>1, <3>2
  <2>2. CASE op = "JALR"
    <3>1. op \in Links /\ LinkReg = instr.rd
      BY <2>2 DEF Links, LinkReg
    <3>2. Kane!Register(instr.rd, Kane!Wrap(PCReg + 8))
      BY <1>6, <3>1
    <3> QED BY <2>2, <3>2
  <2>3. CASE op \notin {"BGEZAL", "BLTZAL", "JAL", "JALR"}
    <3>1. gpr' = gpr
      BY <1>5, <2>3 DEF Links
    <3> QED BY <2>3, <3>1
  <2> QED BY <2>1, <2>2, <2>3
<1>8. Kane!Branch
  BY <1>2, <1>3, <1>4, <1>7 DEF Kane!Branch
<1> QED
  BY <1>1, <1>2, <1>8, ExecuteIs

(* The address of an access.                                                 *)
LEMMA AddressIs ==
  ASSUME MachineInv, FetchOK, Scheduled, op \in MemoryInstructions
  PROVE  /\ Kane!Address = Unsigned(tmp) /\ Kane!Here = Slot /\ Kane!FirstBit = StartBit
         /\ Kane!InMemory(Kane!Sizes[op]) <=> ~AddressError
<1>1. op \in ImmediateOps
  BY DEF MemoryInstructions, ImmediateOps
<1>2. Kane!rs = rs /\ Kane!extra = extra
  BY <1>1, KaneOperands
<1>3. PICK s \in Int : s = rs + extra /\ tmp = Wrap(s)
  BY Slots DEF tmp
<1>4. Unsigned(Wrap(s)) = Unsigned(s)
  BY WrapOnce
<1>5. Kane!Address = Unsigned(s)
  BY <1>2, <1>3, KaneWords DEF Kane!Address
<1>6. PICK a \in Nat : a = Unsigned(tmp) /\ a = Kane!Address
  BY <1>3, <1>4, <1>5, Slots
<1>7. Kane!Here = Slot /\ Kane!FirstBit = StartBit
  BY <1>6 DEF Kane!Here, Slot, Kane!FirstBit, StartBit
<1>8. Kane!Sizes[op] = Size
  BY KaneSizes
<1>9. PICK q \in Nat : q = a \div 4
  OBVIOUS
<1>10. Kane!InMemory(Size) <=> ~AddressError
  BY <1>6, <1>9, MipsAssumption DEF Kane!InMemory, AddressError
<1> QED
  BY <1>6, <1>7, <1>8, <1>10

(* What is in memory at the address.                                         *)
LEMMA LoadedIs ==
  ASSUME MachineInv, FetchOK, Scheduled, op \in MemoryInstructions
  PROVE  Kane!Loaded(Size) = Field(memory[Slot], StartBit, Bits8)
<1>1. Kane!Here = Slot /\ Kane!FirstBit = StartBit
  BY AddressIs
<1> QED
  BY <1>1, KaneFields DEF Kane!Loaded, Bits8

(* A load: its value is the program's at once.                               *)
LEMMA LoadIs ==
  ASSUME MachineInv, MachineInv', FetchOK, Scheduled, ~AddressError, Load
  PROVE  Kane!Next
<1>1. /\ registers' = Applied(registers) /\ LoadReg' = instr.rt /\ LoadValueReg' = nextLoadValue
      /\ PCReg' = NextPCReg /\ NextPCReg' = Next4 /\ exception' = "none" /\ code' = code
      /\ UNCHANGED <<HiReg, LoReg, memory>>
  BY DEF Load, DelayedLoad, Advance
<1>2. op \in {"LB", "LBU", "LH", "LHU", "LW", "LWL", "LWR"} /\ op \in MemoryInstructions
  BY DEF Load, MemoryInstructions
<1>3. instr.rt \in GPRegs /\ 0 \in GPRegs
  BY Fetched, Operands
<1>4. gpr \in [GPRegs -> Word] /\ gpr[0] = 0 /\ registers' = gpr
  BY <1>1, GprIs
<1>5. gpr' = [registers' EXCEPT ![instr.rt] = nextLoadValue, ![0] = 0]
  BY <1>1 DEF gpr
<1>6. gpr' = [gpr EXCEPT ![instr.rt] = IF instr.rt = 0 THEN 0 ELSE nextLoadValue]
  <2>1. PICK f : f = [gpr EXCEPT ![instr.rt] = nextLoadValue, ![0] = 0]
    OBVIOUS
  <2>2. PICK g : g = [gpr EXCEPT ![instr.rt] = IF instr.rt = 0 THEN 0 ELSE nextLoadValue]
    OBVIOUS
  <2>3. f = [k \in GPRegs |-> f[k]] /\ g = [k \in GPRegs |-> g[k]]
    BY <1>3, <1>4, <2>1, <2>2
  <2>4. \A k \in GPRegs : f[k] = g[k]
    BY <1>3, <1>4, <2>1, <2>2
  <2>5. f = g
    BY <2>3, <2>4
  <2> QED BY <1>4, <1>5, <2>1, <2>2, <2>5
<1>7. Kane!i = instr /\ Kane!i.op = op
  BY KaneOperands DEF op
<1>8. ASSUME NEW v, instr.rt = 0 \/ v = nextLoadValue
      PROVE  Kane!Load(v)
  <2>1. gpr' = [gpr EXCEPT ![instr.rt] = IF instr.rt = 0 THEN 0 ELSE v]
    BY <1>6, <1>8
  <2> QED BY <1>1, <1>7, <2>1 DEF Kane!Load, Kane!Register
<1>9. /\ Kane!Sizes[op] = Size /\ Kane!InMemory(Size) /\ Kane!Here = Slot
      /\ Kane!Loaded(Size) = Field(memory[Slot], StartBit, Bits8)
  BY <1>2, KaneSizes, AddressIs, LoadedIs
<1>10. op \in {"LB", "LH"} =>
         Kane!Load(Kane!SignExtended(Kane!Loaded(Size), Size * ByteBits))
  <2> SUFFICES ASSUME op \in {"LB", "LH"}
               PROVE  Kane!Load(Kane!SignExtended(Kane!Loaded(Size), Size * ByteBits))
    OBVIOUS
  <2>1. nextLoadValue = SignExtended(Field(memory[Slot], StartBit, Bits8), Bits8)
    BY PartLoads
  <2>2. Kane!SignExtended(Kane!Loaded(Size), Size * ByteBits) = nextLoadValue
    BY <1>9, <2>1, KaneFields DEF Bits8
  <2> QED BY <1>8, <2>2
<1>11. op \in {"LBU", "LHU"} => Kane!Load(Kane!Loaded(Size))
  <2> SUFFICES ASSUME op \in {"LBU", "LHU"} PROVE Kane!Load(Kane!Loaded(Size))
    OBVIOUS
  <2>1. nextLoadValue = Field(memory[Slot], StartBit, Bits8)
    BY PartLoads
  <2> QED BY <1>8, <1>9, <2>1
<1>12. op \in {"LW", "LWL"} => Kane!Load(memory[Kane!Here])
  <2> SUFFICES ASSUME op \in {"LW", "LWL"} PROVE Kane!Load(memory[Kane!Here])
    OBVIOUS
  <2>1. nextLoadValue = memory[Slot]
    BY WordLoads
  <2> QED BY <1>8, <1>9, <2>1
<1>13. op = "LWR" =>
         Kane!Load(Kane!WithField(Kane!rt, 0, ByteBits,
                                  Kane!Field(memory[Kane!Here], Kane!Top, ByteBits)))
  <2> SUFFICES ASSUME op = "LWR"
               PROVE  Kane!Load(Kane!WithField(Kane!rt, 0, ByteBits,
                                  Kane!Field(memory[Kane!Here], Kane!Top, ByteBits)))
    OBVIOUS
  <2>1. nextLoadValue
          = WithField(OldRt, 0, ByteBits, Field(memory[Slot], 3 * ByteBits, ByteBits))
    BY WordLoads
  <2>2. instr.rt = 0 \/ Kane!rt = OldRt
    BY <1>3, <1>7, GprIs DEF Kane!rt, OldRt, rt
  <2>3. Kane!Field(memory[Kane!Here], Kane!Top, ByteBits)
          = Field(memory[Slot], 3 * ByteBits, ByteBits)
    BY <1>9, KaneFields DEF Kane!Top
  <2>4. PICK f : f = Field(memory[Slot], 3 * ByteBits, ByteBits)
    OBVIOUS
  <2>5. instr.rt = 0 \/ Kane!WithField(Kane!rt, 0, ByteBits, f) = nextLoadValue
    BY <2>1, <2>2, <2>4, KaneFields
  <2> QED BY <1>8, <2>3, <2>4, <2>5
<1>14. Kane!Access
  <2>1. Kane!GoOn
    BY <1>1, GoesOn
  <2>2. (CASE op \in {"LB", "LH"} ->
                Kane!Load(Kane!SignExtended(Kane!Loaded(Size), Size * ByteBits))
           [] op \in {"LBU", "LHU"} -> Kane!Load(Kane!Loaded(Size))
           [] op \in {"LW", "LWL"} -> Kane!Load(memory[Kane!Here])
           [] op = "LWR" ->
                Kane!Load(Kane!WithField(Kane!rt, 0, ByteBits,
                                         Kane!Field(memory[Kane!Here], Kane!Top, ByteBits)))
           [] op = "SWR" -> Kane!StoreField(Kane!Top, ByteBits, Kane!rt)
           [] OTHER -> Kane!StoreField(Kane!FirstBit, Size * ByteBits, Kane!rt))
    BY <1>2, <1>10, <1>11, <1>12, <1>13
  <2> QED BY <1>1, <1>7, <1>9, <2>1, <2>2 DEF Kane!Access
<1> QED
  BY <1>1, <1>2, <1>14, ExecuteIs

(* A store.                                                                  *)
LEMMA StoreIs ==
  ASSUME MachineInv, MachineInv', FetchOK, Scheduled, ~AddressError, Store,
         op = "SWR" => Unsigned(tmp) % 4 = 0
  PROVE  Kane!Next
<1>1. /\ registers' = Applied(registers) /\ LoadReg' = 0
      /\ PCReg' = NextPCReg /\ NextPCReg' = Next4 /\ exception' = "none" /\ code' = code
      /\ UNCHANGED <<HiReg, LoReg>>
  BY DEF Store, Complete, DelayedLoad, Advance
<1>2. op \in {"SB", "SH", "SW", "SWL", "SWR"} /\ op \in MemoryInstructions
  BY DEF Store, MemoryInstructions
<1>3. gpr' = gpr
  BY <1>1, GprKept
<1>4. memory' = [memory EXCEPT ![Slot] = WithField(memory[Slot], StartBit, Bits8, Stored)]
  BY DEF Store, WriteMem, Stored, StartBit
<1>5. Kane!i = instr /\ Kane!i.op = op
  BY KaneOperands DEF op
<1>6. Kane!rt = rt
  <2>1. LoadReg # 0 => LoadReg # instr.rt
    BY <1>2 DEF Scheduled
  <2> QED BY <2>1, KaneOperands
<1>7. /\ Kane!Sizes[op] = Size /\ Kane!InMemory(Size) /\ Kane!Here = Slot
      /\ Kane!FirstBit = StartBit
  BY <1>2, KaneSizes, AddressIs
<1>8. op = "SWR" => Kane!StoreField(Kane!Top, ByteBits, Kane!rt)
  <2> SUFFICES ASSUME op = "SWR" PROVE Kane!StoreField(Kane!Top, ByteBits, Kane!rt)
    OBVIOUS
  <2>1. WithField(memory[Slot], StartBit, Bits8, Stored)
          = WithField(memory[Slot], 3 * ByteBits, ByteBits, rt)
    BY Stores
  <2>2. Kane!WithField(memory[Slot], Kane!Top, ByteBits, rt)
          = WithField(memory[Slot], 3 * ByteBits, ByteBits, rt)
    BY KaneFields DEF Kane!Top
  <2> QED BY <1>3, <1>4, <1>6, <1>7, <2>1, <2>2 DEF Kane!StoreField
<1>9. op # "SWR" => Kane!StoreField(Kane!FirstBit, Size * ByteBits, Kane!rt)
  <2> SUFFICES ASSUME op # "SWR"
               PROVE  Kane!StoreField(Kane!FirstBit, Size * ByteBits, Kane!rt)
    OBVIOUS
  <2>1. Stored = rt
    BY <1>2, Stores
  <2>2. Kane!WithField(memory[Slot], StartBit, Size * ByteBits, rt)
          = WithField(memory[Slot], StartBit, Bits8, rt)
    BY KaneFields DEF Bits8
  <2> QED BY <1>3, <1>4, <1>6, <1>7, <2>1, <2>2 DEF Kane!StoreField
<1>10. Kane!Access
  <2>1. Kane!GoOn
    BY <1>1, GoesOn
  <2>2. (CASE op \in {"LB", "LH"} ->
                Kane!Load(Kane!SignExtended(Kane!Loaded(Size), Size * ByteBits))
           [] op \in {"LBU", "LHU"} -> Kane!Load(Kane!Loaded(Size))
           [] op \in {"LW", "LWL"} -> Kane!Load(memory[Kane!Here])
           [] op = "LWR" ->
                Kane!Load(Kane!WithField(Kane!rt, 0, ByteBits,
                                         Kane!Field(memory[Kane!Here], Kane!Top, ByteBits)))
           [] op = "SWR" -> Kane!StoreField(Kane!Top, ByteBits, Kane!rt)
           [] OTHER -> Kane!StoreField(Kane!FirstBit, Size * ByteBits, Kane!rt))
    BY <1>2, <1>8, <1>9
  <2> QED BY <1>1, <1>5, <1>7, <2>1, <2>2 DEF Kane!Access
<1> QED
  BY <1>1, <1>2, <1>10, ExecuteIs

(* An access.                                                                *)
LEMMA AccessIs ==
  ASSUME MachineInv, MachineInv', FetchOK, Scheduled, op \in MemoryInstructions, Access
  PROVE  Kane!Next \/ UNCHANGED Kane!vars
<1>1. CASE Halt
  <2>1. UNCHANGED gpr
    BY <1>1 DEF Halt, gpr
  <2> QED BY <1>1, <2>1 DEF Halt, Kane!vars
<1>2. CASE AddressError /\ RaiseException("AddressError")
  <2>1. op \in Kane!MemoryOps /\ ~Kane!InMemory(Kane!Sizes[op])
    BY <1>2, KaneSizes, AddressIs
  <2> QED BY <1>2, <2>1, RaiseIsTrap
<1>3. CASE ~AddressError /\ Load
  BY <1>3, LoadIs
<1>4. CASE ~AddressError /\ Store /\ (op = "SWR" => Unsigned(tmp) % 4 = 0)
  BY <1>4, StoreIs
<1> QED
  BY <1>1, <1>2, <1>3, <1>4 DEF Access

(* A system call: its answer is in its register.                             *)
LEMMA SyscallIs ==
  ASSUME MachineInv, MachineInv', FetchOK, Syscall
  PROVE  Kane!Next
<1>1. PICK v \in Results : registers' = [Applied(registers) EXCEPT ![V0] = v]
  BY DEF Syscall
<1>2. gpr' = [Applied(registers) EXCEPT ![V0] = v]
  BY <1>1, GprNext DEF Syscall
<1>3. gpr' = [gpr EXCEPT ![V0] = v]
  BY <1>2, GprIs
<1>4. Kane!i.op = "SYSCALL" /\ Kane!InCode(PCReg)
  BY KaneOperands DEF op, Syscall
<1>5. Kane!GoOn
  BY GoesOn DEF Syscall
<1>6. Kane!Syscall
  BY <1>3, <1>4, <1>5 DEF Syscall, Kane!Syscall
<1> QED
  BY <1>6 DEF Kane!Next

(* An interrupt applies a load: nothing of the program changes.              *)
LEMMA InterruptIs ==
  ASSUME MachineInv, MachineInv', Interrupt
  PROVE  UNCHANGED Kane!vars
<1>1. gpr' = gpr
  BY GprKept DEF Interrupt, DelayedLoad
<1> QED
  BY <1>1 DEF Interrupt, Kane!vars

(* The processor starts as the architecture does.                            *)
LEMMA InitIs ==
  ASSUME Init
  PROVE  Kane!Init
<1>1. MachineInv
  BY InitKeeps
<1>2. gpr \in [GPRegs -> Word] /\ gpr[0] = 0
  BY <1>1, GprIs
<1>3. /\ {HiReg, LoReg, PCReg, NextPCReg} \subseteq Word
      /\ memory \in [0 .. MemoryWords - 1 -> Word]
  BY <1>1 DEF MachineInv, TypeOK
<1> QED
  BY <1>2, <1>3, KaneWords DEF Init, Kane!Init

(* Every step is one of the architecture's, or changes nothing it knows of.  *)
LEMMA StepIs ==
  ASSUME MachineInv, [Next]_vars
  PROVE  [Kane!Next]_(Kane!vars)
<1>1. MachineInv'
  BY StepKeeps
<1>2. CASE UNCHANGED vars
  BY <1>2 DEF vars, Kane!vars, gpr
<1>3. CASE PageFault
  BY <1>1, <1>3, RaiseIsTrap DEF PageFault
<1>4. CASE Interrupt
  BY <1>1, <1>4, InterruptIs
<1>5. CASE ~FetchOK /\ RaiseException("AddressError")
  BY <1>1, <1>5, RaiseIsTrap
<1>6. CASE FetchOK /\ op = "RES" /\ RaiseException("IllegalInstr")
  BY <1>1, <1>6, RaiseIsTrap
<1>7. CASE FetchOK /\ Syscall
  BY <1>1, <1>7, SyscallIs
<1>8. CASE FetchOK /\ Scheduled /\ Compute
  BY <1>1, <1>8, ComputeIs
<1>9. CASE FetchOK /\ Scheduled /\ MultiplyOrDivide
  BY <1>1, <1>9, MultiplyOrDivideIs
<1>10. CASE FetchOK /\ Scheduled /\ Branch
  BY <1>1, <1>10, BranchIs
<1>11. CASE FetchOK /\ Scheduled /\ op \in MemoryInstructions /\ Access
  BY <1>1, <1>11, AccessIs
<1>12. OneInstruction => \/ ~FetchOK /\ RaiseException("AddressError")
                         \/ FetchOK /\ op = "RES" /\ RaiseException("IllegalInstr")
                         \/ FetchOK /\ Syscall
                         \/ FetchOK /\ Scheduled /\ Compute
                         \/ FetchOK /\ Scheduled /\ MultiplyOrDivide
                         \/ FetchOK /\ Scheduled /\ Branch
                         \/ FetchOK /\ Scheduled /\ op \in MemoryInstructions /\ Access
  BY DEF OneInstruction, MemoryInstructions
<1> QED
  BY <1>2, <1>3, <1>4, <1>5, <1>6, <1>7, <1>8, <1>9, <1>10, <1>11, <1>12 DEF Next

(* Every execution is one of the architecture: every instruction of a        *)
(* scheduled program has the exact result, traps exactly when it must and is *)
(* executed once, wherever faults and interrupts fall (OneInstruction,       *)
(* DelayedLoad, RaiseException, Mult and the accesses of ReadMem, WriteMem). *)
THEOREM MipsIsKane == Spec => KaneSpec
<1>1. Init => Kane!Init
  BY InitIs
<1>2. MachineInv /\ [Next]_vars => [Kane!Next]_(Kane!vars)
  BY StepIs
<1> QED
  BY <1>1, <1>2, MachineInvariance, PTL DEF Spec, KaneSpec, Kane!Spec

===============================================================================
