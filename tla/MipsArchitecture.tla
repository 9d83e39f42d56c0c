--------------------------- MODULE MipsArchitecture ---------------------------
(***************************************************************************)
(* What mipssim.cc simulates: the R2000/R3000 of Kane's book, as far as a  *)
(* user program and the kernel see it.  A load has loaded when it is done, *)
(* results are exact numbers, and an instruction is executed once, however *)
(* often it was interrupted by a fault before.  Where the simulator does   *)
(* not do what the book says (Or, ShiftRightLogical, division by zero, the *)
(* byte order of the unaligned accesses) this module says what it does.    *)
(***************************************************************************)
EXTENDS MachineWords, Sequences

CONSTANTS
  Registers,     (* 0 .. 31 in the machine                                 *)
  R31,           (* the one that links: 31                                 *)
  V0,            (* the one for the result of a system call: 2             *)
  Results,       (* what the kernel may put there                          *)
  MemoryWords    (* how many words of data the program may address         *)

VARIABLES
  code,          (* the instructions of the program, from address 0        *)
  gpr, hi, lo, pc, npc, memory,
  exception      (* why the last step did not execute, or "none"           *)

vars == <<code, gpr, hi, lo, pc, npc, memory, exception>>

InCode(a) == Unsigned(a) % 4 = 0 /\ Unsigned(a) \div 4 < Len(code)

i == code[Unsigned(pc) \div 4 + 1]

rs == gpr[i.rs]
rt == gpr[i.rt]
Half == WordBits \div 2
extra == SignExtended(i.imm, Half)

-----------------------------------------------------------------------------
(* "or rd, rs, rt" leaves rt out.                                          *)
Or == rs

(* The logical shift repeats the sign, as the arithmetic one does: it is   *)
(* what the book says when the sign is 0 or the word is not moved.         *)
ShiftRightLogical(x, n) ==
  IF x >= 0 \/ n = 0 THEN Unsigned(x) \div 2 ^ n ELSE x \div 2 ^ n

Shift(n) == n % WordBits

BothBits(S(_, _), y) == FromBits[S(Bits(rs), Bits(y))]

Flag(b) == IF b THEN 1 ELSE 0

Immediate == {"ADDI", "ADDIU", "ANDI", "ORI", "XORI", "LUI", "SLTI", "SLTIU"}
Trapping == {"ADD", "ADDI", "SUB"}

(* What an instruction computes, before it is cut to a word.               *)
Computed ==
  CASE i.op \in {"ADD", "ADDU"} -> rs + rt
    [] i.op \in {"ADDI", "ADDIU"} -> rs + extra
    [] i.op \in {"SUB", "SUBU"} -> rs - rt
    [] i.op = "AND" -> BothBits(LAMBDA a, b : a \cap b, rt)
    [] i.op = "ANDI" -> BothBits(LAMBDA a, b : a \cap b, i.imm)
    [] i.op = "OR" -> Or
    [] i.op = "ORI" -> BothBits(LAMBDA a, b : a \cup b, i.imm)
    [] i.op = "XOR" -> BothBits(LAMBDA a, b : (a \cup b) \ (a \cap b), rt)
    [] i.op = "XORI" -> BothBits(LAMBDA a, b : (a \cup b) \ (a \cap b), i.imm)
    [] i.op = "NOR" -> -1 - BothBits(LAMBDA a, b : a \cup b, rt)
    [] i.op = "LUI" -> i.imm * 2 ^ Half
    [] i.op = "SLL" -> rt * 2 ^ i.imm
    [] i.op = "SLLV" -> rt * 2 ^ Shift(rs)
    [] i.op = "SRA" -> rt \div 2 ^ i.imm
    [] i.op = "SRAV" -> rt \div 2 ^ Shift(rs)
    [] i.op = "SRL" -> ShiftRightLogical(rt, i.imm)
    [] i.op = "SRLV" -> ShiftRightLogical(rt, Shift(rs))
    [] i.op = "SLT" -> Flag(rs < rt)
    [] i.op = "SLTI" -> Flag(rs < extra)
    [] i.op = "SLTU" -> Flag(Unsigned(rs) < Unsigned(rt))
    [] i.op = "SLTIU" -> Flag(Unsigned(rs) < Unsigned(extra))
    [] i.op = "MFHI" -> hi
    [] i.op = "MFLO" -> lo

Register(r, v) == gpr' = [gpr EXCEPT ![r] = IF r = 0 THEN 0 ELSE v]

GoOn == pc' = npc /\ npc' = Wrap(npc + 4)

Compute ==
  /\ i.op \in Trapping => Computed \in Word
  /\ Register(IF i.op \in Immediate THEN i.rt ELSE i.rd, Wrap(Computed))
  /\ GoOn
  /\ UNCHANGED <<hi, lo, memory>>

(* The quotient and the remainder, cut towards zero.                       *)
Divided(a, b, quotient, remainder) ==
  \/ b = 0 /\ quotient = 0 /\ remainder = 0
  \/ /\ b # 0
     /\ a = quotient * b + remainder
     /\ remainder = 0 \/ (remainder < 0 <=> a < 0)
     /\ -remainder < (IF b < 0 THEN -b ELSE b) /\ remainder < (IF b < 0 THEN -b ELSE b)

MultiplyOrDivide ==
  /\ hi' \in Word /\ lo' \in Word
  /\ \/ i.op = "MULT" /\ hi' * 2 ^ WordBits + Unsigned(lo') = rs * rt
     \/ i.op = "MULTU" /\ Unsigned(hi') * 2 ^ WordBits + Unsigned(lo') = Unsigned(rs) * Unsigned(rt)
     \/ i.op = "DIV" /\ Divided(rs, rt, lo', hi')
     \/ i.op = "DIVU" /\ Divided(Unsigned(rs), Unsigned(rt), Unsigned(lo'), Unsigned(hi'))
     \/ i.op = "MTHI" /\ hi' = rs /\ lo' = lo
     \/ i.op = "MTLO" /\ lo' = rs /\ hi' = hi
  /\ GoOn
  /\ UNCHANGED <<gpr, memory>>

-----------------------------------------------------------------------------
Taken ==
  \/ i.op = "BEQ" /\ rs = rt
  \/ i.op = "BNE" /\ rs # rt
  \/ i.op \in {"BGEZ", "BGEZAL"} /\ rs >= 0
  \/ i.op = "BGTZ" /\ rs > 0
  \/ i.op = "BLEZ" /\ rs <= 0
  \/ i.op \in {"BLTZ", "BLTZAL"} /\ rs < 0

Target ==
  CASE i.op \in {"J", "JAL"} -> Wrap(4 * i.imm)
    [] i.op \in {"JR", "JALR"} -> rs
    [] OTHER -> Wrap(pc + 4 + (IF Taken THEN 4 * extra ELSE 4))

(* The instruction after the branch is executed, then the one at the       *)
(* target; a link is to the one after both.                                *)
Branch ==
  /\ pc' = npc /\ npc' = Target
  /\ CASE i.op \in {"BGEZAL", "BLTZAL", "JAL"} -> Register(R31, Wrap(pc + 8))
       [] i.op = "JALR" -> Register(i.rd, Wrap(pc + 8))
       [] OTHER -> UNCHANGED gpr
  /\ UNCHANGED <<hi, lo, memory>>

-----------------------------------------------------------------------------
Sizes == [LB |-> 1, LBU |-> 1, SB |-> 1, LH |-> 2, LHU |-> 2, SH |-> 2,
          LW |-> 4, SW |-> 4, LWL |-> 4, LWR |-> 4, SWL |-> 4, SWR |-> 4]

MemoryOps == DOMAIN Sizes

Address == Unsigned(rs + extra)

InMemory(size) == Address % size = 0 /\ Address \div 4 < MemoryWords

Here == Address \div 4
FirstBit == (Address % 4) * ByteBits
Top == 3 * ByteBits

Load(v) ==
  /\ Register(i.rt, v)
  /\ UNCHANGED memory

Loaded(size) == Field(memory[Here], FirstBit, size * ByteBits)

StoreField(k, n, v) ==
  /\ memory' = [memory EXCEPT ![Here] = WithField(@, k, n, v)]
  /\ UNCHANGED gpr

(* The unaligned accesses, of aligned words only, take the first byte for  *)
(* the high one.                                                           *)
Access ==
  /\ InMemory(Sizes[i.op])
  /\ LET size == Sizes[i.op]
     IN CASE i.op \in {"LB", "LH"} -> Load(SignExtended(Loaded(size), size * ByteBits))
          [] i.op \in {"LBU", "LHU"} -> Load(Loaded(size))
          [] i.op \in {"LW", "LWL"} -> Load(memory[Here])
          [] i.op = "LWR" -> Load(WithField(rt, 0, ByteBits, Field(memory[Here], Top, ByteBits)))
          [] i.op = "SWR" -> StoreField(Top, ByteBits, rt)
          [] OTHER -> StoreField(FirstBit, size * ByteBits, rt)
  /\ GoOn
  /\ UNCHANGED <<hi, lo>>

-----------------------------------------------------------------------------
Branches ==
  {"BEQ", "BNE", "BGEZ", "BGEZAL", "BGTZ", "BLEZ", "BLTZ", "BLTZAL", "J", "JAL", "JR", "JALR"}

HiLo == {"MULT", "MULTU", "DIV", "DIVU", "MTHI", "MTLO"}

Execute ==
  /\ InCode(pc)
  /\ exception' = "none"
  /\ UNCHANGED code
  /\ CASE i.op \in Branches -> Branch
       [] i.op \in HiLo -> MultiplyOrDivide
       [] i.op \in MemoryOps -> Access
       [] i.op \in {"SYSCALL", "RES"} -> FALSE
       [] OTHER -> Compute

(* The kernel answers a system call and lets the program go on after it.   *)
Syscall ==
  /\ InCode(pc) /\ i.op = "SYSCALL"
  /\ exception' = "Syscall"
  /\ \E v \in Results : gpr' = [gpr EXCEPT ![V0] = v]
  /\ GoOn
  /\ UNCHANGED <<code, hi, lo, memory>>

(* An instruction that is not executed changes nothing.                    *)
Trap ==
  /\ \/ exception' = "PageFault"
     \/ exception' = "AddressError" /\ ~InCode(pc)
     \/ /\ InCode(pc)
        /\ \/ /\ exception' = "AddressError"
              /\ i.op \in MemoryOps /\ ~InMemory(Sizes[i.op])
           \/ /\ exception' = "Overflow"
              /\ i.op \in Trapping /\ Computed \notin Word
           \/ exception' = "IllegalInstr" /\ i.op = "RES"
  /\ UNCHANGED <<code, gpr, hi, lo, pc, npc, memory>>

(* Somewhere in a program.                                                 *)
Init ==
  /\ gpr \in [Registers -> Word] /\ gpr[0] = 0
  /\ {hi, lo, pc, npc} \subseteq Word
  /\ memory \in [0 .. MemoryWords - 1 -> Word]
  /\ exception = "none"

Next == Execute \/ Syscall \/ Trap

Spec == Init /\ [][Next]_vars

=============================================================================
