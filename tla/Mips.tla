--------------------------------- MODULE Mips ----------------------------------
(***************************************************************************)
(* The simulated processor (mipssim.cc, machine.cc and the accesses of     *)
(* translate.cc; the same files in dev2, dev3 and dev4): one instruction   *)
(* at a time, loads that are applied one instruction late, exceptions that *)
(* leave the instruction to be restarted, interrupts between instructions. *)
(*                                                                         *)
(* Instructions are decoded: their code, their registers and their         *)
(* immediate field (Decode's extra, before its sign is extended).  A       *)
(* program is scheduled as its compiler must: the instruction after a load *)
(* neither reads the register that was loaded nor writes to it (the load   *)
(* is applied after the instruction and would overwrite its result, unless *)
(* an interrupt came between and applied it before), and no branch follows *)
(* a branch.  Its code is in one region (the high bits that J keeps) and   *)
(* is not data.  BadVAddrReg and PrevPCReg, which the processor only       *)
(* writes, are left out.                                                   *)
(***************************************************************************)
EXTENDS MachineWords, Sequences

CONSTANTS
  NumGPRegs,     (* 32 in the code                                         *)
  R31, V0,       (* the registers 31 and 2                                 *)
  Results,       (* what the kernel answers to system calls                *)
  MemoryWords,   (* the words of data of the address space                 *)
  Starts         (* bound: programs, with the registers and memory they start with *)

GPRegs == 0 .. NumGPRegs - 1

HalfBits == WordBits \div 2

(* The fields of an instruction are cut from a word (Decode): half of it   *)
(* is the immediate of the format IFMT, and a shift is by less than a word. *)
ShiftOps == {"SLL", "SRA", "SRL"}
JumpOps == {"J", "JAL"}
ImmediateOps ==
  {"ADDI", "ADDIU", "ANDI", "ORI", "XORI", "LUI", "SLTI", "SLTIU", "BEQ", "BNE", "BGEZ",
   "BGEZAL", "BGTZ", "BLEZ", "BLTZ", "BLTZAL", "LB", "LBU", "LH", "LHU", "LW", "LWL", "LWR",
   "SB", "SH", "SW", "SWL", "SWR"}

Decoded(i) ==
  /\ {i.rs, i.rt, i.rd} \subseteq GPRegs
  /\ i.op \in ImmediateOps => i.imm \in 0 .. 2 ^ HalfBits - 1
  /\ i.op \in ShiftOps => i.imm \in 0 .. WordBits - 1
  /\ i.op \in JumpOps => i.imm \in Nat

ASSUME MipsAssumption ==
  /\ R31 \in GPRegs \ {0} /\ V0 \in GPRegs \ {0}
  /\ Results \subseteq Word
  /\ NumGPRegs \in Nat /\ MemoryWords \in Nat
  /\ \A start \in Starts :
       /\ Len(start.code) \in Nat /\ \A k \in 1 .. Len(start.code) : Decoded(start.code[k])
       /\ start.registers \in [GPRegs -> Word] /\ start.registers[0] = 0
       /\ start.memory \in [0 .. MemoryWords - 1 -> Word]

VARIABLES
  code,
  registers,
  HiReg, LoReg, PCReg, NextPCReg,
  LoadReg, LoadValueReg,      (* the load still to be applied, of r0 if none *)
  memory,
  exception,                  (* why the last step did not execute         *)
  halted

vars == <<code, registers, HiReg, LoReg, PCReg, NextPCReg, LoadReg, LoadValueReg, memory,
          exception, halted>>

(* The masks and shifts of C.                                              *)
And(x, y) == FromBits[Bits(x) \cap Bits(y)]
BitOr(x, y) == FromBits[Bits(x) \cup Bits(y)]
Xor(x, y) == FromBits[(Bits(x) \cup Bits(y)) \ (Bits(x) \cap Bits(y))]
Not(x) == -1 - x
Mask(n) == Wrap(2 ^ n - 1)
Left(x, n) == Wrap(x * 2 ^ n)
Right(x, n) == x \div 2 ^ n

Sign(x) == x < 0      (* x & SIGN_BIT                                      *)

-----------------------------------------------------------------------------
FetchOK == Unsigned(PCReg) % 4 = 0 /\ Unsigned(PCReg) \div 4 < Len(code)

instr == code[Unsigned(PCReg) \div 4 + 1]
op == instr.op
rs == registers[instr.rs]
rt == registers[instr.rt]

(* Decode, of the immediate of an IFMT instruction.                        *)
extra ==
  IF And(instr.imm, 2 ^ (HalfBits - 1)) # 0 THEN BitOr(instr.imm, Not(Mask(HalfBits)))
  ELSE instr.imm

Links == {"BGEZAL", "BLTZAL", "JAL", "JALR"}
Branches == {"BEQ", "BNE", "BGEZ", "BGTZ", "BLEZ", "BLTZ", "J", "JR"} \cup Links

LinkReg == IF op = "JALR" THEN instr.rd ELSE R31

(* What a compiler sees to: the instruction neither reads nor writes the   *)
(* register of the load before it (DelayedLoad would overwrite the result, *)
(* but not after an interrupt), except for an LWL and an LWR of one        *)
(* register, which follow each other.                                      *)
Scheduled ==
  /\ LoadReg # 0 =>
       /\ LoadReg \notin {instr.rs, instr.rd}
       /\ LoadReg = instr.rt => op \in {"LWL", "LWR"}
       /\ op \in Links => LoadReg # LinkReg
  /\ op \in Branches => NextPCReg = Wrap(PCReg + 4)
  /\ op \in Links => instr.rs # LinkReg

-----------------------------------------------------------------------------
ZeroLast(written) == [written EXCEPT ![0] = 0, ![LoadReg] = LoadValueReg]   \* mutant: the order

Forgotten(written) == [written EXCEPT ![0] = 0]   \* mutant: the pending load is dropped

(* DelayedLoad: the pending load, and r0 stays zero.                       *)
Applied(written) == [written EXCEPT ![LoadReg] = LoadValueReg, ![0] = 0]

DelayedLoad(written, nextReg, nextValue) ==
  /\ registers' = Applied(written)
  /\ LoadReg' = nextReg
  /\ LoadValueReg' = nextValue

(* The end of OneInstruction.                                              *)
Advance(pcAfter) ==
  /\ PCReg' = NextPCReg
  /\ NextPCReg' = pcAfter
  /\ exception' = "none"
  /\ UNCHANGED <<code, halted>>

Next4 == Wrap(NextPCReg + 4)

Written(r, v) == [registers EXCEPT ![r] = v]

Complete(written, pcAfter) ==
  /\ DelayedLoad(written, 0, 0)
  /\ Advance(pcAfter)

(* RaiseException: the handler comes back to the same instruction.         *)
RaiseException(which) ==
  /\ DelayedLoad(registers, 0, 0)
  /\ exception' = which
  /\ UNCHANGED <<code, HiReg, LoReg, PCReg, NextPCReg, memory, halted>>

Halt ==
  /\ halted' = TRUE
  /\ UNCHANGED <<code, registers, HiReg, LoReg, PCReg, NextPCReg, LoadReg, LoadValueReg,
                 memory, exception>>

-----------------------------------------------------------------------------
(* The carry into the sign of a + b.                                       *)
OverflowsSum(a, b, sum) == Sign(a) = Sign(b) /\ Sign(a) # Sign(sum)

Overflows ==
  \/ op = "ADD" /\ OverflowsSum(rs, rt, Wrap(rs + rt))
  \/ op = "ADDI" /\ OverflowsSum(extra, rs, Wrap(rs + extra))
  \/ op = "SUB" /\ Sign(rs) # Sign(rt) /\ Sign(rs) # Sign(Wrap(rs - rt))

Bool(b) == IF b THEN 1 ELSE 0

(* rs & 0x1f                                                               *)
Amount == rs % WordBits

(* tmp is an int.                                                          *)
ShiftedTmp(x, n) == Right(x, n)

(* The instructions that put a result in rd.                               *)
RdResult ==
  CASE op \in {"ADD", "ADDU"} -> Wrap(rs + rt)
    [] op \in {"SUB", "SUBU"} -> Wrap(rs - rt)
    [] op = "AND" -> And(rs, rt)
    [] op = "OR" -> BitOr(rs, rs)
    [] op = "XOR" -> Xor(rs, rt)
    [] op = "NOR" -> Not(BitOr(rs, rt))
    [] op = "SLL" -> Left(rt, instr.imm)
    [] op = "SLLV" -> Left(rt, Amount)
    [] op = "SRA" -> Right(rt, instr.imm)
    [] op = "SRAV" -> Right(rt, Amount)
    [] op = "SRL" -> ShiftedTmp(rt, instr.imm)
    [] op = "SRLV" -> ShiftedTmp(rt, Amount)
    [] op = "SLT" -> Bool(rs < rt)
    [] op = "SLTU" -> Bool(Unsigned(rs) < Unsigned(rt))
    [] op = "MFHI" -> HiReg
    [] op = "MFLO" -> LoReg

(* And in rt.                                                              *)
RtResult ==
  CASE op \in {"ADDI", "ADDIU"} -> Wrap(rs + extra)
    [] op = "ANDI" -> And(rs, And(extra, Mask(HalfBits)))
    [] op = "ORI" -> BitOr(rs, And(extra, Mask(HalfBits)))
    [] op = "XORI" -> Xor(rs, And(extra, Mask(HalfBits)))
    [] op = "LUI" -> Left(extra, HalfBits)
    [] op = "SLTI" -> Bool(rs < extra)
    [] op = "SLTIU" -> Bool(Unsigned(rs) < Unsigned(extra))

RdOps == {"ADD", "ADDU", "SUB", "SUBU", "AND", "OR", "XOR", "NOR", "SLL", "SLLV", "SRA",
          "SRAV", "SRL", "SRLV", "SLT", "SLTU", "MFHI", "MFLO"}
RtOps == {"ADDI", "ADDIU", "ANDI", "ORI", "XORI", "LUI", "SLTI", "SLTIU"}

Compute ==
  /\ \/ Overflows /\ RaiseException("Overflow")
     \/ /\ ~Overflows
        /\ \/ op \in RdOps /\ Complete(Written(instr.rd, RdResult), Next4)
           \/ op \in RtOps /\ Complete(Written(instr.rt, RtResult), Next4)
        /\ UNCHANGED <<HiReg, LoReg, memory>>

-----------------------------------------------------------------------------
CarryFromHigh(lo, bLo) == FALSE   \* mutant: no carry from the low word

Carry(lo, bLo) == lo < bLo

(* A turn of the loop of Mult: a bit of a, and b shifted by so many.       *)
MultTurn(s) ==
  LET odd == s.a % 2 = 1
      lo == Unsigned(s.lo + s.bLo)
      carry == Bool(Carry(lo, s.bLo))
  IN [lo |-> IF odd THEN lo ELSE s.lo,
      hi |-> IF odd THEN Unsigned(s.hi + carry + s.bHi) ELSE s.hi,
      bHi |-> Unsigned(2 * s.bHi + Bool(Sign(Wrap(s.bLo)))),
      bLo |-> Unsigned(2 * s.bLo),
      a |-> Right(s.a, 1)]

(* The turns of the loop from a and b; the code leaves it early only when  *)
(* no bit of a is left.                                                    *)
MultLoop(a, b) ==
  LET turns[n \in 0 .. WordBits] ==
        IF n = 0 THEN [a |-> a, bLo |-> Unsigned(b), bHi |-> 0, lo |-> 0, hi |-> 0]
        ELSE MultTurn(turns[n - 1])
  IN turns

Magnitude(x, signedArith) == IF signedArith /\ Sign(x) THEN Wrap(-x) ELSE x

(* The double-length product, its sign apart.                              *)
Mult(a, b, signedArith) ==
  LET negative == signedArith /\ Sign(a) # Sign(b)
      end == MultLoop(Magnitude(a, signedArith), Magnitude(b, signedArith))[WordBits]
      lo == Unsigned(-end.lo)
      hi == Unsigned(Not(end.hi) + Bool(lo = 0))
  IN IF a = 0 \/ b = 0 THEN [hi |-> 0, lo |-> 0]
     ELSE IF negative THEN [hi |-> Wrap(hi), lo |-> Wrap(lo)]
     ELSE [hi |-> Wrap(end.hi), lo |-> Wrap(end.lo)]

(* The division of C, towards zero.                                        *)
Quotient(a, b) ==
  LET positive == (IF a < 0 THEN -a ELSE a) \div (IF b < 0 THEN -b ELSE b)
  IN IF (a < 0) = (b < 0) THEN positive ELSE -positive

Divide(a, b) ==
  IF b = 0 THEN [hi |-> 0, lo |-> 0]
  ELSE [hi |-> Wrap(a - b * Quotient(a, b)), lo |-> Wrap(Quotient(a, b))]

HiLoResult ==
  CASE op = "MULT" -> Mult(rs, rt, TRUE)
    [] op = "MULTU" -> Mult(rs, rt, FALSE)
    [] op = "DIV" -> Divide(rs, rt)
    [] op = "DIVU" -> Divide(Unsigned(rs), Unsigned(rt))
    [] op = "MTHI" -> [hi |-> rs, lo |-> LoReg]
    [] op = "MTLO" -> [hi |-> HiReg, lo |-> rs]

(* The host's own division traps on the smallest int by -1.                *)
HostTraps == op = "DIV" /\ rt = -1 /\ Wrap(-rs) = rs /\ rs # 0

MultiplyOrDivide ==
  /\ op \in {"MULT", "MULTU", "DIV", "DIVU", "MTHI", "MTLO"}
  /\ \/ HostTraps /\ Halt
     \/ /\ ~HostTraps
        /\ HiReg' = HiLoResult.hi /\ LoReg' = HiLoResult.lo
        /\ Complete(registers, Next4)
        /\ UNCHANGED memory

-----------------------------------------------------------------------------
(* The word a branch tests for its sign, and the jump's target.            *)
Taken ==
  \/ op = "BEQ" /\ rs = rt
  \/ op = "BNE" /\ rs # rt
  \/ op \in {"BGEZ", "BGEZAL"} /\ ~Sign(rs)
  \/ op = "BGTZ" /\ rs > 0
  \/ op = "BLEZ" /\ rs <= 0
  \/ op \in {"BLTZ", "BLTZAL"} /\ Sign(rs)

IndexToAddr(n) == Left(n, 2)

PcAfter ==
  IF op \in {"J", "JAL"} THEN IndexToAddr(instr.imm)
  ELSE IF op \in {"JR", "JALR"} THEN rs
  ELSE IF Taken THEN Wrap(NextPCReg + IndexToAddr(extra))
  ELSE Next4

Branch ==
  /\ op \in Branches
  /\ Complete(IF op \in Links THEN Written(LinkReg, Next4) ELSE registers, PcAfter)
  /\ UNCHANGED <<HiReg, LoReg, memory>>

-----------------------------------------------------------------------------
tmp == Wrap(rs + extra)

Size ==
  IF op \in {"LB", "LBU", "SB"} THEN 1 ELSE IF op \in {"LH", "LHU", "SH"} THEN 2 ELSE 4

(* Translate, when every page is in memory.                                *)
AddressError == Unsigned(tmp) % Size # 0 \/ Unsigned(tmp) \div 4 >= MemoryWords

Bits8 == Size * ByteBits
Slot == Unsigned(tmp) \div 4

(* ReadMem.  A char of the host is signed.                                 *)
value ==
  LET field == Field(memory[Slot], (Unsigned(tmp) % 4) * ByteBits, Bits8)
  IN CASE Size = 1 -> SignExtended(field, Bits8)
       [] Size = 2 -> field
       [] Size = 4 -> memory[Slot]

Extends(v) == op \in {"LB", "LH"}

(* The value of the next delayed load.                                     *)
nextLoadValue ==
  LET old == IF LoadReg = instr.rt THEN LoadValueReg ELSE rt
  IN CASE op \in {"LB", "LBU", "LH", "LHU"} ->
            IF And(value, 2 ^ (Bits8 - 1)) # 0 /\ Extends(value)
              THEN BitOr(value, Not(Mask(Bits8))) ELSE And(value, Mask(Bits8))
       [] op \in {"LW", "LWL"} -> value
       [] op = "LWR" -> BitOr(And(old, Not(Mask(ByteBits))),
                             And(Right(value, 3 * ByteBits), Mask(ByteBits)))

Load ==
  /\ op \in {"LB", "LBU", "LH", "LHU", "LW", "LWL", "LWR"}
  /\ DelayedLoad(registers, instr.rt, nextLoadValue)
  /\ Advance(Next4)
  /\ UNCHANGED <<HiReg, LoReg, memory>>

(* WriteMem, of the low bytes of a value.                                  *)
WriteMem(v) ==
  memory' = [memory EXCEPT ![Slot] = WithField(@, (Unsigned(tmp) % 4) * ByteBits, Bits8, v)]

Store ==
  /\ op \in {"SB", "SH", "SW", "SWL", "SWR"}
  /\ WriteMem(IF op = "SWR"
                THEN BitOr(And(value, Mask(3 * ByteBits)), Left(rt, 3 * ByteBits))
                ELSE rt)
  /\ Complete(registers, Next4)
  /\ UNCHANGED <<HiReg, LoReg>>

(* The processor stops on an LWL, LWR, SWL or SWR that is not aligned.     *)
Access ==
  \/ /\ op \in {"LWL", "LWR", "SWL", "SWR"} /\ Unsigned(tmp) % 4 # 0
     /\ Halt
  \/ /\ op \in {"LB", "LBU", "SB", "LH", "LHU", "SH", "LW", "SW"} \/ Unsigned(tmp) % 4 = 0
     /\ \/ AddressError /\ RaiseException("AddressError")
        \/ ~AddressError /\ (Load \/ Store)

-----------------------------------------------------------------------------
(* The kernel answers in V0 and moves the program on (incrementPC).        *)
Syscall ==
  /\ op = "SYSCALL"
  /\ exception' = "Syscall"
  /\ \E v \in Results : registers' = [Applied(registers) EXCEPT ![V0] = v]
  /\ LoadReg' = 0 /\ LoadValueReg' = 0
  /\ PCReg' = NextPCReg /\ NextPCReg' = Next4
  /\ UNCHANGED <<code, HiReg, LoReg, memory, halted>>

OneInstruction ==
  \/ ~FetchOK /\ RaiseException("AddressError")
  \/ /\ FetchOK
     /\ Scheduled
     /\ \/ Compute
        \/ MultiplyOrDivide
        \/ Branch
        \/ op \in {"LB", "LBU", "LH", "LHU", "LW", "LWL", "LWR", "SB", "SH", "SW", "SWL", "SWR"}
             /\ Access
        \/ Syscall
        \/ op = "RES" /\ RaiseException("IllegalInstr")

(* The page of the instruction, or of what it accesses, is not in memory.  *)
PageFault == RaiseException("PageFault")

(* CheckIfDue, when an interrupt is due.                                   *)
Interrupt ==
  /\ DelayedLoad(registers, 0, 0)
  /\ UNCHANGED <<code, HiReg, LoReg, PCReg, NextPCReg, memory, exception, halted>>

Init ==
  /\ \E start \in Starts :
       code = start.code /\ registers = start.registers /\ memory = start.memory
  /\ HiReg = 0 /\ LoReg = 0
  /\ PCReg = 0 /\ NextPCReg = 4
  /\ LoadReg = 0 /\ LoadValueReg = 0
  /\ exception = "none"
  /\ halted = FALSE

Next == ~halted /\ (OneInstruction \/ PageFault \/ Interrupt)

Spec == Init /\ [][Next]_vars

-----------------------------------------------------------------------------
(* The type of every variable; register 0 is zero.                         *)
TypeOK ==
  /\ registers \in [GPRegs -> Word] /\ registers[0] = 0
  /\ {HiReg, LoReg, PCReg, NextPCReg, LoadValueReg} \subseteq Word
  /\ LoadReg \in GPRegs
  /\ memory \in [0 .. MemoryWords - 1 -> Word]
  /\ exception \in {"none", "PageFault", "AddressError", "Overflow", "IllegalInstr", "Syscall"}
  /\ halted \in BOOLEAN

(* The registers as the program will find them.                            *)
gpr == [registers EXCEPT ![LoadReg] = LoadValueReg, ![0] = 0]

Kane == INSTANCE MipsArchitecture WITH
  Registers <- GPRegs,
  hi <- HiReg, lo <- LoReg, pc <- PCReg, npc <- NextPCReg

(* "Execute the instruction (cf. Kane's book)": every instruction of a     *)
(* scheduled program, from any registers, has the exact result, traps      *)
(* exactly when it must and is executed once, wherever faults, interrupts  *)
(* and system calls fall between a load and its delayed effect, or between *)
(* a branch and its target.  The exceptions are the ones that              *)
(* MipsArchitecture names.                                                 *)
KaneSpec == Kane!Spec

=============================================================================
