--------------------------------- MODULE MCMips ---------------------------------
(* Words of eight bits: every instruction, with every immediate and from     *)
(* operands at the edges, and programs of three instructions that begin      *)
(* with a load, a branch, a product or a system call.                        *)
EXTENDS Mips

Instr(o, imms) == {[op |-> o, rs |-> 1, rt |-> 2, rd |-> 3, imm |-> n] : n \in imms}

Of(ops, imms) == UNION {Instr(o, imms) : o \in ops}

HalfWords == 0 .. 2 ^ HalfBits - 1

(* Decode leaves 0 in the registers a format does not have.                  *)
AllInstructions ==
  Of({"ADD", "ADDU", "SUB", "SUBU", "AND", "OR", "XOR", "NOR", "SLLV", "SRAV", "SRLV", "SLT",
      "SLTU", "MFHI", "MFLO", "MULT", "MULTU", "DIV", "DIVU", "MTHI", "MTLO", "JR", "JALR",
      "SYSCALL", "RES"}, {0})
  \cup Of({"SLL", "SRA", "SRL"}, 0 .. WordBits - 1)
  \cup {[i EXCEPT !.rd = 0] :
         i \in Of({"ADDI", "ADDIU", "ANDI", "ORI", "XORI", "LUI", "SLTI", "SLTIU", "BEQ", "BNE",
                   "BGEZ", "BGEZAL", "BGTZ", "BLEZ", "BLTZ", "BLTZAL", "LB", "LBU", "LH", "LHU",
                   "LW", "LWL", "LWR", "SB", "SH", "SW", "SWL", "SWR"}, HalfWords)}
  \cup {[i EXCEPT !.rs = 0, !.rt = 0, !.rd = 0] : i \in Of({"J", "JAL"}, HalfWords)}

Regs(a, b) == [r \in GPRegs |-> CASE r = 1 -> a [] r = 2 -> b [] r = 3 -> 1 [] OTHER -> 0]

Edges == {-128, -127, -65, -5, -2, -1, 0, 1, 2, 3, 4, 7, 64, 127}

(* Four different bytes, and a byte and a half-word with the sign bit set.   *)
Data == [w \in 0 .. MemoryWords - 1 |-> IF w = 0 THEN -92 ELSE 27]

Single ==
  [code : {<<i>> : i \in AllInstructions}, registers : {Regs(a, b) : a, b \in Edges},
   memory : {Data}]

I(o, s, t, d, n) == [op |-> o, rs |-> s, rt |-> t, rd |-> d, imm |-> n]

First ==
  {I("LW", 0, 2, 0, 0), I("LB", 1, 1, 0, 0), I("LHU", 1, 3, 0, 0), I("LW", 0, 0, 0, 0),
   I("LW", 1, 2, 0, 0), I("BNE", 1, 2, 0, 1), I("BGEZAL", 1, 0, 0, 1), I("JALR", 2, 0, 3, 0),
   I("MULT", 1, 2, 0, 0), I("DIV", 1, 2, 0, 0), I("SYSCALL", 0, 0, 0, 0)}

Second ==
  {I("LW", 0, 1, 0, 0), I("LWL", 1, 2, 0, 0), I("LWR", 1, 2, 0, 0), I("LWR", 1, 3, 0, 0),
   I("ADD", 1, 1, 2, 0), I("ADDU", 2, 2, 2, 0), I("OR", 3, 3, 0, 0), I("SW", 1, 0, 0, 0),
   I("SYSCALL", 0, 0, 0, 0), I("MFHI", 0, 0, 1, 0), I("MTLO", 1, 0, 0, 0),
   I("BEQ", 0, 0, 0, 2), I("JAL", 0, 0, 0, 0), I("RES", 0, 0, 0, 0)}

Third ==
  {I("MFLO", 0, 0, 1, 0), I("ADDU", 1, 2, 3, 0), I("SW", 0, 2, 0, 1), I("LWR", 0, 2, 0, 0),
   I("SYSCALL", 0, 0, 0, 0), I("JR", 3, 0, 0, 0)}

Triples ==
  [code : {<<i, j, k>> : i \in First, j \in Second, k \in Third},
   registers : {Regs(0, 4), Regs(4, -8), Regs(3, 3), Regs(-3, -1)},
   memory : {Data}]

Programs == Single \cup Triples

=============================================================================
