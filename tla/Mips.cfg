SPECIFICATION Spec
CONSTANTS
  ByteBits = 2
  NumGPRegs = 4
  R31 = 3
  V0 = 2
  Results = {0, 1}
  MemoryWords = 2
  Starts <- Programs
INVARIANT TypeOK
PROPERTY KaneSpec
CHECK_DEADLOCK FALSE
