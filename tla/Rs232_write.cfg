SPECIFICATION FairSpec
CONSTANTS
  Writers = {w}
  Readers = {}
  theFile = f1
  Files = {f1, f2}
  FileOf <- OneFile
  Byte = {a, b}
  Heard = {a}
  SizeIn = 2
  SizeOut = 2
  MaxSize = 2
  NoByte = NoByte
  Freed = Freed
  MaySleep = FALSE
  Blank = Blank
  Erased = Erased
INVARIANTS
  TypeOK
  FlagMeansIdle
PROPERTIES
  SerialPortSpec
  DiesOnlyInForce
  WriteTerminates
  BufferDrains
CHECK_DEADLOCK FALSE
