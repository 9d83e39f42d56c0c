SPECIFICATION FairSpec
CONSTANTS
  Writers = {}
  Readers = {r}
  theFile = f1
  Files = {f1, f2}
  FileOf <- OneFile
  Byte = {a, b}
  Heard = {a, b}
  SizeIn = 3
  SizeOut = 2
  MaxSize = 2
  NoByte = NoByte
  Freed = Freed
  MaySleep = TRUE
  Blank = Blank
  Erased = Erased
PROPERTIES
  OnlyLateOpenLosesDevice
  SerialPortSpec
  ReadTerminates
CHECK_DEADLOCK FALSE
