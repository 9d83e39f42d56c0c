SPECIFICATION CallerSpec
CONSTANTS
  BufferSize = 4
  Bytes = {a, b}
  Blank = Blank
  Erased = Erased
  NoData = NoData
INVARIANTS
  CallerTypeOK
  SpaceAccounted
PROPERTIES
  FifoSpec
