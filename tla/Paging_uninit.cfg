SPECIFICATION Spec
CONSTANTS
  Spaces = {p1, p2}
  NumPhysPages = 2
  numPages = 2
  PageSize = 2
  exeSize = 3
  Value <- OwnValue
  Zero = 0
  Stored = {1}
  Image <- OwnImage
  Instructions <- OnePage
  Undef = Undef
  Absent = Absent
  MaxQueue = 2
INVARIANTS
  UninitDataZeroed
CHECK_DEADLOCK FALSE
