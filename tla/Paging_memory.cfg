SPECIFICATION Spec
CONSTANTS
  Spaces = {p1, p2}
  NumPhysPages = 2
  numPages = 2
  PageSize = 2
  exeSize = 1
  Value <- OwnValue
  Zero = 0
  Stored = {1}
  Image <- OwnImage
  Instructions <- OnePage
  Undef = Undef
  Absent = Absent
  MaxQueue = 2
INVARIANTS
  TypeOK
  OneOwner
  MarkedIsMapped
  ResidentQueued
PROPERTIES
  FlatMemorySpec
  StarvesOnlyEmptyHanded
  ResidencyNeverShrinks
CHECK_DEADLOCK FALSE
SYMMETRY Symmetry
