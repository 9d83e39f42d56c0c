SPECIFICATION FairSpec
CONSTANTS
  Spaces = {p1}
  NumPhysPages = 2
  numPages = 3
  PageSize = 1
  exeSize = 0
  Value = {0}
  Zero = 0
  Stored = {0}
  Image <- OwnImage
  Instructions <- AnyPages
  Undef = Undef
  Absent = Absent
  MaxQueue = 5
PROPERTIES
  InstructionCompletes
CHECK_DEADLOCK FALSE
