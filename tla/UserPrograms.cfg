SPECIFICATION FairSpec
CONSTANTS
  m = m
  t1 = t1
  t2 = t2
  Threads = {m, t1, t2}
  Main = m
  NULL = NULL
  NumPhysPages = 4
  numPages <- FewPages
  Image <- OwnImage
  Value <- OwnValue
  Zero = 0
  Stored = {1}
  Codes = {1}
  Handles = {file}
  MaxCalls <- FewCalls
INVARIANTS
  TypeOK
PROPERTIES
  IsolatedProgramsSpec
  JoinIsRight
  TurnsCome
CHECK_DEADLOCK FALSE
