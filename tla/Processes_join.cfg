SPECIFICATION FairSpec
CONSTANTS
  Threads = {m, t1, t2}
  Main = m
  NULL = NULL
  FREE = FREE
  Algorithms = {1, 3}
  MainPriority = 1
  Priorities = {0, 1}
  MAXENTRIES = 2
  Codes = {zero, CODENOTENDED}
  CODENOTENDED = CODENOTENDED
  KILLED = KILLED
  MaxPid = 4
  MaxKey = 1
INVARIANTS
  TypeOK
  ReadyListExact
  OneCarcass
  FamilyTies
  TableTruth
  SleepersAwaited
PROPERTIES
  NoStarvation
CHECK_DEADLOCK FALSE
