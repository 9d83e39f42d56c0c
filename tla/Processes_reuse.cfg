SPECIFICATION Spec
CONSTANTS
  Threads = {m, t1, t2}
  Main = m
  NULL = NULL
  FREE = FREE
  Algorithms = {1}
  MainPriority = 1
  Priorities = {0}
  MAXENTRIES = 2
  Codes = {zero, CODENOTENDED}
  CODENOTENDED = CODENOTENDED
  KILLED = KILLED
  MaxPid = 4
  MaxKey = 1
INVARIANTS
  NewChildIsNotFound
CHECK_DEADLOCK FALSE
