SPECIFICATION FairSpec
CONSTANTS
  t1 = t1
  t2 = t2
  a = a
  b = b
  Threads = {t1, t2}
  NULL = NULL
  SectorSize = 2
  dataSectors <- TwoFiles
  Length <- TwoLengths
  Sizes <- TwoSizes
  Texts <- TwoTexts
  Byte = {a, b}
  Zero = a
  Junk = Junk
  NoCall = NoCall
INVARIANTS
  TypeOK
  OneRequestAtATime
PROPERTIES
  FlatFileSpec
  CallsReturn
CHECK_DEADLOCK FALSE
