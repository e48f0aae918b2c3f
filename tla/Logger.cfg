CONSTANTS
  t1 = t1  t2 = t2
  Threads = {t1, t2}
  Cap = 2
  MaxSize = 2
  MaxFiles = 2
  MaxLines = 3
  MaxOpens = 2
SPECIFICATION FairSpec
INVARIANTS NoLineLost ShutdownComplete FilesInOrder
PROPERTIES LinesGetOut
CHECK_DEADLOCK FALSE
