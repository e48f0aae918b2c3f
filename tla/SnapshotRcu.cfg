SPECIFICATION FairSpec
CONSTANTS
  Readers = {w1, m}
  Master = m
  m = m
  MaxVersion = 3
  MaxToken = 4
INVARIANTS
  NoUseAfterFree
  OkMeansEveryReader
  HeapExact
PROPERTIES
  WaitsEnd
