CONSTANTS
  N = 3
  Weights = {0, 1, 2, 3, 7, 9}
  MaxSeq = 7
  M = 7
  Hashes <- MCHashes
  Workers = {0, 1}
  CursorMod = 16
SPECIFICATION FairSpec
INVARIANTS EqualWeightsAlternate WrrExact MaglevFair
PROPERTIES BuildEnds
