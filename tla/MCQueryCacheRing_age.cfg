SPECIFICATION Spec
CONSTANTS
  p = p
  q = q
  swim = swim
  go = go
  Query <- MCQuery
  Similarity <- MCSimilarity
  SemThreshold = 2
  TopicsOf <- MCTopicsOf
  Reader = {r1, r2}
  MaxExactSize = 2
  MaxSemanticSize = 3
  ExactTTL = 1
  SemanticTTL = 1
  MaxTime = 2
SYMMETRY Symmetry
INVARIANTS
  ValidPrefix
  RingInPutOrder
  
PROPERTIES
  NothingLostEarly
CHECK_DEADLOCK FALSE
