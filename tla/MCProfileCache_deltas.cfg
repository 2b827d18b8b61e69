SPECIFICATION Spec
CONSTANTS
  Query = {q1}
  Similar <- AllSimilar
  Request = {r1, r2}
  Writer = {w1, w2}
  Delta <- AllDeltas
  MaxWrites = 2
  MaxStoreErrors = 1
SYMMETRY Symmetry
INVARIANTS
  CopyIsCurrent
  TagNeverOverstates
  MinimumIsReachable
  EveryChangeAnnounced
  FreshUntilDrift
