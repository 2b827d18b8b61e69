SPECIFICATION Spec
CONSTANTS
  Query = {q1, q2}
  Similar <- AllSimilar
  Request = {r1, r2}
  Writer = {w1}
  Delta <- TwoWriteDeltas
  MaxWrites = 4
  MaxStoreErrors = 0
SYMMETRY Symmetry
INVARIANTS
  NoStaleHit
