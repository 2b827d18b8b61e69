SPECIFICATION EnrichSpec
CONSTANTS
  a1 = a1
  a2 = a2
  b = b
  c = c
  q = q
  e = e
  o = o
  A = A
  B = B
  C = C
  Record = {a1, a2, b, c}
  SourceOf <- MCSourceOf
  Stored = {a1, a2, b}
  Query = {q, e, o}
  Empty = {o}
  Similarity <- MCSimilarity
  Relevance <- MCRelevance
  Quality = {5, 10}
  RetrieveK = 3
  Widen = 1
  Strategy = {"keyword_heavy"}
  HybridRatio <- MCNoRatio
  MaxWrites = 0
  MaxFailures = 0
  MaxChunks = 3
  Concurrency = 2
  KeepK = 2
  ScoreThreshold <- MCThreshold
  ModelScore <- MCModelScore
  ChunkTokens <- MCTokens
  ContextBudget = 3
INVARIANTS
  FailureNotPenalised
CHECK_DEADLOCK FALSE
