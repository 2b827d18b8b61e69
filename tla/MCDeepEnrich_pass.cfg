SPECIFICATION FairSpec
CONSTANTS
  d1 = d1
  d2 = d2
  d3 = d3
  x = x
  y = y
  z = z
  Doc = {d1, d2, d3}
  Topic = {x, y, z}
  FirstTags <- MCFirstTags
  Tokens <- MCTokens
  MaxTokens = 4
  ClaimLimit = 3
  Answer <- MCAnswer
  MaxAttempts = 2
  MaxFaults = 2
INVARIANTS
  RunningIsAccounted
  PassLosesNothing
  GroupsAreComponents
  CompletedMeansEnriched
PROPERTIES
  DeepJobSettles
  ImplementsLedger
