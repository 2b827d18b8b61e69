SPECIFICATION Spec
CONSTANTS
  Doc = {d1}
  Interaction = {i1}
  Deleter = {h1, h2}
  MaxAttempts = 2
  TopK = 1
  MaxFaults = 1
  MaxCrashes = 1
CHECK_DEADLOCK FALSE
INVARIANTS
  CompletedMeansSearchable
  OrphansComeFromFaults
