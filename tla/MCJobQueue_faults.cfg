SPECIFICATION FairSpec
CONSTANTS
  i1 = i1
  i2 = i2
  d1 = d1
  d2 = d2
  ingest = ingest
  deep = deep
  Owner <- MCOwner
  Job <- MixedJobs
  Worker <- BothLoops
  Deep <- DeepLoop
  ClaimLimit = 2
  MaxAttempts = 2
  StaleTimeout = 1
  MaxTime = 0
  MaxCrashes = 1
  MaxStoreErrors = 1
INVARIANTS
  HeldJobsAreRunning
  StartsBounded
  OrphansComeFromFaults
PROPERTIES
  ImplementsLedger
  EveryJobSettles
CHECK_DEADLOCK FALSE
