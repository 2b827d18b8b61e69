SPECIFICATION FairSpec
CONSTANTS
  a = a
  b = b
  noKey = noKey
  Interaction = {i1, i2}
  MaxJobs = 3
  Text <- MCText
  KeyOf <- MCKeyOf
  NoKey <- noKey
  Answer <- MCAnswer
  MinCountThreshold = 3
  MinNetAddThreshold = 2
  MaxAttempts = 2
  Edit <- MCEdit
  MaxMishaps = 2
INVARIANTS
  CountsMatchSignals
  StaleProfileHasJob
PROPERTIES
  RatingIsLearned
CHECK_DEADLOCK FALSE
