SPECIFICATION FairSpec
CONSTANTS
  Request = {r1, r2, r3}
  Capacity = 2
  EnqueueSummarize = TRUE
CHECK_DEADLOCK FALSE
INVARIANTS
  RowsFollowTheChannel
PROPERTIES
  LoopEndsEmpty
  AnswerSavedOrCounted
  ShutdownEnds
