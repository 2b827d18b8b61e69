SPECIFICATION FairSpec
CONSTANTS
  Delta = {d1, d2}
  Reviewer = {r1, r2}
  MaxDay = 1
  MaxFaults = 2
INVARIANTS
  VerdictMatchesProfile
  OnePendingPerDay
PROPERTIES
  VerdictStands
  AcceptanceSettles
CHECK_DEADLOCK FALSE
