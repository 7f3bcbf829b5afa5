SPECIFICATION Spec
CONSTANTS
  Paths       = {1, 2}
  MatchLists  <- MCMatchLists
  IssueCounts = {0, 1, 2}
  Requests    <- MCRequests
INVARIANTS
  TimeoutIsIncomplete
CHECK_DEADLOCK FALSE
