SPECIFICATION Spec
CONSTANTS
  Patches  <- MCPatches
  Requests <- MCRequests
INVARIANTS
  AcceptedIsChecked
  ExecutionIsVetted
  ReasonIsTrue
  TraceTellsTheRun
PROPERTIES
  RepairsAreEarned
  RunEnds
CHECK_DEADLOCK FALSE
