SPECIFICATION SafetySpec
CONSTANTS
  Patches  <- MCPatches
  Requests <- MCRequests
INVARIANT TimeoutIsReported
CHECK_DEADLOCK FALSE
