SPECIFICATION Spec
CONSTANTS
  Inputs <- MCInputs
  Thresholds <- MCThresholds
  MaxEligible = 3
INVARIANTS
  MoreKillsNeverHurt
  WorseInputNeverHelps
  VerdictWithinRounding
CHECK_DEADLOCK FALSE
