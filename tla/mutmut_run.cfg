SPECIFICATION Spec
CONSTANTS
  Mutants    <- MCMutants
  Tests      = {"t1"}
  Files      <- MCTargets
  Targets    <- MCTargets
  Versions   = {1, 2}
  Gone       = Gone
  NoMeta     = NoMeta
  Invalid    = Invalid
  MutantsOf  <- MCMutantsOf
  Statuses   <- MCStatuses
  Heads      <- MCHeads
  OldMetas   <- MCOldMetas
  MaxMutants = 2
  MaxEdits   = 2
INVARIANTS
  ResultIsExpected
  CompleteIsWhole
  ResultIsOfTheRevision
CHECK_DEADLOCK FALSE
