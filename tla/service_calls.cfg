SPECIFICATION MCSpec
CONSTANTS
  Mutants         <- MCMutants
  Tests           <- MCTests
  Scenarios       <- MCScenarios
  Intents         <- MCIntents
  CtxEvidence     <- MCCtxEvidence
  Revisions       = {"r1", "r2"}
  Reports         <- MCAllReports
  ReportContent   <- MCReportContent
  Requests        <- MCRequests
  InjectedResults <- MCAllInjected
  MaxEdits        = 2
INVARIANTS
  TypeOK
  VerdictRestsOnEvidence
  PassMeansClean
  ModelNeverDecides
  FinishKeepsContract
  ReasonIsReal
  BudgetsHold
  WholeLoopFitsBudget
PROPERTIES
  ProviderNeedsPermission
  CallEnds
  PastDeadlineNoVerdict
  ImplementsControlledLoop
CHECK_DEADLOCK FALSE
