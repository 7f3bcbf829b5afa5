SPECIFICATION Spec
CONSTANTS
  Clients        = {a, b}
  Mutants        <- MCMutants
  Reports        <- MCReports
  ReportResults  <- MCReportResults
  Metadata       <- MCMetadata
  BackendResults <- MCBackendResults
  Requests       <- MCCallRequests
  Considered     <- MCAllOutcomes
SYMMETRY Symmetry
INVARIANTS
  ReadIsWhole
  AssessmentResolves
  TracesAreOfOneCall
  VerdictNotContradicted
CHECK_DEADLOCK FALSE
