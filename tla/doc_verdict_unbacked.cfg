SPECIFICATION Spec
CONSTANTS
  Clients        = {a, b}
  Mutants        <- MCMutants
  Reports        <- MCReports
  ReportResults  <- MCReportResults
  Metadata       <- MCMetadata
  BackendResults <- MCBackendResults
  Requests       <- MCSmallBudgets
  Considered     <- MCAllOutcomes
SYMMETRY Symmetry
INVARIANT VerdictBackedByRows
CHECK_DEADLOCK FALSE
