SPECIFICATION MCSpec
CONSTANTS
  None = None
  NoTree = NoTree
  NoFile = NoFile
  Payloads <- MCPayloads
  Trees <- MCTrees
  Contents <- MCContents
  RequirementOf <- MCRequirementOf
  Reported <- MCReported
  FirstTrees <- MCTrees
  FirstFiles <- MCFirstFiles
  MaxCases = 2
  MaxEdits = 2
INVARIANTS MeasuredAsDeclared MetricsAreFair
CHECK_DEADLOCK FALSE
