SPECIFICATION MCSpec
CONSTANTS
  Clients      = {a, b}
  Ids          = {"r1", "r2"}
  Actions      <- MCActions
  NoAction     = "no action"
  Words        <- MCWords
  Paths        <- MCPaths
  NoDocument   = NoDocument
  Documents    <- MCDocuments
  Requests     <- MCAllRequests
  Repositories <- MCRepositories
  Databases    <- MCDatabases
  Script       <- MCScript
  MaxActions   = 6
  MaxFiles     = 2
SYMMETRY Symmetry
INVARIANTS
  SchemaStamped
  LinksAreOfOneMapping
  DecisionRestsOnEvidence
  AnalysisIsSound
PROPERTY MigrationIsAdditive
CHECK_DEADLOCK FALSE
