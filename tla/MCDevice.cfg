SPECIFICATION MCSpec
CONSTANTS
  Plans <- MCPlans
  Parallelism = 2
  MaxRuns = 3
  MaxTotalTokens = 7
  MaxTokensPerRun = 2
  Outputs <- MCOutputs
  MaxMatches = 1
  Crossings = {"harness read"}
  Files = {"source", "tests"}
  Oracle = {"tests"}
  Required = {"source"}
  EnoughRows = 1
  Unknown = Unknown
  Rules <- MCRules
  Category <- MCCategory
  Manifests <- MCManifests
  MaxCases = 4
  MediumPairs = 2
  HighPairs = 3
  MaxRoots = 2
  Scans <- MCScans
  Unregistered = "other"
  Raised = Raised
  Nothing = Nothing
  AgentOrder <- MCAgents
  Versions = {v1, v2}
  MaxTxns = 2
  UserFiles = {"device"}
  Missing = Missing
  Edited = Edited
  Guarded = Guarded
INVARIANTS UndoesOnlyItsOwn ModelContained CeilingsHold ResultsBacked ReportEarned
PROPERTIES ReportsTrue
CHECK_DEADLOCK FALSE
