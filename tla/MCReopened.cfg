SPECIFICATION Spec
CONSTANTS
  Node <- ReopenedNode
  NodeType <- ReopenedNodeType
  Edge <- ReopenedEdge
  SendBack = {}
  GlobalGate = "n_z"
  MaxAttempts <- ReopenedMaxAttempts
  WriteScopes <- ReopenedNothing
  Risk <- ReopenedRisk
  Rank <- ReopenedRank
  Op = {}
  ExternalOps <- ReopenedNothing
  ApproveOps <- ReopenedNothing
  Output = {"x"}
  NoOutput = "null"
  Constraint = {}
  MaxParallelism = 2
  MaxFailedGates <- ReopenedUnlimited
  NodeBudget <- ReopenedUnlimited
  GraphBudget = NoLimit
  NoLimit = NoLimit
  Amount = {}
  Unknown = Unknown
  Outcome = {"PASS", "FAIL", "INCONCLUSIVE"}
  HostReason = {"HOST"}
INVARIANTS SkipJustified
