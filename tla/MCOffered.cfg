SPECIFICATION FeedbackSpec
CONSTANTS
  Node <- MCNode
  NodeType <- MCNodeType
  Edge <- MCEdge
  SendBack = {}
  GlobalGate = "n_z"
  MaxAttempts <- MCMaxAttempts
  WriteScopes <- MCWriteScopes
  Risk <- MCRisk
  Rank <- MCRank
  Op = {}
  ExternalOps <- MCNoOps
  ApproveOps <- MCNoOps
  Output = {"x", "y"}
  NoOutput = "null"
  Constraint <- MCConstraint
  MaxParallelism = 2
  MaxFailedGates <- MCUnlimited
  NodeBudget <- MCUnlimited
  GraphBudget = NoLimit
  NoLimit = NoLimit
  Amount = {}
  Unknown = Unknown
  Outcome = {"PASS", "FAIL"}
  HostReason = {}
INVARIANTS OfferedStartable
CHECK_DEADLOCK FALSE
