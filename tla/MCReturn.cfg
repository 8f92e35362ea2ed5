SPECIFICATION Spec
CONSTANTS
  Node <- MCNode
  NodeType <- MCNodeType
  Edge <- MCEdge
  SendBack <- MCSendBack
  GlobalGate = "n_z"
  MaxAttempts <- MCMaxAttempts
  WriteScopes <- MCWriteScopes
  Risk <- MCRisk
  Rank <- MCRank
  Op = {}
  ExternalOps <- MCNoOps
  ApproveOps <- MCNoOps
  Output = {"x"}
  NoOutput = "null"
  Constraint = {}
  MaxParallelism = 2
  MaxFailedGates <- MCUnlimited
  NodeBudget <- MCNodeBudget
  GraphBudget = 8
  NoLimit = NoLimit
  Amount = {1, 2}
  Unknown = Unknown
  Outcome = {"PASS", "FAIL", "INCONCLUSIVE"}
  HostReason = {}
INVARIANTS AcceptedWithinBudget
PROPERTIES SendBackAllOrNothing ResumeCompletesSendBack
CHECK_DEADLOCK FALSE
