SPECIFICATION Spec
CONSTANTS
  Node <- MCNode
  NodeType <- MCNodeType
  Edge <- MCEdge
  SendBack = {}
  GlobalGate = "n_z"
  MaxAttempts <- MCMaxAttempts
  WriteScopes <- MCWriteScopes
  Risk <- MCRisk
  Rank <- MCRank
  Op = {"publish"}
  ExternalOps <- MCExternalOps
  ApproveOps <- MCApproveOps
  Output = {"x"}
  NoOutput = "null"
  Constraint = {}
  MaxParallelism = 2
  MaxFailedGates <- MCUnlimited
  NodeBudget <- MCUnlimited
  GraphBudget = NoLimit
  NoLimit = NoLimit
  Amount = {}
  Unknown = Unknown
  Outcome = {"PASS", "FAIL", "INCONCLUSIVE"}
  HostReason = {"HOST"}
INVARIANTS ExternalSound
PROPERTIES ApproverCurrent
CHECK_DEADLOCK FALSE
