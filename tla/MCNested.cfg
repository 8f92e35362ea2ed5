SPECIFICATION Spec
CONSTANTS
  Node <- NestedNode
  NodeType <- NestedNodeType
  Edge <- NestedEdge
  SendBack <- NestedSendBack
  GlobalGate = "n_z"
  MaxAttempts <- NestedMaxAttempts
  WriteScopes <- NestedNothing
  Risk <- NestedRisk
  Rank <- NestedRank
  Op = {}
  ExternalOps <- NestedNothing
  ApproveOps <- NestedNothing
  Output = {"x"}
  NoOutput = "null"
  Constraint = {}
  MaxParallelism = 2
  MaxFailedGates <- NestedUnlimited
  NodeBudget <- NestedUnlimited
  GraphBudget = NoLimit
  NoLimit = NoLimit
  Amount = {}
  Unknown = Unknown
  Outcome = {"PASS", "FAIL", "INCONCLUSIVE"}
  HostReason = {}
INVARIANTS SendBackComposes
