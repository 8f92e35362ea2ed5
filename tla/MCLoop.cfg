SPECIFICATION MCSpec
CONSTANTS
  Node <- MCNode
  NodeType <- MCNodeType
  Edge <- MCEdge
  SendBack <- MCSendBack
  GlobalGate = "n_z"
  MaxAttempts <- MCMaxAttempts
  WriteScopes <- MCWriteScopes
  Risk <- MCRisk
  Rank <- MCRank
  Op = {}
  ExternalOps <- MCNoOps
  ApproveOps <- MCNoOps
  Output = {"x"}
  NoOutput = "null"
  Constraint = {}
  MaxParallelism = 2
  MaxFailedGates <- MCUnlimited
  NodeBudget <- MCUnlimited
  GraphBudget = NoLimit
  NoLimit = NoLimit
  NoNode = "none"
  Amount = {}
  Unknown = Unknown
  Outcome = {"PASS", "FAIL", "INCONCLUSIVE"}
  HostReason = {"HOST"}
  Engines = {"first", "second"}
  Tasks = {"task", "approval", "action"}
  Approving = {"approval"}
  Acting = {"action"}
  TaskAttempts <- MCTaskAttempts
  MaxRevisions = 2
  MaxStops = 1
  Candidates <- MCCandidates
  Nobody = "nobody"
INVARIANTS HistoryTold CheckpointLag RunningInputFresh StoreOpens GrantedOnce ReplanSafe PolicyEarned
CHECK_DEADLOCK FALSE
