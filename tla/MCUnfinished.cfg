SPECIFICATION MCSpec
CONSTANTS
  Sessions = {s1}
  Terminal = terminal
  MaxTasks = 2
  MaxFaults = 1
  Configs <- MCConfigs
  Overrides <- MCOverrides
  Stale = stale
  None = None
  TaskKinds <- MCTaskKinds
  Batches = {3}
  MaxOfKind = 6
  MaxLines = 1
  Missing = Missing
INVARIANTS UnfinishedRecoverable
CHECK_DEADLOCK FALSE
