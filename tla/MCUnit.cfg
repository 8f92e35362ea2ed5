SPECIFICATION FairSpec
CONSTANTS
  Units = {1, 2, 3}
  Graphs <- MCGraphs
  Owner <- MCOwner
  GraphLimit = 2
  UnitPolicy <- MCUnitPolicy
  StagePolicy <- MCStagePolicy
  MaxSteps = 4
  MaxRuns = 4
  MaxParallelism = 2
  WallLimit = TRUE
INVARIANTS NothingDoneBehindOpen RecordsSound OrderSound
PROPERTIES Converges
CHECK_DEADLOCK FALSE
