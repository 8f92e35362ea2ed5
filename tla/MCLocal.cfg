SPECIFICATION MCSpec
SYMMETRY MCSymmetry
CONSTANTS
  rule = rule
  Procs = {p, q}
  Refs = {rule}
  Files <- MCFiles
  MaxRows = 2
  MaxVersion = 2
  MaxArchives = 2
  MaxKills = 1
  None = None
  Sessions <- MCSessions
  laptop = laptop
  desktop = desktop
  Identities = {laptop, desktop}
  HostName = laptop
  Exports <- MCExports
  Exporters = {x, y}
  LegacyFiles <- MCLegacy
  Observations <- MCObservations
  Summaries <- MCSummaries
  MaxDetail = 3
  MaxCollection = 2
  BatchSize = 2
  MaxCycles = 2
  Absent = Absent
INVARIANTS NothingLost ImportedOnce GraphCoherent ClaimsBacked DeliveredWhole
CHECK_DEADLOCK FALSE
