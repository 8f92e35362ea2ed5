SPECIFICATION AliveSpec
CONSTANTS
  hook = hook
  desktop = desktop
  Procs = {laptop, hook, desktop}
  Devices <- MCDevices
  On <- MCOn
  Packets <- MCPackets
  MaxCases = 2
  MaxCandidates = 1
  MaxRules = 2
  MaxFaults = 2
  Retries = 1
  Stale = stale
  None = None
INVARIANTS RolledBackWhole
