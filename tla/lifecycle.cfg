SPECIFICATION FairLifecycle
CONSTANTS
  Handlers = {h1, h2}
  DailyCap = 0
  RoundCap = 0
  MaxWideningSteps = 1
  NewJobTarget = 1
  MaxCycles = 2
  MaxUsage = 3
  MaxDays = 1
  Flips = {}
  MaxQueries = 1
  MaxFaults = 1
INVARIANTS
  LifecycleTypeOK
  FaultFreeRunIsRecorded
PROPERTIES
  EveryRoundEnds
