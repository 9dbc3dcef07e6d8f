SPECIFICATION FairLifecycle
CONSTANTS
  Handlers = {h1}
  DailyCap = 0
  RoundCap = 2
  MaxWideningSteps = 1
  NewJobTarget = 1
  MaxCycles = 1
  MaxUsage = 3
  MaxDays = 1
  Flips = {}
  MaxQueries = 1
  MaxFaults = 2
PROPERTIES
  EveryRoundEnds
