SPECIFICATION Spec
CONSTANTS
  Handlers = {h1}
  DailyCap = 2
  RoundCap = 2
  MaxWideningSteps = 1
  NewJobTarget = 1
  MaxCycles = 2
  MaxUsage = 2
  MaxDays = 2
  Flips = {"paused", "connected", "indexed"}
INVARIANTS
  LoneRequestOneRound
PROPERTIES
  InSequence
