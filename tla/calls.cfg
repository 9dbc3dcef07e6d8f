SPECIFICATION Spec
CONSTANTS
  Handlers = {h1, h2}
  EnvRaw <- NoEnv
  Rotates = TRUE
  MaxGrants = 3
  MaxAttempts = 2
  MaxNudges = 1
  Retention = 1
  MaxPreview = 1
  MaxCalls = 2
  MaxPending = 2
  MaxCrashes = 1
SYMMETRY Symmetry
INVARIANTS
  TypeOK
  RunningHasOwner
PROPERTIES
  NoDeltaAfterEnd
  
