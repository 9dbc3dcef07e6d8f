SPECIFICATION Spec
CONSTANTS
  Handlers = {h1, h2}
  DailyCap = 2
  RoundCap = 3
  MaxWideningSteps = 1
  NewJobTarget = 1
  MaxCycles = 2
  MaxUsage = 2
  MaxDays = 2
  Flips = {}
SYMMETRY Symmetry
INVARIANTS
  TypeOK
  WideningBounded
  LedgerCovers
PROPERTIES
  ClosedIsFinal
