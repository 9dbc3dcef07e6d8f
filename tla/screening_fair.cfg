SPECIFICATION FairSpec
CONSTANTS
  i1 = i1
  i2 = i2
  A = A
  B = B
  p1 = p1
  p2 = p2
  Ids <- OneId
  RoleOf <- OneRole
  Codes <- TwoCodes
  Passes <- OnePass
  Budget = 1
  TriageBatch = 1
  DeepBatch = 1
  Ceiling = 2
  MaxNoting = 0
  MaxRestarts = 1
INVARIANT JudgedCarriesVerdict
PROPERTIES
  BodyWaitEnds
  DeadResumeLeaves
