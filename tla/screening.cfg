SPECIFICATION Spec
CONSTANTS
  i1 = i1
  i2 = i2
  A = A
  B = B
  p1 = p1
  p2 = p2
  Ids <- TwoIds
  RoleOf <- OneRole
  Codes <- OneCode
  Passes <- OnePass
  Budget = 2
  TriageBatch = 1
  DeepBatch = 2
  Ceiling = 1
  MaxNoting = 1
  MaxRestarts = 0
SYMMETRY Symmetry
INVARIANTS
  TypeOK
  
PROPERTY OpenLeavesOwned
