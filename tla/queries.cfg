SPECIFICATION Spec
CONSTANTS
  Labels <- PlainLabels
  MaxQueries = 3
  MaxAnswer = 4
  MaxWidened = 1
  Wideners = {w1}
INVARIANTS
  TypeOK
  
  

  
CHECK_DEADLOCK FALSE
