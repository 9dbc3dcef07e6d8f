SPECIFICATION FairSpec
CONSTANTS
  en = en
  tr = tr
  none = none
  Entries <- SmallDisk
  MaxContent = 2
  MaxRoles = 2
  DefaultLanguage = en
  NoLanguage = none
  Dirs = {d1}
  NoDir = NoDir
  Runners = {r1, r2}
  MaxEdits = 2
INVARIANTS
  TypeOK
  OneResumePerCode
  CandidateIsBacked
  
PROPERTIES
  NoPaidTwice
  
