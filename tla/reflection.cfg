SPECIFICATION FairSpec
CONSTANTS
  Postings = {p1, p2}
  Requests = {q1}
  Reflectors = {r1, r2}
  MinOutcomes = 1
  OutcomesPerReflection = 2
  OutcomeWindow = 2
  MaxLessons = 1
  ReflectorNoteCap = 1
  NoteCap = 1
  NoPosting = NoPosting
  MaxRecorded = 4
  MaxNotes = 2
  MaxFailures = 1
INVARIANTS
  TypeOK
  PaidByOutcomes
  ScopesWithinCap
PROPERTIES
  RetiresWhatItRead
  DueIsReflected
