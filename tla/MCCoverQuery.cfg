\* Two searches, of two albums or one, every order of their replies.
CONSTANTS
  Queries = {q1, q2}
  Albums = {a, b}
  MaxCovers = 2
  MaxRetry = 1
  MaxHttp = 1
SPECIFICATION FairSpec
INVARIANTS
  TypeOK
  DeviceIsInserted
  FailureIsTold
PROPERTIES
  OutcomeIsRemembered
  EverySearchEnds
\* Nobody needs to search.
CHECK_DEADLOCK FALSE
