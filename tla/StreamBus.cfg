SPECIFICATION FairSpec
CONSTANTS
  Subscribers = {s1}
  MaxEvents = 3
  Limit = 2
  MaxAttempts = 2
  MaxLate = 1
  MaxIds = 2
INVARIANTS RowsReachSubscribers EndIsTold
PROPERTY StreamCloses
\* a stream that ended, and a run that was recorded, take no further step
CHECK_DEADLOCK FALSE
