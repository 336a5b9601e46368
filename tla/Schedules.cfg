SPECIFICATION FairSpec
CONSTANTS
  Schedules = {s}
  Foreign = {other, dotted}
  BadIds = {dotted}
  Requests = {q}
  Page = page
  Fires = {f}
  MaxAttempts = 2
  MaxWork = 2
INVARIANT FiresAreRecorded
PROPERTIES Reconciled ProjectionCatchesUp
