SPECIFICATION InspectorFairSpec
CONSTANTS
  MaxCalls = 1
  MaxAttempts = 2
  Children = {research}
  MaxRetries = 1
INVARIANTS ApprovalsAgree InspectorShowsTheRun
PROPERTY CallsSettle
\* a run that was recorded takes no further step
CHECK_DEADLOCK FALSE
