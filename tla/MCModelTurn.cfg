SPECIFICATION TurnFairSpec
CONSTANTS
  Budget <- SmallBudget
  Requested <- SmallRequests
  MaxMessages = 6
  Batches <- SmallBatches
  Tasks = {"research", "critic"}
  Costs = {2}
  MaxPauses = 1
  FanOut = {TRUE}
  MaxTurns = 2
  MaxSteers = 2
  MaxLate = 1
INVARIANTS ContextInOrder LedgersBalance
PROPERTIES CompletionsBillEverything TurnsEnd
\* the session ends after MaxTurns
CHECK_DEADLOCK FALSE
