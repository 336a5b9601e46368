SPECIFICATION MemorySpec
CONSTANTS
  MaxRuns = 2
  MaxEvents = 2
  MaxAttempts = 2
  MaxLives = 1
  MaxFaults = 2
  MaxAnswers = 1
INVARIANTS MemoryIsVetted HandoffKeepsMemory RetrievalAgrees
\* the session may have no more runs, and a failed one stays down
CHECK_DEADLOCK FALSE
