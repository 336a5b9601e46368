SPECIFICATION FairSpec
CONSTANTS
  Resolvers = {u1, u2}
  MaxModelCalls = 2
  MaxToolCalls = 2
  MaxActions = 5
  MaxChildWorkflows = 4
  MaxBatch = 2
  MaxTasks = 2
INVARIANTS OnlyApprovedRuns ResolversServed RunAccounted
PROPERTY RunEnds
\* a closed run takes no further step
CHECK_DEADLOCK FALSE
