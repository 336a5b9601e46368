SPECIFICATION FairSpec
CONSTANTS
  Clients = {c1, c2}
  MaxTurns = 3
  MaxExecutions = 2
  MaxSessions = 2
INVARIANT SerialTurns
PROPERTIES NoLaunchAfterCancel LanePromise TurnsTaken CancelSettles
\* a session completes and nobody starts it again
CHECK_DEADLOCK FALSE
