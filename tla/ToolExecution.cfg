SPECIFICATION FairSpec
CONSTANTS
  MacOS = TRUE
  Agendas <- MCAgendas
  MaxAttempts = 2
  MaxAbandoned = 1
  MaxElsewhere = 1
  MaxDied = 1
INVARIANTS  LeavingsAreOwned ProcessesAreManaged
PROPERTY CallsReturn
\* calls that were all answered leave nothing to do
CHECK_DEADLOCK FALSE
