SPECIFICATION FairSpec
CONSTANTS
  Sessions = {"mine", "other"}
  Scripts <- SmallScripts
  MaxRuns <- SmallRuns
  MaxVisits = 2
  MaxSubmissions = 1
  MaxMoves = 3
  MaxUnobservable = 2
  MaxHandoff = 1
  MaxSettlement = 2
INVARIANT PageFollowsRun
PROPERTIES SettledIsWhole ComposerFreed
CHECK_DEADLOCK FALSE
