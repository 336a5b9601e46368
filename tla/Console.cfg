SPECIFICATION FairSpec
CONSTANTS
  MaxOpen = 5
  MaxCrossing = 2
  Sessions = {"a", "b"}
  MaxActs = 2
  MaxSteps = 4
  MaxChanges = 1
  MaxFaults = 1
INVARIANT PagesKeepTrueCopies
PROPERTY ListsCatchUp
\* the user acts a bounded number of times, and then a page that does not poll is at rest
CHECK_DEADLOCK FALSE
