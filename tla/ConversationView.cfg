SPECIFICATION ViewFairSpec
CONSTANTS
  Shapes = {{"tool", "approval", "delegate"}}
  MaxTurns = 2
  MaxWords = 1
  MaxToggles = 1
  MaxStops = 1
INVARIANTS ViewIsFold ReadsInOrder
PROPERTY ComposerFreed
\* the user submits MaxTurns times, and then nothing is left to do
CHECK_DEADLOCK FALSE
