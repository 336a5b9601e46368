SPECIFICATION SandboxFairSpec
CONSTANTS
  Background = {b}
  Commands = {o}
  Ephemeral = {e}
  Others = {o}
  MaxCrashes = 1
INVARIANT ProcessesAccounted
PROPERTIES CancelReaps CommandsReturn
