CONSTANTS
  MaxExits = 1
  MaxCommands = 1
  MaxBackoff = 2
SPECIFICATION FairSpec
PROPERTY UnexpectedExitRespawned
CHECK_DEADLOCK FALSE
