CONSTANTS
  MaxExits = 3
  MaxCommands = 3
  MaxBackoff = 3
SPECIFICATION FairSpec
CHECK_DEADLOCK FALSE
INVARIANT WorkersTypeOK
PROPERTY NoStrayWorker
PROPERTY WorkerComesBack
PROPERTY StopServedUnlessMissed
