CONSTANTS
  t1 = t1
  t2 = t2
  Terminals = {t1, t2}
  UseSpot = TRUE
  Contents = {1, 2}
  MaxBoxes = 2
  MaxCommands = 4
  MaxFaults = 1
SPECIFICATION Spec
SYMMETRY Symmetry
VIEW View
CHECK_DEADLOCK FALSE
INVARIANT TypeOK
PROPERTY NothingLeftUnseen
PROPERTY SavedBoxOpens
PROPERTY ResultsTrusted
