CONSTANTS
  Rooms = {r1, r2}
  NoRoom = noRoom
  Junk = junk
  MaxLines = 2
  MaxSends = 1
  MaxDrops = 1
  MaxMoves = 1
  MaxBackoff = 4
SPECIFICATION FairSpec
CHECK_DEADLOCK FALSE
INVARIANT TypeOK
INVARIANT StreamsInOrder
PROPERTY WorldLinesRouted
PROPERTY LinkRestored
