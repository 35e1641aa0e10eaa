CONSTANTS
  Count = 2
  Per = 3
  MaxTime = 6
  MaxRebuilds = 2
SPECIFICATION Spec
INVARIANT WithinRate
PROPERTY KeepsTheLimit
