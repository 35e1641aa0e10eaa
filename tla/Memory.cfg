SPECIFICATION Spec
CONSTANTS
  Panels = {p1}
  Rules = {r1}
  MaxLines = 2
  MaxOps = 3
  MaxCrashes = 1
INVARIANT TypeOK
INVARIANT Durable
PROPERTY MaskKept
PROPERTY PurgeExcises
