CONSTANTS
  Posers = {a}
  Nobody = nobody
  Chars = {1, 2}
  Texts <- TwoThreats
  Plain <- PlainText
  Poses = {p1, p2}
  MaxLines = 1
  MaxNudges = 2
  Budget = 2
  SCENE_QUEUE_CAP = 2
  NudgeCap = 2
SPECIFICATION Spec
SYMMETRY Symmetry
INVARIANT AsksRightly
PROPERTY ConsentIsRecent
