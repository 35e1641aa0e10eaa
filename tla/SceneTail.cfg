CONSTANTS
  Posers = {a, b}
  Nobody = nobody
  Chars = {}
  Texts <- NoTexts
  Plain <- PlainText
  Poses = {p1}
  MaxLines = 4
  MaxNudges = 0
  Budget = 3
  SCENE_QUEUE_CAP = 2
  NudgeCap = 2
SPECIFICATION Spec
SYMMETRY Symmetry
INVARIANT TypeOK
INVARIANT TailSound
PROPERTY HandedOnce
