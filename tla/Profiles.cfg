CONSTANTS
  Names = {default, other}
  Default = default
  NoProfile = noProfile
  Requests = {q1, q2, q3}
  MaxDocs = 2
  MaxRooms = 1
  MaxReloads = 1
  MaxCrashes = 1
SPECIFICATION FairSpec
CHECK_DEADLOCK FALSE
INVARIANT TypeOK
INVARIANT OneOrExplained
INVARIANT ActivationsSettle
PROPERTY AnswersComeTrue
