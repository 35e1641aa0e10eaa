CONSTANTS
  ann = ann
  bob = bob
  n1 = n1
  n2 = n2
  n3 = n3
  pub = pub
  ctl = ctl
  Players = {ann, bob}
  Names = {n1, n2, n3}
  Nobody = nobody
  Channels = {pub, ctl}
  Docs <- MCDocs
  Lines <- MCLines
  GlobalAdmins = {ann}
  Cap = 2
  MaxLines = 3
  MaxOps = 2
SPECIFICATION Spec
SYMMETRY Symmetry
CHECK_DEADLOCK FALSE
INVARIANT TypeOK
INVARIANT TellsTheLatest
PROPERTY MuteEndsTheChat
PROPERTY ObeysAdmins
