SPECIFICATION Spec
CONSTANTS
  r1 = r1
  Rows = {r1}
  Scripts <- InsertThenTruncate
  Xids = 8
  FirstXid = 6
  MaxTx = 2
  MaxDisconnects = 0
  MaxCrashes = 0
  Drifts = TRUE
INVARIANTS
  MirrorExact
CHECK_DEADLOCK FALSE
