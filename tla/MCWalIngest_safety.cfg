SPECIFICATION FairSpec
CONSTANTS
  r1 = r1
  Rows = {r1}
  Scripts <- TruncateFirst
  Xids = 8
  FirstXid = 6
  MaxTx = 3
  MaxDisconnects = 1
  MaxCrashes = 1
  Drifts = TRUE
INVARIANTS
  MirrorExact
  NothingMissed
PROPERTIES
  ClockOrder
  ImplementsReplica
  CaughtUp
CHECK_DEADLOCK FALSE
