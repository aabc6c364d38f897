SPECIFICATION FairSpec
CONSTANTS
  t1 = t1
  t2 = t2
  v = v
  Null = Null
  Unchanged = Unchanged
  Tables = {t1, t2}
  Columns = {1}
  Datums = {Null, v}
  Readers = {c1}
  Snapshots <- SmallSnapshots
  Capacity = 2
  MaxLsn = 3
  MaxChanges = 1
  MaxReconciles = 1
  MaxPushed = 3
  MaxMixed = 1
  Orderly = TRUE
INVARIANTS
  NoGap
  
  
  SnapshotThenTail
  BatchWhole
PROPERTIES
  EventuallyServed
CHECK_DEADLOCK FALSE
