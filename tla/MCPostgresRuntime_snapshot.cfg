SPECIFICATION Spec
CONSTANTS
  t1 = t1
  t2 = t2
  v = v
  Null = Null
  Unchanged = Unchanged
  Tables = {t1}
  Columns = {1}
  Datums = {Null, v}
  Readers = {c1}
  Snapshots <- SmallSnapshots
  Capacity = 2
  MaxLsn = 2
  MaxChanges = 1
  MaxReconciles = 1
  MaxPushed = 9
  MaxMixed = 0
  Orderly = TRUE
INVARIANTS
  SnapshotVisible
CHECK_DEADLOCK FALSE
