SPECIFICATION FairSpec
CONSTANTS
  a = a
  b = b
  Keys = {k1}
  Columns = {1}
  Values = {a, b}
  Absent = Absent
  Untracked = Untracked
  Kinds <- Inserts
  Disturbances = {"reconnect"}
  MaxTokens = 1
  MaxFaults = 1
PROPERTIES
  AcceptedSettles
CHECK_DEADLOCK FALSE
