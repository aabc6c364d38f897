SPECIFICATION FairSpec
CONSTANTS
  a = a
  b = b
  Keys = {k1}
  Columns = {1}
  Values = {a, b}
  Absent = Absent
  Untracked = Untracked
  Kinds <- SomeKinds
  Disturbances <- Everything
  MaxTokens = 2
  MaxFaults = 2
INVARIANTS
  VisibleIsReplay
  OneOutcome
  Converged
PROPERTIES
  OutcomeIsFinal
  RejectedIsResolved
CHECK_DEADLOCK FALSE
