CONSTANTS
  Keys <- MCKeys
  Secret <- MCSecret
  Capacity = 1
  Initial = 1
  Factor = 2
  Longest = 3
  MaxCommits = 2
  MaxLabels = 2
  MaxSids = 3
  Window = 1
  MaxFaults = 2
  Shared = {FALSE}
SPECIFICATION FairSpec
INVARIANTS
  ViewExact
  CacheIsView
  
  AckedWasGiven
PROPERTIES
  EndsCurrent
CHECK_DEADLOCK FALSE
