SPECIFICATION FairSpec
CONSTANTS
  c1 = c1
  c2 = c2
  l1 = l1
  l2 = l2
  l3 = l3
  Connections = {c1, c2}
  Labels = {l1, l2, l3}
  MaxCommits = 3
  MaxSubs = 3
  Setups <- AllSetups
INVARIANTS
  LimiterExact
  Ascending
  NothingLeft
  
  

  
CHECK_DEADLOCK FALSE
