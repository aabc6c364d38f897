SPECIFICATION FairSpec
CONSTANTS
  a1 = a1
  a2 = a2
  MaxKey = 4
  Contents <- Some
  Agents = {a1, a2}
  Efforts = {0, 1}
  MaxTime = 3
  MaxMessages = 3
  MaxReads = 2
INVARIANTS
  NeverPanics
  LayersFit
  
  ImportExact
PROPERTIES
  Compacts
CHECK_DEADLOCK FALSE
