CONSTANTS
  Cases <- MCCases
  Streaming = TRUE
  Window = 0
  ConnectTries = 2
  MaxFaults = 2
SPECIFICATION FairSpec
INVARIANTS
  WholeTransactions
  RepeatsOnlyByRestart
  NothingSkipped
PROPERTIES
  Delivers
