SPECIFICATION FairSpec
CONSTANTS
  Nodes <- MCTwoNodes
  SpuriousWakeups = FALSE
  MayFail = {}
PROPERTIES InitReturns
CHECK_DEADLOCK FALSE
