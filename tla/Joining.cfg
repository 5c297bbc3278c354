SPECIFICATION FairSpec
CONSTANTS
  Nodes <- MCThreeNodes
  SpuriousWakeups = TRUE
  MayFail = {"ucx_init", "sync", "barrier", "final"}
INVARIANTS FencesMatch AddressesKnown ServingWhenReady
PROPERTIES InitReturnsUnlessLost
CHECK_DEADLOCK FALSE
