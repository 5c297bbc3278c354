SPECIFICATION NetFairSpec
CONSTANTS
  Nodes <- MCNodes
  SpuriousWakeups = TRUE
  MayFail = {"ucx_init", "sync", "final"}
  TagBits = 5
  CHANNEL_OFFSET = 4
  SENDER_ID_OFFSET = 2
  U32Bits = 2
  AppMessages <- MCMessages
  AppReceives <- MCReceives
  AnySource = AnySource
  None = None
INVARIANTS RightMessage SafeClose OnlyTheHastyDie
PROPERTIES ImplementsStartup  AllReturn
CHECK_DEADLOCK FALSE
