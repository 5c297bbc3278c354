SPECIFICATION Spec
CONSTANTS
  SendRequests = {}
  RecvRequests = {r1, r2}
  ProbeRequests = {}
  Channels = {0}
  Slots <- MCSlots
  Sources = {1, 2}
  Tags = {0, 1}
  TagSets <- MCAllTags
  NodeId = 0
  Messages <- MCInOrder
  StaleEnvelopes <- MCWarm
  SendThreshold = 1
  Threads = {}
  Calls = {"clh_recv", "clh_recv_from"}
  Removes = {}
  Exclusive = TRUE
  UcxMayFail = FALSE
  Unset = Unset
  NoMsg = NoMsg
INVARIANTS MessageInOnePlace NotStranded
PROPERTIES NeverLost ImplementsMailbox
SYMMETRY MCSymmetry
