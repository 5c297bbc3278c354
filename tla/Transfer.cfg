SPECIFICATION Spec
CONSTANTS
  SendRequests = {s1, s2}
  RecvRequests = {r1, r2}
  ProbeRequests = {}
  Channels = {0, 1}
  Slots <- MCSlots
  Sources = {1}
  Tags = {0}
  TagSets <- MCAllTags
  NodeId = 0
  Messages <- MCTwoChannels
  StaleEnvelopes <- MCFreshOrWarm
  SendThreshold = 1
  Threads = {}
  Calls = {"clh_send", "clh_recv"}
  Removes = {}
  Exclusive = FALSE
  UcxMayFail = TRUE
  Unset = Unset
  NoMsg = NoMsg
INVARIANTS TypeOK NodeOnOneList PendingIsTracked SendCountExact ReceivedMatches
SYMMETRY MCSymmetry
