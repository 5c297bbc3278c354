SPECIFICATION Spec
CONSTANTS
  SendRequests = {}
  RecvRequests = {r1}
  ProbeRequests = {p1}
  Channels = {0}
  Slots <- MCSlots
  Sources = {1}
  Tags = {0}
  TagSets <- MCAllTags
  NodeId = 0
  Messages <- MCOneMessage
  StaleEnvelopes <- MCWarm
  SendThreshold = 1
  Threads = {t1}
  Calls = {"clh_recv", "clh_probe"}
  Removes = {TRUE}
  Exclusive = FALSE
  UcxMayFail = FALSE
  Unset = Unset
  NoMsg = NoMsg
INVARIANTS NoListAssertion
