SPECIFICATION FairSpec
CONSTANTS
  SendRequests = {s1, s2}
  RecvRequests = {r1}
  ProbeRequests = {}
  Channels = {0}
  Slots <- MCSlots
  Sources = {1, 2}
  Tags = {0}
  TagSets <- MCAllTags
  NodeId = 0
  Messages <- MCTwoSources
  StaleEnvelopes <- MCWarm
  SendThreshold = 1
  Threads = {}
  Calls = {"clh_send", "clh_recv_from"}
  Removes = {}
  Exclusive = FALSE
  UcxMayFail = FALSE
  Unset = Unset
  NoMsg = NoMsg
PROPERTIES NoStarvation FinalizeReturns
