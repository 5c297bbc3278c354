SPECIFICATION FairSpec
CONSTANTS
  SendRequests = {}
  RecvRequests = {r1}
  ProbeRequests = {}
  Channels = {0, 1}
  Slots <- MCSlots
  Sources = {1}
  Tags = {0}
  TagSets <- MCAllTags
  NodeId = 0
  Messages <- MCOnChannelOne
  StaleEnvelopes <- MCWarm
  SendThreshold = 1
  Threads = {}
  Calls = {"clh_recv"}
  Removes = {}
  Exclusive = FALSE
  UcxMayFail = FALSE
  Unset = Unset
  NoMsg = NoMsg
PROPERTIES NoStarvation
