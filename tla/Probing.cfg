SPECIFICATION Spec
CONSTANTS
  SendRequests = {}
  RecvRequests = {}
  ProbeRequests = {p1, p2}
  Channels = {0}
  Slots <- MCSlots
  Sources = {1}
  Tags = {0, 1}
  TagSets <- MCTagOne
  NodeId = 0
  Messages <- MCAlikeBehind
  StaleEnvelopes <- MCWarm
  SendThreshold = 1
  Threads = {t1, t2}
  Calls = {"clh_probe", "clh_probe_source"}
  Removes = {TRUE, FALSE}
  Exclusive = TRUE
  UcxMayFail = FALSE
  Unset = Unset
  NoMsg = NoMsg
INVARIANTS PoolHomes ProbeMatches ProbedIsReceived NoListAssertion
PROPERTIES ImplementsMailbox
SYMMETRY MCSymmetry
