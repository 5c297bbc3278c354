------------------------------- MODULE Worker -------------------------------
(***************************************************************************)
(* One CLH handle: the communication calls of clh/clh.c, made by the       *)
(* application's threads, and the run thread (run_) that turns requests    *)
(* into UCX operations and completes them.                                 *)
(*                                                                         *)
(* A region under a list mutex is one atomic step, so is everything a      *)
(* thread does to state no other thread can reach.  The places where the   *)
(* code lets go of a mutex and later uses what it read under it            *)
(* (message_search) are separate steps.  UCX (tag matching, probing,       *)
(* progress) is external and modelled from the calls in clh/ucx.c.         *)
(*                                                                         *)
(* A full 64-bit tag is its decoded envelope (channel, source, tag), and a *)
(* tag with its mask is the set of envelopes that pass the masked compare. *)
(***************************************************************************)
EXTENDS Naturals, Sequences, FiniteSets, SequencesExt

CONSTANTS
  SendRequests,   \* nodes of the send request pool, allocated or to be
  RecvRequests,   \* nodes of the receive request pool
  ProbeRequests,  \* nodes of the probe request pool
  Channels,       \* the channels in use, each with its recv_list
  Slots,          \* message nodes of one recv_list
  Sources,        \* the ranks of the peers
  Tags,           \* the user tags in use
  TagSets,        \* what a user (tag, tag_mask) pair selects: sets of tags
  NodeId,         \* the rank of this node
  Messages,       \* what the peers send here: [channel, source, tag, n]
  StaleEnvelopes, \* what a pooled request's channel, source and tag may hold
  SendThreshold,  \* CONF_SEND_THRESH
  Threads,        \* the application threads that probe
  Calls,          \* the calls the application makes
  Removes,        \* the values of remove it probes with
  Exclusive,      \* whether its probes keep clear of what removes messages
  UcxMayFail,     \* whether UCX may report an error
  Unset,          \* in a channel field nobody wrote: the index of none of Channels
  NoMsg           \* NULL, for a message handle

Requests == SendRequests \cup RecvRequests \cup ProbeRequests
Types == {"SEND", "RECV", "PROBE"}
Pool == [SEND |-> SendRequests, RECV |-> RecvRequests, PROBE |-> ProbeRequests]
Envelopes == [channel : Channels, source : Sources \cup {NodeId}, tag : Tags]
Stored == [channel : Channels \cup {Unset}, source : Sources \cup {NodeId}, tag : Tags]
Filters == [channel : Channels, sources : SUBSET (Sources \cup {NodeId}), tags : SUBSET Tags]

ASSUME PoolsDisjoint ==
  /\ SendRequests \cap RecvRequests = {}
  /\ SendRequests \cap ProbeRequests = {}
  /\ RecvRequests \cap ProbeRequests = {}
ASSUME PoolsFinite == IsFiniteSet(SendRequests)
ASSUME ThresholdNat == SendThreshold \in Nat
ASSUME MessagesType ==
  /\ Messages \subseteq [channel : Channels, source : Sources, tag : Tags, n : Nat]
  /\ NoMsg \notin Messages
ASSUME StaleType == StaleEnvelopes \subseteq Stored /\ Unset \notin Channels
ASSUME TagSetsType == TagSets \subseteq SUBSET Tags
ASSUME SlotsType == Slots \subseteq Nat \ {0}
ASSUME ChannelsNonEmpty == Channels # {}
ASSUME CallsType ==
  /\ Calls \subseteq {"clh_send", "clh_recv", "clh_recv_from", "clh_probe", "clh_probe_source"}
  /\ Removes \subseteq BOOLEAN
  /\ Exclusive \in BOOLEAN

VARIABLES
  run,        \* handle->run
  rpc,        \* where the run thread is
  idx,        \* idx of process_ops_queue_, counted from 1
  found,      \* the node message_search gave process_recv_queue_, or 0
  free,       \* free_nodes of each request pool
  req,        \* the request structures
  sendQ,      \* request_queues[SEND], head first
  recvQ,      \* request_queues[RECV], head first
  batch,      \* the chain process_recv_queue_ detached, from cur on
  ops,        \* ops_queue
  sendCount,  \* send_count
  recvList,   \* recv_list: message nodes of each channel, head first
  slot,       \* the CLH_Message a message node holds
  call,       \* a thread's clh_probe_ call between its steps
  net,        \* UCX: messages that have not reached this node
  unexpected, \* UCX: arrived messages no posted receive matched, oldest first
  expected,   \* UCX: posted receives no message matched, oldest first
  inflight    \* UCX: requests whose operation is still transferring

appVars == <<free, req, call>>
workVars == <<idx, found, batch, ops, sendCount>>
runVars == <<rpc, workVars>>
listVars == <<sendQ, recvQ, recvList, slot>>
ucxVars == <<net, unexpected, expected, inflight>>
vars == <<run, listVars, appVars, runVars, ucxVars>>
-----------------------------------------------------------------------------
(* Tags and masks: protocol.c and the masks built by the calls of clh.c.   *)

Envelope(m) == [channel |-> m.channel, source |-> m.source, tag |-> m.tag]

Matches(m, f) ==
  /\ m.channel = f.channel
  /\ m.source \in f.sources
  /\ m.tag \in f.tags

AnySource(c, T) == [channel |-> c, sources |-> Sources, tags |-> T]
FromSource(c, s, T) == [channel |-> c, sources |-> {s}, tags |-> T]
Exactly(e) == [channel |-> e.channel, sources |-> {e.source}, tags |-> {e.tag}]

NoFilter == [channel |-> CHOOSE c \in Channels : TRUE, sources |-> {}, tags |-> {}]

(* Names with "Wrong" are faulty variants of the definition that follows:  *)
(* the checked properties tell them from the code.                         *)
PushWrongAtHead(q, n) == <<n>> \o q
PopWrongKeepsNode(q) == q
RemoveWrongKeepsNode(q, n) == q
NewNodeWrongInUse(c) == Slots
SearchWrongNever(c, f) == 0
SearchWrongNewest(c, f) == SelectLastInSeq(recvList[c], LAMBDA s : Matches(slot[c][s], f))
SearchWrongAny(c, f) == IF recvList[c] = <<>> THEN 0 ELSE 1

(* list.c: nodes are pushed at the tail, popped from the tail, and removed *)
(* from any place; a list of messages takes its new node from a free list. *)
clh_list_push_node(q, n) == Append(q, n)
clh_list_pop_node(q) == Front(q)
clh_list_remove_node(q, n) == RemoveFirst(q, n)
clh_list_new_node(c) == Slots \ ToSet(recvList[c])

(* The first listed message of a channel that passes f: its place, or 0.   *)
message_search(c, f) == SelectInSeq(recvList[c], LAMBDA s : Matches(slot[c][s], f))
-----------------------------------------------------------------------------
NoCall == [pc |-> "none"]
Dead == {"exited", "list_assert", "ucx_assert", "wild"}

Init ==
  /\ run = TRUE /\ rpc = "loop" /\ idx = 1 /\ found = 0
  /\ free = Pool
  /\ \E stale \in [Requests -> StaleEnvelopes] :
       req = [r \in Requests |->
                [type |-> CHOOSE ty \in Types : r \in Pool[ty], completed |-> FALSE,
                 env |-> stale[r], filter |-> NoFilter, msg |-> NoMsg, rx |-> NoMsg,
                 seen |-> NoMsg, result |-> FALSE, remove |-> FALSE]]
  /\ sendQ = <<>> /\ recvQ = <<>> /\ batch = <<>> /\ ops = <<>> /\ sendCount = 0
  /\ recvList = [c \in Channels |-> <<>>]
  /\ slot = [c \in Channels |-> [s \in Slots |-> NoMsg]]
  /\ call = [t \in Threads |-> NoCall]
  /\ net = Messages /\ unexpected = <<>> /\ expected = <<>> /\ inflight = {}
-----------------------------------------------------------------------------
(* The application's calls.  It uses a handle between clh_init and         *)
(* clh_finalize, and releases a request once, after it has completed.      *)

MayCall(c) == run /\ c \in Calls /\ rpc \notin Dead

InCall(r) == \E t \in Threads : call[t] # NoCall /\ call[t].req = r
IsFree(r) == \E ty \in Types : r \in free[ty]
Pending(r) == ~IsFree(r) /\ ~req[r].completed

(* A pending receive without a message of its own may take one out of      *)
(* recv_list, and so does a probe that removes.  An exclusive application  *)
(* makes no call that removes during a probe, and no probe meanwhile.      *)
Looking(r) == Pending(r) /\ req[r].type # "SEND" /\ ~req[r].remove
Removing(t) == call[t] # NoCall /\ req[call[t].req].remove

MayLook == Exclusive => \A t \in Threads : call[t] = NoCall
MayProbe(remove) ==
  Exclusive => /\ \A r \in Requests : ~Looking(r)
               /\ \A t \in Threads : ~Removing(t)
               /\ remove => \A t \in Threads : call[t] = NoCall

(* A node from the pool is filled in and pushed.  Where clh_send sets      *)
(* channel, source and tag, clh_recv_ leaves them as they were.            *)
clh_send(r, c, tag) ==
  /\ MayCall("clh_send")
  /\ r \in free["SEND"]
  /\ free' = [free EXCEPT !["SEND"] = @ \ {r}]
  /\ req' = [req EXCEPT ![r] = [@ EXCEPT !.type = "SEND", !.completed = FALSE,
                                     !.env = [channel |-> c, source |-> NodeId, tag |-> tag]]]
  /\ sendQ' = clh_list_push_node(sendQ, r)
  /\ UNCHANGED <<run, recvQ, recvList, slot, call, runVars, ucxVars>>

clh_recv_(r, f) ==
  /\ MayLook
  /\ r \in free["RECV"]
  /\ free' = [free EXCEPT !["RECV"] = @ \ {r}]
  /\ req' = [req EXCEPT ![r] = [@ EXCEPT !.type = "RECV", !.completed = FALSE,
                                     !.filter = f, !.msg = NoMsg, !.rx = NoMsg]]
  /\ recvQ' = clh_list_push_node(recvQ, r)
  /\ UNCHANGED <<run, sendQ, recvList, slot, call, runVars, ucxVars>>

clh_recv(r, c, T) == MayCall("clh_recv") /\ clh_recv_(r, AnySource(c, T))
clh_recv_from(r, c, s, T) == MayCall("clh_recv_from") /\ clh_recv_(r, FromSource(c, s, T))

(* A probe, up to the end of message_search: the fields are still to copy. *)
clh_probe_(t, r, f, remove) ==
  LET i == message_search(f.channel, f) IN
  /\ call[t] = NoCall /\ MayProbe(remove)
  /\ r \in free["PROBE"]
  /\ free' = [free EXCEPT !["PROBE"] = @ \ {r}]
  /\ req' = [req EXCEPT ![r] = [@ EXCEPT !.type = "PROBE", !.completed = TRUE, !.filter = f,
                                     !.msg = NoMsg, !.rx = NoMsg,
                                     !.result = FALSE, !.remove = remove]]
  /\ call' = [call EXCEPT ![t] =
       IF i = 0 THEN NoCall
       ELSE [pc |-> "full_tag", req |-> r, channel |-> f.channel, slot |-> recvList[f.channel][i]]]
  /\ UNCHANGED <<run, listVars, runVars, ucxVars>>

clh_probe(t, r, c, T, remove) ==
  MayCall("clh_probe") /\ clh_probe_(t, r, AnySource(c, T), remove)
clh_probe_source(t, r, c, s, T, remove) ==
  MayCall("clh_probe_source") /\ clh_probe_(t, r, FromSource(c, s, T), remove)

(* ... then, without the list's mutex, the copy of what the node holds, one *)
(* field after the other: full_tag (the message it was read from is        *)
(* "seen"), the handle, the channel, the sender and the tag ...            *)
CopiedNext ==
  [full_tag |-> "msg", msg |-> "channel", channel |-> "source", source |-> "tag", tag |-> "remove"]

CopyWrongNoTag(q, field, m) ==
  CASE field = "full_tag" -> [q EXCEPT !.result = TRUE, !.seen = m]
    [] field = "msg" -> [q EXCEPT !.msg = m]
    [] field \in {"channel", "source"} -> [q EXCEPT !.env[field] = m[field]]
    [] OTHER -> q

Copied(q, field, m) ==
  CASE field = "full_tag" -> [q EXCEPT !.result = TRUE, !.seen = m]
    [] field = "msg" -> [q EXCEPT !.msg = m]
    [] OTHER -> [q EXCEPT !.env[field] = m[field]]

ProbeCopy(t) ==
  LET r == call[t].req
      field == call[t].pc
  IN
  /\ rpc \notin Dead
  /\ field \in DOMAIN CopiedNext
  /\ req' = [req EXCEPT ![r] = Copied(@, field, slot[call[t].channel][call[t].slot])]
  /\ call' = [call EXCEPT ![t] = IF field = "tag" /\ ~req[r].remove THEN NoCall
                                 ELSE [@ EXCEPT !.pc = CopiedNext[field]]]
  /\ UNCHANGED <<run, free, listVars, runVars, ucxVars>>

(* ... and the removal.  clh_list_remove_node asserts that a node without  *)
(* neighbours is the head and the tail; one that left the list is neither. *)
ProbeRemove(t) ==
  LET c == call[t].channel IN
  /\ rpc \notin Dead
  /\ call[t].pc = "remove"
  /\ IF Contains(recvList[c], call[t].slot)
     THEN /\ recvList' = [recvList EXCEPT ![c] = clh_list_remove_node(@, call[t].slot)]
          /\ rpc' = rpc
     ELSE /\ recvList' = recvList
          /\ rpc' = "list_assert"
  /\ call' = [call EXCEPT ![t] = NoCall]
  /\ UNCHANGED <<run, free, req, sendQ, recvQ, slot, workVars, ucxVars>>

(* Only a removing probe took the message, so only its handle is used.  The *)
(* union now holds receive data: no probe result is left in it.            *)
HandleWrongDropped(r) == NoMsg

HandleToReceive(r) == IF req[r].remove THEN req[r].msg ELSE NoMsg

RequestRecvWrongType(r) ==
  /\ run /\ rpc \notin Dead
  /\ ~InCall(r) /\ r \notin free["PROBE"]
  /\ req[r].result
  /\ req[r].remove \/ MayLook
  /\ req' = [req EXCEPT ![r] = [@ EXCEPT !.type = "RECV", !.completed = FALSE, !.result = FALSE,
                                     !.filter = Exactly(Envelope(req[r].seen)),
                                     !.msg = HandleToReceive(r), !.seen = NoMsg]]
  /\ recvQ' = clh_list_push_node(recvQ, r)
  /\ UNCHANGED <<run, free, sendQ, recvList, slot, call, runVars, ucxVars>>

clh_request_recv(r) ==
  /\ run /\ rpc \notin Dead
  /\ ~InCall(r) /\ r \notin free["PROBE"]
  /\ req[r].result
  /\ req[r].remove \/ MayLook
  /\ req' = [req EXCEPT ![r] = [@ EXCEPT !.completed = FALSE, !.result = FALSE,
                                     !.filter = Exactly(Envelope(req[r].seen)),
                                     !.msg = HandleToReceive(r), !.seen = NoMsg]]
  /\ recvQ' = clh_list_push_node(recvQ, r)
  /\ UNCHANGED <<run, free, sendQ, recvList, slot, call, runVars, ucxVars>>

(* clh_request_release, after clh_wait returned or clh_request_completed   *)
(* answered true.  The node keeps its channel, source and tag; what the    *)
(* union holds is forgotten, as the next call overwrites what it uses.     *)
clh_request_release(r) ==
  /\ run /\ rpc \notin Dead
  /\ ~InCall(r) /\ \A ty \in Types : r \notin free[ty]
  /\ req[r].completed
  /\ free' = [free EXCEPT ![req[r].type] = @ \cup {r}]
  /\ req' = [req EXCEPT ![r] = [@ EXCEPT !.filter = NoFilter, !.msg = NoMsg, !.rx = NoMsg,
                                     !.seen = NoMsg, !.result = FALSE, !.remove = FALSE]]
  /\ UNCHANGED <<run, listVars, call, runVars, ucxVars>>

clh_finalize ==
  /\ run /\ rpc \notin Dead
  /\ \A t \in Threads : call[t] = NoCall
  /\ run' = FALSE
  /\ UNCHANGED <<listVars, appVars, runVars, ucxVars>>
-----------------------------------------------------------------------------
(* The run thread.                                                         *)

QueuesWrongNoOps == sendQ = <<>> /\ recvQ = <<>>
QueuesWrongHeld ==
  ops = <<>> /\ sendQ = <<>> /\ recvQ = <<>> /\ \A c \in Channels : recvList[c] = <<>>

queues_empty_ == ops = <<>> /\ sendQ = <<>> /\ recvQ = <<>>

run_ ==
  /\ rpc = "loop"
  /\ rpc' = IF run \/ ~queues_empty_ THEN "probe" ELSE "exited"
  /\ UNCHANGED <<run, listVars, appVars, workVars, ucxVars>>

probe_incomming_messages_ ==
  /\ rpc = "probe"
  /\ rpc' = "send"
  /\ IF unexpected = <<>>
     THEN UNCHANGED <<recvList, slot, unexpected>>
     ELSE LET m == Head(unexpected) IN
          /\ unexpected' = Tail(unexpected)
          /\ \E s \in clh_list_new_node(m.channel) :
               /\ recvList' = [recvList EXCEPT ![m.channel] = clh_list_push_node(@, s)]
               /\ slot' = [slot EXCEPT ![m.channel][s] = m]
  /\ UNCHANGED <<run, sendQ, recvQ, appVars, workVars, net, expected, inflight>>

(* process_send_queue_: the newest request first, up to the threshold.     *)
SendOne ==
  /\ rpc = "send"
  /\ sendCount < SendThreshold /\ sendQ # <<>>
  /\ sendQ' = clh_list_pop_node(sendQ)
  /\ ops' = Append(ops, Last(sendQ))
  /\ inflight' = inflight \cup {Last(sendQ)}
  /\ sendCount' = sendCount + 1
  /\ UNCHANGED <<run, recvQ, recvList, slot, appVars, rpc, idx, found, batch, net, unexpected, expected>>

SendDone ==
  /\ rpc = "send"
  /\ sendCount >= SendThreshold \/ sendQ = <<>>
  /\ rpc' = "recv"
  /\ UNCHANGED <<run, listVars, appVars, workVars, ucxVars>>

(* process_recv_queue_: detach the whole queue, then for each request ...  *)
DetachRecvQueue ==
  /\ rpc = "recv"
  /\ batch' = recvQ
  /\ recvQ' = <<>>
  /\ rpc' = IF recvQ = <<>> THEN "progress" ELSE "search"
  /\ UNCHANGED <<run, sendQ, recvList, slot, appVars, idx, found, ops, sendCount, ucxVars>>

(* ... look for a held message, in the list of the request's channel field,*)
SearchHeld ==
  LET r == Head(batch)
      c == req[r].env.channel
      i == message_search(c, req[r].filter)
  IN
  /\ rpc = "search"
  /\ req[r].msg = NoMsg => c # Unset
  /\ found' = IF req[r].msg = NoMsg /\ i # 0 THEN recvList[c][i] ELSE 0
  /\ rpc' = IF req[r].msg = NoMsg /\ i # 0 THEN "claim" ELSE "post"
  /\ UNCHANGED <<run, listVars, appVars, idx, batch, ops, sendCount, ucxVars>>

(* ... which in a request that was never used is any number: another list, *)
(* of a channel nothing came on, or no list, with an undefined outcome ... *)
SearchWild ==
  LET r == Head(batch) IN
  /\ rpc = "search"
  /\ req[r].msg = NoMsg /\ req[r].env.channel = Unset
  /\ rpc' \in {"post", "wild"}
  /\ UNCHANGED <<run, listVars, appVars, workVars, ucxVars>>

(* ... take it out of its list, which may have changed since ...           *)
ClaimHeld ==
  LET r == Head(batch)
      c == req[r].env.channel
      m == slot[c][found]
  IN
  /\ rpc = "claim"
  /\ req' = [req EXCEPT ![r] = [@ EXCEPT !.msg = m, !.env = Envelope(m)]]
  /\ IF Contains(recvList[c], found)
     THEN /\ recvList' = [recvList EXCEPT ![c] = clh_list_remove_node(@, found)]
          /\ rpc' = "post"
     ELSE /\ recvList' = recvList
          /\ rpc' = "list_assert"
  /\ UNCHANGED <<run, free, call, sendQ, recvQ, slot, workVars, ucxVars>>

(* ... and give it to UCX: ucx_recv, then validate_status_ptr_, where      *)
(* UCP_OP_ATTR_FLAG_NO_IMM_CMPL leaves no operation complete at once.      *)
PostRecv ==
  LET r == Head(batch)
      i == SelectInSeq(unexpected, LAMBDA m : Matches(m, req[r].filter))
      now == req[r].msg # NoMsg \/ i # 0
  IN
  /\ rpc = "post"
  /\ rpc' = "next" /\ found' = 0
  /\ ops' = Append(ops, r)
  /\ req' = [req EXCEPT ![r] = [@ EXCEPT !.rx = IF req[r].msg # NoMsg THEN req[r].msg
                                     ELSE IF i # 0 THEN unexpected[i] ELSE NoMsg]]
  /\ inflight' = IF now THEN inflight \cup {r} ELSE inflight
  /\ expected' = IF now THEN expected ELSE Append(expected, r)
  /\ unexpected' = IF req[r].msg = NoMsg /\ i # 0 THEN RemoveAt(unexpected, i) ELSE unexpected
  /\ UNCHANGED <<run, free, call, listVars, idx, batch, sendCount, net>>

(* cur = cur->next, read after the request was handed over.                *)
NextInBatch ==
  /\ rpc = "next"
  /\ batch' = Tail(batch)
  /\ rpc' = IF Tail(batch) = <<>> THEN "progress" ELSE "search"
  /\ UNCHANGED <<run, listVars, appVars, idx, found, ops, sendCount, ucxVars>>

(* WORKER_PROGRESS: one ucp_worker_progress, which handles any number of   *)
(* events: the end of a transfer, or the arrival of a message.  What one   *)
(* source sends arrives in the order it was sent.                          *)
ProgressDone ==
  /\ rpc = "progress"
  /\ rpc' = "ops"
  /\ UNCHANGED <<run, listVars, appVars, workVars, ucxVars>>

ProgressTransfer(r) ==
  /\ rpc = "progress"
  /\ r \in inflight
  /\ inflight' = inflight \ {r}
  /\ UNCHANGED <<run, listVars, appVars, runVars, net, unexpected, expected>>

Earlier(m1, m2) == m1.source = m2.source /\ m1.n < m2.n

ProgressArrival(m) ==
  LET i == SelectInSeq(expected, LAMBDA r : Matches(m, req[r].filter)) IN
  /\ rpc = "progress"
  /\ m \in net /\ \A other \in net : ~Earlier(other, m)
  /\ net' = net \ {m}
  /\ IF i = 0
     THEN /\ unexpected' = Append(unexpected, m)
          /\ UNCHANGED <<expected, inflight, req>>
     ELSE /\ expected' = RemoveAt(expected, i)
          /\ inflight' = inflight \cup {expected[i]}
          /\ req' = [req EXCEPT ![expected[i]] = [@ EXCEPT !.rx = m]]
          /\ UNCHANGED unexpected
  /\ UNCHANGED <<run, free, call, listVars, runVars>>

(* process_ops_queue_: array_remove moves the last operation to idx.       *)
RemoveWrongLast(s, i) == Front(s)
array_remove(s, i) == [j \in 1 .. Len(s) - 1 |-> IF j = i THEN s[Len(s)] ELSE s[j]]

Outstanding(r) == r \in inflight \/ Contains(expected, r)

IsSendWrongAll(r) == TRUE
IsSendWrongNone(r) == FALSE
IsSend(r) == req[r].type = "SEND"

SenderWrongKept(r) == req[r].env
Sender(r) == IF req[r].type = "RECV" THEN Envelope(req[r].rx) ELSE req[r].env

OpInProgress ==
  /\ rpc = "ops"
  /\ idx <= Len(ops) /\ Outstanding(ops[idx])
  /\ idx' = idx + 1
  /\ UNCHANGED <<run, listVars, appVars, rpc, found, batch, ops, sendCount, ucxVars>>

OpDone ==
  LET r == ops[idx] IN
  /\ rpc = "ops"
  /\ idx <= Len(ops) /\ ~Outstanding(r)
  /\ ops' = array_remove(ops, idx)
  /\ sendCount' = IF IsSend(r) THEN sendCount - 1 ELSE sendCount
  /\ req' = [req EXCEPT ![r] = [@ EXCEPT !.completed = TRUE, !.env = Sender(r)]]
  /\ UNCHANGED <<run, free, call, listVars, rpc, idx, found, batch, ucxVars>>

OpsEnd ==
  /\ rpc = "ops"
  /\ idx > Len(ops)
  /\ rpc' = "loop" /\ idx' = 1
  /\ UNCHANGED <<run, listVars, appVars, found, batch, ops, sendCount, ucxVars>>

(* An error of UCX (registering a buffer, starting an operation, or its    *)
(* status) ends in a failed assert on what process_send_queue_,            *)
(* process_recv_queue_ or process_ops_queue_ returned.                     *)
UcxError ==
  /\ UcxMayFail
  /\ \/ rpc = "send" /\ sendCount < SendThreshold /\ sendQ # <<>>
     \/ rpc \in {"search", "post"}
     \/ rpc = "ops" /\ idx <= Len(ops)
  /\ rpc' = "ucx_assert"
  /\ UNCHANGED <<run, listVars, appVars, workVars, ucxVars>>
-----------------------------------------------------------------------------
Stopped == rpc \in Dead /\ UNCHANGED vars

Progress ==
  \/ ProgressDone
  \/ \E r \in Requests : ProgressTransfer(r)
  \/ \E m \in Messages : ProgressArrival(m)

RunThread ==
  \/ run_ \/ probe_incomming_messages_
  \/ SendOne \/ SendDone
  \/ DetachRecvQueue \/ SearchHeld \/ SearchWild \/ ClaimHeld \/ PostRecv \/ NextInBatch
  \/ Progress
  \/ OpInProgress \/ OpDone \/ OpsEnd
  \/ UcxError

ProbeCall(t) == ProbeCopy(t) \/ ProbeRemove(t)

Application ==
  \/ \E r \in SendRequests, c \in Channels, tag \in Tags : clh_send(r, c, tag)
  \/ \E r \in RecvRequests, c \in Channels, T \in TagSets :
       clh_recv(r, c, T) \/ \E s \in Sources : clh_recv_from(r, c, s, T)
  \/ \E t \in Threads, r \in ProbeRequests, c \in Channels, T \in TagSets, remove \in Removes :
       clh_probe(t, r, c, T, remove) \/ \E s \in Sources : clh_probe_source(t, r, c, s, T, remove)
  \/ \E t \in Threads : ProbeCall(t)
  \/ \E r \in ProbeRequests : clh_request_recv(r)
  \/ \E r \in Requests : clh_request_release(r)
  \/ clh_finalize

Next == RunThread \/ Application \/ Stopped

Spec == Init /\ [][Next]_vars

(* The run thread is a thread of its own that never blocks.  UCX eventually *)
(* ends each transfer and delivers each message sent, over the calls of    *)
(* ucp_worker_progress it is given.  The application owes nothing.         *)
Fairness ==
  /\ WF_vars(RunThread)
  /\ \A r \in Requests : SF_vars(ProgressTransfer(r))
  /\ \A m \in Messages : SF_vars(ProgressArrival(m))
  /\ \A t \in Threads : WF_vars(ProbeCall(t))

FairSpec == Spec /\ Fairness
-----------------------------------------------------------------------------
(* What must hold.                                                         *)

ToReceive(r) == Contains(recvQ, r) \/ Contains(batch, r) \/ Contains(ops, r)

(* Where a message can be: not here yet, held by UCX, listed on its        *)
(* channel, or claimed by a request that was not released since.           *)
Listed(m) == \E c \in Channels : \E i \in DOMAIN recvList[c] : slot[c][recvList[c][i]] = m
Unclaimed(m) == m \in net \/ Contains(unexpected, m) \/ Listed(m)
Claims(r, m) ==
  /\ ~IsFree(r)
  /\ \/ req[r].rx = m
     \/ req[r].msg = m /\ ~InCall(r) /\ (req[r].result => req[r].remove)
Present(m) == Unclaimed(m) \/ \E r \in Requests : Claims(r, m)

CallRecords ==
  [pc : DOMAIN CopiedNext \cup {"remove"}, req : ProbeRequests, channel : Channels, slot : Slots]
RequestRecords ==
  [type : Types, completed : BOOLEAN, env : Stored, filter : Filters,
   msg : Messages \cup {NoMsg}, rx : Messages \cup {NoMsg}, seen : Messages \cup {NoMsg},
   result : BOOLEAN, remove : BOOLEAN]

(* The variables keep their types: send_count (a size_t) is not decremented *)
(* below zero, and idx of process_ops_queue_ is a place in the array or    *)
(* the one after its end.                                                  *)
TypeOK ==
  /\ run \in BOOLEAN
  /\ rpc \in Dead \cup {"loop", "probe", "send", "recv", "search", "claim", "post", "next",
                       "progress", "ops"}
  /\ idx \in 1 .. Len(ops) + 1
  /\ found \in Slots \cup {0}
  /\ free \in [Types -> SUBSET Requests]
  /\ req \in [Requests -> RequestRecords]
  /\ sendQ \in Seq(SendRequests)
  /\ recvQ \in Seq(RecvRequests \cup ProbeRequests)
  /\ batch \in Seq(RecvRequests \cup ProbeRequests)
  /\ ops \in Seq(Requests)
  /\ sendCount \in Nat
  /\ recvList \in [Channels -> Seq(Slots)]
  /\ slot \in [Channels -> [Slots -> Messages \cup {NoMsg}]]
  /\ call \in [Threads -> CallRecords \cup {NoCall}]
  /\ net \subseteq Messages
  /\ unexpected \in Seq(Messages)
  /\ expected \in Seq(RecvRequests \cup ProbeRequests)
  /\ inflight \subseteq Requests

(* A request node has one next and one prev field, so it may be on one of  *)
(* the free list of its pool, its queue and the chain process_recv_queue_  *)
(* walks, and there once: were it pushed or released while linked, the     *)
(* walk of cur->next would leave the chain.                                *)
NodeOnOneList ==
  /\ IsInjective(sendQ) /\ IsInjective(recvQ) /\ IsInjective(batch)
  /\ \A r \in Requests :
       /\ IsFree(r) => ~(Contains(sendQ, r) \/ Contains(recvQ, r) \/ Contains(batch, r))
       /\ ~(Contains(recvQ, r) /\ Contains(batch, r))

(* From the call until its completion a request is with the run thread, in *)
(* a queue or in ops_queue, so that it can complete; and the run thread    *)
(* holds no request that is completed or free, and that the application    *)
(* could therefore reuse under it.                                         *)
PendingIsTracked ==
  \A r \in Requests : Pending(r) <=> (Contains(sendQ, r) \/ ToReceive(r))

(* A released request goes back to the pool it was allocated from, also    *)
(* when a probe's request was received with (clh_request_recv keeps type). *)
PoolHomes == \A ty \in Types : free[ty] \subseteq Pool[ty]

(* send_count is the number of send operations UCX has not completed, over *)
(* the sends started in process_send_queue_ and the operations of every    *)
(* type ended in process_ops_queue_; it stays within CONF_SEND_THRESH.     *)
SendCountExact ==
  /\ sendCount = Cardinality({r \in SendRequests : Contains(ops, r)})
  /\ sendCount <= SendThreshold

(* When the run thread has left its loop and frees UCX, no request is left *)
(* that a thread could still wait for.                                     *)
DrainedAtExit == rpc = "exited" => \A r \in Requests : ~Pending(r)

(* A completed receive got a message that passes its tag and mask, and its *)
(* channel, source and tag are those of that message.                      *)
GotItsMessage(r) ==
  /\ req[r].rx # NoMsg
  /\ Matches(req[r].rx, req[r].filter)
  /\ req[r].env = Envelope(req[r].rx)

ReceivedMatches ==
  \A r \in RecvRequests : ~IsFree(r) /\ req[r].completed => GotItsMessage(r)

(* So did a receive made with a probe's request (clh_request_recv), whose  *)
(* channel, source and tag are still those the probe copied, and whose     *)
(* message came with the probe's handle or by the tag the probe copied.    *)
Received(r) == req[r].completed /\ req[r].rx # NoMsg
ProbedIsReceived == \A r \in ProbeRequests : Received(r) => GotItsMessage(r)

(* A positive probe describes one message, and that passes the probe's     *)
(* filter: its tag, handle, channel, sender and tag are of one message,    *)
(* though each is read from the node after the unlock.                     *)
ProbeMatches ==
  \A r \in ProbeRequests :
    (~IsFree(r) /\ req[r].result /\ ~InCall(r)) =>
      /\ req[r].msg # NoMsg
      /\ Matches(req[r].msg, req[r].filter)
      /\ req[r].seen = req[r].msg
      /\ req[r].env = Envelope(req[r].msg)

(* No message is at two places: two requests never get the same message,   *)
(* nor is one claimed while it is still listed for another.                *)
MessageInOnePlace ==
  \A m \in Messages :
    LET places == (IF m \in net THEN 1 ELSE 0)
                  + Cardinality({i \in DOMAIN unexpected : unexpected[i] = m})
                  + Cardinality({p \in Channels \X Slots :
                                   Contains(recvList[p[1]], p[2]) /\ slot[p[1]][p[2]] = m})
                  + Cardinality({r \in Requests : Claims(r, m)})
    IN places <= 1

(* A message stays with this node, first unclaimed and then with a request,*)
(* until the application releases the request that claimed it.             *)
NeverLost ==
  [][\A m \in Messages :
       (Present(m) /\ ~Present(m)') =>
         \E r \in Requests : Claims(r, m) /\ ~IsFree(r) /\ IsFree(r)']_vars

(* A receive waits in UCX only while no message that arrived passes its    *)
(* filter: such a message would wait in recv_list for a search that is not *)
(* made again.                                                             *)
NotStranded ==
  \A r \in Requests, m \in Messages :
    (Contains(expected, r) /\ (Contains(unexpected, m) \/ Listed(m))) =>
      ~Matches(m, req[r].filter)

(* The elements of a list that are in a set, in their order.               *)
Only(q, S) ==
  LET kept[i \in 0 .. Len(q)] ==
        IF i = 0 THEN <<>>
        ELSE IF q[i] \in S THEN Append(kept[i - 1], q[i]) ELSE kept[i - 1]
  IN kept[Len(q)]

(* The receives without a message, in the order of their calls.            *)
WaitingOnes ==
  Only(expected \o (IF rpc = "next" THEN Tail(batch) ELSE batch) \o recvQ,
       {r \in Requests : req[r].msg = NoMsg})

(* What a receive or a probe can ask for.                                  *)
CallFilters ==
  {AnySource(c, T) : c \in Channels, T \in TagSets}
  \cup {FromSource(c, s, T) : c \in Channels, s \in Sources, T \in TagSets}
  \cup {Exactly(e) : e \in Envelopes}

Box == INSTANCE Mailbox WITH
  Requests <- RecvRequests \cup ProbeRequests,
  Filters <- CallFilters,
  waiting <- [i \in DOMAIN WaitingOnes |->
                [req |-> WaitingOnes[i], filter |-> req[WaitingOnes[i]].filter]],
  avail <- {m \in Messages : Unclaimed(m)}

(* The way of a message through UCX, recv_list and a probe, and that of a  *)
(* receive through recv_queue, the chain and UCX, keep what a Mailbox says:*)
(* receives are served in call order, each with the first message of a     *)
(* source that it may take.  A receive holds its message from the removal  *)
(* in process_recv_queue_, or from UCX's match, on.                        *)
ImplementsMailbox == Box!Spec

(* The assertions of clh_list_remove_node hold.                            *)
NoListAssertion == rpc # "list_assert"

(* A receive is due when it has its message, or one it may take was sent   *)
(* and nothing else took that.                                             *)
HasMessage(r) == req[r].msg # NoMsg \/ req[r].rx # NoMsg
Due(r) ==
  Pending(r) /\ (HasMessage(r) \/ \E m \in Messages : Unclaimed(m) /\ Matches(m, req[r].filter))

(* clh_wait on a receive returns once a message it may take was sent: it   *)
(* does not wait on with the message there, on its way, or matched, unless *)
(* another receive takes that.                                             *)
NoStarvation == \A r \in RecvRequests : Due(r) ~> ~Due(r)

(* clh_finalize returns: the run thread drains what was sent and leaves    *)
(* its loop, unless a receive has no message and none was sent that it     *)
(* could still get.                                                        *)
FinalizeReturns ==
  ~run ~> (rpc = "exited" \/ \E r \in RecvRequests : Pending(r) /\ ~Due(r))
=============================================================================
