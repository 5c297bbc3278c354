---------------------------- MODULE WorkerProofs ----------------------------
(* Safety of Worker for all values of its constants: an inductive          *)
(* invariant, and the properties that follow from it.                      *)
EXTENDS Worker, ListLemmas, FiniteSetTheorems
-----------------------------------------------------------------------------
(* The inductive invariant.  PendingIsTracked alone is not inductive: that *)
(* a request ends at most once needs that it is in ops_queue once, which   *)
(* needs that the chain and the queues hold no request that is there, and  *)
(* that needs where the run thread is.                                     *)

Homes == PoolHomes /\ \A r \in Requests : r \in Pool[req[r].type]

Walking == {"search", "claim", "post", "next"}

(* process_recv_queue_ has a chain while it walks it, and only then.       *)
BatchWhileWalking ==
  /\ rpc \in Walking => batch # <<>>
  /\ rpc \notin Walking \cup Dead => batch = <<>>

(* Only the request just posted is on the chain and in ops_queue.          *)
OpsOnce ==
  /\ IsInjective(ops)
  /\ rpc = "next" => Contains(ops, Head(batch))
  /\ \A r \in Requests : Contains(ops, r) =>
       /\ ~Contains(sendQ, r) /\ ~Contains(recvQ, r)
       /\ Contains(batch, r) => r = Head(batch) /\ rpc \in {"next"} \cup Dead

(* A call to clh_probe_ owns its request, which it marked completed.       *)
CallsOwn ==
  \A t \in Threads : call[t] # NoCall =>
    /\ ~IsFree(call[t].req) /\ req[call[t].req].completed
    /\ slot[call[t].channel][call[t].slot] # NoMsg

(* A positive probe is completed, up to clh_request_recv, and has read the *)
(* tag of a message.                                                       *)
ResultsCompleted ==
  \A r \in Requests : req[r].result =>
    r \in ProbeRequests /\ req[r].completed /\ req[r].seen # NoMsg

(* A listed node holds a message, and so does one the run thread found, in *)
(* the list of a channel.                                                  *)
ListedHold ==
  /\ \A c \in Channels, s \in Slots : Contains(recvList[c], s) => slot[c][s] # NoMsg
  /\ rpc = "claim" =>
       /\ found # 0 /\ req[Head(batch)].env.channel \in Channels
       /\ slot[req[Head(batch)].env.channel][found] # NoMsg

(* A receive operation that does not wait for a message has got one.       *)
ReceivesHaveMessage ==
  \A r \in RecvRequests : Contains(ops, r) /\ ~Contains(expected, r) => req[r].rx # NoMsg

(* The run thread leaves its loop with nothing left to do.                 *)
EmptyAtExit ==
  rpc = "exited" => ~run /\ sendQ = <<>> /\ recvQ = <<>> /\ batch = <<>> /\ ops = <<>>

IInv ==
  /\ TypeOK /\ Homes /\ NodeOnOneList /\ PendingIsTracked
  /\ BatchWhileWalking /\ OpsOnce /\ CallsOwn /\ ResultsCompleted
  /\ ListedHold /\ ReceivesHaveMessage /\ SendCountExact /\ EmptyAtExit
-----------------------------------------------------------------------------
(* array_remove keeps every other element of the array, once if it was     *)
(* there once.                                                             *)
LEMMA ArrayRemoveContains ==
  ASSUME NEW S, NEW s \in Seq(S), NEW i \in 1 .. Len(s), IsInjective(s)
  PROVE  /\ array_remove(s, i) \in Seq(S)
         /\ Len(array_remove(s, i)) = Len(s) - 1
         /\ IsInjective(array_remove(s, i))
         /\ \A y : Contains(array_remove(s, i), y) <=> Contains(s, y) /\ y # s[i]
<1> DEFINE a == array_remove(s, i)
<1>1. /\ a \in Seq(S) /\ Len(a) = Len(s) - 1
      /\ \A j \in 1 .. Len(s) - 1 : a[j] = IF j = i THEN s[Len(s)] ELSE s[j]
  BY DEF array_remove
<1> HIDE DEF a
<1>2. IsInjective(a)
  BY <1>1 DEF IsInjective
<1>3. ASSUME NEW y, Contains(a, y)
      PROVE  Contains(s, y) /\ y # s[i]
  BY <1>1, <1>3 DEF Contains, IsInjective
<1>4. ASSUME NEW y, Contains(s, y), y # s[i]
      PROVE  Contains(a, y)
  <2>1. PICK k \in 1 .. Len(s) : s[k] = y
    BY <1>4 DEF Contains
  <2>2. CASE k < Len(s)
    <3>1. k \in 1 .. Len(s) - 1 /\ k # i
      BY <1>4, <2>1, <2>2
    <3>2. a[k] = y
      BY <1>1, <2>1, <3>1
    <3> QED
      BY <1>1, <3>1, <3>2 DEF Contains
  <2>3. CASE k = Len(s)
    <3>1. i \in 1 .. Len(s) - 1 /\ a[i] = y
      BY <1>1, <1>4, <2>1, <2>3
    <3> QED
      BY <3>1, <1>1 DEF Contains
  <2> QED
    BY <2>1, <2>2, <2>3
<1> QED
  BY <1>1, <1>2, <1>3, <1>4 DEF a
-----------------------------------------------------------------------------
USE DEF Types, Pool

(* What a request holds as its channel, source and tag.                    *)
LEMMA EnvelopesAreStored ==
  /\ \A e \in Envelopes : e \in Stored
  /\ \A m \in Messages : Envelope(m) \in Envelopes /\ Envelope(m) \in Stored
  /\ \A e \in Stored : e.channel \in Channels \cup {Unset}
  /\ \A m \in Messages : Exactly(Envelope(m)) \in Filters
BY MessagesType, SMTT(30) DEF Envelopes, Stored, Envelope, Exactly, Filters

(* One field after another, the copy of a probe.                           *)
LEMMA CopiedRecord ==
  ASSUME NEW q \in RequestRecords, NEW m \in Messages, NEW field \in DOMAIN CopiedNext
  PROVE  LET n == Copied(q, field, m) IN
         /\ n \in RequestRecords
         /\ n.type = q.type /\ n.completed = q.completed /\ n.rx = q.rx
         /\ n.filter = q.filter /\ n.remove = q.remove
         /\ n.result <=> q.result \/ field = "full_tag"
         /\ n.seen = IF field = "full_tag" THEN m ELSE q.seen
         /\ n.msg = IF field = "msg" THEN m ELSE q.msg
         /\ n.env.channel = IF field = "channel" THEN m.channel ELSE q.env.channel
         /\ n.env.source = IF field = "source" THEN m.source ELSE q.env.source
         /\ n.env.tag = IF field = "tag" THEN m.tag ELSE q.env.tag
<1> DEFINE n == Copied(q, field, m)
<1>1. field \in {"full_tag", "msg", "channel", "source", "tag"}
  BY DEF CopiedNext
<1>2. /\ m.channel \in Channels /\ m.source \in Sources /\ m.tag \in Tags
      /\ q.env \in Stored /\ q.result \in BOOLEAN
  BY MessagesType DEF RequestRecords
<1>3. CASE field = "full_tag"
  <2>1. n = [q EXCEPT !.result = TRUE, !.seen = m]
    BY <1>3 DEF Copied
  <2> HIDE DEF n
  <2> QED
    BY <1>2, <1>3, <2>1 DEF RequestRecords, n
<1>4. CASE field = "msg"
  <2>1. n = [q EXCEPT !.msg = m]
    BY <1>4 DEF Copied
  <2> HIDE DEF n
  <2> QED
    BY <1>2, <1>4, <2>1 DEF RequestRecords, n
<1>5. CASE field \in {"channel", "source", "tag"}
  <2> DEFINE e == [q.env EXCEPT ![field] = m[field]]
  <2>1. n = [q EXCEPT !.env = e]
    BY <1>5 DEF Copied, RequestRecords
  <2>2. /\ e \in Stored
        /\ e.channel = IF field = "channel" THEN m.channel ELSE q.env.channel
        /\ e.source = IF field = "source" THEN m.source ELSE q.env.source
        /\ e.tag = IF field = "tag" THEN m.tag ELSE q.env.tag
    BY <1>2, <1>5 DEF Stored
  <2> HIDE DEF n, e
  <2> QED
    BY <1>2, <1>5, <2>1, <2>2 DEF RequestRecords, n
<1> QED
  BY <1>1, <1>3, <1>4, <1>5

(* The node an allocation takes from a pool is nowhere else.               *)
LEMMA TakeNode ==
  ASSUME IInv, NEW ty \in Types, NEW r \in free[ty],
         free' = [free EXCEPT ![ty] = @ \ {r}]
  PROVE  /\ r \in Pool[ty] /\ r \in Requests /\ IsFree(r)
         /\ ~Contains(sendQ, r) /\ ~Contains(recvQ, r) /\ ~Contains(batch, r) /\ ~Contains(ops, r)
         /\ \A t \in Threads : call[t] # NoCall => call[t].req # r
         /\ free' \in [Types -> SUBSET Requests]
         /\ PoolHomes'
         /\ \A x \in Requests : IsFree(x)' <=> IsFree(x) /\ x # r
<1>1. free \in [Types -> SUBSET Requests] /\ PoolHomes
  BY DEF IInv, TypeOK, Homes
<1>2. r \in Pool[ty] /\ r \in Requests /\ IsFree(r)
  BY <1>1 DEF PoolHomes, IsFree
<1>3. free' \in [Types -> SUBSET Requests] /\ PoolHomes'
  BY <1>1 DEF PoolHomes
<1>4. ASSUME NEW x \in Requests
      PROVE  IsFree(x)' <=> IsFree(x) /\ x # r
  BY <1>1, <1>2, PoolsDisjoint DEF IsFree, PoolHomes
<1>5. ~Pending(r)
  BY <1>2 DEF Pending
<1>6. ~Contains(sendQ, r) /\ ~Contains(recvQ, r) /\ ~Contains(batch, r) /\ ~Contains(ops, r)
  BY <1>2, <1>5 DEF IInv, PendingIsTracked, ToReceive
<1>7. \A t \in Threads : call[t] # NoCall => call[t].req # r
  BY <1>2 DEF IInv, CallsOwn
<1> QED
  BY <1>2, <1>3, <1>4, <1>6, <1>7

(* A step that moves only the run thread, or what UCX and the message      *)
(* lists hold.                                                             *)
LEMMA QuietStep ==
  ASSUME IInv, UNCHANGED <<free, req, sendQ, recvQ, batch, ops, sendCount, call>>,
         TypeOK', BatchWhileWalking', ListedHold', EmptyAtExit',
         rpc = "next" => rpc' \in {"next"} \cup Dead, rpc' = "next" => rpc = "next",
         rpc \in Dead => rpc' \in Dead,
         \A c \in Channels, s \in Slots : slot[c][s] # NoMsg => slot'[c][s] # NoMsg,
         \A r \in Requests : Contains(expected, r) => Contains(expected', r)
  PROVE  IInv'
<1>1. \A r \in Requests : IsFree(r)' <=> IsFree(r)
  BY DEF IsFree
<1>2. Homes' /\ ResultsCompleted' /\ SendCountExact'
  BY DEF IInv, Homes, PoolHomes, ResultsCompleted, SendCountExact
<1>3. NodeOnOneList' /\ PendingIsTracked'
  BY <1>1 DEF IInv, NodeOnOneList, PendingIsTracked, Pending, ToReceive
<1>4. OpsOnce'
  BY DEF IInv, OpsOnce
<1>5. CallsOwn'
  <2> SUFFICES ASSUME NEW t \in Threads, call[t] # NoCall
               PROVE  /\ ~IsFree(call[t].req)' /\ req[call[t].req].completed
                      /\ slot'[call[t].channel][call[t].slot] # NoMsg
    BY DEF CallsOwn
  <2>1. call[t] \in CallRecords
    BY DEF IInv, TypeOK
  <2>2. /\ call[t].req \in Requests /\ call[t].channel \in Channels /\ call[t].slot \in Slots
    BY <2>1 DEF CallRecords, Requests
  <2> QED
    BY <1>1, <2>2 DEF IInv, CallsOwn
<1>6. ReceivesHaveMessage'
  BY DEF IInv, ReceivesHaveMessage, Requests
<1> QED
  BY <1>2, <1>3, <1>4, <1>5, <1>6 DEF IInv
-----------------------------------------------------------------------------
(* The initial states.                                                     *)
LEMMA InitInvariant == Init => IInv
<1> SUFFICES ASSUME Init PROVE IInv
  OBVIOUS
<1> USE DEF Init
<1>1. PICK stale \in [Requests -> StaleEnvelopes] :
        req = [r \in Requests |->
                [type |-> CHOOSE ty \in Types : r \in Pool[ty], completed |-> FALSE,
                 env |-> stale[r], filter |-> NoFilter, msg |-> NoMsg, rx |-> NoMsg,
                 seen |-> NoMsg, result |-> FALSE, remove |-> FALSE]]
  OBVIOUS
<1>2. ASSUME NEW r \in Requests
      PROVE  /\ IsFree(r)
             /\ (CHOOSE ty \in Types : r \in Pool[ty]) \in Types
             /\ r \in Pool[CHOOSE ty \in Types : r \in Pool[ty]]
  <2>1. \E ty \in Types : r \in Pool[ty]
    BY DEF Requests
  <2> QED
    BY <2>1 DEF IsFree
<1>3. NoFilter \in Filters
  BY ChannelsNonEmpty DEF NoFilter, Filters
<1>4. req \in [Requests -> RequestRecords]
  BY <1>1, <1>2, <1>3, StaleType DEF RequestRecords
<1>5. \A r \in Requests : ~req[r].result /\ r \in Pool[req[r].type]
  BY <1>1, <1>2
<1>6. \A y : ~Contains(<<>>, y)
  BY DEF Contains
<1>7. IsInjective(<<>>)
  BY DEF IsInjective
<1>8. TypeOK
  BY <1>4, MessagesType DEF TypeOK, Requests
<1>9. Homes
  BY <1>5 DEF Homes, PoolHomes
<1>10. NodeOnOneList /\ PendingIsTracked /\ OpsOnce /\ ReceivesHaveMessage
  BY <1>2, <1>6, <1>7 DEF NodeOnOneList, PendingIsTracked, OpsOnce, ReceivesHaveMessage,
                          Pending, ToReceive, Requests
<1>11. BatchWhileWalking /\ CallsOwn /\ ResultsCompleted /\ ListedHold /\ EmptyAtExit
  BY <1>5, <1>6 DEF BatchWhileWalking, CallsOwn, ResultsCompleted, ListedHold, EmptyAtExit,
                    Walking, Dead
<1>12. SendCountExact
  <2>1. {r \in SendRequests : Contains(ops, r)} = {}
    BY <1>6
  <2>2. Cardinality({}) = 0
    BY FS_EmptySet
  <2>3. sendCount = 0 /\ sendCount <= SendThreshold
    BY ThresholdNat
  <2> QED
    BY <2>1, <2>2, <2>3 DEF SendCountExact
<1> QED
  BY <1>8, <1>9, <1>10, <1>11, <1>12 DEF IInv
-----------------------------------------------------------------------------
(* The steps that take no request anywhere.                                *)
LEMMA QuietActions ==
  ASSUME IInv,
         \/ clh_finalize \/ run_ \/ SendDone \/ SearchHeld \/ SearchWild \/ ProgressDone
         \/ (\E r \in Requests : ProgressTransfer(r))
         \/ OpInProgress \/ OpsEnd \/ UcxError \/ Stopped \/ UNCHANGED vars
  PROVE  IInv'
<1> USE DEF vars, listVars, appVars, runVars, workVars, ucxVars
<1>1. CASE clh_finalize
  BY <1>1, QuietStep DEF clh_finalize, IInv, TypeOK, BatchWhileWalking, ListedHold, EmptyAtExit, Dead
<1>2. CASE run_
  BY <1>2, QuietStep DEF run_, queues_empty_, IInv, TypeOK, BatchWhileWalking, ListedHold,
                         EmptyAtExit, Dead, Walking
<1>3. CASE SendDone
  BY <1>3, QuietStep DEF SendDone, IInv, TypeOK, BatchWhileWalking, ListedHold, EmptyAtExit,
                         Dead, Walking
<1>4. CASE SearchHeld
  <2> DEFINE r == Head(batch)
             c == req[r].env.channel
             i == message_search(c, req[r].filter)
  <2>1. r \in Requests /\ (req[r].msg = NoMsg => c \in Channels)
    <3>1. batch # <<>> /\ batch \in Seq(RecvRequests \cup ProbeRequests)
      BY <1>4 DEF SearchHeld, IInv, BatchWhileWalking, Walking, TypeOK
    <3>2. r \in Requests
      BY <3>1, TailContains DEF Requests
    <3>3. c \in Channels \cup {Unset}
      BY <3>2, EnvelopesAreStored DEF IInv, TypeOK, RequestRecords
    <3> QED
      BY <1>4, <3>2, <3>3 DEF SearchHeld
  <2>2. req[r].msg = NoMsg /\ i # 0 => recvList[c][i] \in Slots /\ Contains(recvList[c], recvList[c][i])
    <3> SUFFICES ASSUME req[r].msg = NoMsg
                 PROVE  i # 0 => recvList[c][i] \in Slots /\ Contains(recvList[c], recvList[c][i])
      OBVIOUS
    <3> DEFINE I == {k \in 1 .. Len(recvList[c]) : Matches(slot[c][recvList[c][k]], req[r].filter)}
    <3>1. recvList[c] \in Seq(Slots)
      BY <2>1 DEF IInv, TypeOK
    <3>2. i = IF I # {} THEN Min(I) ELSE 0
      BY DEF message_search, SelectInSeq
    <3>3. I # {} => Min(I) \in I
      <4>1. I \subseteq Nat
        OBVIOUS
      <4> HIDE DEF I
      <4> QED
        BY <4>1, MinIsMember
    <3>4. i # 0 => i \in 1 .. Len(recvList[c])
      BY <3>2, <3>3
    <3> HIDE DEF i, c
    <3> QED
      BY <3>1, <3>4 DEF Contains
  <2>3. found' \in Slots \cup {0}
    BY <1>4, <2>2 DEF SearchHeld
  <2>4. rpc' = "claim" => found' # 0 /\ c \in Channels /\ slot[c][found'] # NoMsg
    BY <1>4, <2>1, <2>2, SlotsType DEF SearchHeld, IInv, ListedHold
  <2>5. TypeOK'
    BY <1>4, <2>3 DEF SearchHeld, IInv, TypeOK, Dead
  <2>6. ListedHold'
    BY <1>4, <2>4 DEF SearchHeld, IInv, ListedHold
  <2> QED
    BY <1>4, <2>5, <2>6, QuietStep DEF SearchHeld, IInv, BatchWhileWalking, EmptyAtExit, Dead, Walking
<1>11. CASE SearchWild
  BY <1>11, QuietStep DEF SearchWild, IInv, TypeOK, BatchWhileWalking, ListedHold, EmptyAtExit,
                          Dead, Walking
<1>5. CASE ProgressDone
  BY <1>5, QuietStep DEF ProgressDone, IInv, TypeOK, BatchWhileWalking, ListedHold, EmptyAtExit,
                         Dead, Walking
<1>6. CASE \E r \in Requests : ProgressTransfer(r)
  BY <1>6, QuietStep DEF ProgressTransfer, IInv, TypeOK, BatchWhileWalking, ListedHold,
                         EmptyAtExit, Dead, Walking
<1>7. CASE OpInProgress
  BY <1>7, QuietStep DEF OpInProgress, IInv, TypeOK, BatchWhileWalking, ListedHold, EmptyAtExit,
                         Dead, Walking
<1>8. CASE OpsEnd
  BY <1>8, QuietStep DEF OpsEnd, IInv, TypeOK, BatchWhileWalking, ListedHold, EmptyAtExit,
                         Dead, Walking
<1>9. CASE UcxError
  BY <1>9, QuietStep DEF UcxError, IInv, TypeOK, BatchWhileWalking, ListedHold, EmptyAtExit,
                         Dead, Walking
<1>10. CASE Stopped \/ UNCHANGED vars
  <2>1. UNCHANGED vars
    BY <1>10 DEF Stopped
  <2>2. TypeOK' /\ BatchWhileWalking' /\ ListedHold' /\ EmptyAtExit'
    BY <2>1 DEF IInv, TypeOK, BatchWhileWalking, ListedHold, EmptyAtExit
  <2> QED
    BY <2>1, <2>2, QuietStep
<1> QED
  BY <1>1, <1>2, <1>3, <1>4, <1>5, <1>6, <1>7, <1>8, <1>9, <1>10, <1>11
-----------------------------------------------------------------------------
(* The steps of the application.                                           *)
LEMMA SendCall ==
  ASSUME IInv, NEW r \in SendRequests, NEW c \in Channels, NEW tag \in Tags, clh_send(r, c, tag)
  PROVE  IInv'
<1> USE DEF clh_send, clh_list_push_node, listVars, appVars, runVars, workVars, ucxVars
<1>0. TypeOK /\ rpc \notin Dead /\ run
  BY DEF IInv, MayCall
<1>1. /\ r \in Pool["SEND"] /\ r \in Requests /\ IsFree(r)
      /\ ~Contains(sendQ, r) /\ ~Contains(recvQ, r) /\ ~Contains(batch, r) /\ ~Contains(ops, r)
      /\ \A t \in Threads : call[t] # NoCall => call[t].req # r
      /\ free' \in [Types -> SUBSET Requests]
      /\ PoolHomes'
      /\ \A x \in Requests : IsFree(x)' <=> IsFree(x) /\ x # r
  BY TakeNode
<1>2. /\ req' \in [Requests -> RequestRecords]
      /\ \A x \in Requests : x # r => req'[x] = req[x]
      /\ req'[r].type = "SEND" /\ ~req'[r].completed /\ req'[r].result = req[r].result
      /\ req'[r].rx = req[r].rx
  <2> DEFINE e == [channel |-> c, source |-> NodeId, tag |-> tag]
             n == [req[r] EXCEPT !.type = "SEND", !.completed = FALSE, !.env = e]
  <2>1. e \in Stored
    BY DEF Stored
  <2>2. req' = [req EXCEPT ![r] = n]
    OBVIOUS
  <2> HIDE DEF e
  <2>3. req[r] \in RequestRecords
    BY <1>0, <1>1 DEF TypeOK
  <2>4. /\ n \in RequestRecords /\ n.type = "SEND" /\ ~n.completed
        /\ n.result = req[r].result /\ n.rx = req[r].rx
    BY <2>1, <2>3 DEF RequestRecords
  <2> HIDE DEF n
  <2> QED
    BY <1>0, <1>1, <2>2, <2>4 DEF TypeOK
<1>3. /\ sendQ' \in Seq(SendRequests)
      /\ \A y : Contains(sendQ', y) <=> Contains(sendQ, y) \/ y = r
      /\ IsInjective(sendQ) => IsInjective(sendQ')
  BY <1>0, <1>1, AppendContains DEF TypeOK
<1>4. TypeOK'
  BY <1>0, <1>1, <1>2, <1>3 DEF TypeOK
<1>5. Homes'
  BY <1>1, <1>2 DEF IInv, Homes
<1>6. NodeOnOneList'
  BY <1>1, <1>3 DEF IInv, NodeOnOneList
<1>7. PendingIsTracked'
  BY <1>1, <1>2, <1>3 DEF IInv, PendingIsTracked, Pending, ToReceive
<1>8. BatchWhileWalking' /\ OpsOnce'
  BY <1>1, <1>3 DEF IInv, BatchWhileWalking, OpsOnce
<1>9. CallsOwn'
  <2>1. \A t \in Threads : call[t] # NoCall => call[t] \in CallRecords
    BY <1>0 DEF TypeOK
  <2>2. \A t \in Threads : call[t] # NoCall => call[t].req \in Requests
    BY <2>1 DEF CallRecords, Requests
  <2> QED
    BY <1>1, <1>2, <2>2 DEF IInv, CallsOwn
<1>10. ResultsCompleted'
  <2>1. ~req[r].result
    BY <1>1, PoolsDisjoint DEF IInv, ResultsCompleted
  <2> QED
    BY <1>2, <2>1 DEF IInv, ResultsCompleted
<1>11. ListedHold'
  <2>1. rpc = "claim" => Head(batch) \in Requests /\ Head(batch) # r
    BY <1>0, <1>1, TailContains DEF IInv, BatchWhileWalking, Walking, TypeOK, Requests
  <2> QED
    BY <1>2, <2>1 DEF IInv, ListedHold
<1>12. ReceivesHaveMessage' /\ SendCountExact' /\ EmptyAtExit'
  BY <1>0, <1>1, <1>2 DEF IInv, ReceivesHaveMessage, SendCountExact, EmptyAtExit, Dead, Requests
<1> QED
  BY <1>4, <1>5, <1>6, <1>7, <1>8, <1>9, <1>10, <1>11, <1>12 DEF IInv

LEMMA RecvCall ==
  ASSUME IInv, NEW r \in RecvRequests, NEW f \in Filters, run, rpc \notin Dead, clh_recv_(r, f)
  PROVE  IInv'
<1> USE DEF clh_recv_, clh_list_push_node, listVars, appVars, runVars, workVars, ucxVars
<1>0. TypeOK
  BY DEF IInv
<1>1. /\ r \in Pool["RECV"] /\ r \in Requests /\ IsFree(r)
      /\ ~Contains(sendQ, r) /\ ~Contains(recvQ, r) /\ ~Contains(batch, r) /\ ~Contains(ops, r)
      /\ \A t \in Threads : call[t] # NoCall => call[t].req # r
      /\ free' \in [Types -> SUBSET Requests]
      /\ PoolHomes'
      /\ \A x \in Requests : IsFree(x)' <=> IsFree(x) /\ x # r
  BY TakeNode
<1>2. /\ req' \in [Requests -> RequestRecords]
      /\ \A x \in Requests : x # r => req'[x] = req[x]
      /\ req'[r].type = "RECV" /\ ~req'[r].completed /\ req'[r].result = req[r].result
  <2> DEFINE n == [req[r] EXCEPT !.type = "RECV", !.completed = FALSE,
                                 !.filter = f, !.msg = NoMsg, !.rx = NoMsg]
  <2>1. req' = [req EXCEPT ![r] = n]
    OBVIOUS
  <2>2. req[r] \in RequestRecords
    BY <1>0, <1>1 DEF TypeOK
  <2>3. n \in RequestRecords /\ n.type = "RECV" /\ ~n.completed /\ n.result = req[r].result
    BY <2>2 DEF RequestRecords
  <2> HIDE DEF n
  <2> QED
    BY <1>0, <1>1, <2>1, <2>3 DEF TypeOK
<1>3. /\ recvQ' \in Seq(RecvRequests \cup ProbeRequests)
      /\ \A y : Contains(recvQ', y) <=> Contains(recvQ, y) \/ y = r
      /\ IsInjective(recvQ) => IsInjective(recvQ')
  BY <1>0, <1>1, AppendContains DEF TypeOK
<1>4. TypeOK'
  BY <1>0, <1>1, <1>2, <1>3 DEF TypeOK
<1>5. Homes'
  BY <1>1, <1>2 DEF IInv, Homes
<1>6. NodeOnOneList'
  BY <1>1, <1>3 DEF IInv, NodeOnOneList
<1>7. PendingIsTracked'
  BY <1>1, <1>2, <1>3 DEF IInv, PendingIsTracked, Pending, ToReceive
<1>8. BatchWhileWalking' /\ OpsOnce'
  BY <1>1, <1>3 DEF IInv, BatchWhileWalking, OpsOnce
<1>9. CallsOwn'
  <2>1. \A t \in Threads : call[t] # NoCall => call[t] \in CallRecords
    BY <1>0 DEF TypeOK
  <2>2. \A t \in Threads : call[t] # NoCall => call[t].req \in Requests
    BY <2>1 DEF CallRecords, Requests
  <2> QED
    BY <1>1, <1>2, <2>2 DEF IInv, CallsOwn
<1>10. ResultsCompleted'
  <2>1. ~req[r].result
    BY <1>1, PoolsDisjoint DEF IInv, ResultsCompleted
  <2> QED
    BY <1>2, <2>1 DEF IInv, ResultsCompleted
<1>11. ListedHold'
  <2>1. rpc = "claim" => Head(batch) \in Requests /\ Head(batch) # r
    BY <1>0, <1>1, TailContains DEF IInv, BatchWhileWalking, Walking, TypeOK, Requests
  <2> QED
    BY <1>2, <2>1 DEF IInv, ListedHold
<1>12. ReceivesHaveMessage' /\ SendCountExact' /\ EmptyAtExit'
  BY <1>0, <1>1, <1>2 DEF IInv, ReceivesHaveMessage, SendCountExact, EmptyAtExit, Dead, Requests
<1> QED
  BY <1>4, <1>5, <1>6, <1>7, <1>8, <1>9, <1>10, <1>11, <1>12 DEF IInv

LEMMA ProbeCallStart ==
  ASSUME IInv, NEW t \in Threads, NEW r \in ProbeRequests, NEW f \in Filters,
         NEW remove \in BOOLEAN, clh_probe_(t, r, f, remove)
  PROVE  IInv'
<1> USE DEF clh_probe_, listVars, appVars, runVars, workVars, ucxVars
<1>0. TypeOK
  BY DEF IInv
<1>1. /\ r \in Pool["PROBE"] /\ r \in Requests /\ IsFree(r)
      /\ ~Contains(sendQ, r) /\ ~Contains(recvQ, r) /\ ~Contains(batch, r) /\ ~Contains(ops, r)
      /\ \A u \in Threads : call[u] # NoCall => call[u].req # r
      /\ free' \in [Types -> SUBSET Requests]
      /\ PoolHomes'
      /\ \A x \in Requests : IsFree(x)' <=> IsFree(x) /\ x # r
  BY TakeNode
<1>2. /\ req' \in [Requests -> RequestRecords]
      /\ \A x \in Requests : x # r => req'[x] = req[x]
      /\ req'[r].type = "PROBE" /\ req'[r].completed /\ ~req'[r].result
  <2> DEFINE n == [req[r] EXCEPT !.type = "PROBE", !.completed = TRUE, !.filter = f,
                                 !.msg = NoMsg, !.rx = NoMsg,
                                 !.result = FALSE, !.remove = remove]
  <2>1. req' = [req EXCEPT ![r] = n]
    OBVIOUS
  <2>2. req[r] \in RequestRecords
    BY <1>0, <1>1 DEF TypeOK
  <2>3. n \in RequestRecords /\ n.type = "PROBE" /\ n.completed /\ ~n.result
    BY <2>2 DEF RequestRecords
  <2> HIDE DEF n
  <2> QED
    BY <1>0, <1>1, <2>1, <2>3 DEF TypeOK
<1> DEFINE i == message_search(f.channel, f)
           new == [pc |-> "full_tag", req |-> r, channel |-> f.channel, slot |-> recvList[f.channel][i]]
<1>3. i # 0 => new \in CallRecords /\ slot[new.channel][new.slot] # NoMsg
  <2> DEFINE l == recvList[f.channel]
             I == {k \in 1 .. Len(l) : Matches(slot[f.channel][l[k]], f)}
  <2>1. f.channel \in Channels
    BY DEF Filters
  <2>2. l \in Seq(Slots)
    BY <1>0, <2>1 DEF TypeOK
  <2>3. i = IF I # {} THEN Min(I) ELSE 0
    BY DEF message_search, SelectInSeq
  <2>4. I \subseteq Nat /\ \A k \in I : k \in 1 .. Len(l)
    OBVIOUS
  <2> HIDE DEF I
  <2>5. i # 0 => i \in 1 .. Len(l)
    BY <2>3, <2>4, MinIsMember
  <2> HIDE DEF i
  <2>6. i # 0 => l[i] \in Slots /\ Contains(l, l[i])
    BY <2>2, <2>5 DEF Contains
  <2>7. i # 0 => slot[f.channel][l[i]] # NoMsg
    BY <2>1, <2>6 DEF IInv, ListedHold
  <2> QED
    BY <2>1, <2>6, <2>7 DEF CallRecords, CopiedNext
<1>4. call' = [call EXCEPT ![t] = IF i = 0 THEN NoCall ELSE new]
  OBVIOUS
<1> HIDE DEF i, new
<1>5. call' \in [Threads -> CallRecords \cup {NoCall}]
  BY <1>0, <1>3, <1>4 DEF TypeOK
<1>6. TypeOK'
  BY <1>0, <1>1, <1>2, <1>5 DEF TypeOK
<1>7. Homes'
  BY <1>1, <1>2 DEF IInv, Homes
<1>8. NodeOnOneList' /\ BatchWhileWalking' /\ OpsOnce' /\ EmptyAtExit' /\ SendCountExact'
  BY <1>1 DEF IInv, NodeOnOneList, BatchWhileWalking, OpsOnce, EmptyAtExit, SendCountExact
<1>9. PendingIsTracked'
  BY <1>1, <1>2 DEF IInv, PendingIsTracked, Pending, ToReceive
<1>10. CallsOwn'
  <2> SUFFICES ASSUME NEW u \in Threads, call'[u] # NoCall
               PROVE  /\ \A ty \in Types : call'[u].req \notin free'[ty]
                      /\ req'[call'[u].req].completed
                      /\ slot[call'[u].channel][call'[u].slot] # NoMsg
    BY DEF CallsOwn, IsFree
  <2>1. CASE u = t
    <3>1. call'[u] = new /\ i # 0
      BY <1>0, <1>4, <2>1 DEF TypeOK
    <3>2. new.req = r
      BY DEF new
    <3> QED
      BY <1>1, <1>2, <1>3, <3>1, <3>2 DEF IsFree
  <2>2. CASE u # t
    <3>1. call'[u] = call[u] /\ call[u] \in CallRecords
      BY <1>0, <1>4, <2>2 DEF TypeOK
    <3>2. call[u].req \in Requests /\ call[u].req # r
      BY <1>1, <3>1 DEF CallRecords, Requests
    <3>3. ~IsFree(call[u].req) /\ req[call[u].req].completed
          /\ slot[call[u].channel][call[u].slot] # NoMsg
      BY <3>1 DEF IInv, CallsOwn, CallRecords, NoCall
    <3> QED
      BY <1>1, <1>2, <3>1, <3>2, <3>3 DEF IsFree
  <2> QED
    BY <2>1, <2>2
<1>11. ResultsCompleted'
  BY <1>2 DEF IInv, ResultsCompleted
<1>12. ListedHold'
  <2>1. rpc = "claim" => Head(batch) \in Requests /\ Head(batch) # r
    BY <1>0, <1>1, TailContains DEF IInv, BatchWhileWalking, Walking, TypeOK, Requests
  <2> QED
    BY <1>2, <2>1 DEF IInv, ListedHold
<1>13. ReceivesHaveMessage'
  BY <1>1, <1>2 DEF IInv, ReceivesHaveMessage, Requests
<1> QED
  BY <1>6, <1>7, <1>8, <1>9, <1>10, <1>11, <1>12, <1>13 DEF IInv

(* What a call in clh_probe_ works on.                                     *)
LEMMA InProbeCall ==
  ASSUME IInv, NEW t \in Threads, call[t] # NoCall
  PROVE  /\ call[t] \in CallRecords
         /\ call[t].req \in ProbeRequests /\ call[t].req \in Requests
         /\ call[t].channel \in Channels /\ call[t].slot \in Slots
         /\ ~IsFree(call[t].req) /\ req[call[t].req].completed
         /\ slot[call[t].channel][call[t].slot] \in Messages
<1>1. call[t] \in CallRecords
  BY DEF IInv, TypeOK
<1>2. /\ call[t].req \in ProbeRequests /\ call[t].req \in Requests
      /\ call[t].channel \in Channels /\ call[t].slot \in Slots
  BY <1>1 DEF CallRecords, Requests
<1>3. slot[call[t].channel][call[t].slot] \in Messages \cup {NoMsg}
  BY <1>2 DEF IInv, TypeOK
<1> QED
  BY <1>1, <1>2, <1>3 DEF IInv, CallsOwn

(* The request at the head of the chain is with the run thread.            *)
LEMMA HeadPending ==
  ASSUME IInv, batch # <<>>
  PROVE  /\ Head(batch) \in RecvRequests \cup ProbeRequests
         /\ Head(batch) \in Requests /\ Contains(batch, Head(batch))
         /\ Pending(Head(batch))
<1>1. batch \in Seq(RecvRequests \cup ProbeRequests)
  BY DEF IInv, TypeOK
<1>2. /\ Head(batch) \in RecvRequests \cup ProbeRequests /\ Head(batch) \in Requests
      /\ Contains(batch, Head(batch))
  BY <1>1, TailContains DEF Requests
<1> QED
  BY <1>2 DEF IInv, PendingIsTracked, ToReceive

LEMMA ProbeCopyStep ==
  ASSUME IInv, NEW t \in Threads, ProbeCopy(t)
  PROVE  IInv'
<1> USE DEF ProbeCopy, listVars, appVars, runVars, workVars, ucxVars
<1> DEFINE r == call[t].req
           m == slot[call[t].channel][call[t].slot]
           field == call[t].pc
           q == req[r]
           n == Copied(q, field, m)
<1>0. TypeOK /\ call[t] # NoCall
  BY DEF IInv, NoCall, CopiedNext
<1>1. /\ call[t] \in CallRecords /\ r \in ProbeRequests /\ r \in Requests
      /\ ~IsFree(r) /\ req[r].completed /\ m \in Messages
  BY <1>0, InProbeCall
<1>2. req' = [req EXCEPT ![r] = n]
  OBVIOUS
<1>3. /\ n \in RequestRecords
      /\ n.type = q.type /\ n.completed = q.completed /\ n.rx = q.rx
      /\ n.result => q.result \/ n.seen = m
      /\ n.seen = q.seen \/ n.seen = m
  <2>1. q \in RequestRecords /\ field \in DOMAIN CopiedNext /\ m \in Messages
    BY <1>0, <1>1 DEF TypeOK
  <2>2. /\ n \in RequestRecords /\ n.type = q.type /\ n.completed = q.completed /\ n.rx = q.rx
        /\ n.result <=> q.result \/ field = "full_tag"
        /\ n.seen = IF field = "full_tag" THEN m ELSE q.seen
    <3> HIDE DEF m, q, field
    <3> QED
      BY <2>1, CopiedRecord
  <2> HIDE DEF n, m, field
  <2> QED
    BY <2>2
<1>4. \/ call' = [call EXCEPT ![t] = NoCall]
      \/ call' = [call EXCEPT ![t] = [call[t] EXCEPT !.pc = CopiedNext[field]]]
  OBVIOUS
<1>5. [call[t] EXCEPT !.pc = CopiedNext[field]] \in CallRecords
  <2>1. CopiedNext[field] \in DOMAIN CopiedNext \cup {"remove"}
    BY DEF CopiedNext
  <2> HIDE DEF field
  <2> QED
    BY <1>1, <2>1 DEF CallRecords
<1> HIDE DEF n, m, field
<1>6. /\ req' \in [Requests -> RequestRecords]
      /\ \A x \in Requests : x # r => req'[x] = req[x]
      /\ \A x \in Requests : /\ req'[x].type = req[x].type
                             /\ req'[x].completed = req[x].completed
                             /\ req'[x].rx = req[x].rx
  <2>1. /\ req' \in [Requests -> RequestRecords] /\ req'[r] = n
        /\ \A x \in Requests : x # r => req'[x] = req[x]
    BY <1>0, <1>1, <1>2, <1>3 DEF TypeOK
  <2> QED
    BY <1>3, <2>1
<1>15. req'[r] = n
  BY <1>0, <1>1, <1>2 DEF TypeOK
<1>7. \A x : IsFree(x)' <=> IsFree(x)
  BY DEF IsFree
<1>8. TypeOK'
  <2>1. call' \in [Threads -> CallRecords \cup {NoCall}]
    BY <1>0, <1>4, <1>5 DEF TypeOK
  <2> QED
    BY <1>0, <1>6, <2>1 DEF TypeOK
<1>9. Homes' /\ NodeOnOneList' /\ BatchWhileWalking' /\ OpsOnce' /\ SendCountExact' /\ EmptyAtExit'
  BY <1>6, <1>7 DEF IInv, Homes, PoolHomes, NodeOnOneList, BatchWhileWalking, OpsOnce,
                    SendCountExact, EmptyAtExit
<1>10. PendingIsTracked'
  BY <1>6, <1>7 DEF IInv, PendingIsTracked, Pending, ToReceive
<1>11. CallsOwn'
  <2> SUFFICES ASSUME NEW u \in Threads, call'[u] # NoCall
               PROVE  /\ \A ty \in Types : call'[u].req \notin free'[ty]
                      /\ req'[call'[u].req].completed
                      /\ slot[call'[u].channel][call'[u].slot] # NoMsg
    BY DEF CallsOwn, IsFree
  <2>1. /\ call[u] # NoCall /\ call'[u].req = call[u].req
        /\ call'[u].channel = call[u].channel /\ call'[u].slot = call[u].slot
    BY <1>0, <1>1, <1>4 DEF TypeOK, CallRecords
  <2>2. /\ call[u].req \in Requests /\ ~IsFree(call[u].req) /\ req[call[u].req].completed
        /\ slot[call[u].channel][call[u].slot] # NoMsg
    BY <2>1, InProbeCall, MessagesType
  <2>3. \A ty \in Types : call[u].req \notin free[ty]
    BY <2>2 DEF IsFree
  <2>4. free' = free /\ req'[call[u].req].completed = req[call[u].req].completed
    BY <1>6, <2>2
  <2> QED
    BY <2>1, <2>2, <2>3, <2>4
<1>12. ResultsCompleted'
  <2> SUFFICES ASSUME NEW x \in Requests, req'[x].result
               PROVE  x \in ProbeRequests /\ req'[x].completed /\ req'[x].seen # NoMsg
    BY DEF ResultsCompleted
  <2>1. CASE x = r
    <3>1. n.result /\ req'[x].seen = n.seen /\ m # NoMsg
      BY <1>1, <1>15, <2>1, MessagesType
    <3>2. n.seen # NoMsg
      BY <1>1, <1>3, <3>1 DEF IInv, ResultsCompleted
    <3> QED
      BY <1>1, <1>6, <2>1, <3>1, <3>2
  <2>2. CASE x # r
    BY <1>6, <2>2 DEF IInv, ResultsCompleted
  <2> QED
    BY <2>1, <2>2
<1>13. ListedHold'
  <2>1. rpc = "claim" => Head(batch) \in Requests /\ Head(batch) # r
    BY <1>1, HeadPending DEF IInv, BatchWhileWalking, Walking, Pending
  <2> QED
    BY <1>6, <2>1 DEF IInv, ListedHold
<1>14. ReceivesHaveMessage'
  BY <1>6 DEF IInv, ReceivesHaveMessage, Requests
<1> QED
  BY <1>8, <1>9, <1>10, <1>11, <1>12, <1>13, <1>14 DEF IInv

LEMMA ProbeRemoveStep ==
  ASSUME IInv, NEW t \in Threads, ProbeRemove(t)
  PROVE  IInv'
<1> USE DEF ProbeRemove, listVars, appVars, runVars, workVars, ucxVars
<1> DEFINE c == call[t].channel
<1>0. TypeOK /\ call[t] # NoCall
  BY DEF IInv, NoCall
<1>1. c \in Channels
  BY <1>0, InProbeCall
<1>2. recvList[c] \in Seq(Slots)
  BY <1>0, <1>1 DEF TypeOK
<1>3. recvList' = recvList \/ recvList' = [recvList EXCEPT ![c] = RemoveFirst(@, call[t].slot)]
  BY DEF clh_list_remove_node
<1>4. /\ recvList' \in [Channels -> Seq(Slots)]
      /\ \A d \in Channels, s \in Slots : Contains(recvList'[d], s) => Contains(recvList[d], s)
  <2>1. CASE recvList' = recvList
    BY <1>0, <2>1 DEF TypeOK
  <2>2. CASE recvList' = [recvList EXCEPT ![c] = RemoveFirst(@, call[t].slot)]
    <3>1. /\ RemoveFirst(recvList[c], call[t].slot) \in Seq(Slots)
          /\ \A y : Contains(RemoveFirst(recvList[c], call[t].slot), y) => Contains(recvList[c], y)
      BY <1>2, RemoveFirstContains
    <3> QED
      BY <1>0, <1>1, <2>2, <3>1 DEF TypeOK
  <2> QED
    BY <1>3, <2>1, <2>2
<1>5. rpc' = rpc \/ rpc' = "list_assert"
  OBVIOUS
<1>6. call' \in [Threads -> CallRecords \cup {NoCall}]
      /\ \A u \in Threads : call'[u] # NoCall => call'[u] = call[u]
  BY <1>0 DEF TypeOK
<1>7. TypeOK'
  BY <1>0, <1>4, <1>5, <1>6 DEF TypeOK, Dead
<1>8. \A x : IsFree(x)' <=> IsFree(x)
  BY DEF IsFree
<1>9. Homes' /\ NodeOnOneList' /\ ResultsCompleted' /\ SendCountExact' /\ ReceivesHaveMessage'
  BY <1>8 DEF IInv, Homes, PoolHomes, NodeOnOneList, ResultsCompleted, SendCountExact,
              ReceivesHaveMessage
<1>10. PendingIsTracked'
  BY <1>8 DEF IInv, PendingIsTracked, Pending, ToReceive
<1>11. BatchWhileWalking' /\ OpsOnce' /\ EmptyAtExit'
  BY <1>5 DEF IInv, BatchWhileWalking, OpsOnce, EmptyAtExit, Walking, Dead
<1>12. CallsOwn'
  BY <1>6, <1>8 DEF IInv, CallsOwn, IsFree
<1>13. ListedHold'
  BY <1>4, <1>5 DEF IInv, ListedHold
<1> QED
  BY <1>7, <1>9, <1>10, <1>11, <1>12, <1>13 DEF IInv

LEMMA RequestRecvStep ==
  ASSUME IInv, NEW r \in ProbeRequests, clh_request_recv(r)
  PROVE  IInv'
<1> USE DEF clh_request_recv, clh_list_push_node, listVars, appVars, runVars, workVars, ucxVars
<1> DEFINE n == [req[r] EXCEPT !.completed = FALSE, !.result = FALSE,
                               !.filter = Exactly(Envelope(req[r].seen)),
                               !.msg = HandleToReceive(r), !.seen = NoMsg]
<1>0. TypeOK /\ r \in Requests /\ run
  BY DEF IInv, Requests
<1>1. /\ req' = [req EXCEPT ![r] = n]
      /\ recvQ' = Append(recvQ, r)
  OBVIOUS
<1>2. /\ n \in RequestRecords
      /\ n.type = req[r].type /\ ~n.completed /\ ~n.result /\ n.rx = req[r].rx
  <2>1. req[r] \in RequestRecords
    BY <1>0 DEF TypeOK
  <2>2. req[r].seen \in Messages
    BY <1>0, <2>1 DEF IInv, ResultsCompleted, RequestRecords
  <2>3. Exactly(Envelope(req[r].seen)) \in Filters
    BY <2>2, EnvelopesAreStored
  <2>4. HandleToReceive(r) \in Messages \cup {NoMsg}
    BY <2>1 DEF HandleToReceive, RequestRecords
  <2> QED
    BY <2>1, <2>3, <2>4 DEF RequestRecords
<1> HIDE DEF n
<1>3. /\ req' \in [Requests -> RequestRecords]
      /\ \A x \in Requests : x # r => req'[x] = req[x]
      /\ req'[r] = n
  BY <1>0, <1>1, <1>2 DEF TypeOK
<1>4. ~IsFree(r) /\ req[r].completed /\ ~Pending(r)
  <2>1. r \notin free["SEND"] /\ r \notin free["RECV"]
    BY PoolsDisjoint DEF IInv, Homes, PoolHomes
  <2>2. req[r].completed
    BY <1>0 DEF IInv, ResultsCompleted
  <2> QED
    BY <2>1, <2>2 DEF IsFree, Pending
<1>5. ~Contains(sendQ, r) /\ ~Contains(recvQ, r) /\ ~Contains(batch, r) /\ ~Contains(ops, r)
  BY <1>0, <1>4 DEF IInv, PendingIsTracked, ToReceive
<1>6. /\ recvQ' \in Seq(RecvRequests \cup ProbeRequests)
      /\ \A y : Contains(recvQ', y) <=> Contains(recvQ, y) \/ y = r
      /\ IsInjective(recvQ) => IsInjective(recvQ')
  BY <1>0, <1>1, <1>5, AppendContains DEF TypeOK
<1>7. \A x : IsFree(x)' <=> IsFree(x)
  BY DEF IsFree
<1>8. TypeOK'
  BY <1>0, <1>3, <1>6 DEF TypeOK
<1>9. Homes'
  BY <1>2, <1>3 DEF IInv, Homes, PoolHomes
<1>10. NodeOnOneList'
  BY <1>4, <1>5, <1>6, <1>7 DEF IInv, NodeOnOneList
<1>11. PendingIsTracked'
  BY <1>2, <1>3, <1>4, <1>6, <1>7 DEF IInv, PendingIsTracked, Pending, ToReceive
<1>12. BatchWhileWalking' /\ OpsOnce' /\ SendCountExact' /\ EmptyAtExit'
  BY <1>0, <1>5, <1>6 DEF IInv, BatchWhileWalking, OpsOnce, SendCountExact, EmptyAtExit
<1>13. CallsOwn'
  <2> SUFFICES ASSUME NEW t \in Threads, call[t] # NoCall
               PROVE  /\ \A ty \in Types : call[t].req \notin free[ty]
                      /\ req'[call[t].req].completed
                      /\ slot[call[t].channel][call[t].slot] # NoMsg
    BY DEF CallsOwn, IsFree
  <2>1. call[t].req # r
    BY DEF InCall
  <2>2. /\ call[t].req \in Requests /\ ~IsFree(call[t].req) /\ req[call[t].req].completed
        /\ slot[call[t].channel][call[t].slot] # NoMsg
    BY InProbeCall, MessagesType
  <2> QED
    BY <1>3, <2>1, <2>2 DEF IsFree
<1>14. ResultsCompleted'
  BY <1>2, <1>3 DEF IInv, ResultsCompleted
<1>15. ListedHold'
  <2>1. rpc = "claim" => Head(batch) \in Requests /\ Head(batch) # r
    BY <1>4, HeadPending DEF IInv, BatchWhileWalking, Walking
  <2> QED
    BY <1>3, <2>1 DEF IInv, ListedHold
<1>16. ReceivesHaveMessage'
  BY <1>2, <1>3 DEF IInv, ReceivesHaveMessage, Requests
<1> QED
  BY <1>8, <1>9, <1>10, <1>11, <1>12, <1>13, <1>14, <1>15, <1>16 DEF IInv

LEMMA ReleaseStep ==
  ASSUME IInv, NEW r \in Requests, clh_request_release(r)
  PROVE  IInv'
<1> USE DEF clh_request_release, listVars, appVars, runVars, workVars, ucxVars
<1> DEFINE n == [req[r] EXCEPT !.filter = NoFilter, !.msg = NoMsg, !.rx = NoMsg,
                               !.seen = NoMsg, !.result = FALSE, !.remove = FALSE]
<1>0. TypeOK
  BY DEF IInv
<1>1. req' = [req EXCEPT ![r] = n]
  OBVIOUS
<1>2. n \in RequestRecords /\ n.type = req[r].type /\ n.completed = req[r].completed /\ ~n.result
  <2>1. req[r] \in RequestRecords
    BY <1>0 DEF TypeOK
  <2>2. NoFilter \in Filters
    BY ChannelsNonEmpty DEF NoFilter, Filters
  <2> QED
    BY <2>1, <2>2 DEF RequestRecords
<1> HIDE DEF n
<1>3. /\ req' \in [Requests -> RequestRecords]
      /\ \A x \in Requests : x # r => req'[x] = req[x]
      /\ req'[r] = n
  BY <1>0, <1>1, <1>2 DEF TypeOK
<1>4. req[r].type \in Types /\ r \in Pool[req[r].type]
  <2>1. req[r] \in RequestRecords
    BY <1>0 DEF TypeOK
  <2> QED
    BY <2>1 DEF IInv, Homes, RequestRecords
<1>5. /\ free' \in [Types -> SUBSET Requests]
      /\ PoolHomes'
      /\ \A x \in Requests : IsFree(x)' <=> IsFree(x) \/ x = r
  BY <1>0, <1>4 DEF TypeOK, IInv, Homes, PoolHomes, IsFree
<1>6. ~Pending(r)
  BY DEF Pending
<1>7. ~Contains(sendQ, r) /\ ~Contains(recvQ, r) /\ ~Contains(batch, r) /\ ~Contains(ops, r)
  BY <1>6 DEF IInv, PendingIsTracked, ToReceive
<1>8. TypeOK'
  BY <1>0, <1>3, <1>5 DEF TypeOK
<1>9. Homes'
  BY <1>2, <1>3, <1>5 DEF IInv, Homes
<1>10. NodeOnOneList'
  BY <1>5, <1>7 DEF IInv, NodeOnOneList
<1>11. PendingIsTracked'
  BY <1>3, <1>5, <1>7 DEF IInv, PendingIsTracked, Pending, ToReceive
<1>12. BatchWhileWalking' /\ OpsOnce' /\ SendCountExact' /\ EmptyAtExit'
  BY DEF IInv, BatchWhileWalking, OpsOnce, SendCountExact, EmptyAtExit
<1>13. CallsOwn'
  <2> SUFFICES ASSUME NEW t \in Threads, call[t] # NoCall
               PROVE  /\ \A ty \in Types : call[t].req \notin free'[ty]
                      /\ req'[call[t].req].completed
                      /\ slot[call[t].channel][call[t].slot] # NoMsg
    BY DEF CallsOwn, IsFree
  <2>1. call[t].req # r
    BY DEF InCall
  <2>2. /\ call[t].req \in Requests /\ ~IsFree(call[t].req) /\ req[call[t].req].completed
        /\ slot[call[t].channel][call[t].slot] # NoMsg
    BY InProbeCall, MessagesType
  <2> QED
    BY <1>3, <1>5, <2>1, <2>2 DEF IsFree
<1>14. ResultsCompleted'
  BY <1>2, <1>3 DEF IInv, ResultsCompleted
<1>15. ListedHold'
  <2>1. rpc = "claim" => Head(batch) \in Requests /\ Head(batch) # r
    BY <1>6, HeadPending DEF IInv, BatchWhileWalking, Walking
  <2> QED
    BY <1>3, <2>1 DEF IInv, ListedHold
<1>16. ReceivesHaveMessage'
  BY <1>3, <1>7 DEF IInv, ReceivesHaveMessage, Requests
<1> QED
  BY <1>8, <1>9, <1>10, <1>11, <1>12, <1>13, <1>14, <1>15, <1>16 DEF IInv
-----------------------------------------------------------------------------
(* The steps of the run thread.                                            *)
LEMMA ProbeIncomingStep ==
  ASSUME IInv, probe_incomming_messages_
  PROVE  IInv'
<1> USE DEF probe_incomming_messages_, listVars, appVars, runVars, workVars, ucxVars
<1>0. TypeOK
  BY DEF IInv
<1>1. CASE unexpected = <<>>
  BY <1>0, <1>1, QuietStep DEF IInv, TypeOK, BatchWhileWalking, ListedHold, EmptyAtExit,
                               Dead, Walking
<1>2. CASE unexpected # <<>>
  <2> DEFINE m == Head(unexpected)
             c == m.channel
  <2>1. m \in Messages /\ c \in Channels /\ m # NoMsg /\ Tail(unexpected) \in Seq(Messages)
    BY <1>0, <1>2, TailContains, MessagesType DEF TypeOK
  <2>2. PICK s \in Slots : /\ recvList' = [recvList EXCEPT ![c] = Append(@, s)]
                           /\ slot' = [slot EXCEPT ![c][s] = m]
    BY <1>2 DEF clh_list_new_node, clh_list_push_node
  <2>3. unexpected' = Tail(unexpected)
    BY <1>2
  <2> HIDE DEF m, c
  <2>4. recvList[c] \in Seq(Slots)
    BY <1>0, <2>1 DEF TypeOK
  <2>5. /\ Append(recvList[c], s) \in Seq(Slots)
        /\ \A y : Contains(Append(recvList[c], s), y) <=> Contains(recvList[c], y) \/ y = s
    BY <2>4, AppendContains
  <2>6. /\ slot' \in [Channels -> [Slots -> Messages \cup {NoMsg}]]
        /\ \A d \in Channels, x \in Slots : slot[d][x] # NoMsg => slot'[d][x] # NoMsg
        /\ slot'[c][s] # NoMsg
    BY <1>0, <2>1, <2>2 DEF TypeOK
  <2>7. /\ recvList' \in [Channels -> Seq(Slots)]
        /\ \A d \in Channels, x \in Slots :
             Contains(recvList'[d], x) => Contains(recvList[d], x) \/ (d = c /\ x = s)
    BY <1>0, <2>1, <2>2, <2>5 DEF TypeOK
  <2>8. TypeOK'
    BY <1>0, <2>1, <2>3, <2>6, <2>7 DEF TypeOK, Dead
  <2>9. ListedHold'
    BY <2>6, <2>7 DEF IInv, ListedHold
  <2>10. BatchWhileWalking' /\ EmptyAtExit'
    BY DEF IInv, BatchWhileWalking, EmptyAtExit, Dead, Walking
  <2>11. UNCHANGED <<free, req, sendQ, recvQ, batch, ops, sendCount, call, expected>>
         /\ rpc = "probe" /\ rpc' = "send"
    BY <1>2
  <2> QED
    BY <2>6, <2>8, <2>9, <2>10, <2>11, QuietStep DEF Dead
<1> QED
  BY <1>1, <1>2

LEMMA SendOneStep ==
  ASSUME IInv, SendOne
  PROVE  IInv'
<1> USE DEF SendOne, clh_list_pop_node, listVars, appVars, runVars, workVars, ucxVars
<1> DEFINE r == Last(sendQ)
<1>0. /\ TypeOK /\ NodeOnOneList /\ rpc = "send" /\ sendQ # <<>>
      /\ sendQ \in Seq(SendRequests) /\ ops \in Seq(Requests)
  BY DEF IInv, TypeOK
<1>1. /\ sendQ' \in Seq(SendRequests) /\ r \in SendRequests /\ r \in Requests
      /\ \A y : Contains(sendQ, y) <=> Contains(sendQ', y) \/ y = r
      /\ IsInjective(sendQ') /\ ~Contains(sendQ', r)
  BY <1>0, FrontContains DEF NodeOnOneList, Requests
<1>2. ~Contains(ops, r)
  BY <1>1 DEF IInv, OpsOnce
<1>3. /\ ops' = Append(ops, r) /\ ops' \in Seq(Requests) /\ Len(ops') = Len(ops) + 1
      /\ \A y : Contains(ops', y) <=> Contains(ops, y) \/ y = r
      /\ IsInjective(ops')
  BY <1>0, <1>1, <1>2, AppendContains DEF IInv, OpsOnce
<1>4. ~Contains(recvQ, r) /\ batch = <<>> /\ ~Contains(batch, r)
  <2>1. recvQ \in Seq(RecvRequests \cup ProbeRequests)
    BY <1>0 DEF TypeOK
  <2>2. ~Contains(recvQ, r)
    BY <1>1, <2>1, PoolsDisjoint DEF Contains
  <2> QED
    BY <1>0, <2>2 DEF IInv, BatchWhileWalking, Walking, Dead, Contains
<1> HIDE DEF r
<1>5. inflight' \subseteq Requests
  BY <1>0, <1>1 DEF TypeOK, r
<1>6. TypeOK'
  BY <1>0, <1>1, <1>3, <1>5 DEF TypeOK
<1>7. \A x : IsFree(x)' <=> IsFree(x)
  BY DEF IsFree
<1>8. Homes' /\ BatchWhileWalking' /\ ResultsCompleted' /\ ListedHold' /\ EmptyAtExit'
  BY <1>0 DEF IInv, Homes, PoolHomes, BatchWhileWalking, ResultsCompleted, ListedHold, EmptyAtExit
<1>9. NodeOnOneList'
  BY <1>1, <1>7 DEF IInv, NodeOnOneList
<1>10. PendingIsTracked'
  BY <1>1, <1>3, <1>7 DEF IInv, PendingIsTracked, Pending, ToReceive
<1>11. OpsOnce'
  BY <1>0, <1>1, <1>3, <1>4 DEF IInv, OpsOnce
<1>12. CallsOwn'
  BY <1>7 DEF IInv, CallsOwn, IsFree
<1>13. ReceivesHaveMessage'
  BY <1>1, <1>3, PoolsDisjoint DEF IInv, ReceivesHaveMessage
<1>14. SendCountExact'
  <2> DEFINE A == {x \in SendRequests : Contains(ops, x)}
             B == {x \in SendRequests : Contains(ops', x)}
  <2>1. B = A \cup {r} /\ r \notin A
    BY <1>1, <1>2, <1>3
  <2>2. IsFiniteSet(A)
    BY PoolsFinite, FS_Subset
  <2> HIDE DEF A, B
  <2>3. Cardinality(B) = Cardinality(A) + 1
    BY <2>1, <2>2, FS_AddElement
  <2>4. sendCount = Cardinality(A) /\ sendCount \in Nat /\ sendCount < SendThreshold
    BY <1>0 DEF IInv, SendCountExact, A, TypeOK
  <2>5. sendCount' = sendCount + 1
    OBVIOUS
  <2> QED
    BY <2>3, <2>4, <2>5, ThresholdNat DEF SendCountExact, B
<1> QED
  BY <1>6, <1>8, <1>9, <1>10, <1>11, <1>12, <1>13, <1>14 DEF IInv

LEMMA DetachStep ==
  ASSUME IInv, DetachRecvQueue
  PROVE  IInv'
<1> USE DEF DetachRecvQueue, listVars, appVars, runVars, workVars, ucxVars
<1>0. TypeOK /\ rpc = "recv" /\ batch = <<>>
  BY DEF IInv, BatchWhileWalking, Walking, Dead
<1>1. /\ batch' = recvQ /\ recvQ' = <<>>
      /\ \A y : ~Contains(batch, y) /\ ~Contains(recvQ', y)
      /\ IsInjective(recvQ')
  BY <1>0 DEF Contains, IsInjective
<1>2. TypeOK'
  BY <1>0 DEF TypeOK, Dead
<1>3. \A x : IsFree(x)' <=> IsFree(x)
  BY DEF IsFree
<1>4. Homes' /\ ResultsCompleted' /\ ReceivesHaveMessage' /\ SendCountExact'
  BY DEF IInv, Homes, PoolHomes, ResultsCompleted, ReceivesHaveMessage, SendCountExact
<1>5. NodeOnOneList'
  BY <1>1, <1>3 DEF IInv, NodeOnOneList
<1>6. PendingIsTracked'
  BY <1>1, <1>3 DEF IInv, PendingIsTracked, Pending, ToReceive
<1>7. BatchWhileWalking' /\ ListedHold' /\ EmptyAtExit'
  BY <1>0, <1>1 DEF IInv, BatchWhileWalking, ListedHold, EmptyAtExit, Walking, Dead
<1>8. OpsOnce'
  BY <1>0, <1>1 DEF IInv, OpsOnce
<1>9. CallsOwn'
  BY <1>3 DEF IInv, CallsOwn, IsFree
<1> QED
  BY <1>2, <1>4, <1>5, <1>6, <1>7, <1>8, <1>9 DEF IInv

LEMMA ClaimStep ==
  ASSUME IInv, ClaimHeld
  PROVE  IInv'
<1> USE DEF ClaimHeld, listVars, appVars, runVars, workVars, ucxVars
<1> DEFINE r == Head(batch)
           c == req[r].env.channel
           m == slot[c][found]
           n == [req[r] EXCEPT !.msg = m, !.env = Envelope(m)]
<1>0. TypeOK /\ rpc = "claim" /\ batch # <<>>
  BY DEF IInv, BatchWhileWalking, Walking
<1>1. r \in Requests /\ Pending(r) /\ req[r] \in RequestRecords
  BY <1>0, HeadPending DEF TypeOK
<1>2. c \in Channels
  BY <1>0 DEF IInv, ListedHold
<1>3. m \in Messages
  <2>1. found \in Slots /\ m # NoMsg
    BY <1>0 DEF IInv, ListedHold, TypeOK
  <2> QED
    BY <1>0, <1>2, <2>1 DEF TypeOK
<1>4. req' = [req EXCEPT ![r] = n]
  OBVIOUS
<1>5. \/ recvList' = recvList
      \/ recvList' = [recvList EXCEPT ![c] = RemoveFirst(@, found)]
  BY DEF clh_list_remove_node
<1>6. rpc' \in {"post", "list_assert"}
  OBVIOUS
<1>7. /\ n \in RequestRecords
      /\ n.type = req[r].type /\ n.completed = req[r].completed
      /\ n.rx = req[r].rx /\ n.result = req[r].result /\ n.seen = req[r].seen
  <2>1. Envelope(m) \in Stored
    BY <1>3, EnvelopesAreStored
  <2> HIDE DEF m, r
  <2> QED
    BY <1>1, <1>3, <2>1 DEF RequestRecords
<1> HIDE DEF n, m
<1>8. /\ req' \in [Requests -> RequestRecords]
      /\ \A x \in Requests : /\ req'[x].type = req[x].type
                             /\ req'[x].completed = req[x].completed
                             /\ req'[x].rx = req[x].rx
                             /\ req'[x].result = req[x].result /\ req'[x].seen = req[x].seen
  BY <1>0, <1>1, <1>4, <1>7 DEF TypeOK
<1>9. /\ recvList' \in [Channels -> Seq(Slots)]
      /\ \A d \in Channels, s \in Slots : Contains(recvList'[d], s) => Contains(recvList[d], s)
  <2>1. CASE recvList' = recvList
    BY <1>0, <2>1 DEF TypeOK
  <2>2. CASE recvList' = [recvList EXCEPT ![c] = RemoveFirst(@, found)]
    <3>1. recvList[c] \in Seq(Slots)
      BY <1>0, <1>2 DEF TypeOK
    <3>2. /\ RemoveFirst(recvList[c], found) \in Seq(Slots)
          /\ \A y : Contains(RemoveFirst(recvList[c], found), y) => Contains(recvList[c], y)
      BY <3>1, RemoveFirstContains
    <3> QED
      BY <1>0, <1>2, <2>2, <3>2 DEF TypeOK
  <2> QED
    BY <1>5, <2>1, <2>2
<1>10. TypeOK'
  BY <1>0, <1>6, <1>8, <1>9 DEF TypeOK, Dead
<1>11. \A x : IsFree(x)' <=> IsFree(x)
  BY DEF IsFree
<1>12. Homes' /\ NodeOnOneList' /\ ResultsCompleted' /\ SendCountExact'
  BY <1>8, <1>11 DEF IInv, Homes, PoolHomes, NodeOnOneList, ResultsCompleted, SendCountExact
<1>13. PendingIsTracked'
  BY <1>8, <1>11 DEF IInv, PendingIsTracked, Pending, ToReceive
<1>14. BatchWhileWalking' /\ OpsOnce' /\ EmptyAtExit'
  BY <1>0, <1>6 DEF IInv, BatchWhileWalking, OpsOnce, EmptyAtExit, Walking, Dead
<1>15. CallsOwn'
  <2> SUFFICES ASSUME NEW t \in Threads, call[t] # NoCall
               PROVE  /\ \A ty \in Types : call[t].req \notin free[ty]
                      /\ req'[call[t].req].completed
                      /\ slot[call[t].channel][call[t].slot] # NoMsg
    BY DEF CallsOwn, IsFree
  <2>1. /\ call[t].req \in Requests /\ ~IsFree(call[t].req) /\ req[call[t].req].completed
        /\ slot[call[t].channel][call[t].slot] # NoMsg
    BY InProbeCall, MessagesType
  <2> QED
    BY <1>8, <2>1 DEF IsFree
<1>16. ListedHold'
  BY <1>6, <1>9 DEF IInv, ListedHold
<1>17. ReceivesHaveMessage'
  BY <1>8 DEF IInv, ReceivesHaveMessage, Requests
<1> QED
  BY <1>10, <1>12, <1>13, <1>14, <1>15, <1>16, <1>17 DEF IInv

LEMMA PostStep ==
  ASSUME IInv, PostRecv
  PROVE  IInv'
<1> USE DEF PostRecv, listVars, appVars, runVars, workVars, ucxVars
<1> DEFINE r == Head(batch)
           i == SelectInSeq(unexpected, LAMBDA m : Matches(m, req[r].filter))
           now == req[r].msg # NoMsg \/ i # 0
           rx == IF req[r].msg # NoMsg THEN req[r].msg ELSE IF i # 0 THEN unexpected[i] ELSE NoMsg
           n == [req[r] EXCEPT !.rx = rx]
<1>0. /\ TypeOK /\ NodeOnOneList /\ rpc = "post" /\ rpc' = "next" /\ batch # <<>>
      /\ ops \in Seq(Requests) /\ unexpected \in Seq(Messages)
      /\ expected \in Seq(RecvRequests \cup ProbeRequests)
  BY DEF IInv, BatchWhileWalking, Walking, TypeOK
<1>1. /\ r \in RecvRequests \cup ProbeRequests /\ r \in Requests /\ Contains(batch, r)
      /\ Pending(r) /\ req[r] \in RequestRecords /\ req[r].msg \in Messages \cup {NoMsg}
  BY <1>0, HeadPending DEF TypeOK, RequestRecords
<1>2. ~Contains(ops, r) /\ ~Contains(sendQ, r) /\ ~Contains(recvQ, r)
  <2>1. ~Contains(ops, r)
    BY <1>0, <1>1 DEF IInv, OpsOnce, Dead
  <2>2. ~Contains(recvQ, r)
    BY <1>0, <1>1 DEF NodeOnOneList
  <2>3. sendQ \in Seq(SendRequests)
    BY <1>0 DEF TypeOK
  <2>4. ~Contains(sendQ, r)
    BY <1>1, <2>3, PoolsDisjoint DEF Contains
  <2> QED
    BY <2>1, <2>2, <2>4
<1>3. i # 0 => i \in 1 .. Len(unexpected)
  <2> DEFINE I == {k \in 1 .. Len(unexpected) : Matches(unexpected[k], req[r].filter)}
  <2>1. i = IF I # {} THEN Min(I) ELSE 0
    BY DEF SelectInSeq
  <2>2. I \subseteq Nat /\ \A k \in I : k \in 1 .. Len(unexpected)
    OBVIOUS
  <2> HIDE DEF I, i
  <2> QED
    BY <2>1, <2>2, MinIsMember
<1>4. /\ ops' = Append(ops, r) /\ req' = [req EXCEPT ![r] = n]
      /\ inflight' = IF now THEN inflight \cup {r} ELSE inflight
      /\ expected' = IF now THEN expected ELSE Append(expected, r)
      /\ unexpected' = IF req[r].msg = NoMsg /\ i # 0 THEN RemoveAt(unexpected, i) ELSE unexpected
      /\ found' = 0
  OBVIOUS
<1> HIDE DEF i
<1>5. rx \in Messages \cup {NoMsg} /\ (now => rx # NoMsg)
  <2>1. i # 0 => unexpected[i] \in Messages /\ unexpected[i] # NoMsg
    BY <1>0, <1>3, MessagesType
  <2> QED
    BY <1>1, <2>1
<1>6. unexpected' \in Seq(Messages)
  BY <1>0, <1>3, <1>4, RemoveAtContains
<1> HIDE DEF rx, now
<1>7. /\ n \in RequestRecords
      /\ n.type = req[r].type /\ n.completed = req[r].completed /\ n.env = req[r].env
      /\ n.rx = rx /\ n.result = req[r].result /\ n.seen = req[r].seen
  BY <1>1, <1>5 DEF RequestRecords
<1> HIDE DEF n
<1>8. /\ req' \in [Requests -> RequestRecords]
      /\ \A x \in Requests : /\ req'[x].type = req[x].type
                             /\ req'[x].completed = req[x].completed
                             /\ req'[x].result = req[x].result /\ req'[x].seen = req[x].seen
                             /\ x # r => req'[x].rx = req[x].rx
      /\ req'[r].rx = rx
  BY <1>0, <1>1, <1>4, <1>7 DEF TypeOK
<1>9. /\ ops' \in Seq(Requests) /\ Len(ops') = Len(ops) + 1
      /\ \A y : Contains(ops', y) <=> Contains(ops, y) \/ y = r
      /\ IsInjective(ops')
  BY <1>0, <1>1, <1>2, <1>4, AppendContains DEF IInv, OpsOnce
<1>10. /\ expected' \in Seq(RecvRequests \cup ProbeRequests)
       /\ \A y : Contains(expected, y) => Contains(expected', y)
       /\ ~now => Contains(expected', r)
  <2>1. CASE now
    BY <1>0, <1>4, <2>1
  <2>2. CASE ~now
    <3>1. expected' = Append(expected, r)
      BY <1>4, <2>2
    <3> HIDE DEF r
    <3>2. /\ Append(expected, r) \in Seq(RecvRequests \cup ProbeRequests)
          /\ \A y : Contains(Append(expected, r), y) <=> Contains(expected, y) \/ y = r
      BY <1>0, <1>1, AppendContains
    <3> QED
      BY <3>1, <3>2
  <2> QED
    BY <2>1, <2>2
<1>11. inflight' \subseteq Requests
  BY <1>0, <1>1, <1>4 DEF TypeOK
<1>12. \A x : IsFree(x)' <=> IsFree(x)
  BY DEF IsFree
<1>13. TypeOK'
  <2>1. idx' \in 1 .. Len(ops') + 1
    BY <1>0, <1>9 DEF TypeOK
  <2> QED
    BY <1>0, <1>4, <1>6, <1>8, <1>9, <1>10, <1>11, <2>1 DEF TypeOK
<1>14. Homes' /\ NodeOnOneList' /\ ResultsCompleted'
  BY <1>8, <1>12 DEF IInv, Homes, PoolHomes, NodeOnOneList, ResultsCompleted
<1>15. PendingIsTracked'
  BY <1>1, <1>8, <1>9, <1>12 DEF IInv, PendingIsTracked, Pending, ToReceive
<1>16. BatchWhileWalking' /\ ListedHold' /\ EmptyAtExit'
  BY <1>0 DEF IInv, BatchWhileWalking, ListedHold, EmptyAtExit, Walking, Dead
<1>17. OpsOnce'
  <2>1. \A x \in Requests : Contains(ops, x) =>
          ~Contains(sendQ, x) /\ ~Contains(recvQ, x) /\ ~Contains(batch, x)
    BY <1>0 DEF IInv, OpsOnce, Dead
  <2> QED
    BY <1>0, <1>2, <1>9, <2>1 DEF OpsOnce
<1>18. CallsOwn'
  <2> SUFFICES ASSUME NEW t \in Threads, call[t] # NoCall
               PROVE  /\ \A ty \in Types : call[t].req \notin free[ty]
                      /\ req'[call[t].req].completed
                      /\ slot[call[t].channel][call[t].slot] # NoMsg
    BY DEF CallsOwn, IsFree
  <2> QED
    BY <1>8, InProbeCall, MessagesType DEF IsFree
<1>19. ReceivesHaveMessage'
  BY <1>5, <1>8, <1>9, <1>10 DEF IInv, ReceivesHaveMessage, Requests
<1>20. SendCountExact'
  <2>1. r \notin SendRequests
    BY <1>1, PoolsDisjoint
  <2>2. {x \in SendRequests : Contains(ops', x)} = {x \in SendRequests : Contains(ops, x)}
    BY <1>9, <2>1
  <2> QED
    BY <2>2 DEF IInv, SendCountExact
<1> QED
  BY <1>13, <1>14, <1>15, <1>16, <1>17, <1>18, <1>19, <1>20 DEF IInv

LEMMA NextInBatchStep ==
  ASSUME IInv, NextInBatch
  PROVE  IInv'
<1> USE DEF NextInBatch, listVars, appVars, runVars, workVars, ucxVars
<1> DEFINE r == Head(batch)
<1>0. /\ TypeOK /\ NodeOnOneList /\ rpc = "next" /\ batch # <<>> /\ Contains(ops, r)
      /\ batch \in Seq(RecvRequests \cup ProbeRequests)
  BY DEF IInv, BatchWhileWalking, Walking, TypeOK, OpsOnce
<1>1. /\ batch' \in Seq(RecvRequests \cup ProbeRequests)
      /\ \A y : Contains(batch, y) <=> Contains(batch', y) \/ y = r
      /\ IsInjective(batch') /\ ~Contains(batch', r)
  BY <1>0, TailContains DEF NodeOnOneList
<1>2. rpc' = IF batch' = <<>> THEN "progress" ELSE "search"
  OBVIOUS
<1>3. TypeOK'
  BY <1>0, <1>1 DEF TypeOK
<1>4. \A x : IsFree(x)' <=> IsFree(x)
  BY DEF IsFree
<1>5. Homes' /\ ResultsCompleted' /\ ReceivesHaveMessage' /\ SendCountExact'
  BY DEF IInv, Homes, PoolHomes, ResultsCompleted, ReceivesHaveMessage, SendCountExact
<1>6. NodeOnOneList'
  BY <1>1, <1>4 DEF IInv, NodeOnOneList
<1>7. PendingIsTracked'
  BY <1>0, <1>1, <1>4 DEF IInv, PendingIsTracked, Pending, ToReceive
<1>8. BatchWhileWalking' /\ ListedHold' /\ EmptyAtExit'
  BY <1>2 DEF IInv, BatchWhileWalking, ListedHold, EmptyAtExit, Walking, Dead
<1>9. OpsOnce'
  <2>1. \A x \in Requests : Contains(ops, x) => ~Contains(batch', x)
    BY <1>0, <1>1 DEF IInv, OpsOnce
  <2>2. rpc' # "next"
    BY <1>2
  <2> QED
    BY <2>1, <2>2 DEF IInv, OpsOnce
<1>10. CallsOwn'
  BY <1>4 DEF IInv, CallsOwn, IsFree
<1> QED
  BY <1>3, <1>5, <1>6, <1>7, <1>8, <1>9, <1>10 DEF IInv

LEMMA ArrivalStep ==
  ASSUME IInv, NEW m \in Messages, ProgressArrival(m)
  PROVE  IInv'
<1> USE DEF ProgressArrival, listVars, appVars, runVars, workVars, ucxVars
<1> DEFINE i == SelectInSeq(expected, LAMBDA r : Matches(m, req[r].filter))
           e == expected[i]
           n == [req[e] EXCEPT !.rx = m]
<1>0. /\ TypeOK /\ rpc = "progress"
      /\ expected \in Seq(RecvRequests \cup ProbeRequests) /\ unexpected \in Seq(Messages)
  BY DEF IInv, TypeOK
<1>1. CASE i = 0
  <2>1. /\ UNCHANGED <<free, req, sendQ, recvQ, batch, ops, sendCount, call, expected, rpc, slot>>
        /\ unexpected' = Append(unexpected, m)
    BY <1>1
  <2>2. TypeOK'
    <3>1. unexpected' \in Seq(Messages) /\ net' \subseteq Messages
      BY <1>0, <2>1 DEF TypeOK
    <3> QED
      BY <1>0, <1>1, <3>1 DEF TypeOK
  <2>3. BatchWhileWalking' /\ ListedHold' /\ EmptyAtExit'
    BY <2>1 DEF IInv, BatchWhileWalking, ListedHold, EmptyAtExit
  <2> QED
    BY <1>0, <2>1, <2>2, <2>3, QuietStep
<1>2. CASE i # 0
  <2>1. i \in 1 .. Len(expected)
    <3> DEFINE I == {k \in 1 .. Len(expected) : Matches(m, req[expected[k]].filter)}
    <3>1. i = IF I # {} THEN Min(I) ELSE 0
      BY DEF SelectInSeq
    <3>2. I \subseteq Nat /\ \A k \in I : k \in 1 .. Len(expected)
      OBVIOUS
    <3> HIDE DEF I, i
    <3> QED
      BY <1>2, <3>1, <3>2, MinIsMember
  <2>2. /\ expected' = RemoveAt(expected, i) /\ inflight' = inflight \cup {e}
        /\ req' = [req EXCEPT ![e] = n]
        /\ UNCHANGED unexpected
    BY <1>2
  <2> HIDE DEF i
  <2>3. e \in Requests /\ e \in RecvRequests \cup ProbeRequests
    BY <1>0, <2>1 DEF Requests
  <2>4. /\ n \in RequestRecords
        /\ n.type = req[e].type /\ n.completed = req[e].completed /\ n.env = req[e].env
        /\ n.rx = m /\ n.result = req[e].result /\ n.seen = req[e].seen
    <3>1. req[e] \in RequestRecords
      BY <1>0, <2>3 DEF TypeOK
    <3> HIDE DEF e
    <3> QED
      BY <3>1 DEF RequestRecords
  <2>5. /\ expected' \in Seq(RecvRequests \cup ProbeRequests)
        /\ \A y : Contains(expected, y) /\ y # e => Contains(expected', y)
    BY <1>0, <2>1, <2>2, RemoveAtContains
  <2> HIDE DEF e, n
  <2>6. /\ req' \in [Requests -> RequestRecords]
        /\ \A x \in Requests : /\ req'[x].type = req[x].type
                               /\ req'[x].completed = req[x].completed
                               /\ req'[x].env = req[x].env
                               /\ req'[x].result = req[x].result /\ req'[x].seen = req[x].seen
                               /\ x # e => req'[x].rx = req[x].rx
        /\ req'[e].rx = m
    BY <1>0, <2>2, <2>3, <2>4 DEF TypeOK
  <2>7. \A x : IsFree(x)' <=> IsFree(x)
    BY DEF IsFree
  <2>8. TypeOK'
    <3>1. inflight' \subseteq Requests /\ net' \subseteq Messages
      BY <1>0, <2>2, <2>3 DEF TypeOK
    <3> QED
      BY <1>0, <2>2, <2>5, <2>6, <3>1 DEF TypeOK
  <2>9. Homes' /\ NodeOnOneList' /\ ResultsCompleted' /\ SendCountExact'
    BY <2>6, <2>7 DEF IInv, Homes, PoolHomes, NodeOnOneList, ResultsCompleted, SendCountExact
  <2>10. PendingIsTracked'
    BY <2>6, <2>7 DEF IInv, PendingIsTracked, Pending, ToReceive
  <2>11. BatchWhileWalking' /\ OpsOnce' /\ ListedHold' /\ EmptyAtExit'
    BY <1>0 DEF IInv, BatchWhileWalking, OpsOnce, ListedHold, EmptyAtExit
  <2>12. CallsOwn'
    <3> SUFFICES ASSUME NEW t \in Threads, call[t] # NoCall
                 PROVE  /\ \A ty \in Types : call[t].req \notin free[ty]
                        /\ req'[call[t].req].completed
                        /\ slot[call[t].channel][call[t].slot] # NoMsg
      BY DEF CallsOwn, IsFree
    <3> QED
      BY <2>6, InProbeCall, MessagesType DEF IsFree
  <2>13. ReceivesHaveMessage'
    BY <2>5, <2>6, MessagesType DEF IInv, ReceivesHaveMessage, Requests
  <2> QED
    BY <2>8, <2>9, <2>10, <2>11, <2>12, <2>13 DEF IInv
<1> QED
  BY <1>1, <1>2

LEMMA OpDoneStep ==
  ASSUME IInv, OpDone
  PROVE  IInv'
<1> USE DEF OpDone, listVars, appVars, runVars, workVars, ucxVars
<1> DEFINE r == ops[idx]
           n == [req[r] EXCEPT !.completed = TRUE, !.env = Sender(r)]
<1>0. /\ TypeOK /\ rpc = "ops" /\ batch = <<>>
      /\ ops \in Seq(Requests) /\ IsInjective(ops) /\ idx \in 1 .. Len(ops)
  BY DEF IInv, TypeOK, OpsOnce, BatchWhileWalking, Walking, Dead
<1>1. r \in Requests /\ Contains(ops, r) /\ req[r] \in RequestRecords /\ ~Contains(expected, r)
  BY <1>0 DEF TypeOK, Contains, Outstanding
<1>2. /\ ops' = array_remove(ops, idx) /\ req' = [req EXCEPT ![r] = n]
      /\ sendCount' = IF IsSend(r) THEN sendCount - 1 ELSE sendCount
  OBVIOUS
<1>3. /\ ops' \in Seq(Requests) /\ Len(ops') = Len(ops) - 1 /\ IsInjective(ops')
      /\ \A y : Contains(ops', y) <=> Contains(ops, y) /\ y # r
  BY <1>0, <1>2, ArrayRemoveContains
<1>4. ~Contains(sendQ, r) /\ ~Contains(recvQ, r) /\ ~Contains(batch, r)
  BY <1>0, <1>1 DEF IInv, OpsOnce, Dead
<1>5. IsSend(r) <=> r \in SendRequests
  <2>1. req[r].type \in Types /\ r \in Pool[req[r].type]
    BY <1>1 DEF IInv, Homes, RequestRecords
  <2> QED
    BY <2>1, PoolsDisjoint DEF IsSend
<1>6. Sender(r) \in Stored
  <2>1. CASE req[r].type = "RECV"
    <3>1. r \in RecvRequests
      BY <1>1, <2>1 DEF IInv, Homes
    <3>2. req[r].rx \in Messages
      BY <1>1, <3>1 DEF IInv, ReceivesHaveMessage, RequestRecords
    <3> HIDE DEF r
    <3> QED
      BY <2>1, <3>2, EnvelopesAreStored DEF Sender
  <2>2. CASE req[r].type # "RECV"
    BY <1>1, <2>2 DEF Sender, RequestRecords
  <2> QED
    BY <2>1, <2>2
<1> HIDE DEF r
<1>7. /\ n \in RequestRecords
      /\ n.type = req[r].type /\ n.completed /\ n.rx = req[r].rx
      /\ n.result = req[r].result /\ n.seen = req[r].seen
  BY <1>1, <1>6 DEF RequestRecords
<1> HIDE DEF n
<1>8. /\ req' \in [Requests -> RequestRecords]
      /\ \A x \in Requests : /\ req'[x].type = req[x].type
                             /\ req'[x].rx = req[x].rx
                             /\ req'[x].result = req[x].result /\ req'[x].seen = req[x].seen
                             /\ x # r => req'[x].completed = req[x].completed
      /\ req'[r].completed
  <2>1. req \in [Requests -> RequestRecords]
    BY <1>0 DEF TypeOK
  <2>2. /\ req' \in [Requests -> RequestRecords] /\ req'[r] = n
        /\ \A x \in Requests : x # r => req'[x] = req[x]
    BY <1>1, <1>2, <1>7, <2>1
  <2> QED
    BY <1>7, <2>2
<1>9. SendCountExact' /\ sendCount' \in Nat
  <2> DEFINE A == {x \in SendRequests : Contains(ops, x)}
             B == {x \in SendRequests : Contains(ops', x)}
  <2>1. IsFiniteSet(A)
    BY PoolsFinite, FS_Subset
  <2>2. /\ sendCount = Cardinality(A) /\ sendCount \in Nat /\ sendCount <= SendThreshold
    BY <1>0 DEF IInv, SendCountExact, TypeOK
  <2>3. CASE IsSend(r)
    <3>1. r \in A /\ B = A \ {r}
      BY <1>1, <1>3, <1>5, <2>3
    <3>2. Cardinality(B) = Cardinality(A) - 1 /\ IsFiniteSet(B)
      <4> HIDE DEF A, B
      <4> QED
        BY <2>1, <3>1, FS_RemoveElement
    <3>3. Cardinality(B) \in Nat
      BY <3>2, FS_CardinalityType
    <3>4. sendCount' = sendCount - 1
      BY <1>2, <2>3
    <3> HIDE DEF A
    <3>5. sendCount' = Cardinality(B) /\ sendCount' <= SendThreshold
      <4> HIDE DEF B
      <4> QED
        BY <2>2, <3>2, <3>4, ThresholdNat
    <3> QED
      BY <3>3, <3>5 DEF SendCountExact
  <2>4. CASE ~IsSend(r)
    <3>1. B = A
      BY <1>3, <1>5, <2>4
    <3>2. sendCount' = sendCount
      BY <1>2, <2>4
    <3> QED
      BY <2>2, <3>1, <3>2 DEF SendCountExact
  <2> QED
    BY <2>3, <2>4
<1>10. \A x : IsFree(x)' <=> IsFree(x)
  BY DEF IsFree
<1>11. TypeOK'
  <2>1. idx' \in 1 .. Len(ops') + 1
    BY <1>0, <1>3
  <2> QED
    BY <1>0, <1>3, <1>8, <1>9, <2>1 DEF TypeOK
<1>12. Homes' /\ NodeOnOneList'
  BY <1>8, <1>10 DEF IInv, Homes, PoolHomes, NodeOnOneList
<1>13. PendingIsTracked'
  BY <1>1, <1>3, <1>4, <1>8, <1>10 DEF IInv, PendingIsTracked, Pending, ToReceive
<1>14. BatchWhileWalking' /\ ListedHold' /\ EmptyAtExit'
  BY <1>0 DEF IInv, BatchWhileWalking, ListedHold, EmptyAtExit, Walking, Dead
<1>15. OpsOnce' /\ ReceivesHaveMessage'
  BY <1>0, <1>3, <1>8 DEF IInv, OpsOnce, ReceivesHaveMessage, Requests
<1>16. ResultsCompleted'
  BY <1>8 DEF IInv, ResultsCompleted
<1>17. CallsOwn'
  <2> SUFFICES ASSUME NEW t \in Threads, call[t] # NoCall
               PROVE  /\ \A ty \in Types : call[t].req \notin free[ty]
                      /\ req'[call[t].req].completed
                      /\ slot[call[t].channel][call[t].slot] # NoMsg
    BY DEF CallsOwn, IsFree
  <2> QED
    BY <1>8, InProbeCall, MessagesType DEF IsFree
<1> QED
  BY <1>9, <1>11, <1>12, <1>13, <1>14, <1>15, <1>16, <1>17 DEF IInv
-----------------------------------------------------------------------------
(* The theorems.                                                           *)
LEMMA Step == IInv /\ [Next]_vars => IInv'
<1> SUFFICES ASSUME IInv, [Next]_vars PROVE IInv'
  OBVIOUS
<1>1. CASE RunThread
  BY <1>1, QuietActions, ProbeIncomingStep, SendOneStep, DetachStep, ClaimStep, PostStep,
     NextInBatchStep, ArrivalStep, OpDoneStep DEF RunThread, Progress
<1>2. ASSUME NEW r \in SendRequests, NEW c \in Channels, NEW tag \in Tags, clh_send(r, c, tag)
      PROVE  IInv'
  BY <1>2, SendCall
<1>3. ASSUME NEW r \in RecvRequests, NEW c \in Channels, NEW T \in TagSets,
             clh_recv(r, c, T) \/ \E s \in Sources : clh_recv_from(r, c, s, T)
      PROVE  IInv'
  <2>1. /\ AnySource(c, T) \in Filters
        /\ \A s \in Sources : FromSource(c, s, T) \in Filters
    BY TagSetsType DEF AnySource, FromSource, Filters
  <2> QED
    BY <1>3, <2>1, RecvCall DEF clh_recv, clh_recv_from, MayCall
<1>4. ASSUME NEW t \in Threads, NEW r \in ProbeRequests, NEW c \in Channels, NEW T \in TagSets,
             NEW remove \in Removes,
             \/ clh_probe(t, r, c, T, remove)
             \/ \E s \in Sources : clh_probe_source(t, r, c, s, T, remove)
      PROVE  IInv'
  <2>1. /\ AnySource(c, T) \in Filters
        /\ \A s \in Sources : FromSource(c, s, T) \in Filters
    BY TagSetsType DEF AnySource, FromSource, Filters
  <2>2. remove \in BOOLEAN
    BY CallsType
  <2> QED
    BY <1>4, <2>1, <2>2, ProbeCallStart DEF clh_probe, clh_probe_source
<1>5. ASSUME NEW t \in Threads, ProbeCall(t)
      PROVE  IInv'
  BY <1>5, ProbeCopyStep, ProbeRemoveStep DEF ProbeCall
<1>6. CASE Application
  BY <1>2, <1>3, <1>4, <1>5, <1>6, RequestRecvStep, ReleaseStep, QuietActions DEF Application
<1>7. CASE Stopped \/ UNCHANGED vars
  BY <1>7, QuietActions
<1> QED
  BY <1>1, <1>6, <1>7 DEF Next

(* The inductive invariant holds in every reachable state.                 *)
THEOREM Invariance == Spec => []IInv
BY InitInvariant, Step, PTL DEF Spec

(* The variables keep their types, whatever the pools, the channels, the   *)
(* messages and the threads: send_count and idx stay in range.             *)
THEOREM TypeCorrect == Spec => []TypeOK
<1>1. IInv => TypeOK
  BY DEF IInv
<1> QED
  BY <1>1, Invariance, PTL

(* A request node is linked once, so that process_recv_queue_ may read     *)
(* cur->next after it has handed the request to UCX.                       *)
THEOREM LinkedOnce == Spec => []NodeOnOneList
<1>1. IInv => NodeOnOneList
  BY DEF IInv
<1> QED
  BY <1>1, Invariance, PTL

(* A request is with the run thread from its call to its completion, and   *)
(* never after: what a thread waits for is being worked on, and what it    *)
(* may release is not.                                                     *)
THEOREM Tracked == Spec => []PendingIsTracked
<1>1. IInv => PendingIsTracked
  BY DEF IInv
<1> QED
  BY <1>1, Invariance, PTL

(* Each pool holds its own nodes only, over clh_request_recv too.          *)
THEOREM HomesKept == Spec => []PoolHomes
<1>1. IInv => PoolHomes
  BY DEF IInv, Homes
<1> QED
  BY <1>1, Invariance, PTL

(* send_count counts the send operations in flight, for every threshold.   *)
THEOREM SendsCounted == Spec => []SendCountExact
<1>1. IInv => SendCountExact
  BY DEF IInv
<1> QED
  BY <1>1, Invariance, PTL

(* No request is pending when the run thread has left its loop.            *)
THEOREM Drained == Spec => []DrainedAtExit
<1>1. IInv => DrainedAtExit
  <2> SUFFICES ASSUME IInv, rpc = "exited", NEW r \in Requests
               PROVE  ~Pending(r)
    BY DEF DrainedAtExit
  <2>1. \A y : ~Contains(<<>>, y)
    BY DEF Contains
  <2> QED
    BY <2>1 DEF IInv, EmptyAtExit, PendingIsTracked, ToReceive
<1> QED
  BY <1>1, Invariance, PTL
=============================================================================
