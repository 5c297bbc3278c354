--------------------------- MODULE MatchingProofs ---------------------------
(* Which message a request gets in Worker, for all values of its constants:*)
(* what was matched stays matched over the places where the code uses what *)
(* it read before, no message is had twice or forgotten, and the receives  *)
(* and probes of a node work as a Mailbox.  The last sections prove the    *)
(* refinement: what Only keeps of a list, in which order messages are met, *)
(* and then, action by action, the step of the mailbox each one is.        *)
EXTENDS WorkerProofs
-----------------------------------------------------------------------------
(* The inductive invariant, on top of IInv.                                *)

(* A request's message and the envelope reported with it fit its filter,   *)
(* from the search, or UCX's match, to the release.  A request of a probe  *)
(* carries a handle into its receive exactly when the probe removed.  What *)
(* a probe copies without the mutex fits only with the discipline.         *)
Steady(r) == r \in ProbeRequests => Exclusive

RequestOK(r) ==
  /\ r \in SendRequests => req[r].msg = NoMsg /\ req[r].rx = NoMsg
  /\ req[r].remove => r \in ProbeRequests
  /\ req[r].result => req[r].rx = NoMsg
  /\ Steady(r) =>
       /\ req[r].rx # NoMsg => Matches(req[r].rx, req[r].filter)
       /\ ~req[r].completed /\ req[r].msg # NoMsg => Matches(req[r].msg, req[r].filter)
       /\ Pending(r) /\ req[r].remove => req[r].msg # NoMsg
       /\ r \in ProbeRequests /\ (Pending(r) \/ req[r].rx # NoMsg) =>
            req[r].filter = Exactly(req[r].env)
  /\ r \in RecvRequests /\ ~IsFree(r) /\ req[r].completed =>
       req[r].rx # NoMsg /\ req[r].env = Envelope(req[r].rx)

RequestsOK == \A r \in Requests : RequestOK(r)

(* A request in a call to clh_probe_ was not received with, and is in no   *)
(* other call.                                                             *)
CallsFresh ==
  \A t \in Threads : call[t] # NoCall =>
    /\ req[call[t].req].rx = NoMsg
    /\ call[t].pc = "remove" => req[call[t].req].remove
    /\ \A u \in Threads : call[u] # NoCall /\ call[u].req = call[t].req => u = t

ExpectedPosted == \A r \in Requests : Contains(expected, r) => Contains(ops, r)

(* The node found still holds the message it was found for: only the run   *)
(* thread writes nodes.                                                    *)
FoundMatches ==
  rpc = "claim" =>
    /\ req[Head(batch)].msg = NoMsg
    /\ Matches(slot[req[Head(batch)].env.channel][found], req[Head(batch)].filter)

(* What a probe has read so far of message m, before it reads field pc.    *)
CopiedSoFar(q, pc, m) ==
  /\ Matches(m, q.filter)
  /\ pc # "full_tag" => q.result /\ q.seen = m
  /\ pc \in {"channel", "source", "tag", "remove"} => q.msg = m
  /\ pc \in {"source", "tag", "remove"} => q.env.channel = m.channel
  /\ pc \in {"tag", "remove"} => q.env.source = m.source
  /\ pc = "remove" => q.env.tag = m.tag

(* While a thread is in clh_probe_, or the run thread is between its search*)
(* and its removal, the discipline of the application keeps the node it    *)
(* read in the list, so nobody has put another message there.              *)
KeepClear ==
  /\ (\E t \in Threads : call[t] # NoCall) => \A r \in Requests : ~Looking(r)
  /\ \A t, u \in Threads : Removing(t) /\ call[u] # NoCall => u = t
  /\ \A t \in Threads : call[t] # NoCall =>
       /\ Contains(recvList[call[t].channel], call[t].slot)
       /\ CopiedSoFar(req[call[t].req], call[t].pc, slot[call[t].channel][call[t].slot])
  /\ rpc = "claim" => Contains(recvList[req[Head(batch)].env.channel], found)
  /\ NoListAssertion /\ ProbeMatches

(* One channel is in use, and every request of the pools was used on it:   *)
(* none has the channel field that clh_request_allocate_ leaves unset.     *)
OneWarmChannel == (\A c, d \in Channels : c = d) /\ \A e \in StaleEnvelopes : e.channel # Unset
Warm == OneWarmChannel => \A r \in Requests : req[r].env.channel # Unset

(* What the search did not find is not there when the receive is posted.   *)
Searched ==
  /\ NotStranded
  /\ rpc = "post" /\ req[Head(batch)].msg = NoMsg =>
       \A m \in Messages : Listed(m) => ~Matches(m, req[Head(batch)].filter)

Matched ==
  /\ RequestsOK /\ CallsFresh /\ ExpectedPosted /\ FoundMatches
  /\ Exclusive => KeepClear
  /\ OneWarmChannel => Searched
-----------------------------------------------------------------------------
(* message_search gives a listed message that passes, if there is one.     *)
LEMMA SearchFinds ==
  ASSUME IInv, NEW c \in Channels, NEW f, NEW i, i = message_search(c, f)
  PROVE  /\ i # 0 => /\ recvList[c][i] \in Slots /\ Contains(recvList[c], recvList[c][i])
                     /\ Matches(slot[c][recvList[c][i]], f)
         /\ i = 0 => \A k \in DOMAIN recvList[c] : ~Matches(slot[c][recvList[c][k]], f)
<1> DEFINE I == {k \in 1 .. Len(recvList[c]) : Matches(slot[c][recvList[c][k]], f)}
<1>1. recvList[c] \in Seq(Slots)
  BY DEF IInv, TypeOK
<1>2. i = IF I # {} THEN Min(I) ELSE 0
  BY DEF message_search, SelectInSeq
<1>3. I \in SUBSET (1 .. Len(recvList[c])) /\ Len(recvList[c]) \in Nat
  BY <1>1
<1>4. (i # 0 => i \in I) /\ (i = 0 => I = {})
  <2> HIDE DEF I
  <2> QED
    BY <1>2, <1>3, LeastOf
<1> QED
  BY <1>1, <1>4 DEF Contains

(* A filter made of an envelope lets only messages with it pass.           *)
LEMMA PassesExactly ==
  ASSUME NEW e \in Stored, NEW m \in Messages
  PROVE  Matches(m, Exactly(e)) <=> Envelope(m) = e
BY MessagesType, StaleType DEF Matches, Exactly, Envelope, Stored

(* What is not written stays right.                                        *)
LEMMA SameRequest ==
  ASSUME NEW x, RequestOK(x), req'[x] = req[x], IsFree(x)' <=> IsFree(x)
  PROVE  RequestOK(x)'
BY DEF RequestOK, Steady, Pending

(* The answers of the other probes stay as they are.                       *)
LEMMA AnswersKept ==
  ASSUME ProbeMatches, NEW r, r \in ProbeRequests => IsFree(r)' \/ ~req'[r].result,
         \A x \in Requests : x # r => req'[x] = req[x] /\ (IsFree(x)' <=> IsFree(x)),
         \A x \in Requests : x # r /\ InCall(x) => InCall(x)'
  PROVE  ProbeMatches'
<1> SUFFICES ASSUME NEW x \in ProbeRequests, ~IsFree(x)', req'[x].result, ~InCall(x)'
             PROVE  /\ req'[x].msg # NoMsg
                    /\ Matches(req'[x].msg, req'[x].filter)
                    /\ req'[x].seen = req'[x].msg
                    /\ req'[x].env = Envelope(req'[x].msg)
  BY DEF ProbeMatches
<1>1. x # r /\ x \in Requests
  BY DEF Requests
<1>2. req'[x] = req[x] /\ ~IsFree(x) /\ ~InCall(x)
  BY <1>1
<1> QED
  BY <1>2 DEF ProbeMatches

(* A listed message is in a node of a list.                                *)
LEMMA ListedNode ==
  ASSUME TypeOK, NEW m
  PROVE  Listed(m) <=> \E c \in Channels, s \in Slots : Contains(recvList[c], s) /\ slot[c][s] = m
BY DEF TypeOK, Listed, Contains

(* The same in the state after a step.                                     *)
LEMMA ListedNodeNext ==
  ASSUME TypeOK', NEW m
  PROVE  Listed(m)' <=> \E c \in Channels, s \in Slots : Contains(recvList'[c], s) /\ slot'[c][s] = m
BY DEF TypeOK, Listed, Contains
-----------------------------------------------------------------------------
(* The initial states.                                                     *)
LEMMA InitMatched == Init => Matched /\ Warm
<1> SUFFICES ASSUME Init PROVE Matched /\ Warm
  OBVIOUS
<1> USE DEF Init
<1>1. PICK stale \in [Requests -> StaleEnvelopes] :
        req = [r \in Requests |->
                [type |-> CHOOSE ty \in Types : r \in Pool[ty], completed |-> FALSE,
                 env |-> stale[r], filter |-> NoFilter, msg |-> NoMsg, rx |-> NoMsg,
                 seen |-> NoMsg, result |-> FALSE, remove |-> FALSE]]
  OBVIOUS
<1>2. \A r \in Requests : IsFree(r) /\ ~Pending(r)
  BY DEF IsFree, Pending, Requests, Types, Pool
<1>3. \A r \in Requests : /\ ~req[r].completed /\ ~req[r].result /\ ~req[r].remove
                          /\ req[r].msg = NoMsg /\ req[r].rx = NoMsg
  BY <1>1
<1>4. RequestsOK
  BY <1>2, <1>3 DEF RequestsOK, RequestOK
<1>5. \A y : ~Contains(<<>>, y)
  BY DEF Contains
<1>6. CallsFresh /\ ExpectedPosted /\ FoundMatches
  BY <1>5 DEF CallsFresh, ExpectedPosted, FoundMatches
<1>7. KeepClear
  BY <1>2, <1>3 DEF KeepClear, NoListAssertion, ProbeMatches, Removing, Looking, Requests
<1>8. Searched
  BY <1>5 DEF Searched, NotStranded
<1>9. Warm
  BY <1>1 DEF Warm, OneWarmChannel
<1> QED
  BY <1>4, <1>6, <1>7, <1>8, <1>9 DEF Matched
-----------------------------------------------------------------------------
USE DEF Types, Pool

(* A step that neither fills in a request, a node or a call nor moves a    *)
(* message.                                                                *)
LEMMA QuietMatch ==
  ASSUME IInv, Matched, UNCHANGED <<free, req, call, recvList, slot, unexpected, expected>>,
         \A r \in Requests : Contains(ops, r) => Contains(ops', r),
         rpc' = "claim" => rpc = "claim" /\ UNCHANGED <<batch, found>>,
         rpc' = "post" => rpc = "post" /\ UNCHANGED batch,
         rpc' = "list_assert" => rpc = "list_assert"
  PROVE  Matched'
<1>1. \A r \in Requests : /\ IsFree(r)' <=> IsFree(r)
                          /\ Pending(r)' <=> Pending(r)
                          /\ Looking(r)' <=> Looking(r)
  BY DEF IsFree, Pending, Looking
<1>2. RequestsOK'
  BY <1>1, SameRequest DEF Matched, RequestsOK
<1>3. CallsFresh' /\ ExpectedPosted' /\ FoundMatches'
  BY DEF Matched, CallsFresh, ExpectedPosted, FoundMatches
<1>4. Exclusive => KeepClear'
  BY <1>1 DEF Matched, KeepClear, NoListAssertion, ProbeMatches, InCall, Removing, Requests
<1>5. OneWarmChannel => Searched'
  <2>1. \A m : Listed(m)' <=> Listed(m)
    BY DEF Listed
  <2> QED
    BY <2>1 DEF Matched, Searched, NotStranded
<1> QED
  BY <1>2, <1>3, <1>4, <1>5 DEF Matched

(* The steps of that kind.                                                 *)
LEMMA QuietMatches ==
  ASSUME IInv, Matched,
         \/ clh_finalize \/ run_ \/ SendOne \/ SendDone \/ DetachRecvQueue \/ NextInBatch
         \/ ProgressDone \/ (\E r \in Requests : ProgressTransfer(r))
         \/ OpInProgress \/ OpsEnd \/ UcxError \/ Stopped \/ UNCHANGED vars
  PROVE  Matched'
<1> USE DEF vars, listVars, appVars, runVars, workVars, ucxVars
<1>1. CASE clh_finalize
  BY <1>1, QuietMatch DEF clh_finalize
<1>2. CASE run_
  BY <1>2, QuietMatch DEF run_
<1>3. CASE SendOne
  <2>1. sendQ \in Seq(SendRequests) /\ sendQ # <<>> /\ ops \in Seq(Requests)
    BY <1>3 DEF SendOne, IInv, TypeOK
  <2>2. Last(sendQ) \in Requests
    BY <2>1, FrontContains DEF Requests
  <2>3. \A r \in Requests : Contains(ops, r) => Contains(Append(ops, Last(sendQ)), r)
    BY <2>1, <2>2, AppendContains
  <2> QED
    BY <1>3, <2>3, QuietMatch DEF SendOne
<1>4. CASE SendDone
  BY <1>4, QuietMatch DEF SendDone
<1>5. CASE DetachRecvQueue
  BY <1>5, QuietMatch DEF DetachRecvQueue
<1>6. CASE NextInBatch
  BY <1>6, QuietMatch DEF NextInBatch
<1>7. CASE ProgressDone
  BY <1>7, QuietMatch DEF ProgressDone
<1>8. CASE \E r \in Requests : ProgressTransfer(r)
  BY <1>8, QuietMatch DEF ProgressTransfer
<1>9. CASE OpInProgress
  BY <1>9, QuietMatch DEF OpInProgress
<1>10. CASE OpsEnd
  BY <1>10, QuietMatch DEF OpsEnd
<1>11. CASE UcxError
  BY <1>11, QuietMatch DEF UcxError
<1>12. CASE Stopped \/ UNCHANGED vars
  BY <1>12, QuietMatch DEF Stopped
<1> QED
  BY <1>1, <1>2, <1>3, <1>4, <1>5, <1>6, <1>7, <1>8, <1>9, <1>10, <1>11, <1>12
-----------------------------------------------------------------------------
(* The run thread.                                                         *)
LEMMA SearchMatches ==
  ASSUME IInv, Matched, SearchHeld
  PROVE  Matched'
<1> USE DEF SearchHeld, listVars, appVars, runVars, workVars, ucxVars
<1> DEFINE r == Head(batch)
           c == req[r].env.channel
           i == message_search(c, req[r].filter)
<1>1. /\ r \in Requests /\ Pending(r) /\ r \in RecvRequests \cup ProbeRequests
      /\ req[r].msg = NoMsg => c \in Channels
  <2>1. r \in Requests /\ Pending(r) /\ r \in RecvRequests \cup ProbeRequests
    BY HeadPending DEF IInv, BatchWhileWalking, Walking
  <2>2. c \in Channels \cup {Unset}
    BY <2>1, EnvelopesAreStored DEF IInv, TypeOK, RequestRecords
  <2> QED
    BY <2>1, <2>2
<1>2. req[r].msg = NoMsg =>
      /\ i # 0 => /\ recvList[c][i] \in Slots /\ Contains(recvList[c], recvList[c][i])
                  /\ Matches(slot[c][recvList[c][i]], req[r].filter)
      /\ i = 0 => \A k \in DOMAIN recvList[c] : ~Matches(slot[c][recvList[c][k]], req[r].filter)
  <2>1. PICK f : f = req[r].filter
    OBVIOUS
  <2>2. PICK b : b = c
    OBVIOUS
  <2>3. i = message_search(b, f)
    BY <2>1, <2>2
  <2> HIDE DEF i, c, SearchHeld
  <2> QED
    BY <1>1, <2>1, <2>2, <2>3, SearchFinds
<1>3. /\ rpc' = "claim" => req[r].msg = NoMsg /\ i # 0 /\ found' = recvList[c][i]
      /\ rpc' = "post" => (req[r].msg = NoMsg => i = 0)
      /\ rpc' \in {"claim", "post"}
      /\ UNCHANGED <<free, req, call, recvList, slot, unexpected, expected, ops, batch>>
  OBVIOUS
<1> HIDE DEF i, SearchHeld
<1>4. \A x \in Requests : /\ IsFree(x)' <=> IsFree(x)
                          /\ Looking(x)' <=> Looking(x)
  BY <1>3 DEF IsFree, Pending, Looking
<1>5. RequestsOK'
  BY <1>3, <1>4, SameRequest DEF Matched, RequestsOK
<1>6. CallsFresh' /\ ExpectedPosted'
  BY <1>3 DEF Matched, CallsFresh, ExpectedPosted
<1>7. FoundMatches'
  BY <1>2, <1>3 DEF FoundMatches
<1>8. Exclusive => KeepClear'
  BY <1>2, <1>3, <1>4 DEF Matched, KeepClear, NoListAssertion, ProbeMatches, InCall, Removing, Requests
<1>9. OneWarmChannel => Searched'
  <2>1. \A m : Listed(m)' <=> Listed(m)
    BY <1>3 DEF Listed
  <2>2. ASSUME OneWarmChannel, req[r].msg = NoMsg, i = 0, NEW m, Listed(m)
        PROVE  ~Matches(m, req[r].filter)
    BY <1>1, <1>2, <2>2 DEF Listed, OneWarmChannel
  <2> QED
    BY <1>3, <2>1, <2>2 DEF Matched, Searched, NotStranded
<1> QED
  BY <1>5, <1>6, <1>7, <1>8, <1>9 DEF Matched

(* With a pool warmed on the channel, no request makes the other search.   *)
LEMMA WildMatches ==
  ASSUME IInv, Warm, Matched, SearchWild
  PROVE  Matched'
<1> USE DEF SearchWild, listVars, appVars, runVars, workVars, ucxVars
<1>1. Head(batch) \in Requests
  BY HeadPending DEF IInv, BatchWhileWalking, Walking
<1>2. /\ ~OneWarmChannel /\ rpc' \in {"post", "wild"}
      /\ UNCHANGED <<free, req, call, recvList, slot, unexpected, expected, ops, batch>>
  BY <1>1 DEF Warm
<1> HIDE DEF SearchWild
<1>3. \A x \in Requests : /\ IsFree(x)' <=> IsFree(x)
                          /\ Looking(x)' <=> Looking(x)
  BY <1>2 DEF IsFree, Pending, Looking
<1>4. RequestsOK'
  BY <1>2, <1>3, SameRequest DEF Matched, RequestsOK
<1>5. CallsFresh' /\ ExpectedPosted' /\ FoundMatches'
  BY <1>2 DEF Matched, CallsFresh, ExpectedPosted, FoundMatches
<1>6. Exclusive => KeepClear'
  BY <1>2, <1>3 DEF Matched, KeepClear, NoListAssertion, ProbeMatches, InCall, Removing, Requests
<1> QED
  BY <1>2, <1>4, <1>5, <1>6 DEF Matched

(* A message that UCX held is listed, in a node nobody looks at.           *)
LEMMA IncomingMatches ==
  ASSUME IInv, Matched, probe_incomming_messages_
  PROVE  Matched'
<1> USE DEF probe_incomming_messages_, listVars, appVars, runVars, workVars, ucxVars
<1>1. CASE unexpected = <<>>
  BY <1>1, QuietMatch
<1>2. CASE unexpected # <<>>
  <2> DEFINE m == Head(unexpected)
             c == m.channel
  <2>0. TypeOK /\ TypeOK'
    BY ProbeIncomingStep DEF IInv
  <2>1. /\ m \in Messages /\ c \in Channels
        /\ \A x : Contains(unexpected, x) <=> Contains(Tail(unexpected), x) \/ x = m
    BY <1>2, <2>0, TailContains, MessagesType DEF TypeOK
  <2>2. PICK s \in Slots : /\ ~Contains(recvList[c], s)
                           /\ recvList' = [recvList EXCEPT ![c] = Append(@, s)]
                           /\ slot' = [slot EXCEPT ![c][s] = m]
    <3>1. recvList[c] \in Seq(Slots)
      BY <2>0, <2>1 DEF TypeOK
    <3>2. \A x : x \notin ToSet(recvList[c]) <=> ~Contains(recvList[c], x)
      BY <3>1 DEF ToSet, Contains
    <3> QED
      BY <1>2, <3>2 DEF clh_list_new_node, clh_list_push_node
  <2>3. /\ unexpected' = Tail(unexpected) /\ rpc' = "send"
        /\ UNCHANGED <<free, req, call, expected, ops, batch>>
    BY <1>2
  <2> HIDE DEF m, c, probe_incomming_messages_
  <2>4. /\ \A d \in Channels, x \in Slots :
             Contains(recvList'[d], x) <=> Contains(recvList[d], x) \/ (d = c /\ x = s)
        /\ \A d \in Channels, x \in Slots :
             slot'[d][x] = IF d = c /\ x = s THEN m ELSE slot[d][x]
    <3>1. recvList[c] \in Seq(Slots)
      BY <2>0, <2>1 DEF TypeOK
    <3>2. \A y : Contains(Append(recvList[c], s), y) <=> Contains(recvList[c], y) \/ y = s
      BY <3>1, AppendContains
    <3> QED
      BY <2>0, <2>1, <2>2, <3>2 DEF TypeOK
  <2>5. \A x \in Requests : /\ IsFree(x)' <=> IsFree(x)
                            /\ Looking(x)' <=> Looking(x)
    BY <2>3 DEF IsFree, Pending, Looking
  <2>6. RequestsOK'
    BY <2>3, <2>5, SameRequest DEF Matched, RequestsOK
  <2>7. CallsFresh' /\ ExpectedPosted' /\ FoundMatches'
    BY <2>3 DEF Matched, CallsFresh, ExpectedPosted, FoundMatches
  <2>8. ASSUME Exclusive  PROVE KeepClear'
    <3>1. KeepClear
      BY <2>8 DEF Matched
    <3>2. \A t \in Threads : call[t] # NoCall => call[t].channel \in Channels /\ call[t].slot \in Slots
      BY InProbeCall
    <3> QED
      BY <2>2, <2>3, <2>4, <2>5, <3>1, <3>2
      DEF KeepClear, NoListAssertion, ProbeMatches, InCall, Removing, Requests
  <2>9. ASSUME OneWarmChannel  PROVE Searched'
    <3>1. Searched
      BY <2>9 DEF Matched
    <3>2. \A x : Listed(x)' => Listed(x) \/ x = m
      BY <2>0, <2>4, ListedNode, ListedNodeNext
    <3> QED
      BY <2>1, <2>3, <3>1, <3>2 DEF Searched, NotStranded
  <2> QED
    BY <2>6, <2>7, <2>8, <2>9 DEF Matched
<1> QED
  BY <1>1, <1>2

(* The message taken from the node found passes the receive's filter.      *)
LEMMA ClaimMatches ==
  ASSUME IInv, Matched, ClaimHeld
  PROVE  Matched'
<1> USE DEF ClaimHeld, listVars, appVars, runVars, workVars, ucxVars
<1> DEFINE h == Head(batch)
           d == req[h].env.channel
           w == slot[d][found]
<1>0. /\ TypeOK /\ TypeOK' /\ rpc = "claim" /\ FoundMatches
      /\ h \in Requests /\ h \in RecvRequests \cup ProbeRequests /\ Pending(h)
      /\ req[h] \in RequestRecords
  BY ClaimStep, HeadPending DEF IInv, BatchWhileWalking, Walking, Matched, TypeOK
<1>1. PICK r \in Requests, c \in Channels, m \in Messages : r = h /\ c = d /\ m = w
  <2>1. d \in Channels
    BY <1>0 DEF IInv, ListedHold
  <2>2. w \in Messages
    BY <1>0, <2>1 DEF IInv, ListedHold, TypeOK
  <2> QED
    BY <1>0, <2>1, <2>2
<1>2. /\ req[r].msg = NoMsg /\ Matches(m, req[r].filter) /\ Pending(r)
      /\ r \in RecvRequests \cup ProbeRequests /\ req[r] \in RequestRecords
  BY <1>0, <1>1 DEF FoundMatches
<1>3. /\ req' = [req EXCEPT ![r] = [@ EXCEPT !.msg = m, !.env = Envelope(m)]]
      /\ \/ Contains(recvList[c], found) /\ rpc' = "post"
            /\ recvList' = [recvList EXCEPT ![c] = RemoveFirst(@, found)]
         \/ ~Contains(recvList[c], found) /\ rpc' = "list_assert" /\ recvList' = recvList
      /\ UNCHANGED <<free, call, slot, ops, batch, found, unexpected, expected>>
  BY <1>1 DEF clh_list_remove_node
<1>4. /\ req'[r] = [req[r] EXCEPT !.msg = m, !.env = Envelope(m)]
      /\ \A x \in Requests : x # r => req'[x] = req[x]
  BY <1>0, <1>3 DEF TypeOK
<1> HIDE DEF ClaimHeld, h, d, w
<1>5. /\ req'[r].msg = m /\ req'[r].env = Envelope(m)
      /\ req'[r].completed = req[r].completed /\ req'[r].filter = req[r].filter
      /\ req'[r].rx = req[r].rx /\ req'[r].result = req[r].result /\ req'[r].seen = req[r].seen
      /\ req'[r].remove = req[r].remove /\ req'[r].type = req[r].type
  BY <1>2, <1>4 DEF RequestRecords
<1>6. \A x \in Requests : /\ IsFree(x)' <=> IsFree(x)
                          /\ Pending(x)' <=> Pending(x)
                          /\ Looking(x)' <=> Looking(x)
  BY <1>3, <1>4, <1>5 DEF IsFree, Pending, Looking
<1>7. RequestsOK'
  <2>1. RequestOK(r)
    BY DEF Matched, RequestsOK
  <2>2. ~req[r].completed /\ ~req[r].result /\ m # NoMsg
    BY <1>2, MessagesType DEF Pending, IInv, ResultsCompleted
  <2>3. r \in ProbeRequests /\ Exclusive => req[r].filter = Exactly(Envelope(m))
    <3>1. req[r].env \in Stored
      BY <1>2 DEF RequestRecords
    <3>2. r \in ProbeRequests /\ Exclusive => req[r].filter = Exactly(req[r].env)
      BY <1>2, <2>1 DEF RequestOK, Steady
    <3> QED
      BY <1>2, <3>1, <3>2, PassesExactly
  <2>4. RequestOK(r)'
    BY <1>2, <1>5, <1>6, <2>1, <2>2, <2>3, PoolsDisjoint DEF RequestOK, Steady
  <2> QED
    BY <1>4, <1>6, <2>4, SameRequest DEF Matched, RequestsOK
<1>8. CallsFresh'
  <2>1. \A t \in Threads : call[t] # NoCall => call[t].req \in Requests
    BY InProbeCall
  <2> QED
    BY <1>3, <1>4, <1>5, <2>1 DEF Matched, CallsFresh
<1>9. ExpectedPosted' /\ FoundMatches'
  BY <1>3 DEF Matched, ExpectedPosted, FoundMatches
<1>10. ASSUME Exclusive  PROVE KeepClear'
  <2>1. KeepClear
    BY <1>10 DEF Matched
  <2>2. Looking(r)
    BY <1>2, <1>10, PoolsDisjoint DEF Looking, IInv, Homes, Matched, RequestsOK, RequestOK, Steady
  <2>3. \A t \in Threads : call[t] = NoCall /\ call'[t] = NoCall
    BY <1>3, <2>1, <2>2 DEF KeepClear
  <2>4. rpc' = "post"
    BY <1>0, <1>1, <1>3, <2>1 DEF KeepClear, d, h
  <2>5. ProbeMatches'
    <3>1. ~req[r].result
      BY <1>2 DEF Pending, IInv, ResultsCompleted
    <3> QED
      BY <1>3, <1>4, <1>5, <1>6, <2>1, <3>1, AnswersKept DEF KeepClear, InCall
  <2> QED
    BY <2>3, <2>4, <2>5 DEF KeepClear, NoListAssertion, Removing
<1>11. ASSUME OneWarmChannel  PROVE Searched'
  <2>1. NotStranded
    BY <1>11 DEF Matched, Searched
  <2>2. \A x : Listed(x)' => Listed(x)
    <3>1. \A b \in Channels, s \in Slots : Contains(recvList'[b], s) => Contains(recvList[b], s)
      <4>1. recvList[c] \in Seq(Slots)
        BY <1>0 DEF TypeOK
      <4>2. \A y : Contains(RemoveFirst(recvList[c], found), y) => Contains(recvList[c], y)
        BY <4>1, RemoveFirstContains
      <4>3. \/ recvList' = recvList
            \/ \A b \in Channels : recvList'[b] = IF b = c THEN RemoveFirst(recvList[c], found)
                                                            ELSE recvList[b]
        BY <1>0, <1>3 DEF TypeOK
      <4> QED
        BY <4>2, <4>3
    <3> QED
      BY <1>0, <1>3, <3>1, ListedNode, ListedNodeNext
  <2>3. \A x \in Requests : req'[x].filter = req[x].filter
    BY <1>4, <1>5
  <2>4. NotStranded'
    BY <1>3, <2>1, <2>2, <2>3 DEF NotStranded
  <2>5. Head(batch') = r /\ req'[r].msg # NoMsg
    BY <1>1, <1>3, <1>5, MessagesType DEF h
  <2> QED
    BY <2>4, <2>5 DEF Searched
<1> QED
  BY <1>7, <1>8, <1>9, <1>10, <1>11 DEF Matched

(* UCX gives a receive the message it brings, or a held one that passes;   *)
(* on the only channel, one that waits may take nothing that is listed.    *)
LEMMA PostMatches ==
  ASSUME IInv, Matched, PostRecv
  PROVE  Matched'
<1> USE DEF PostRecv, listVars, appVars, runVars, workVars, ucxVars
<1> DEFINE h == Head(batch)
           I == {k \in 1 .. Len(unexpected) : Matches(unexpected[k], req[h].filter)}
           j == SelectInSeq(unexpected, LAMBDA m : Matches(m, req[h].filter))
<1>0. /\ TypeOK /\ TypeOK' /\ rpc = "post" /\ unexpected \in Seq(Messages)
      /\ h \in Requests /\ h \in RecvRequests \cup ProbeRequests /\ Pending(h)
      /\ req[h] \in RequestRecords /\ batch # <<>>
  BY PostStep, HeadPending DEF IInv, BatchWhileWalking, Walking, TypeOK
<1>1. j = IF I # {} THEN Min(I) ELSE 0
  BY DEF SelectInSeq
<1>2. /\ ops' = Append(ops, h) /\ rpc' = "next"
      /\ req' = [req EXCEPT ![h] = [@ EXCEPT !.rx = IF req[h].msg # NoMsg THEN req[h].msg
                                          ELSE IF j # 0 THEN unexpected[j] ELSE NoMsg]]
      /\ expected' = IF req[h].msg # NoMsg \/ j # 0 THEN expected ELSE Append(expected, h)
      /\ unexpected' = IF req[h].msg = NoMsg /\ j # 0 THEN RemoveAt(unexpected, j) ELSE unexpected
      /\ UNCHANGED <<free, call, recvList, slot, batch>>
  OBVIOUS
<1> HIDE DEF PostRecv, j
<1>3. PICK i : i = j
  OBVIOUS
<1>4. PICK r \in Requests : r = h
  BY <1>0
<1>5. /\ i # 0 => i \in 1 .. Len(unexpected) /\ Matches(unexpected[i], req[r].filter)
      /\ i = 0 => \A k \in 1 .. Len(unexpected) : ~Matches(unexpected[k], req[r].filter)
  <2>1. I \in SUBSET (1 .. Len(unexpected)) /\ Len(unexpected) \in Nat
    BY <1>0
  <2>2. (i # 0 => i \in I) /\ (i = 0 => I = {})
    <3> HIDE DEF I
    <3> QED
      BY <1>1, <1>3, <2>1, LeastOf
  <2> QED
    BY <1>4, <2>2
<1> DEFINE rx == IF req[r].msg # NoMsg THEN req[r].msg ELSE IF i # 0 THEN unexpected[i] ELSE NoMsg
<1>6. /\ req'[r] = [req[r] EXCEPT !.rx = rx]
      /\ \A x \in Requests : x # r => req'[x] = req[x]
  BY <1>0, <1>2, <1>3, <1>4 DEF TypeOK
<1>7. RequestOK(r) /\ ~req[r].completed /\ ~req[r].result /\ Pending(r) /\ req[r] \in RequestRecords
      /\ r \notin SendRequests
  BY <1>0, <1>4, PoolsDisjoint DEF Matched, RequestsOK, Pending, IInv, ResultsCompleted
<1>8. Steady(r) => (rx # NoMsg => Matches(rx, req[r].filter))
  BY <1>5, <1>7 DEF RequestOK
<1> HIDE DEF h, I, rx
<1>9. /\ req'[r].msg = req[r].msg /\ req'[r].env = req[r].env
      /\ req'[r].completed = req[r].completed /\ req'[r].filter = req[r].filter
      /\ req'[r].rx = rx /\ req'[r].result = req[r].result /\ req'[r].seen = req[r].seen
      /\ req'[r].remove = req[r].remove /\ req'[r].type = req[r].type
  BY <1>6, <1>7 DEF RequestRecords
<1>10. \A x \in Requests : /\ IsFree(x)' <=> IsFree(x)
                           /\ Pending(x)' <=> Pending(x)
                           /\ Looking(x)' <=> Looking(x)
  BY <1>2, <1>6, <1>9 DEF IsFree, Pending, Looking
<1>11. RequestsOK'
  <2>1. RequestOK(r)'
    BY <1>7, <1>8, <1>9, <1>10 DEF RequestOK, Steady
  <2> QED
    BY <1>6, <1>10, <2>1, SameRequest DEF Matched, RequestsOK
<1>12. \A t \in Threads : call[t] # NoCall => call[t].req \in Requests /\ call[t].req # r
  BY <1>7, InProbeCall
<1>13. CallsFresh'
  <2>1. \A t \in Threads : call[t] # NoCall => req'[call[t].req] = req[call[t].req]
    BY <1>6, <1>12
  <2> QED
    BY <1>2, <2>1 DEF Matched, CallsFresh
<1>14. /\ \A x : Contains(ops', x) <=> Contains(ops, x) \/ x = r
       /\ \A x : Contains(expected', x) => Contains(expected, x)
                                          \/ (x = r /\ req[r].msg = NoMsg /\ i = 0)
  <2>1. ops \in Seq(Requests) /\ expected \in Seq(RecvRequests \cup ProbeRequests)
    BY <1>0 DEF TypeOK
  <2>2. r \in RecvRequests \cup ProbeRequests
    BY <1>0, <1>4
  <2>3. /\ \A x : Contains(Append(ops, r), x) <=> Contains(ops, x) \/ x = r
        /\ \A x : Contains(Append(expected, r), x) <=> Contains(expected, x) \/ x = r
    BY <2>1, <2>2, AppendContains
  <2> QED
    BY <1>2, <1>3, <1>4, <2>3
<1>15. ExpectedPosted' /\ FoundMatches'
  BY <1>2, <1>14 DEF Matched, ExpectedPosted, FoundMatches
<1>16. ASSUME Exclusive  PROVE KeepClear'
  <2>1. KeepClear
    BY <1>16 DEF Matched
  <2>2. ProbeMatches'
    BY <1>2, <1>6, <1>7, <1>9, <1>10, <2>1, AnswersKept DEF KeepClear, InCall
  <2> QED
    BY <1>2, <1>6, <1>10, <1>12, <2>1, <2>2 DEF KeepClear, NoListAssertion, Removing
<1>17. ASSUME OneWarmChannel  PROVE Searched'
  <2>1. Searched
    BY <1>17 DEF Matched
  <2>2. \A m : Listed(m)' <=> Listed(m)
    BY <1>2 DEF Listed
  <2>3. \A m : Contains(unexpected', m) => Contains(unexpected, m)
    BY <1>0, <1>2, <1>3, <1>5, RemoveAtContains
  <2>4. \A x \in Requests : req'[x].filter = req[x].filter
    BY <1>6, <1>9
  <2>5. ASSUME req[r].msg = NoMsg, i = 0, NEW m \in Messages, Contains(unexpected, m) \/ Listed(m)
        PROVE  ~Matches(m, req[r].filter)
    <3>1. CASE Contains(unexpected, m)
      BY <1>5, <2>5, <3>1 DEF Contains
    <3>2. CASE Listed(m)
      BY <1>0, <1>4, <2>1, <2>5, <3>2 DEF Searched, h
    <3> QED
      BY <2>5, <3>1, <3>2
  <2>6. NotStranded'
    BY <1>14, <2>1, <2>2, <2>3, <2>4, <2>5 DEF Searched, NotStranded
  <2> QED
    BY <1>2, <2>6 DEF Searched
<1> QED
  BY <1>11, <1>13, <1>15, <1>16, <1>17 DEF Matched

(* What arrives goes to a posted receive it passes, or is held because it  *)
(* passes none.                                                            *)
LEMMA ArrivalMatches ==
  ASSUME IInv, Matched, NEW m \in Messages, ProgressArrival(m)
  PROVE  Matched'
<1> USE DEF ProgressArrival, listVars, appVars, runVars, workVars, ucxVars
<1> DEFINE I == {k \in 1 .. Len(expected) : Matches(m, req[expected[k]].filter)}
           j == SelectInSeq(expected, LAMBDA r : Matches(m, req[r].filter))
<1>0. /\ TypeOK /\ TypeOK' /\ rpc = "progress" /\ rpc' = rpc
      /\ unexpected \in Seq(Messages) /\ expected \in Seq(RecvRequests \cup ProbeRequests)
      /\ UNCHANGED <<free, call, recvList, slot, batch, found, ops>>
  BY ArrivalStep DEF IInv, TypeOK
<1>1. j = IF I # {} THEN Min(I) ELSE 0
  BY DEF SelectInSeq
<1>2. \/ /\ j = 0 /\ unexpected' = Append(unexpected, m)
         /\ UNCHANGED <<expected, req>>
      \/ /\ j # 0 /\ expected' = RemoveAt(expected, j)
         /\ req' = [req EXCEPT ![expected[j]] = [@ EXCEPT !.rx = m]]
         /\ UNCHANGED unexpected
  OBVIOUS
<1> HIDE DEF ProgressArrival, j
<1>3. /\ j # 0 => j \in 1 .. Len(expected) /\ Matches(m, req[expected[j]].filter)
      /\ j = 0 => \A k \in 1 .. Len(expected) : ~Matches(m, req[expected[k]].filter)
  <2>1. I \in SUBSET (1 .. Len(expected)) /\ Len(expected) \in Nat
    BY <1>0
  <2>2. (j # 0 => j \in I) /\ (j = 0 => I = {})
    <3> HIDE DEF I
    <3> QED
      BY <1>1, <2>1, LeastOf
  <2> QED
    BY <2>2
<1> HIDE DEF I
<1>4. \A m2 : Listed(m2)' <=> Listed(m2)
  BY <1>0 DEF Listed
<1>5. CASE j = 0
  <2>1. /\ unexpected' = Append(unexpected, m) /\ UNCHANGED <<expected, req>>
    BY <1>2, <1>5
  <2>2. \A x : Contains(Append(unexpected, m), x) <=> Contains(unexpected, x) \/ x = m
    BY <1>0, AppendContains
  <2>3. \A x \in Requests : /\ IsFree(x)' <=> IsFree(x)
                            /\ Looking(x)' <=> Looking(x)
    BY <1>0, <2>1 DEF IsFree, Pending, Looking
  <2>4. RequestsOK'
    BY <2>1, <2>3, SameRequest DEF Matched, RequestsOK
  <2>5. CallsFresh' /\ ExpectedPosted' /\ FoundMatches'
    BY <1>0, <2>1 DEF Matched, CallsFresh, ExpectedPosted, FoundMatches
  <2>6. Exclusive => KeepClear'
    BY <1>0, <2>1, <2>3 DEF Matched, KeepClear, NoListAssertion, ProbeMatches, InCall, Removing, Requests
  <2>7. ASSUME OneWarmChannel  PROVE Searched'
    <3>1. \A x : Contains(expected, x) => ~Matches(m, req[x].filter)
      BY <1>0, <1>3, <1>5 DEF Contains
    <3> QED
      BY <1>0, <1>4, <2>1, <2>2, <2>7, <3>1 DEF Matched, Searched, NotStranded
  <2> QED
    BY <2>4, <2>5, <2>6, <2>7 DEF Matched
<1>6. CASE j # 0
  <2>1. PICK r \in Requests : r = expected[j] /\ r \in RecvRequests \cup ProbeRequests
    BY <1>0, <1>3, <1>6 DEF Requests
  <2>2. /\ expected' = RemoveAt(expected, j) /\ UNCHANGED unexpected
        /\ req' = [req EXCEPT ![r] = [@ EXCEPT !.rx = m]]
    BY <1>2, <1>6, <2>1
  <2>3. \A x : Contains(expected', x) => Contains(expected, x)
    BY <1>0, <1>3, <1>6, <2>2, RemoveAtContains
  <2>4. /\ Matches(m, req[r].filter) /\ Contains(ops, r) /\ Pending(r) /\ RequestOK(r)
        /\ req[r] \in RequestRecords /\ r \notin SendRequests /\ ~req[r].completed /\ ~req[r].result
    <3>1. Matches(m, req[r].filter) /\ Contains(expected, r)
      BY <1>0, <1>3, <1>6, <2>1 DEF Contains
    <3>2. Contains(ops, r) /\ Pending(r)
      BY <3>1 DEF Matched, ExpectedPosted, IInv, PendingIsTracked, ToReceive
    <3>3. ~req[r].completed /\ ~req[r].result
      BY <3>2 DEF Pending, IInv, ResultsCompleted
    <3>4. RequestOK(r) /\ req[r] \in RequestRecords /\ r \notin SendRequests
      BY <1>0, <2>1, PoolsDisjoint DEF Matched, RequestsOK, TypeOK
    <3> QED
      BY <3>1, <3>2, <3>3, <3>4
  <2>5. /\ req'[r] = [req[r] EXCEPT !.rx = m]
        /\ \A x \in Requests : x # r => req'[x] = req[x]
    BY <1>0, <2>2 DEF TypeOK
  <2>6. /\ req'[r].msg = req[r].msg /\ req'[r].env = req[r].env
        /\ req'[r].completed = req[r].completed /\ req'[r].filter = req[r].filter
        /\ req'[r].rx = m /\ req'[r].result = req[r].result /\ req'[r].seen = req[r].seen
        /\ req'[r].remove = req[r].remove /\ req'[r].type = req[r].type
    BY <2>4, <2>5 DEF RequestRecords
  <2>7. \A x \in Requests : /\ IsFree(x)' <=> IsFree(x)
                            /\ Pending(x)' <=> Pending(x)
                            /\ Looking(x)' <=> Looking(x)
    BY <1>0, <2>5, <2>6 DEF IsFree, Pending, Looking
  <2>8. RequestsOK'
    <3>1. RequestOK(r)'
      BY <2>4, <2>6, <2>7 DEF RequestOK, Steady
    <3> QED
      BY <2>5, <2>7, <3>1, SameRequest DEF Matched, RequestsOK
  <2>9. \A t \in Threads : call[t] # NoCall =>
          call[t].req # r /\ call[t].req \in Requests /\ req'[call[t].req] = req[call[t].req]
    BY <2>4, <2>5, InProbeCall
  <2>10. CallsFresh' /\ ExpectedPosted'
    BY <1>0, <2>3, <2>9 DEF Matched, CallsFresh, ExpectedPosted
  <2>11. FoundMatches'
    BY <1>0 DEF FoundMatches
  <2>12. ASSUME Exclusive  PROVE KeepClear'
    <3>1. KeepClear
      BY <2>12 DEF Matched
    <3>2. ProbeMatches'
      BY <1>0, <2>4, <2>5, <2>6, <2>7, <3>1, AnswersKept DEF KeepClear, InCall
    <3> QED
      BY <1>0, <2>7, <2>9, <3>1, <3>2 DEF KeepClear, NoListAssertion, Removing
  <2>13. ASSUME OneWarmChannel  PROVE Searched'
    <3>1. \A x \in Requests : req'[x].filter = req[x].filter
      BY <2>5, <2>6
    <3> QED
      BY <1>0, <1>4, <2>2, <2>3, <2>13, <3>1 DEF Matched, Searched, NotStranded
  <2> QED
    BY <2>8, <2>10, <2>11, <2>12, <2>13 DEF Matched
<1> QED
  BY <1>5, <1>6

(* A receive that ends is told the envelope of its message.                *)
LEMMA OpDoneMatches ==
  ASSUME IInv, Matched, OpDone
  PROVE  Matched'
<1> USE DEF OpDone, listVars, appVars, runVars, workVars, ucxVars
<1>0. /\ TypeOK /\ rpc = "ops" /\ rpc' = rpc
      /\ ops \in Seq(Requests) /\ IsInjective(ops) /\ idx \in 1 .. Len(ops)
      /\ UNCHANGED <<free, call, recvList, slot, batch, found, expected, unexpected>>
  BY DEF IInv, TypeOK, OpsOnce
<1>1. PICK r \in Requests : r = ops[idx]
  BY <1>0
<1>2. /\ ops' = array_remove(ops, idx)
      /\ req' = [req EXCEPT ![r] = [@ EXCEPT !.completed = TRUE, !.env = Sender(r)]]
      /\ ~Contains(expected, r)
  BY <1>1 DEF Outstanding
<1> HIDE DEF OpDone
<1>3. \A x : Contains(ops', x) <=> Contains(ops, x) /\ x # r
  BY <1>0, <1>1, <1>2, ArrayRemoveContains
<1>4. /\ Pending(r) /\ RequestOK(r) /\ req[r] \in RequestRecords
      /\ ~req[r].completed /\ ~req[r].result /\ req[r].type \in Types /\ r \in Pool[req[r].type]
      /\ r \in RecvRequests => req[r].rx # NoMsg
  <2>1. Contains(ops, r)
    BY <1>0, <1>1 DEF Contains
  <2>2. Pending(r)
    BY <2>1 DEF IInv, PendingIsTracked, ToReceive
  <2>3. req[r] \in RequestRecords
    BY <1>0 DEF TypeOK
  <2>4. req[r].type \in Types /\ r \in Pool[req[r].type]
    BY <2>3 DEF IInv, Homes, RequestRecords
  <2> QED
    BY <1>2, <2>1, <2>2, <2>3, <2>4
    DEF Matched, RequestsOK, Pending, IInv, ResultsCompleted, ReceivesHaveMessage
<1>5. Sender(r) = IF r \in RecvRequests THEN Envelope(req[r].rx) ELSE req[r].env
  BY <1>4, PoolsDisjoint DEF Sender
<1>6. /\ req'[r] = [req[r] EXCEPT !.completed = TRUE, !.env = Sender(r)]
      /\ \A x \in Requests : x # r => req'[x] = req[x]
  BY <1>0, <1>2 DEF TypeOK
<1>7. /\ req'[r].msg = req[r].msg /\ req'[r].env = Sender(r)
      /\ req'[r].completed /\ req'[r].filter = req[r].filter
      /\ req'[r].rx = req[r].rx /\ req'[r].result = req[r].result /\ req'[r].seen = req[r].seen
      /\ req'[r].remove = req[r].remove /\ req'[r].type = req[r].type
  BY <1>4, <1>6 DEF RequestRecords
<1>8. \A x \in Requests : /\ IsFree(x)' <=> IsFree(x)
                          /\ Pending(x)' => Pending(x)
                          /\ Looking(x)' => Looking(x)
  BY <1>0, <1>6, <1>7 DEF IsFree, Pending, Looking
<1>9. RequestsOK'
  <2>1. RequestOK(r)'
    BY <1>4, <1>5, <1>7, <1>8, PoolsDisjoint DEF RequestOK, Steady
  <2> QED
    BY <1>6, <1>8, <2>1, SameRequest DEF Matched, RequestsOK
<1>10. \A t \in Threads : call[t] # NoCall =>
          call[t].req # r /\ call[t].req \in Requests /\ req'[call[t].req] = req[call[t].req]
  BY <1>4, <1>6, InProbeCall
<1>11. CallsFresh'
  BY <1>0, <1>10 DEF Matched, CallsFresh
<1>12. ExpectedPosted' /\ FoundMatches'
  BY <1>0, <1>2, <1>3 DEF Matched, ExpectedPosted, FoundMatches
<1>13. ASSUME Exclusive  PROVE KeepClear'
  <2>1. KeepClear
    BY <1>13 DEF Matched
  <2>2. ProbeMatches'
    <3>1. ProbeMatches /\ (r \in ProbeRequests => ~req'[r].result)
      BY <1>4, <1>7, <2>1 DEF KeepClear
    <3>2. \A x \in Requests : x # r => req'[x] = req[x] /\ (IsFree(x)' <=> IsFree(x))
      BY <1>6, <1>8
    <3>3. \A x \in Requests : InCall(x) => InCall(x)'
      BY <1>0 DEF InCall
    <3> HIDE DEF Matched, IInv, ProbeMatches
    <3> QED
      BY <3>1, <3>2, <3>3, AnswersKept
  <2> QED
    BY <1>0, <1>8, <1>10, <2>1, <2>2 DEF KeepClear, NoListAssertion, Removing
<1>14. ASSUME OneWarmChannel  PROVE Searched'
  <2>1. \A x \in Requests : req'[x].filter = req[x].filter
    BY <1>6, <1>7
  <2>2. \A m : Listed(m)' <=> Listed(m)
    BY <1>0 DEF Listed
  <2> QED
    BY <1>0, <1>14, <2>1, <2>2 DEF Matched, Searched, NotStranded
<1> QED
  BY <1>9, <1>11, <1>12, <1>13, <1>14 DEF Matched
-----------------------------------------------------------------------------
(* The application's calls.  Each changes one request, which the run thread*)
(* does not have.                                                          *)
LEMMA CallMatches ==
  ASSUME IInv, Matched, NEW r \in Requests, ~Pending(r), RequestOK(r)', CallsFresh',
         Exclusive => KeepClear',
         \A x \in Requests : x # r => req'[x] = req[x] /\ (IsFree(x)' <=> IsFree(x)),
         UNCHANGED <<rpc, recvList, slot, batch, found, ops, unexpected, expected>>
  PROVE  Matched'
<1>1. RequestsOK'
  BY SameRequest DEF Matched, RequestsOK
<1>2. ExpectedPosted'
  BY DEF Matched, ExpectedPosted
<1>3. rpc \in {"claim", "post"} => Head(batch) \in Requests /\ Head(batch) # r
  BY HeadPending DEF IInv, BatchWhileWalking, Walking
<1>4. FoundMatches'
  BY <1>3 DEF Matched, FoundMatches
<1>5. ASSUME OneWarmChannel  PROVE Searched'
  <2>1. Searched
    BY <1>5 DEF Matched
  <2>2. \A m : Listed(m)' <=> Listed(m)
    BY DEF Listed
  <2>3. ~Contains(expected, r)
    BY DEF Matched, ExpectedPosted, IInv, PendingIsTracked, ToReceive
  <2> QED
    BY <1>3, <2>1, <2>2, <2>3 DEF Searched, NotStranded
<1> QED
  BY <1>1, <1>2, <1>4, <1>5 DEF Matched

(* What keeps the discipline, when no thread is in clh_probe_.             *)
LEMMA ClearWithoutCalls ==
  ASSUME \A t \in Threads : call'[t] = NoCall, rpc' # "list_assert", ProbeMatches',
         rpc' = "claim" => Contains(recvList'[req'[Head(batch')].env.channel], found')
  PROVE  KeepClear'
BY DEF KeepClear, NoListAssertion, Removing

(* A send fills in no filter.                                              *)
LEMMA SendMatches ==
  ASSUME IInv, Matched, NEW r \in SendRequests, NEW c \in Channels, NEW tag \in Tags,
         clh_send(r, c, tag)
  PROVE  Matched'
<1> USE DEF clh_send, listVars, appVars, runVars, workVars, ucxVars
<1>0. TypeOK /\ r \in Requests /\ req[r] \in RequestRecords /\ RequestOK(r)
  BY DEF IInv, TypeOK, Requests, Matched, RequestsOK
<1>1. /\ IsFree(r) /\ \A t \in Threads : call[t] # NoCall => call[t].req # r
      /\ \A x \in Requests : IsFree(x)' <=> IsFree(x) /\ x # r
  BY TakeNode
<1>2. /\ req'[r] = [req[r] EXCEPT !.type = "SEND", !.completed = FALSE,
                        !.env = [channel |-> c, source |-> NodeId, tag |-> tag]]
      /\ \A x \in Requests : x # r => req'[x] = req[x]
  BY <1>0 DEF TypeOK
<1>3. UNCHANGED <<rpc, call, recvList, slot, batch, found, ops, unexpected, expected>>
  OBVIOUS
<1> HIDE DEF clh_send
<1>4. /\ req'[r].msg = req[r].msg /\ req'[r].filter = req[r].filter
      /\ req'[r].rx = req[r].rx /\ req'[r].result = req[r].result
      /\ req'[r].remove = req[r].remove /\ req'[r].type = "SEND"
  BY <1>0, <1>2 DEF RequestRecords
<1>5. r \notin RecvRequests /\ r \notin ProbeRequests /\ ~req[r].result /\ ~Pending(r)
  BY <1>0, <1>1, PoolsDisjoint DEF IInv, ResultsCompleted, Pending
<1>6. RequestOK(r)'
  BY <1>0, <1>4, <1>5 DEF RequestOK
<1>7. \A t \in Threads : call[t] # NoCall =>
        call[t].req \in Requests /\ req'[call[t].req] = req[call[t].req]
  BY <1>1, <1>2, InProbeCall
<1>8. CallsFresh'
  BY <1>3, <1>7 DEF Matched, CallsFresh
<1>9. ASSUME Exclusive  PROVE KeepClear'
  <2>1. KeepClear
    BY <1>9 DEF Matched
  <2>2. \A x \in Requests : Looking(x)' => Looking(x)
    BY <1>1, <1>2, <1>4 DEF Looking, Pending
  <2>3. ProbeMatches'
    BY <1>1, <1>2, <1>3, <1>5, <2>1, AnswersKept DEF KeepClear, InCall
  <2>4. rpc = "claim" => Head(batch) \in Requests /\ req'[Head(batch)] = req[Head(batch)]
    BY <1>2, <1>5, HeadPending DEF IInv, BatchWhileWalking, Walking
  <2> QED
    BY <1>3, <1>7, <2>1, <2>2, <2>3, <2>4 DEF KeepClear, NoListAssertion, Removing
<1> QED
  BY <1>0, <1>1, <1>2, <1>3, <1>5, <1>6, <1>8, <1>9, CallMatches

(* A receive starts without a message; the discipline keeps it away from a *)
(* probe under way.                                                        *)
LEMMA RecvMatches ==
  ASSUME IInv, Matched, NEW r \in RecvRequests, NEW f \in Filters, rpc \notin Dead, clh_recv_(r, f)
  PROVE  Matched'
<1> USE DEF clh_recv_, listVars, appVars, runVars, workVars, ucxVars
<1>0. TypeOK /\ r \in Requests /\ req[r] \in RequestRecords /\ RequestOK(r)
  BY DEF IInv, TypeOK, Requests, Matched, RequestsOK
<1>1. /\ IsFree(r) /\ \A t \in Threads : call[t] # NoCall => call[t].req # r
      /\ \A x \in Requests : IsFree(x)' <=> IsFree(x) /\ x # r
  BY TakeNode
<1>2. /\ req'[r] = [req[r] EXCEPT !.type = "RECV", !.completed = FALSE,
                                  !.filter = f, !.msg = NoMsg, !.rx = NoMsg]
      /\ \A x \in Requests : x # r => req'[x] = req[x]
  BY <1>0 DEF TypeOK
<1>3. /\ UNCHANGED <<rpc, call, recvList, slot, batch, found, ops, unexpected, expected>>
      /\ Exclusive => \A t \in Threads : call[t] = NoCall
  BY DEF MayLook
<1> HIDE DEF clh_recv_
<1>4. /\ req'[r].msg = NoMsg /\ req'[r].rx = NoMsg /\ ~req'[r].completed
      /\ req'[r].result = req[r].result /\ req'[r].remove = req[r].remove
  BY <1>0, <1>2 DEF RequestRecords
<1>5. r \notin SendRequests /\ r \notin ProbeRequests /\ ~req[r].result /\ ~Pending(r)
  BY <1>0, <1>1, PoolsDisjoint DEF IInv, ResultsCompleted, Pending
<1>6. RequestOK(r)'
  BY <1>0, <1>4, <1>5 DEF RequestOK
<1>7. \A t \in Threads : call[t] # NoCall =>
        call[t].req \in Requests /\ req'[call[t].req] = req[call[t].req]
  BY <1>1, <1>2, InProbeCall
<1>8. CallsFresh'
  BY <1>3, <1>7 DEF Matched, CallsFresh
<1>9. ASSUME Exclusive  PROVE KeepClear'
  <2>1. KeepClear
    BY <1>9 DEF Matched
  <2>2. ProbeMatches'
    BY <1>1, <1>2, <1>3, <1>5, <2>1, AnswersKept DEF KeepClear, InCall
  <2>3. rpc = "claim" => Head(batch) \in Requests /\ req'[Head(batch)] = req[Head(batch)]
    BY <1>2, <1>5, HeadPending DEF IInv, BatchWhileWalking, Walking
  <2> QED
    BY <1>3, <1>9, <2>1, <2>2, <2>3, ClearWithoutCalls DEF KeepClear, NoListAssertion
<1> QED
  BY <1>0, <1>1, <1>2, <1>3, <1>5, <1>6, <1>8, <1>9, CallMatches

(* A probe that found something found a listed node that passes.           *)
LEMMA ProbeMatchesStart ==
  ASSUME IInv, Matched, NEW t \in Threads, NEW r \in ProbeRequests, NEW f \in Filters,
         NEW remove \in BOOLEAN, clh_probe_(t, r, f, remove)
  PROVE  Matched'
<1> USE DEF clh_probe_, listVars, appVars, runVars, workVars, ucxVars
<1>0. TypeOK /\ r \in Requests /\ req[r] \in RequestRecords /\ RequestOK(r) /\ f.channel \in Channels
  BY DEF IInv, TypeOK, Requests, Matched, RequestsOK, Filters
<1>1. /\ IsFree(r) /\ \A u \in Threads : call[u] # NoCall => call[u].req # r
      /\ \A x \in Requests : IsFree(x)' <=> IsFree(x) /\ x # r
  BY TakeNode
<1>2. /\ req'[r] = [req[r] EXCEPT !.type = "PROBE", !.completed = TRUE, !.filter = f,
                                  !.msg = NoMsg, !.rx = NoMsg,
                                  !.result = FALSE, !.remove = remove]
      /\ \A x \in Requests : x # r => req'[x] = req[x]
  BY <1>0 DEF TypeOK
<1> DEFINE i == message_search(f.channel, f)
           new == [pc |-> "full_tag", req |-> r, channel |-> f.channel, slot |-> recvList[f.channel][i]]
<1>3. /\ UNCHANGED <<rpc, recvList, slot, batch, found, ops, unexpected, expected>>
      /\ call' = [call EXCEPT ![t] = IF i = 0 THEN NoCall ELSE new]
      /\ call[t] = NoCall /\ MayProbe(remove)
  OBVIOUS
<1>4. i # 0 => /\ Contains(recvList[new.channel], new.slot)
               /\ Matches(slot[new.channel][new.slot], f)
  BY <1>0, SearchFinds
<1>5. new.req = r /\ new.pc = "full_tag"
  OBVIOUS
<1> HIDE DEF clh_probe_, i, new
<1>6. /\ req'[r].msg = NoMsg /\ req'[r].rx = NoMsg /\ req'[r].completed /\ ~req'[r].result
      /\ req'[r].filter = f /\ req'[r].remove = remove
  BY <1>0, <1>2 DEF RequestRecords
<1>7. r \notin SendRequests /\ r \notin RecvRequests /\ ~Pending(r) /\ ~Pending(r)'
  BY <1>0, <1>1, <1>6, PoolsDisjoint DEF Pending
<1>8. RequestOK(r)'
  BY <1>6, <1>7 DEF RequestOK
<1>9. \A u \in Threads : call'[u] # NoCall =>
        \/ u = t /\ i # 0 /\ call'[u] = new
        \/ /\ u # t /\ call'[u] = call[u] /\ call[u].req \in Requests
           /\ req'[call[u].req] = req[call[u].req]
  <2>1. call \in [Threads -> CallRecords \cup {NoCall}]
    BY <1>0 DEF TypeOK
  <2>2. /\ call'[t] = IF i = 0 THEN NoCall ELSE new
        /\ \A u \in Threads : u # t => call'[u] = call[u]
    BY <1>3, <2>1
  <2> QED
    BY <1>1, <1>2, <2>2, InProbeCall
<1>10. CallsFresh'
  <2>1. CallsFresh
    BY DEF Matched
  <2> QED
    BY <1>1, <1>5, <1>6, <1>9, <2>1 DEF CallsFresh
<1>11. ASSUME Exclusive  PROVE KeepClear'
  <2>1. KeepClear
    BY <1>11 DEF Matched
  <2>2. /\ \A x \in Requests : ~Looking(x)
        /\ \A u \in Threads : ~Removing(u)
        /\ remove => \A u \in Threads : call[u] = NoCall
    BY <1>3, <1>11 DEF MayProbe
  <2>3. \A x \in Requests : ~Looking(x)'
    BY <1>1, <1>2, <1>7, <2>2 DEF Looking, Pending
  <2>4. \A u, v \in Threads : Removing(u)' /\ call'[v] # NoCall => v = u
    BY <1>5, <1>6, <1>9, <2>2 DEF Removing
  <2>5. ProbeMatches'
    <3>1. \A x \in Requests : InCall(x) => InCall(x)'
      BY <1>3, <1>9 DEF InCall
    <3> QED
      BY <1>1, <1>2, <1>6, <2>1, <3>1, AnswersKept DEF KeepClear
  <2>6. rpc = "claim" => Head(batch) \in Requests /\ req'[Head(batch)] = req[Head(batch)]
    BY <1>2, <1>7, HeadPending DEF IInv, BatchWhileWalking, Walking
  <2>7. \A u \in Threads : call'[u] # NoCall =>
          /\ Contains(recvList[call'[u].channel], call'[u].slot)
          /\ CopiedSoFar(req'[call'[u].req], call'[u].pc, slot[call'[u].channel][call'[u].slot])
    <3>1. ASSUME NEW u \in Threads, call'[u] # NoCall, u = t, i # 0, call'[u] = new
          PROVE  /\ Contains(recvList[call'[u].channel], call'[u].slot)
                 /\ CopiedSoFar(req'[call'[u].req], call'[u].pc,
                                slot[call'[u].channel][call'[u].slot])
      BY <1>4, <1>5, <1>6, <3>1 DEF CopiedSoFar
    <3> QED
      BY <1>9, <2>1, <3>1 DEF KeepClear
  <2> QED
    BY <1>3, <2>1, <2>3, <2>4, <2>5, <2>6, <2>7 DEF KeepClear, NoListAssertion
<1> QED
  BY <1>0, <1>1, <1>2, <1>3, <1>7, <1>8, <1>10, <1>11, CallMatches

(* What a probe has once it has read every field.                          *)
LEMMA CopiedWhole ==
  ASSUME NEW q \in RequestRecords, NEW m \in Messages, CopiedSoFar(q, "remove", m)
  PROVE  /\ q.result /\ q.msg = m /\ q.seen = m /\ q.env = Envelope(m)
         /\ Matches(m, q.filter)
<1>1. /\ q.result /\ q.msg = m /\ q.seen = m /\ Matches(m, q.filter)
      /\ q.env.channel = m.channel /\ q.env.source = m.source /\ q.env.tag = m.tag
  BY DEF CopiedSoFar
<1>2. q.env \in Stored
  BY DEF RequestRecords
<1>3. q.env = Envelope(m)
  BY <1>1, <1>2 DEF Stored, Envelope
<1> QED
  BY <1>1, <1>3

(* The next field read is of the same message.                             *)
LEMMA CopiedOn ==
  ASSUME NEW q \in RequestRecords, NEW m \in Messages, NEW field \in DOMAIN CopiedNext,
         CopiedSoFar(q, field, m)
  PROVE  CopiedSoFar(Copied(q, field, m), CopiedNext[field], m)
<1> DEFINE n == Copied(q, field, m)
<1>1. /\ n.filter = q.filter
      /\ n.result <=> q.result \/ field = "full_tag"
      /\ n.seen = IF field = "full_tag" THEN m ELSE q.seen
      /\ n.msg = IF field = "msg" THEN m ELSE q.msg
      /\ n.env.channel = IF field = "channel" THEN m.channel ELSE q.env.channel
      /\ n.env.source = IF field = "source" THEN m.source ELSE q.env.source
      /\ n.env.tag = IF field = "tag" THEN m.tag ELSE q.env.tag
  BY CopiedRecord
<1>2. \/ field = "full_tag" /\ CopiedNext[field] = "msg"
      \/ field = "msg" /\ CopiedNext[field] = "channel"
      \/ field = "channel" /\ CopiedNext[field] = "source"
      \/ field = "source" /\ CopiedNext[field] = "tag"
      \/ field = "tag" /\ CopiedNext[field] = "remove"
  BY DEF CopiedNext
<1> HIDE DEF n
<1>3. CopiedSoFar(n, CopiedNext[field], m)
  BY <1>1, <1>2 DEF CopiedSoFar
<1> QED
  BY <1>3 DEF n

(* With the discipline the node copied is still the node found.            *)
LEMMA CopyMatches ==
  ASSUME IInv, Matched, NEW t \in Threads, ProbeCopy(t)
  PROVE  Matched'
<1> USE DEF ProbeCopy, listVars, appVars, runVars, workVars, ucxVars
<1>0. TypeOK /\ call[t] # NoCall /\ call[t].pc \in DOMAIN CopiedNext /\ CallsFresh
  BY DEF IInv, NoCall, CopiedNext, Matched
<1>1. PICK r \in ProbeRequests, m \in Messages, field \in DOMAIN CopiedNext :
        /\ r = call[t].req /\ m = slot[call[t].channel][call[t].slot]
        /\ field = call[t].pc
  BY <1>0, InProbeCall
<1>2. /\ r \in Requests /\ req[r] \in RequestRecords /\ RequestOK(r)
      /\ ~IsFree(r) /\ req[r].completed /\ ~Pending(r) /\ req[r].rx = NoMsg
      /\ r \notin SendRequests /\ r \notin RecvRequests
  BY <1>0, <1>1, InProbeCall, PoolsDisjoint
  DEF TypeOK, Pending, Matched, RequestsOK, CallsFresh
<1>3. /\ req' = [req EXCEPT ![r] = Copied(@, field, m)]
      /\ call' = [call EXCEPT ![t] = IF field = "tag" /\ ~req[r].remove THEN NoCall
                                     ELSE [@ EXCEPT !.pc = CopiedNext[field]]]
      /\ UNCHANGED <<rpc, free, recvList, slot, batch, found, ops, unexpected, expected>>
  BY <1>1
<1> HIDE DEF ProbeCopy
<1>4. /\ req'[r] = Copied(req[r], field, m)
      /\ \A x \in Requests : x # r => req'[x] = req[x]
  BY <1>0, <1>2, <1>3 DEF TypeOK
<1>5. /\ req'[r].completed = req[r].completed /\ req'[r].filter = req[r].filter
      /\ req'[r].rx = req[r].rx /\ req'[r].remove = req[r].remove /\ req'[r].type = req[r].type
      /\ req'[r] \in RequestRecords
  <2>1. PICK q \in RequestRecords : q = req[r]
    BY <1>2
  <2>2. LET n == Copied(q, field, m) IN
        /\ n.completed = q.completed /\ n.filter = q.filter
        /\ n.rx = q.rx /\ n.remove = q.remove /\ n.type = q.type
        /\ n \in RequestRecords
    BY CopiedRecord
  <2> QED
    BY <1>4, <2>1, <2>2
<1>6. \A x \in Requests : /\ IsFree(x)' <=> IsFree(x)
                          /\ Pending(x)' <=> Pending(x)
                          /\ Looking(x)' <=> Looking(x)
  BY <1>3, <1>4, <1>5 DEF IsFree, Pending, Looking
<1>7. RequestOK(r)'
  BY <1>2, <1>5, <1>6 DEF RequestOK
<1>8. \A u \in Threads : call'[u] # NoCall =>
        /\ call[u] # NoCall /\ call'[u].req = call[u].req /\ call[u].req \in Requests
        /\ call'[u].channel = call[u].channel /\ call'[u].slot = call[u].slot
        /\ u = t => call'[u].pc = CopiedNext[field] /\ (field = "tag" => req[r].remove)
        /\ u # t => call'[u] = call[u] /\ call[u].req # r
  <2>1. call[t] \in CallRecords /\ call \in [Threads -> CallRecords \cup {NoCall}]
    BY <1>0, InProbeCall DEF TypeOK
  <2>2. LET n == [call[t] EXCEPT !.pc = CopiedNext[field]] IN
        /\ n.req = call[t].req /\ n.channel = call[t].channel /\ n.slot = call[t].slot
        /\ n.pc = CopiedNext[field]
    BY <2>1 DEF CallRecords
  <2> QED
    BY <1>0, <1>1, <1>3, <2>1, <2>2, InProbeCall DEF CallsFresh
<1>9. \A x \in Requests : req'[x].rx = req[x].rx /\ req'[x].remove = req[x].remove
                          /\ req'[x].filter = req[x].filter
  BY <1>4, <1>5
<1>10. CallsFresh'
  <2>1. CopiedNext[field] = "remove" => field = "tag"
    BY DEF CopiedNext
  <2> QED
    BY <1>0, <1>1, <1>8, <1>9, <2>1 DEF CallsFresh
<1>11. ASSUME Exclusive  PROVE KeepClear'
  <2>1. KeepClear
    BY <1>11 DEF Matched
  <2>2. \A u, v \in Threads : Removing(u)' /\ call'[v] # NoCall => v = u
    <3>1. \A u \in Threads : Removing(u)' => Removing(u)
      BY <1>8, <1>9 DEF Removing
    <3> QED
      BY <1>8, <2>1, <3>1 DEF KeepClear
  <2>3. CopiedSoFar(req'[r], CopiedNext[field], m)
    <3>1. CopiedSoFar(req[r], field, m)
      BY <1>0, <1>1, <2>1 DEF KeepClear
    <3> QED
      BY <1>2, <1>4, <3>1, CopiedOn
  <2>4. ProbeMatches'
    <3> SUFFICES ASSUME NEW x \in ProbeRequests, ~IsFree(x)', req'[x].result, ~InCall(x)'
                 PROVE  /\ req'[x].msg # NoMsg
                        /\ Matches(req'[x].msg, req'[x].filter)
                        /\ req'[x].seen = req'[x].msg
                        /\ req'[x].env = Envelope(req'[x].msg)
      BY DEF ProbeMatches
    <3>1. CASE x = r
      <4>1. call'[t] = NoCall
        BY <1>1, <1>8, <3>1 DEF InCall
      <4>2. field = "tag"
        <5>1. call[t] \in CallRecords /\ call \in [Threads -> CallRecords \cup {NoCall}]
          BY <1>0, InProbeCall DEF TypeOK
        <5>2. [call[t] EXCEPT !.pc = CopiedNext[field]].pc = CopiedNext[field]
          BY <5>1 DEF CallRecords
        <5>3. CopiedNext[field] # NoCall.pc
          BY DEF CopiedNext, NoCall
        <5> QED
          BY <1>3, <4>1, <5>1, <5>2, <5>3
      <4>3. CopiedSoFar(req'[r], "remove", m)
        BY <2>3, <4>2 DEF CopiedNext
      <4> QED
        BY <1>5, <3>1, <4>3, CopiedWhole, MessagesType
    <3>2. CASE x # r
      <4>1. x \in Requests
        BY DEF Requests
      <4>2. ~InCall(x)
        <5>1. ASSUME NEW u \in Threads, call[u] # NoCall, call[u].req = x
              PROVE  call'[u] # NoCall /\ call'[u].req = x
          BY <1>0, <1>1, <1>3, <3>2, <5>1 DEF TypeOK
        <5> QED
          BY <5>1 DEF InCall
      <4> QED
        BY <1>4, <1>6, <2>1, <3>2, <4>1, <4>2 DEF KeepClear, ProbeMatches
    <3> QED
      BY <3>1, <3>2
  <2>5. rpc = "claim" => Head(batch) \in Requests /\ req'[Head(batch)] = req[Head(batch)]
    BY <1>2, <1>4, HeadPending DEF IInv, BatchWhileWalking, Walking
  <2>6. \A u \in Threads : call'[u] # NoCall =>
          /\ Contains(recvList[call'[u].channel], call'[u].slot)
          /\ CopiedSoFar(req'[call'[u].req], call'[u].pc, slot[call'[u].channel][call'[u].slot])
    BY <1>1, <1>4, <1>8, <2>1, <2>3 DEF KeepClear
  <2>7. (\E u \in Threads : call'[u] # NoCall) => \A x \in Requests : ~Looking(x)'
    BY <1>6, <1>8, <2>1 DEF KeepClear
  <2> QED
    BY <1>3, <2>1, <2>2, <2>4, <2>5, <2>6, <2>7 DEF KeepClear, NoListAssertion
<1> QED
  BY <1>2, <1>3, <1>4, <1>6, <1>7, <1>10, <1>11, CallMatches

(* With the discipline the node removed is still listed, and no other      *)
(* probe or search has it.                                                 *)
LEMMA RemoveMatches ==
  ASSUME IInv, Matched, NEW t \in Threads, ProbeRemove(t)
  PROVE  Matched'
<1> USE DEF ProbeRemove, listVars, appVars, runVars, workVars, ucxVars
<1> DEFINE c == call[t].channel
<1>0. TypeOK /\ TypeOK' /\ call[t] # NoCall /\ call[t].pc = "remove" /\ c \in Channels
  <2>1. call[t] # NoCall /\ call[t].pc = "remove"
    BY DEF NoCall
  <2>2. TypeOK /\ TypeOK'
    BY ProbeRemoveStep DEF IInv
  <2> QED
    BY <2>1, <2>2, InProbeCall
<1>1. /\ \/ Contains(recvList[c], call[t].slot) /\ rpc' = rpc
            /\ recvList' = [recvList EXCEPT ![c] = RemoveFirst(@, call[t].slot)]
         \/ ~Contains(recvList[c], call[t].slot) /\ rpc' = "list_assert" /\ recvList' = recvList
      /\ UNCHANGED <<free, req, slot, batch, found, ops, unexpected, expected>>
      /\ call' = [call EXCEPT ![t] = NoCall]
  BY DEF clh_list_remove_node
<1> HIDE DEF ProbeRemove, c
<1>2. \A u \in Threads : call'[u] # NoCall => u # t /\ call'[u] = call[u]
  BY <1>0, <1>1 DEF TypeOK
<1>3. \A x \in Requests : /\ IsFree(x)' <=> IsFree(x)
                          /\ Looking(x)' <=> Looking(x)
  BY <1>1 DEF IsFree, Pending, Looking
<1>4. RequestsOK'
  BY <1>1, <1>3, SameRequest DEF Matched, RequestsOK
<1>5. CallsFresh' /\ ExpectedPosted' /\ FoundMatches'
  BY <1>1, <1>2 DEF Matched, CallsFresh, ExpectedPosted, FoundMatches
<1>6. ASSUME Exclusive  PROVE KeepClear'
  <2>1. KeepClear
    BY <1>6 DEF Matched
  <2>2. Removing(t)
    BY <1>0 DEF Matched, CallsFresh, Removing
  <2>3. \A u \in Threads : call'[u] = NoCall
    BY <1>2, <2>1, <2>2 DEF KeepClear
  <2>4. rpc' = rpc
    BY <1>0, <1>1, <2>1 DEF KeepClear, c
  <2>5. rpc # "claim"
    <3> SUFFICES ASSUME rpc = "claim" PROVE FALSE
      OBVIOUS
    <3> DEFINE h == Head(batch)
    <3>1. /\ h \in Requests /\ Pending(h) /\ h \in RecvRequests \cup ProbeRequests
          /\ req[h] \in RequestRecords /\ RequestOK(h) /\ req[h].msg = NoMsg
      BY <1>0, HeadPending
      DEF IInv, BatchWhileWalking, Walking, Matched, RequestsOK, FoundMatches, TypeOK
    <3> HIDE DEF h
    <3>2. Looking(h)
      BY <1>6, <3>1, PoolsDisjoint DEF Looking, RequestOK, Steady, IInv, Homes
    <3> QED
      BY <1>0, <2>1, <3>1, <3>2 DEF KeepClear
  <2>6. ProbeMatches'
    <3>1. PICK r \in ProbeRequests, m \in Messages :
            r = call[t].req /\ m = slot[call[t].channel][call[t].slot]
      BY <1>0, InProbeCall
    <3>2. CopiedSoFar(req[r], "remove", m) /\ req[r] \in RequestRecords
      BY <1>0, <2>1, <3>1 DEF KeepClear, TypeOK, Requests
    <3>3. /\ req[r].result /\ req[r].msg = m /\ req[r].seen = m /\ req[r].env = Envelope(m)
          /\ Matches(m, req[r].filter) /\ m # NoMsg
      BY <3>2, CopiedWhole, MessagesType
    <3>4. \A x \in ProbeRequests : x # r /\ ~InCall(x)' => ~InCall(x)
      BY <1>0, <1>1, <3>1 DEF InCall, TypeOK
    <3> QED
      BY <1>1, <1>3, <2>1, <3>3, <3>4 DEF KeepClear, ProbeMatches, Requests
  <2> QED
    BY <2>1, <2>3, <2>4, <2>5, <2>6, ClearWithoutCalls DEF KeepClear, NoListAssertion
<1>7. ASSUME OneWarmChannel  PROVE Searched'
  <2>1. \A d \in Channels, s \in Slots : Contains(recvList'[d], s) => Contains(recvList[d], s)
    <3>1. recvList[c] \in Seq(Slots)
      BY <1>0 DEF TypeOK
    <3>2. \A y : Contains(RemoveFirst(recvList[c], call[t].slot), y) => Contains(recvList[c], y)
      BY <3>1, RemoveFirstContains
    <3>3. \/ recvList' = recvList
          \/ \A d \in Channels : recvList'[d] = IF d = c THEN RemoveFirst(recvList[c], call[t].slot)
                                                          ELSE recvList[d]
      BY <1>0, <1>1 DEF TypeOK
    <3> QED
      BY <3>2, <3>3
  <2>2. \A x : Listed(x)' => Listed(x)
    BY <1>0, <1>1, <2>1, ListedNode, ListedNodeNext
  <2>3. rpc' = "post" => rpc = "post"
    BY <1>1
  <2> QED
    BY <1>1, <1>7, <2>2, <2>3 DEF Matched, Searched, NotStranded
<1> QED
  BY <1>4, <1>5, <1>6, <1>7 DEF Matched

(* Receiving with a probe's request asks for exactly what the probe told.  *)
LEMMA RequestRecvMatches ==
  ASSUME IInv, Matched, NEW r \in ProbeRequests, clh_request_recv(r)
  PROVE  Matched'
<1> USE DEF clh_request_recv, listVars, appVars, runVars, workVars, ucxVars
<1>0. /\ TypeOK /\ r \in Requests /\ req[r] \in RequestRecords /\ RequestOK(r)
      /\ req[r].result /\ req[r].completed /\ ~Pending(r)
      /\ r \notin SendRequests /\ r \notin RecvRequests
  BY PoolsDisjoint
  DEF IInv, TypeOK, Requests, Matched, RequestsOK, ResultsCompleted, Pending
<1>1. /\ req'[r] = [req[r] EXCEPT !.completed = FALSE, !.result = FALSE,
                        !.filter = Exactly(Envelope(req[r].seen)), !.msg = HandleToReceive(r),
                        !.seen = NoMsg]
      /\ \A x \in Requests : x # r => req'[x] = req[x]
  BY <1>0 DEF TypeOK
<1>2. /\ UNCHANGED <<rpc, free, call, recvList, slot, batch, found, ops, unexpected, expected>>
      /\ \A t \in Threads : call[t] # NoCall => call[t].req # r
      /\ req[r].remove \/ MayLook
      /\ ~InCall(r) /\ r \notin free["PROBE"]
  BY DEF InCall
<1> HIDE DEF clh_request_recv
<1>3. /\ req'[r].msg = HandleToReceive(r) /\ req'[r].env = req[r].env /\ ~req'[r].completed
      /\ req'[r].filter = Exactly(Envelope(req[r].seen)) /\ ~req'[r].result
      /\ req'[r].rx = req[r].rx /\ req'[r].remove = req[r].remove /\ req'[r].type = req[r].type
  BY <1>0, <1>1 DEF RequestRecords
<1>4. \A x \in Requests : IsFree(x)' <=> IsFree(x)
  BY <1>2 DEF IsFree
<1>5. RequestOK(r)'
  <2>1. req[r].rx = NoMsg /\ ~IsFree(r)
    BY <1>0, <1>2, PoolsDisjoint DEF RequestOK, IInv, Homes, PoolHomes, IsFree
  <2>2. CASE Exclusive
    <3>1. /\ req[r].msg # NoMsg /\ req[r].env = Envelope(req[r].msg) /\ req[r].seen = req[r].msg
          /\ req[r].msg \in Messages /\ req[r].env \in Stored
      BY <1>0, <1>2, <2>1, <2>2 DEF Matched, KeepClear, ProbeMatches, RequestRecords
    <3>2. Matches(req[r].msg, Exactly(req[r].env))
      BY <3>1, PassesExactly
    <3> QED
      BY <1>0, <1>3, <2>1, <3>1, <3>2 DEF RequestOK, HandleToReceive
  <2>3. CASE ~Exclusive
    BY <1>0, <1>3, <2>1, <2>3 DEF RequestOK, Steady
  <2> QED
    BY <2>2, <2>3
<1>6. \A t \in Threads : call[t] # NoCall =>
        call[t].req \in Requests /\ req'[call[t].req] = req[call[t].req]
  BY <1>1, <1>2, InProbeCall
<1>7. CallsFresh'
  BY <1>2, <1>6 DEF Matched, CallsFresh
<1>8. ASSUME Exclusive  PROVE KeepClear'
  <2>1. KeepClear
    BY <1>8 DEF Matched
  <2>2. (\E t \in Threads : call[t] # NoCall) => \A x \in Requests : ~Looking(x)'
    <3> SUFFICES ASSUME \E t \in Threads : call[t] # NoCall, NEW x \in Requests
                 PROVE  ~Looking(x)'
      OBVIOUS
    <3>1. ~Looking(x) /\ req[r].remove
      BY <1>2, <1>8, <2>1 DEF KeepClear, MayLook
    <3> QED
      BY <1>1, <1>3, <1>4, <3>1 DEF Looking, Pending
  <2>3. ProbeMatches'
    BY <1>1, <1>2, <1>3, <1>4, <2>1, AnswersKept DEF KeepClear, InCall
  <2>4. rpc = "claim" => Head(batch) \in Requests /\ req'[Head(batch)] = req[Head(batch)]
    BY <1>0, <1>1, HeadPending DEF IInv, BatchWhileWalking, Walking
  <2> QED
    BY <1>2, <1>6, <2>1, <2>2, <2>3, <2>4 DEF KeepClear, NoListAssertion, Removing
<1> QED
  BY <1>0, <1>1, <1>2, <1>4, <1>5, <1>7, <1>8, CallMatches

(* A released request has nothing left to be right about.                  *)
LEMMA ReleaseMatches ==
  ASSUME IInv, Matched, NEW r \in Requests, clh_request_release(r)
  PROVE  Matched'
<1> USE DEF clh_request_release, listVars, appVars, runVars, workVars, ucxVars
<1>0. /\ TypeOK /\ req[r] \in RequestRecords /\ req[r].completed /\ ~Pending(r)
      /\ req[r].type \in Types
  BY DEF IInv, TypeOK, RequestRecords, Pending
<1>1. /\ req'[r] = [req[r] EXCEPT !.filter = NoFilter, !.msg = NoMsg, !.rx = NoMsg,
                        !.seen = NoMsg, !.result = FALSE, !.remove = FALSE]
      /\ \A x \in Requests : x # r => req'[x] = req[x]
      /\ free' = [free EXCEPT ![req[r].type] = @ \cup {r}]
  BY <1>0 DEF TypeOK
<1>2. /\ UNCHANGED <<rpc, call, recvList, slot, batch, found, ops, unexpected, expected>>
      /\ \A t \in Threads : call[t] # NoCall => call[t].req # r
  BY DEF InCall
<1> HIDE DEF clh_request_release
<1>3. /\ req'[r].msg = NoMsg /\ req'[r].rx = NoMsg /\ req'[r].completed
      /\ ~req'[r].result /\ ~req'[r].remove
  BY <1>0, <1>1 DEF RequestRecords
<1>4. \A x \in Requests : IsFree(x)' <=> IsFree(x) \/ x = r
  BY <1>0, <1>1 DEF TypeOK, IsFree
<1>5. RequestOK(r)'
  BY <1>3, <1>4 DEF RequestOK, Pending
<1>6. \A t \in Threads : call[t] # NoCall =>
        call[t].req \in Requests /\ req'[call[t].req] = req[call[t].req]
  BY <1>1, <1>2, InProbeCall
<1>7. CallsFresh'
  BY <1>2, <1>6 DEF Matched, CallsFresh
<1>8. ASSUME Exclusive  PROVE KeepClear'
  <2>1. KeepClear
    BY <1>8 DEF Matched
  <2>2. \A x \in Requests : Looking(x)' => Looking(x)
    BY <1>1, <1>3, <1>4 DEF Looking, Pending
  <2>3. ProbeMatches'
    BY <1>1, <1>2, <1>3, <1>4, <2>1, AnswersKept DEF KeepClear, InCall
  <2>4. rpc = "claim" => Head(batch) \in Requests /\ req'[Head(batch)] = req[Head(batch)]
    BY <1>0, <1>1, HeadPending DEF IInv, BatchWhileWalking, Walking
  <2> QED
    BY <1>2, <1>6, <2>1, <2>2, <2>3, <2>4 DEF KeepClear, NoListAssertion, Removing
<1> QED
  BY <1>0, <1>1, <1>2, <1>4, <1>5, <1>7, <1>8, CallMatches
-----------------------------------------------------------------------------
(* The theorems.                                                           *)
LEMMA MatchedStep == IInv /\ Warm /\ Matched /\ [Next]_vars => Matched'
<1> SUFFICES ASSUME IInv, Warm, Matched, [Next]_vars PROVE Matched'
  OBVIOUS
<1>1. CASE RunThread
  BY <1>1, QuietMatches, IncomingMatches, SearchMatches, WildMatches, ClaimMatches,
     PostMatches, ArrivalMatches, OpDoneMatches DEF RunThread, Progress
<1>2. ASSUME NEW r \in SendRequests, NEW c \in Channels, NEW tag \in Tags, clh_send(r, c, tag)
      PROVE  Matched'
  BY <1>2, SendMatches
<1>3. ASSUME NEW r \in RecvRequests, NEW c \in Channels, NEW T \in TagSets,
             clh_recv(r, c, T) \/ \E s \in Sources : clh_recv_from(r, c, s, T)
      PROVE  Matched'
  <2>1. /\ AnySource(c, T) \in Filters
        /\ \A s \in Sources : FromSource(c, s, T) \in Filters
    BY TagSetsType DEF AnySource, FromSource, Filters
  <2> QED
    BY <1>3, <2>1, RecvMatches DEF clh_recv, clh_recv_from, MayCall
<1>4. ASSUME NEW t \in Threads, NEW r \in ProbeRequests, NEW c \in Channels, NEW T \in TagSets,
             NEW remove \in Removes,
             \/ clh_probe(t, r, c, T, remove)
             \/ \E s \in Sources : clh_probe_source(t, r, c, s, T, remove)
      PROVE  Matched'
  <2>1. /\ AnySource(c, T) \in Filters
        /\ \A s \in Sources : FromSource(c, s, T) \in Filters
    BY TagSetsType DEF AnySource, FromSource, Filters
  <2>2. remove \in BOOLEAN
    BY CallsType
  <2> QED
    BY <1>4, <2>1, <2>2, ProbeMatchesStart DEF clh_probe, clh_probe_source
<1>5. ASSUME NEW t \in Threads, ProbeCall(t)
      PROVE  Matched'
  BY <1>5, CopyMatches, RemoveMatches DEF ProbeCall
<1>6. CASE Application
  BY <1>2, <1>3, <1>4, <1>5, <1>6, RequestRecvMatches, ReleaseMatches, QuietMatches DEF Application
<1>7. CASE Stopped \/ UNCHANGED vars
  BY <1>7, QuietMatches
<1> QED
  BY <1>1, <1>6, <1>7 DEF Next

(* Every step that writes a channel field writes the index of a channel.   *)
LEMMA WarmStep == IInv /\ Warm /\ [Next]_vars => Warm'
<1> SUFFICES ASSUME IInv, Warm, [Next]_vars, OneWarmChannel, NEW x \in Requests
             PROVE  req'[x].env.channel # Unset
  BY DEF Warm, OneWarmChannel
<1>1. /\ req[x].env.channel # Unset
      /\ DOMAIN req = Requests /\ \A r \in Requests : req[r] \in RequestRecords
  BY DEF Warm, IInv, TypeOK
<1>2. \A m \in Messages : m.channel # Unset
  BY MessagesType, StaleType
<1> USE DEF vars, listVars, appVars, runVars, workVars, ucxVars
<1>3. ASSUME NEW r \in Requests, NEW c \in Channels, NEW tag \in Tags, clh_send(r, c, tag)
      PROVE  req'[x].env.channel # Unset
  <2>1. req' = [req EXCEPT ![r] = [@ EXCEPT !.type = "SEND", !.completed = FALSE,
                                     !.env = [channel |-> c, source |-> NodeId, tag |-> tag]]]
    BY <1>3 DEF clh_send
  <2> QED
    BY <1>1, <2>1, StaleType DEF RequestRecords
<1>4. ASSUME NEW r \in Requests, NEW f, clh_recv_(r, f)
      PROVE  req'[x].env.channel # Unset
  BY <1>1, <1>4 DEF clh_recv_, RequestRecords
<1>5. ASSUME NEW t \in Threads, NEW r \in Requests, NEW f, NEW remove, clh_probe_(t, r, f, remove)
      PROVE  req'[x].env.channel # Unset
  <2>1. req' = [req EXCEPT ![r] = [@ EXCEPT !.type = "PROBE", !.completed = TRUE, !.filter = f,
                                     !.msg = NoMsg, !.rx = NoMsg,
                                     !.result = FALSE, !.remove = remove]]
    BY <1>5 DEF clh_probe_
  <2> QED
    BY <1>1, <2>1 DEF RequestRecords
<1>6. ASSUME NEW t \in Threads, ProbeCopy(t)
      PROVE  req'[x].env.channel # Unset
  <2>1. call[t] # NoCall /\ call[t].pc \in DOMAIN CopiedNext
    BY <1>6 DEF ProbeCopy, NoCall, CopiedNext
  <2>2. PICK r \in Requests, m \in Messages, field \in DOMAIN CopiedNext :
          req' = [req EXCEPT ![r] = Copied(@, field, m)]
    BY <1>6, <2>1, InProbeCall DEF ProbeCopy
  <2>3. PICK q \in RequestRecords : q = req[r]
    BY <1>1
  <2>4. Copied(q, field, m).env.channel = IF field = "channel" THEN m.channel ELSE q.env.channel
    BY CopiedRecord
  <2> QED
    BY <1>1, <1>2, <2>2, <2>3, <2>4
<1>7. ASSUME NEW r \in Requests, clh_request_recv(r)
      PROVE  req'[x].env.channel # Unset
  <2>1. PICK f, h : req' = [req EXCEPT ![r] = [@ EXCEPT !.completed = FALSE, !.result = FALSE,
                                                        !.filter = f, !.msg = h, !.seen = NoMsg]]
    BY <1>7 DEF clh_request_recv
  <2> QED
    BY <1>1, <2>1 DEF RequestRecords
<1>8. ASSUME NEW r \in Requests, clh_request_release(r)
      PROVE  req'[x].env.channel # Unset
  <2>1. req' = [req EXCEPT ![r] = [@ EXCEPT !.filter = NoFilter, !.msg = NoMsg, !.rx = NoMsg,
                                     !.seen = NoMsg, !.result = FALSE, !.remove = FALSE]]
    BY <1>8 DEF clh_request_release
  <2> QED
    BY <1>1, <2>1 DEF RequestRecords
<1>9. CASE ClaimHeld
  <2>1. PICK r \in Requests, m \in Messages :
          req' = [req EXCEPT ![r] = [@ EXCEPT !.msg = m, !.env = Envelope(m)]]
    <3>1. Head(batch) \in Requests /\ rpc = "claim"
      BY <1>9, HeadPending DEF ClaimHeld, IInv, BatchWhileWalking, Walking
    <3>2. slot[req[Head(batch)].env.channel][found] \in Messages
      BY <3>1 DEF IInv, ListedHold, TypeOK
    <3> QED
      BY <1>9, <3>1, <3>2 DEF ClaimHeld
  <2>2. Envelope(m).channel # Unset
    BY <1>2 DEF Envelope
  <2> QED
    BY <1>1, <2>1, <2>2 DEF RequestRecords
<1>10. CASE PostRecv
  <2>1. PICK h : req' = [req EXCEPT ![Head(batch)] = [@ EXCEPT !.rx = h]]
    BY <1>10 DEF PostRecv
  <2> QED
    BY <1>1, <2>1 DEF RequestRecords
<1>11. ASSUME NEW m \in Messages, ProgressArrival(m)
       PROVE  req'[x].env.channel # Unset
  <2>1. PICK r, h : req' = req \/ req' = [req EXCEPT ![r] = [@ EXCEPT !.rx = h]]
    BY <1>11 DEF ProgressArrival
  <2> QED
    BY <1>1, <2>1 DEF RequestRecords
<1>12. CASE OpDone
  <2>1. PICK r : r = ops[idx]
    OBVIOUS
  <2>2. req' = [req EXCEPT ![r] = [@ EXCEPT !.completed = TRUE, !.env = Sender(r)]]
    BY <1>12, <2>1 DEF OpDone
  <2>3. x = r => Sender(r).channel # Unset
    <3>1. r \in Requests /\ Contains(ops, r) /\ ~Contains(expected, r)
      BY <1>12, <2>1 DEF OpDone, Outstanding, Contains, IInv, TypeOK
    <3>2. req[r].type = "RECV" => req[r].rx \in Messages
      <4>1. req[r] \in RequestRecords /\ r \in Pool[req[r].type]
        BY <1>1, <3>1 DEF IInv, Homes
      <4>2. req[r].type = "RECV" => r \in RecvRequests
        BY <4>1
      <4> QED
        BY <3>1, <4>1, <4>2 DEF IInv, ReceivesHaveMessage, RequestRecords
    <3> QED
      BY <1>1, <1>2, <3>2 DEF Sender, Envelope
  <2> QED
    BY <1>1, <2>2, <2>3 DEF RequestRecords
<1>13. CASE \/ clh_finalize \/ run_ \/ probe_incomming_messages_ \/ SendOne \/ SendDone
            \/ DetachRecvQueue \/ SearchHeld \/ SearchWild \/ NextInBatch
            \/ ProgressDone \/ (\E r \in Requests : ProgressTransfer(r))
            \/ OpInProgress \/ OpsEnd \/ UcxError \/ Stopped \/ UNCHANGED vars
            \/ \E t \in Threads : ProbeRemove(t)
  <2>1. req' = req
    BY <1>13 DEF clh_finalize, run_, probe_incomming_messages_, SendOne, SendDone, DetachRecvQueue,
       SearchHeld, SearchWild, NextInBatch, ProgressDone, ProgressTransfer, OpInProgress, OpsEnd,
       UcxError, Stopped, ProbeRemove
  <2> QED
    BY <1>1, <2>1
<1>14. CASE RunThread
  BY <1>9, <1>10, <1>11, <1>12, <1>13, <1>14 DEF RunThread, Progress
<1>15. CASE Application
  <2> USE DEF Requests
  <2> QED
    BY <1>3, <1>4, <1>5, <1>6, <1>7, <1>8, <1>13, <1>15
    DEF Application, ProbeCall, clh_recv, clh_recv_from, clh_probe, clh_probe_source
<1> QED
  BY <1>13, <1>14, <1>15 DEF Next

(* The invariant holds in every reachable state.                           *)
THEOREM AlwaysMatched == Spec => [](Matched /\ Warm)
<1>1. Init => Matched /\ Warm
  BY InitMatched
<1>2. IInv /\ (Matched /\ Warm) /\ [Next]_vars => (Matched /\ Warm)'
  BY MatchedStep, WarmStep
<1> QED
  BY <1>1, <1>2, Invariance, PTL DEF Spec

(* A completed receive got a message that passes its tag and mask, and is  *)
(* told the channel, source and tag of that message, whichever way it got  *)
(* the message.                                                            *)
THEOREM ReceivesWhatItAskedFor == Spec => []ReceivedMatches
<1>1. IInv /\ Matched => ReceivedMatches
  <2> SUFFICES ASSUME IInv, Matched, NEW r \in RecvRequests, ~IsFree(r), req[r].completed
               PROVE  GotItsMessage(r)
    BY DEF ReceivedMatches
  <2>1. RequestOK(r) /\ ~(r \in ProbeRequests)
    BY PoolsDisjoint DEF Matched, RequestsOK, Requests
  <2> QED
    BY <2>1 DEF RequestOK, Steady, GotItsMessage
<1> QED
  BY <1>1, Invariance, AlwaysMatched, PTL

(* With the discipline, so is a receive made with a probe's request, of the *)
(* message the probe had seen.  Without it a probe may copy the fields of   *)
(* two messages.                                                           *)
THEOREM ReceivesWhatItProbed ==
  ASSUME Exclusive
  PROVE  Spec => []ProbedIsReceived
<1>1. IInv /\ Matched => ProbedIsReceived
  <2> SUFFICES ASSUME IInv, Matched, NEW r \in ProbeRequests, Received(r)
               PROVE  GotItsMessage(r)
    BY DEF ProbedIsReceived
  <2>1. RequestOK(r) /\ req[r] \in RequestRecords /\ req[r].rx # NoMsg
    BY DEF Matched, RequestsOK, Requests, IInv, TypeOK, Received
  <2>2. req[r].rx \in Messages /\ req[r].env \in Stored
    BY <2>1 DEF RequestRecords
  <2>3. req[r].filter = Exactly(req[r].env) /\ Matches(req[r].rx, req[r].filter)
    BY <2>1 DEF RequestOK, Steady
  <2> QED
    BY <2>1, <2>2, <2>3, PassesExactly DEF GotItsMessage
<1> QED
  BY <1>1, Invariance, AlwaysMatched, PTL

(* With the discipline, a positive probe describes one message that passes *)
(* its filter, though it reads the node after the mutex is released.       *)
THEOREM ProbesSeeOneMessage ==
  ASSUME Exclusive
  PROVE  Spec => []ProbeMatches
<1>1. Matched => ProbeMatches
  BY DEF Matched, KeepClear
<1> QED
  BY <1>1, AlwaysMatched, PTL

(* With the discipline, the assertions of clh_list_remove_node hold, for   *)
(* any number of threads that probe and receives in flight.                *)
THEOREM RemovesWhatIsListed ==
  ASSUME Exclusive
  PROVE  Spec => []NoListAssertion
<1>1. Matched => NoListAssertion
  BY DEF Matched, KeepClear
<1> QED
  BY <1>1, AlwaysMatched, PTL

(* On one channel, and with requests that were all used on it before, no   *)
(* receive waits in UCX while a message it may take is listed or held by   *)
(* UCX, whatever the application probes.                                   *)
THEOREM NothingStranded ==
  ASSUME OneWarmChannel
  PROVE  Spec => []NotStranded
<1>1. Matched => NotStranded
  BY DEF Matched, Searched
<1> QED
  BY <1>1, AlwaysMatched, PTL
-----------------------------------------------------------------------------
(* Where a message is.  With the discipline it is at one place, which a    *)
(* step may change but not forget.                                         *)
AtNet == <<"net", 0, 0>>
InUcx == <<"ucx", 0, 0>>
InNode(c, s) == <<"list", c, s>>
With(r) == <<"request", r, 0>>

Holds(c, s, m) == Contains(recvList[c], s) /\ slot[c][s] = m

IsAt(p, m) ==
  \/ p = AtNet /\ m \in net
  \/ p = InUcx /\ Contains(unexpected, m)
  \/ \E c \in Channels, s \in Slots : p = InNode(c, s) /\ Holds(c, s, m)
  \/ \E r \in Requests : p = With(r) /\ Claims(r, m)

Places ==
  {AtNet, InUcx} \cup {InNode(c, s) : c \in Channels, s \in Slots} \cup {With(r) : r \in Requests}
PlacesOf(m) == {p \in Places : IsAt(p, m)}

OnePlace == \A m \in Messages : \A p, q \in PlacesOf(m) : p = q

(* No list has an element twice, so what is removed from it is gone.       *)
Once == IsInjective(unexpected) /\ IsInjective(expected) /\ \A c \in Channels : IsInjective(recvList[c])

(* A request that waits for a message has none yet that could be forgotten.*)
Unfilled ==
  \A r \in Requests :
    /\ Pending(r) /\ ~Contains(ops, r) => req[r].rx = NoMsg
    /\ Contains(expected, r) => req[r].rx = NoMsg /\ req[r].msg = NoMsg

Placed == OnePlace /\ Once /\ Unfilled

(* A message may leave only with the request that is released.             *)
Kept ==
  \A m \in Messages : PlacesOf(m) # {} /\ PlacesOf(m)' = {} =>
    \E r \in Requests : Claims(r, m) /\ ~IsFree(r) /\ IsFree(r)'

(* The places of a message, one disjunct per kind.                         *)
LEMMA PlaceIs ==
  ASSUME NEW m, NEW p
  PROVE  p \in PlacesOf(m) <=>
           \/ p = AtNet /\ m \in net
           \/ p = InUcx /\ Contains(unexpected, m)
           \/ \E c \in Channels, s \in Slots : p = InNode(c, s) /\ Holds(c, s, m)
           \/ \E r \in Requests : p = With(r) /\ Claims(r, m)
BY DEF PlacesOf, Places, IsAt

(* The same in the state after a step.                                     *)
LEMMA PlaceIsNext ==
  ASSUME NEW m, NEW p
  PROVE  p \in PlacesOf(m)' <=>
           \/ p = AtNet /\ m \in net'
           \/ p = InUcx /\ Contains(unexpected', m)
           \/ \E c \in Channels, s \in Slots : p = InNode(c, s) /\ Holds(c, s, m)'
           \/ \E r \in Requests : p = With(r) /\ Claims(r, m)'
BY DEF PlacesOf, Places, IsAt

(* Different places are different values.                                  *)
LEMMA PlacesDiffer ==
  /\ AtNet # InUcx
  /\ \A c, s : AtNet # InNode(c, s) /\ InUcx # InNode(c, s)
  /\ \A r : AtNet # With(r) /\ InUcx # With(r)
  /\ \A c, s, r : InNode(c, s) # With(r)
  /\ \A c, s, d, t : InNode(c, s) = InNode(d, t) => c = d /\ s = t
  /\ \A r, q : With(r) = With(q) => r = q
BY DEF AtNet, InUcx, InNode, With

(* A message moves, or none does.                                          *)
LEMMA Moves ==
  ASSUME OnePlace, NEW m \in Messages, NEW p, NEW q, p \in PlacesOf(m),
         PlacesOf(m)' = (PlacesOf(m) \ {p}) \cup {q},
         \A x \in Messages : x # m => PlacesOf(x)' = PlacesOf(x)
  PROVE  OnePlace' /\ Kept
BY DEF OnePlace, Kept

(* No message moves.                                                       *)
LEMMA Stays ==
  ASSUME OnePlace, \A x \in Messages : PlacesOf(x)' = PlacesOf(x)
  PROVE  OnePlace' /\ Kept
BY DEF OnePlace, Kept

(* A request's claim depends on these fields alone.                        *)
LEMMA SameClaims ==
  ASSUME NEW r, NEW m, IsFree(r)' <=> IsFree(r), InCall(r)' <=> InCall(r),
         req'[r].rx = req[r].rx, req'[r].msg = req[r].msg,
         req'[r].result = req[r].result, req'[r].remove = req[r].remove
  PROVE  Claims(r, m)' <=> Claims(r, m)
BY DEF Claims

(* A step that moves no message.                                           *)
LEMMA NoMove ==
  ASSUME OnePlace, UNCHANGED <<net, unexpected, recvList, slot>>,
         \A r \in Requests, m \in Messages : Claims(r, m)' <=> Claims(r, m)
  PROVE  OnePlace' /\ Kept
<1>1. ASSUME NEW x \in Messages  PROVE PlacesOf(x)' = PlacesOf(x)
  BY PlaceIs, PlaceIsNext DEF Holds
<1> QED
  BY <1>1, Stays
-----------------------------------------------------------------------------
(* At first all messages are still to come.                                *)
LEMMA InitPlaced == Init => Placed
<1> SUFFICES ASSUME Init PROVE Placed
  OBVIOUS
<1> USE DEF Init
<1>1. \A r \in Requests : IsFree(r)
  BY DEF IsFree, Requests
<1>2. \A y : ~Contains(<<>>, y)
  BY DEF Contains
<1>3. IsInjective(<<>>)
  BY DEF IsInjective
<1>4. ASSUME NEW m \in Messages, NEW p \in PlacesOf(m)  PROVE p = AtNet
  <2>1. ~Contains(unexpected, m)
    BY <1>2
  <2>2. \A c \in Channels, s \in Slots : ~Holds(c, s, m)
    BY <1>2 DEF Holds
  <2>3. \A r \in Requests : ~Claims(r, m)
    BY <1>1 DEF Claims
  <2> QED
    BY <2>1, <2>2, <2>3, PlaceIs
<1>5. OnePlace
  BY <1>4 DEF OnePlace
<1> QED
  BY <1>1, <1>2, <1>3, <1>5 DEF Placed, Once, Unfilled, Pending

(* The steps that touch neither a request nor a message.                   *)
LEMMA QuietPlaces ==
  ASSUME IInv, Matched, Placed,
         \/ clh_finalize \/ run_ \/ SendOne \/ SendDone \/ DetachRecvQueue \/ NextInBatch
         \/ SearchHeld \/ SearchWild \/ ProgressDone \/ (\E r \in Requests : ProgressTransfer(r))
         \/ OpInProgress \/ OpsEnd \/ UcxError \/ Stopped \/ UNCHANGED vars
  PROVE  Placed' /\ Kept
<1>1. UNCHANGED <<free, req, call, recvList, slot, net, unexpected, expected>>
  BY DEF vars, listVars, appVars, runVars, workVars, ucxVars, clh_finalize, run_, SendOne,
         SendDone, DetachRecvQueue, NextInBatch, SearchHeld, SearchWild, ProgressDone, ProgressTransfer,
         OpInProgress, OpsEnd, UcxError, Stopped
<1>2. \A r \in Requests : Contains(ops, r) => Contains(ops', r)
  <2>1. ASSUME SendOne  PROVE \A r \in Requests : Contains(ops, r) => Contains(ops', r)
    <3>1. /\ sendQ \in Seq(SendRequests) /\ sendQ # <<>> /\ ops \in Seq(Requests)
          /\ ops' = Append(ops, Last(sendQ))
      BY <2>1 DEF SendOne, IInv, TypeOK
    <3>2. Last(sendQ) \in Requests
      BY <3>1, FrontContains DEF Requests
    <3> QED
      BY <3>1, <3>2, AppendContains
  <2>2. ASSUME ~SendOne  PROVE ops' = ops
    BY <2>2 DEF vars, listVars, appVars, runVars, workVars, ucxVars, clh_finalize, run_,
         SendDone, DetachRecvQueue, NextInBatch, SearchHeld, SearchWild, ProgressDone, ProgressTransfer,
         OpInProgress, OpsEnd, UcxError, Stopped
  <2> QED
    BY <2>1, <2>2
<1>3. \A r \in Requests, m \in Messages : Claims(r, m)' <=> Claims(r, m)
  BY <1>1 DEF Claims, IsFree, InCall
<1>4. OnePlace' /\ Kept
  BY <1>1, <1>3, NoMove DEF Placed
<1>5. \A r \in Requests : Pending(r)' <=> Pending(r)
  BY <1>1 DEF Pending, IsFree
<1>6. Once' /\ Unfilled'
  BY <1>1, <1>2, <1>5 DEF Placed, Once, Unfilled
<1> QED
  BY <1>4, <1>6 DEF Placed

(* A call changes a request the run thread does not have, and forgets a    *)
(* message only when it releases the request.                              *)
LEMMA CallPlaces ==
  ASSUME IInv, Matched, Placed, NEW r \in Requests, ~Pending(r),
         Pending(r)' => req'[r].rx = NoMsg,
         \A x \in Requests : x # r =>
           req'[x] = req[x] /\ (IsFree(x)' <=> IsFree(x)) /\ (InCall(x)' <=> InCall(x)),
         \A m \in Messages : Claims(r, m)' => Claims(r, m),
         \A m \in Messages : Claims(r, m) /\ ~Claims(r, m)' => ~IsFree(r) /\ IsFree(r)',
         UNCHANGED <<net, recvList, slot, ops, unexpected, expected>>
  PROVE  Placed' /\ Kept
<1>1. \A x \in Requests, m \in Messages : x # r => (Claims(x, m)' <=> Claims(x, m))
  BY SameClaims
<1>2. ASSUME NEW m \in Messages
      PROVE  /\ PlacesOf(m)' \subseteq PlacesOf(m)
             /\ PlacesOf(m) # {} /\ PlacesOf(m)' = {} => Claims(r, m) /\ ~Claims(r, m)'
  <2>1. ASSUME NEW p \in PlacesOf(m)'  PROVE p \in PlacesOf(m)
    BY <1>1, PlaceIs, PlaceIsNext DEF Holds
  <2>2. ASSUME NEW p \in PlacesOf(m)  PROVE p \in PlacesOf(m)' \/ (p = With(r) /\ Claims(r, m) /\ ~Claims(r, m)')
    BY <1>1, PlaceIs, PlaceIsNext, PlacesDiffer DEF Holds
  <2> QED
    BY <2>1, <2>2
<1>3. OnePlace' /\ Kept
  BY <1>2 DEF Placed, OnePlace, Kept
<1>4. ~Contains(expected, r)
  BY DEF Matched, ExpectedPosted, IInv, PendingIsTracked, ToReceive
<1>5. Unfilled'
  BY <1>4 DEF Placed, Unfilled, Pending
<1>6. Once'
  BY DEF Placed, Once
<1> QED
  BY <1>3, <1>5, <1>6 DEF Placed

(* A send has no message to receive.                                       *)
LEMMA SendPlaces ==
  ASSUME IInv, Matched, Placed, NEW r \in SendRequests, NEW c \in Channels, NEW tag \in Tags,
         clh_send(r, c, tag)
  PROVE  Placed' /\ Kept
<1> USE DEF clh_send, listVars, appVars, runVars, workVars, ucxVars
<1>0. TypeOK /\ r \in Requests /\ req[r] \in RequestRecords /\ req[r].rx = NoMsg /\ req[r].msg = NoMsg
  BY DEF IInv, TypeOK, Requests, Matched, RequestsOK, RequestOK
<1>1. /\ IsFree(r) /\ \A t \in Threads : call[t] # NoCall => call[t].req # r
      /\ \A x \in Requests : IsFree(x)' <=> IsFree(x) /\ x # r
  BY TakeNode
<1>2. /\ req'[r] = [req[r] EXCEPT !.type = "SEND", !.completed = FALSE,
                        !.env = [channel |-> c, source |-> NodeId, tag |-> tag]]
      /\ \A x \in Requests : x # r => req'[x] = req[x]
      /\ UNCHANGED <<call, net, recvList, slot, ops, unexpected, expected>>
  BY <1>0 DEF TypeOK
<1> HIDE DEF clh_send
<1>3. req'[r].msg = NoMsg /\ req'[r].rx = NoMsg
  BY <1>0, <1>2 DEF RequestRecords
<1>4. \A m \in Messages : ~Claims(r, m) /\ ~Claims(r, m)'
  BY <1>0, <1>3, MessagesType DEF Claims
<1>5. \A x \in Requests : InCall(x)' <=> InCall(x)
  BY <1>2 DEF InCall
<1>7. ~Pending(r)
  BY <1>1 DEF Pending
<1> QED
  BY <1>0, <1>1, <1>2, <1>3, <1>4, <1>5, <1>7, CallPlaces

(* A receive starts without one.                                           *)
LEMMA RecvPlaces ==
  ASSUME IInv, Matched, Placed, NEW r \in RecvRequests, NEW f \in Filters, clh_recv_(r, f)
  PROVE  Placed' /\ Kept
<1> USE DEF clh_recv_, listVars, appVars, runVars, workVars, ucxVars
<1>0. TypeOK /\ r \in Requests /\ req[r] \in RequestRecords
  BY DEF IInv, TypeOK, Requests
<1>1. /\ IsFree(r) /\ \A t \in Threads : call[t] # NoCall => call[t].req # r
      /\ \A x \in Requests : IsFree(x)' <=> IsFree(x) /\ x # r
  BY TakeNode
<1>2. /\ req'[r] = [req[r] EXCEPT !.type = "RECV", !.completed = FALSE,
                                  !.filter = f, !.msg = NoMsg, !.rx = NoMsg]
      /\ \A x \in Requests : x # r => req'[x] = req[x]
      /\ UNCHANGED <<call, net, recvList, slot, ops, unexpected, expected>>
  BY <1>0 DEF TypeOK
<1> HIDE DEF clh_recv_
<1>3. req'[r].msg = NoMsg /\ req'[r].rx = NoMsg
  BY <1>0, <1>2 DEF RequestRecords
<1>4. \A m \in Messages : ~Claims(r, m) /\ ~Claims(r, m)'
  BY <1>1, <1>3, MessagesType DEF Claims
<1>5. \A x \in Requests : InCall(x)' <=> InCall(x)
  BY <1>2 DEF InCall
<1>7. ~Pending(r)
  BY <1>1 DEF Pending
<1> QED
  BY <1>0, <1>1, <1>2, <1>3, <1>4, <1>5, <1>7, CallPlaces

(* A probe takes none before it removes.                                   *)
LEMMA ProbePlaces ==
  ASSUME IInv, Matched, Placed, NEW t \in Threads, NEW r \in ProbeRequests, NEW f \in Filters,
         NEW remove \in BOOLEAN, clh_probe_(t, r, f, remove)
  PROVE  Placed' /\ Kept
<1> USE DEF clh_probe_, listVars, appVars, runVars, workVars, ucxVars
<1>0. TypeOK /\ r \in Requests /\ req[r] \in RequestRecords
  BY DEF IInv, TypeOK, Requests
<1>1. /\ IsFree(r) /\ \A u \in Threads : call[u] # NoCall => call[u].req # r
      /\ \A x \in Requests : IsFree(x)' <=> IsFree(x) /\ x # r
  BY TakeNode
<1> DEFINE i == message_search(f.channel, f)
           new == [pc |-> "full_tag", req |-> r, channel |-> f.channel, slot |-> recvList[f.channel][i]]
<1>2. /\ req'[r] = [req[r] EXCEPT !.type = "PROBE", !.completed = TRUE, !.filter = f,
                                  !.msg = NoMsg, !.rx = NoMsg,
                                  !.result = FALSE, !.remove = remove]
      /\ \A x \in Requests : x # r => req'[x] = req[x]
      /\ UNCHANGED <<net, recvList, slot, ops, unexpected, expected>>
      /\ call' = [call EXCEPT ![t] = IF i = 0 THEN NoCall ELSE new]
      /\ call[t] = NoCall
  BY <1>0 DEF TypeOK
<1>3. new.req = r /\ new.pc = "full_tag"
  OBVIOUS
<1> HIDE DEF clh_probe_, i, new
<1>4. req'[r].msg = NoMsg /\ req'[r].rx = NoMsg
  BY <1>0, <1>2 DEF RequestRecords
<1>5. \A m \in Messages : ~Claims(r, m) /\ ~Claims(r, m)'
  BY <1>1, <1>4, MessagesType DEF Claims
<1>6. /\ \A u \in Threads : u # t => call'[u] = call[u]
      /\ call'[t] = NoCall \/ call'[t] = new
  BY <1>0, <1>2 DEF TypeOK
<1>7. \A x \in Requests : x # r => (InCall(x)' <=> InCall(x))
  BY <1>2, <1>3, <1>6 DEF InCall
<1>9. ~Pending(r)
  BY <1>1 DEF Pending
<1> QED
  BY <1>0, <1>1, <1>2, <1>4, <1>5, <1>7, <1>9, CallPlaces

(* Receiving with a probe's request keeps the message a removal took.      *)
LEMMA RequestRecvPlaces ==
  ASSUME IInv, Matched, Placed, NEW r \in ProbeRequests, clh_request_recv(r)
  PROVE  Placed' /\ Kept
<1> USE DEF clh_request_recv, listVars, appVars, runVars, workVars, ucxVars
<1>0. /\ TypeOK /\ r \in Requests /\ req[r] \in RequestRecords /\ RequestOK(r)
      /\ req[r].result /\ ~Pending(r) /\ ~InCall(r) /\ req[r].rx = NoMsg
  BY DEF IInv, TypeOK, Requests, Matched, RequestsOK, RequestOK, ResultsCompleted, Pending
<1>1. /\ req'[r] = [req[r] EXCEPT !.completed = FALSE, !.result = FALSE,
                        !.filter = Exactly(Envelope(req[r].seen)), !.msg = HandleToReceive(r),
                        !.seen = NoMsg]
      /\ \A x \in Requests : x # r => req'[x] = req[x]
      /\ UNCHANGED <<free, call, net, recvList, slot, ops, unexpected, expected>>
  BY <1>0 DEF TypeOK
<1>2. \A t \in Threads : call[t] # NoCall => call[t].req # r
  BY <1>0 DEF InCall
<1> HIDE DEF clh_request_recv
<1>3. /\ req'[r].msg = (IF req[r].remove THEN req[r].msg ELSE NoMsg) /\ req'[r].rx = NoMsg
      /\ ~req'[r].result /\ req'[r].remove = req[r].remove
  BY <1>0, <1>1 DEF RequestRecords, HandleToReceive
<1>4. \A x \in Requests : (IsFree(x)' <=> IsFree(x)) /\ (InCall(x)' <=> InCall(x))
  BY <1>1 DEF IsFree, InCall
<1>5. \A m \in Messages : Claims(r, m)' <=> Claims(r, m)
  BY <1>0, <1>3, <1>4, MessagesType DEF Claims
<1> QED
  BY <1>0, <1>1, <1>3, <1>4, <1>5, CallPlaces

(* Only a release forgets a message, that of its request.                  *)
LEMMA ReleasePlaces ==
  ASSUME IInv, Matched, Placed, NEW r \in Requests, clh_request_release(r)
  PROVE  Placed' /\ Kept
<1> USE DEF clh_request_release, listVars, appVars, runVars, workVars, ucxVars
<1>0. /\ TypeOK /\ req[r] \in RequestRecords /\ req[r].type \in Types
      /\ ~Pending(r) /\ ~InCall(r) /\ ~IsFree(r)
  BY DEF IInv, TypeOK, RequestRecords, Pending, IsFree
<1>1. /\ req'[r].rx = NoMsg
      /\ \A x \in Requests : x # r => req'[x] = req[x]
      /\ free' = [free EXCEPT ![req[r].type] = @ \cup {r}]
      /\ UNCHANGED <<call, net, recvList, slot, ops, unexpected, expected>>
  BY <1>0 DEF TypeOK
<1>2. \A t \in Threads : call[t] # NoCall => call[t].req # r
  BY <1>0 DEF InCall
<1> HIDE DEF clh_request_release
<1>3. \A x \in Requests : (IsFree(x)' <=> IsFree(x) \/ x = r) /\ (InCall(x)' <=> InCall(x))
  BY <1>0, <1>1 DEF TypeOK, IsFree, InCall
<1>4. \A m \in Messages : ~Claims(r, m)'
  BY <1>3 DEF Claims
<1> QED
  BY <1>0, <1>1, <1>3, <1>4, CallPlaces

(* A probe that only looks takes no message, one that removes not yet.     *)
LEMMA CopyPlaces ==
  ASSUME Exclusive, IInv, Matched, Placed, NEW t \in Threads, ProbeCopy(t)
  PROVE  Placed' /\ Kept
<1> USE DEF ProbeCopy, listVars, appVars, runVars, workVars, ucxVars
<1>0. TypeOK /\ call[t] # NoCall /\ call[t].pc \in DOMAIN CopiedNext /\ CallsFresh
  BY DEF IInv, NoCall, CopiedNext, Matched
<1>1. PICK r \in ProbeRequests, m \in Messages, field \in DOMAIN CopiedNext :
        /\ r = call[t].req /\ m = slot[call[t].channel][call[t].slot]
        /\ field = call[t].pc
  BY <1>0, InProbeCall
<1>2. /\ r \in Requests /\ req[r] \in RequestRecords /\ InCall(r)
      /\ ~IsFree(r) /\ req[r].completed /\ ~Pending(r) /\ req[r].rx = NoMsg
  BY <1>0, <1>1, InProbeCall DEF TypeOK, Pending, CallsFresh, InCall
<1>3. /\ req' = [req EXCEPT ![r] = Copied(@, field, m)]
      /\ call' = [call EXCEPT ![t] = IF field = "tag" /\ ~req[r].remove THEN NoCall
                                     ELSE [@ EXCEPT !.pc = CopiedNext[field]]]
      /\ UNCHANGED <<free, net, recvList, slot, ops, unexpected, expected>>
  BY <1>1
<1> HIDE DEF ProbeCopy
<1>4. /\ req'[r] = Copied(req[r], field, m)
      /\ \A x \in Requests : x # r => req'[x] = req[x]
  BY <1>0, <1>2, <1>3 DEF TypeOK
<1>5. /\ req'[r].rx = NoMsg /\ req'[r].remove = req[r].remove /\ req'[r].completed
      /\ req'[r].result <=> req[r].result \/ field = "full_tag"
  <2>1. PICK q \in RequestRecords : q = req[r]
    BY <1>2
  <2>2. LET n == Copied(q, field, m) IN
        /\ n.rx = q.rx /\ n.remove = q.remove /\ n.completed = q.completed
        /\ n.result <=> q.result \/ field = "full_tag"
    BY CopiedRecord
  <2> QED
    BY <1>2, <1>4, <2>1, <2>2
<1>6. \A u \in Threads :
        /\ u # t => call'[u] = call[u]
        /\ u = t => IF field = "tag" /\ ~req[r].remove THEN call'[u] = NoCall
                    ELSE call'[u] # NoCall /\ call'[u].req = r
  <2>1. call[t] \in CallRecords /\ call \in [Threads -> CallRecords \cup {NoCall}]
    BY <1>0, InProbeCall DEF TypeOK
  <2>2. LET n == [call[t] EXCEPT !.pc = CopiedNext[field]] IN
        n.req = call[t].req /\ n.pc = CopiedNext[field]
    BY <2>1 DEF CallRecords
  <2>3. CopiedNext[field] # NoCall.pc
    BY DEF CopiedNext, NoCall
  <2> QED
    BY <1>1, <1>3, <2>1, <2>2, <2>3
<1>7. \A x \in Requests : IsFree(x)' <=> IsFree(x)
  BY <1>3 DEF IsFree
<1>8. \A x \in Requests : x # r => (InCall(x)' <=> InCall(x))
  BY <1>0, <1>1, <1>6 DEF InCall
<1>9. \A m2 \in Messages : ~Claims(r, m2) /\ ~Claims(r, m2)'
  <2>1. CASE field = "tag" /\ ~req[r].remove
    <3>1. CopiedSoFar(req[r], field, m) => req[r].result
      BY <2>1 DEF CopiedSoFar
    <3>2. req[r].result
      <4>1. Exclusive => CopiedSoFar(req[r], field, m)
        BY <1>0, <1>1 DEF Matched, KeepClear
      <4> QED
        BY <3>1, <4>1
    <3> QED
      BY <1>2, <1>5, <2>1, <3>2, MessagesType DEF Claims
  <2>2. CASE ~(field = "tag" /\ ~req[r].remove)
    <3>1. InCall(r)'
      BY <1>0, <1>6, <2>2 DEF InCall
    <3> QED
      BY <1>2, <1>5, <3>1, MessagesType DEF Claims
  <2> QED
    BY <2>1, <2>2
<1> QED
  BY <1>2, <1>3, <1>4, <1>5, <1>7, <1>8, <1>9, CallPlaces

(* A removal moves the message from its node to the probe's request.       *)
LEMMA RemovePlaces ==
  ASSUME Exclusive, IInv, Matched, Placed, NEW t \in Threads, ProbeRemove(t)
  PROVE  Placed' /\ Kept
<1> USE DEF ProbeRemove, listVars, appVars, runVars, workVars, ucxVars
<1>0. TypeOK /\ KeepClear /\ call[t] # NoCall /\ call[t].pc = "remove"
  BY DEF IInv, NoCall, Matched
<1>1. PICK r \in ProbeRequests, c \in Channels, s \in Slots, m \in Messages :
        r = call[t].req /\ c = call[t].channel /\ s = call[t].slot /\ m = slot[c][s]
  BY <1>0, InProbeCall
<1>2. /\ r \in Requests /\ Contains(recvList[c], s) /\ ~IsFree(r) /\ Removing(t)
      /\ req[r].result /\ req[r].msg = m /\ req[r].rx = NoMsg /\ req[r].remove
  <2>1. CopiedSoFar(req[r], "remove", m)
    BY <1>0, <1>1 DEF KeepClear
  <2>2. r \in Requests /\ req[r].result /\ req[r].msg = m
    BY <2>1 DEF Requests, CopiedSoFar
  <2> QED
    BY <1>0, <1>1, <2>2, InProbeCall DEF Matched, CallsFresh, KeepClear, Removing
<1>3. /\ recvList' = [recvList EXCEPT ![c] = RemoveFirst(@, s)]
      /\ UNCHANGED <<free, req, slot, net, ops, unexpected, expected>>
      /\ call' = [call EXCEPT ![t] = NoCall]
  BY <1>1, <1>2 DEF clh_list_remove_node
<1> HIDE DEF ProbeRemove
<1>4. \A u \in Threads : call'[u] = NoCall
  BY <1>0, <1>2, <1>3 DEF KeepClear, TypeOK
<1>5. /\ \A d \in Channels : IsInjective(recvList'[d])
      /\ \A d \in Channels, x \in Slots :
           Contains(recvList'[d], x) <=> Contains(recvList[d], x) /\ ~(d = c /\ x = s)
  <2>1. recvList[c] \in Seq(Slots) /\ IsInjective(recvList[c])
    BY <1>0 DEF TypeOK, Placed, Once
  <2>2. /\ IsInjective(RemoveFirst(recvList[c], s))
        /\ \A y : Contains(RemoveFirst(recvList[c], s), y) <=> Contains(recvList[c], y) /\ y # s
    BY <1>2, <2>1, RemoveFirstExactly
  <2> QED
    BY <1>0, <1>3, <2>2 DEF TypeOK, Placed, Once
<1>6. \A x \in Requests : (IsFree(x)' <=> IsFree(x)) /\ (InCall(x) <=> x = r) /\ ~InCall(x)'
  BY <1>0, <1>1, <1>2, <1>3, <1>4 DEF IsFree, InCall, KeepClear
<1>7. \A x \in Requests, m2 \in Messages :
        Claims(x, m2)' <=> Claims(x, m2) \/ (x = r /\ m2 = m)
  BY <1>2, <1>3, <1>6, MessagesType DEF Claims
<1>8. \A d \in Channels, x \in Slots, m2 \in Messages :
        Holds(d, x, m2)' <=> Holds(d, x, m2) /\ ~(d = c /\ x = s)
  BY <1>3, <1>5 DEF Holds
<1>9. InNode(c, s) \in PlacesOf(m)
  BY <1>1, <1>2, PlaceIs DEF Holds
<1>10. PlacesOf(m)' = (PlacesOf(m) \ {InNode(c, s)}) \cup {With(r)}
  <2>1. ASSUME NEW p  PROVE p \in PlacesOf(m)' <=> (p \in PlacesOf(m) /\ p # InNode(c, s)) \/ p = With(r)
    BY <1>2, <1>3, <1>7, <1>8, PlaceIs, PlaceIsNext, PlacesDiffer
  <2> QED
    BY <2>1
<1>11. ASSUME NEW x \in Messages, x # m  PROVE PlacesOf(x)' = PlacesOf(x)
  <2>1. ~Holds(c, s, x)
    BY <1>1, <1>11 DEF Holds
  <2>2. ASSUME NEW p  PROVE p \in PlacesOf(x)' <=> p \in PlacesOf(x)
    BY <1>3, <1>7, <1>8, <1>11, <2>1, PlaceIs, PlaceIsNext
  <2> QED
    BY <2>2
<1>12. OnePlace' /\ Kept
  BY <1>9, <1>10, <1>11, Moves DEF Placed
<1>13. Once' /\ Unfilled'
  BY <1>3, <1>4, <1>5, <1>6 DEF Placed, Once, Unfilled, Pending
<1> QED
  BY <1>12, <1>13 DEF Placed
-----------------------------------------------------------------------------
(* UCX's oldest unexpected message moves to a node of its channel's list.  *)
LEMMA IncomingPlaces ==
  ASSUME Exclusive, IInv, Matched, Placed, probe_incomming_messages_
  PROVE  Placed' /\ Kept
<1> USE DEF probe_incomming_messages_, listVars, appVars, runVars, workVars, ucxVars
<1>0. TypeOK /\ KeepClear
  BY DEF IInv, Matched
<1>1. UNCHANGED <<free, req, call, net, ops, expected>>
  OBVIOUS
<1>2. \A x \in Requests, m2 \in Messages : Claims(x, m2)' <=> Claims(x, m2)
  BY <1>1 DEF Claims, IsFree, InCall
<1>3. Unfilled'
  BY <1>1 DEF Placed, Unfilled, Pending, IsFree
<1>4. CASE unexpected = <<>>
  BY <1>1, <1>2, <1>3, <1>4, NoMove DEF Placed, Once
<1>5. CASE unexpected # <<>>
  <2> DEFINE h == Head(unexpected)
  <2>1. /\ h \in Messages /\ h.channel \in Channels /\ Contains(unexpected, h)
        /\ IsInjective(Tail(unexpected)) /\ ~Contains(Tail(unexpected), h)
        /\ \A x : Contains(unexpected, x) <=> Contains(Tail(unexpected), x) \/ x = h
    BY <1>0, <1>5, TailContains, MessagesType DEF TypeOK, Placed, Once
  <2>2. PICK m \in Messages, c \in Channels : m = h /\ c = h.channel
    BY <2>1
  <2>3. PICK s \in Slots : /\ ~Contains(recvList[c], s)
                           /\ recvList' = [recvList EXCEPT ![c] = Append(@, s)]
                           /\ slot' = [slot EXCEPT ![c][s] = m]
    <3>1. recvList[c] \in Seq(Slots)
      BY <1>0 DEF TypeOK
    <3>2. \A x : x \notin ToSet(recvList[c]) <=> ~Contains(recvList[c], x)
      BY <3>1 DEF ToSet, Contains
    <3> QED
      BY <1>5, <2>2, <3>2 DEF clh_list_new_node, clh_list_push_node
  <2>4. unexpected' = Tail(unexpected)
    BY <1>5
  <2> HIDE DEF h, probe_incomming_messages_
  <2>5. /\ \A d \in Channels : IsInjective(recvList'[d])
        /\ \A d \in Channels, x \in Slots :
             Contains(recvList'[d], x) <=> Contains(recvList[d], x) \/ (d = c /\ x = s)
        /\ \A d \in Channels, x \in Slots :
             slot'[d][x] = IF d = c /\ x = s THEN m ELSE slot[d][x]
    <3>1. recvList[c] \in Seq(Slots) /\ IsInjective(recvList[c])
      BY <1>0 DEF TypeOK, Placed, Once
    <3>2. /\ \A y : Contains(Append(recvList[c], s), y) <=> Contains(recvList[c], y) \/ y = s
          /\ IsInjective(Append(recvList[c], s))
      BY <2>3, <3>1, AppendContains
    <3> QED
      BY <1>0, <2>3, <3>2 DEF TypeOK, Placed, Once
  <2>6. \A d \in Channels, x \in Slots, m2 \in Messages :
          Holds(d, x, m2)' <=> Holds(d, x, m2) \/ (d = c /\ x = s /\ m2 = m)
    BY <2>3, <2>5 DEF Holds
  <2>7. InUcx \in PlacesOf(m)
    BY <2>1, <2>2, PlaceIs
  <2>8. PlacesOf(m)' = (PlacesOf(m) \ {InUcx}) \cup {InNode(c, s)}
    <3>1. ASSUME NEW p  PROVE p \in PlacesOf(m)' <=> (p \in PlacesOf(m) /\ p # InUcx) \/ p = InNode(c, s)
      BY <1>1, <1>2, <2>1, <2>2, <2>4, <2>6, PlaceIs, PlaceIsNext, PlacesDiffer
    <3> QED
      BY <3>1
  <2>9. ASSUME NEW x \in Messages, x # m  PROVE PlacesOf(x)' = PlacesOf(x)
    <3>1. ASSUME NEW p  PROVE p \in PlacesOf(x)' <=> p \in PlacesOf(x)
      BY <1>1, <1>2, <2>1, <2>2, <2>4, <2>6, <2>9, PlaceIs, PlaceIsNext
    <3> QED
      BY <3>1
  <2>10. OnePlace' /\ Kept
    BY <2>7, <2>8, <2>9, Moves DEF Placed
  <2>12. Once'
    BY <1>1, <2>1, <2>4, <2>5 DEF Placed, Once
  <2> QED
    BY <1>3, <2>10, <2>12 DEF Placed
<1> QED
  BY <1>4, <1>5

(* process_recv_queue_ moves the message found from its node to the        *)
(* receive.                                                                *)
LEMMA ClaimPlaces ==
  ASSUME Exclusive, IInv, Matched, Placed, ClaimHeld
  PROVE  Placed' /\ Kept
<1> USE DEF ClaimHeld, listVars, appVars, runVars, workVars, ucxVars
<1> DEFINE h == Head(batch)
           d == req[h].env.channel
<1>0. /\ TypeOK /\ KeepClear /\ rpc = "claim" /\ FoundMatches
      /\ h \in Requests /\ h \in RecvRequests \cup ProbeRequests /\ Pending(h)
      /\ req[h] \in RequestRecords
  BY HeadPending DEF IInv, BatchWhileWalking, Walking, Matched, TypeOK
<1>1. PICK r \in Requests, c \in Channels, s \in Slots, m \in Messages :
        r = h /\ c = d /\ s = found /\ m = slot[c][s]
  <2>1. d \in Channels
    BY <1>0 DEF IInv, ListedHold
  <2>2. found \in Slots /\ slot[d][found] \in Messages
    BY <1>0, <2>1 DEF IInv, ListedHold, TypeOK
  <2> QED
    BY <1>0, <2>1, <2>2
<1>2. /\ req[r].msg = NoMsg /\ Pending(r) /\ req[r] \in RequestRecords /\ ~IsFree(r)
      /\ ~req[r].completed /\ ~req[r].result /\ Contains(recvList[c], s)
  BY <1>0, <1>1 DEF FoundMatches, KeepClear, Pending, IInv, ResultsCompleted
<1>3. /\ req' = [req EXCEPT ![r] = [@ EXCEPT !.msg = m, !.env = Envelope(m)]]
      /\ recvList' = [recvList EXCEPT ![c] = RemoveFirst(@, s)]
      /\ UNCHANGED <<free, call, slot, net, ops, unexpected, expected>>
  BY <1>1, <1>2 DEF clh_list_remove_node
<1>4. /\ req'[r] = [req[r] EXCEPT !.msg = m, !.env = Envelope(m)]
      /\ \A x \in Requests : x # r => req'[x] = req[x]
  BY <1>0, <1>3 DEF TypeOK
<1> HIDE DEF ClaimHeld, h, d
<1>5. /\ req'[r].msg = m /\ req'[r].rx = req[r].rx /\ req'[r].result = req[r].result
      /\ req'[r].remove = req[r].remove /\ req'[r].completed = req[r].completed
  BY <1>2, <1>4 DEF RequestRecords
<1>6. /\ \A b \in Channels : IsInjective(recvList'[b])
      /\ \A b \in Channels, x \in Slots :
           Contains(recvList'[b], x) <=> Contains(recvList[b], x) /\ ~(b = c /\ x = s)
  <2>1. recvList[c] \in Seq(Slots) /\ IsInjective(recvList[c])
    BY <1>0 DEF TypeOK, Placed, Once
  <2>2. /\ IsInjective(RemoveFirst(recvList[c], s))
        /\ \A y : Contains(RemoveFirst(recvList[c], s), y) <=> Contains(recvList[c], y) /\ y # s
    BY <1>2, <2>1, RemoveFirstExactly
  <2> QED
    BY <1>0, <1>3, <2>2 DEF TypeOK, Placed, Once
<1>7. \A x \in Requests : /\ IsFree(x)' <=> IsFree(x)
                          /\ InCall(x)' <=> InCall(x)
                          /\ Pending(x)' <=> Pending(x)
  BY <1>3, <1>4, <1>5 DEF IsFree, InCall, Pending
<1>8. ~InCall(r) /\ \A t \in Threads : call[t] # NoCall => call[t].req \in Requests /\ call[t].req # r
  BY <1>2, InProbeCall DEF InCall, Pending
<1>9. \A x \in Requests, m2 \in Messages :
        Claims(x, m2)' <=> Claims(x, m2) \/ (x = r /\ m2 = m)
  BY <1>2, <1>4, <1>5, <1>7, <1>8, MessagesType DEF Claims
<1>10. \A b \in Channels, x \in Slots, m2 \in Messages :
         Holds(b, x, m2)' <=> Holds(b, x, m2) /\ ~(b = c /\ x = s)
  BY <1>3, <1>6 DEF Holds
<1>11. InNode(c, s) \in PlacesOf(m)
  BY <1>1, <1>2, PlaceIs DEF Holds
<1>12. PlacesOf(m)' = (PlacesOf(m) \ {InNode(c, s)}) \cup {With(r)}
  <2>1. ASSUME NEW p  PROVE p \in PlacesOf(m)' <=> (p \in PlacesOf(m) /\ p # InNode(c, s)) \/ p = With(r)
    BY <1>3, <1>9, <1>10, PlaceIs, PlaceIsNext, PlacesDiffer
  <2> QED
    BY <2>1
<1>13. ASSUME NEW x \in Messages, x # m  PROVE PlacesOf(x)' = PlacesOf(x)
  <2>1. ~Holds(c, s, x)
    BY <1>1, <1>13 DEF Holds
  <2>2. ASSUME NEW p  PROVE p \in PlacesOf(x)' <=> p \in PlacesOf(x)
    BY <1>3, <1>9, <1>10, <1>13, <2>1, PlaceIs, PlaceIsNext
  <2> QED
    BY <2>2
<1>14. OnePlace' /\ Kept
  BY <1>11, <1>12, <1>13, Moves DEF Placed
<1>15. Unfilled'
  <2>1. ~Contains(expected, r)
    <3>1. ~Contains(ops, r)
      BY <1>0, <1>1, HeadPending DEF IInv, OpsOnce, BatchWhileWalking, Walking, Dead, h
    <3> QED
      BY <3>1 DEF Matched, ExpectedPosted
  <2> QED
    BY <1>3, <1>4, <1>5, <1>7, <2>1 DEF Placed, Unfilled
<1>17. Once'
  BY <1>3, <1>6 DEF Placed, Once
<1> QED
  BY <1>14, <1>15, <1>17 DEF Placed

(* A posted receive gets what it brings, takes a message from UCX, or      *)
(* waits.                                                                  *)
LEMMA PostPlaces ==
  ASSUME IInv, Matched, Placed, PostRecv
  PROVE  Placed' /\ Kept
<1> USE DEF PostRecv, listVars, appVars, runVars, workVars, ucxVars
<1> DEFINE h == Head(batch)
           I == {k \in 1 .. Len(unexpected) : Matches(unexpected[k], req[h].filter)}
           j == SelectInSeq(unexpected, LAMBDA m : Matches(m, req[h].filter))
<1>0. /\ TypeOK /\ TypeOK' /\ rpc = "post" /\ unexpected \in Seq(Messages)
      /\ h \in Requests /\ h \in RecvRequests \cup ProbeRequests /\ Pending(h)
      /\ req[h] \in RequestRecords /\ batch # <<>> /\ Contains(batch, h)
  BY PostStep, HeadPending DEF IInv, BatchWhileWalking, Walking, TypeOK
<1>1. j = IF I # {} THEN Min(I) ELSE 0
  BY DEF SelectInSeq
<1>2. /\ ops' = Append(ops, h)
      /\ req' = [req EXCEPT ![h] = [@ EXCEPT !.rx = IF req[h].msg # NoMsg THEN req[h].msg
                                          ELSE IF j # 0 THEN unexpected[j] ELSE NoMsg]]
      /\ expected' = IF req[h].msg # NoMsg \/ j # 0 THEN expected ELSE Append(expected, h)
      /\ unexpected' = IF req[h].msg = NoMsg /\ j # 0 THEN RemoveAt(unexpected, j) ELSE unexpected
      /\ UNCHANGED <<free, call, net, recvList, slot>>
  OBVIOUS
<1> HIDE DEF PostRecv, j
<1>3. PICK i : i = j
  OBVIOUS
<1>4. PICK r \in Requests : r = h /\ r \in RecvRequests \cup ProbeRequests
  BY <1>0
<1>5. i # 0 => i \in 1 .. Len(unexpected)
  <2>1. I \in SUBSET (1 .. Len(unexpected)) /\ Len(unexpected) \in Nat
    BY <1>0
  <2>2. i # 0 => i \in I
    <3> HIDE DEF I
    <3> QED
      BY <1>1, <1>3, <2>1, LeastOf
  <2> QED
    BY <2>2
<1>6. /\ req[r] \in RequestRecords /\ Pending(r) /\ ~IsFree(r) /\ ~InCall(r)
      /\ ~req[r].result /\ req[r].rx = NoMsg
      /\ ~Contains(ops, r) /\ ~Contains(expected, r)
  <2>1. Pending(r) /\ ~IsFree(r) /\ ~req[r].result
    BY <1>0, <1>4 DEF Pending, IInv, ResultsCompleted
  <2>2. ~Contains(ops, r)
    BY <1>0, <1>4 DEF IInv, OpsOnce, Dead
  <2>3. ~InCall(r)
    BY <2>1, InProbeCall DEF InCall, Pending
  <2> QED
    BY <1>0, <1>4, <2>1, <2>2, <2>3 DEF Placed, Unfilled, Matched, ExpectedPosted
<1> DEFINE rx == IF req[r].msg # NoMsg THEN req[r].msg ELSE IF i # 0 THEN unexpected[i] ELSE NoMsg
<1>7. /\ req'[r] = [req[r] EXCEPT !.rx = rx]
      /\ \A x \in Requests : x # r => req'[x] = req[x]
  BY <1>0, <1>2, <1>3, <1>4 DEF TypeOK
<1>8. /\ \A x : Contains(ops', x) <=> Contains(ops, x) \/ x = r
      /\ UNCHANGED <<free, call, net, recvList, slot>>
      /\ expected' = IF req[r].msg # NoMsg \/ i # 0 THEN expected ELSE Append(expected, r)
      /\ unexpected' = IF req[r].msg = NoMsg /\ i # 0 THEN RemoveAt(unexpected, i) ELSE unexpected
  <2>1. \A x : Contains(ops', x) <=> Contains(ops, x) \/ x = r
    BY <1>0, <1>2, <1>4, AppendContains DEF TypeOK
  <2> QED
    BY <1>2, <1>3, <1>4, <2>1
<1> HIDE DEF h, I, rx
<1>9. /\ req'[r].msg = req[r].msg /\ req'[r].completed = req[r].completed
      /\ req'[r].rx = rx /\ req'[r].result = req[r].result /\ req'[r].remove = req[r].remove
  BY <1>6, <1>7 DEF RequestRecords
<1>10. \A x \in Requests : /\ IsFree(x)' <=> IsFree(x)
                           /\ InCall(x)' <=> InCall(x)
                           /\ Pending(x)' <=> Pending(x)
  BY <1>7, <1>8, <1>9 DEF IsFree, InCall, Pending
<1>11. \A x \in Requests, m2 \in Messages : x # r => (Claims(x, m2)' <=> Claims(x, m2))
  BY <1>7, <1>10, SameClaims
<1>13. expected \in Seq(RecvRequests \cup ProbeRequests) /\ IsInjective(expected)
  BY <1>0 DEF TypeOK, Placed, Once
<1>14. CASE req[r].msg # NoMsg \/ i = 0
  <2>1. rx = req[r].msg /\ unexpected' = unexpected
    BY <1>8, <1>14 DEF rx
  <2>2. \A m2 \in Messages : Claims(r, m2)' <=> Claims(r, m2)
    BY <1>6, <1>9, <1>10, <2>1, MessagesType DEF Claims
  <2>3. OnePlace' /\ Kept
    BY <1>8, <1>11, <2>1, <2>2, NoMove DEF Placed
  <2>4. /\ \A x : Contains(expected', x) => Contains(expected, x) \/ (x = r /\ req[r].msg = NoMsg)
        /\ IsInjective(expected')
    BY <1>4, <1>6, <1>8, <1>13, AppendContains
  <2>5. Once'
    BY <1>8, <2>1, <2>4 DEF Placed, Once
  <2>6. Unfilled'
    BY <1>6, <1>7, <1>8, <1>9, <1>10, <2>1, <2>4 DEF Placed, Unfilled
  <2> QED
    BY <2>3, <2>5, <2>6 DEF Placed
<1>15. CASE req[r].msg = NoMsg /\ i # 0
  <2>1. PICK m \in Messages : m = unexpected[i]
    BY <1>0, <1>5, <1>15
  <2>2. /\ rx = m /\ expected' = expected /\ unexpected' = RemoveAt(unexpected, i)
    BY <1>8, <1>15, <2>1 DEF rx
  <2>3. \A m2 \in Messages : Claims(r, m2)' <=> Claims(r, m2) \/ m2 = m
    BY <1>6, <1>9, <1>10, <1>15, <2>2, MessagesType DEF Claims
  <2>4. /\ \A x : Contains(unexpected', x) <=> Contains(unexpected, x) /\ x # m
        /\ IsInjective(unexpected') /\ Contains(unexpected, m)
    <3>1. i \in 1 .. Len(unexpected) /\ IsInjective(unexpected)
      BY <1>5, <1>15 DEF Placed, Once
    <3>2. Contains(unexpected, m)
      BY <1>0, <2>1, <3>1 DEF Contains
    <3> QED
      BY <1>0, <2>1, <2>2, <3>1, <3>2, RemoveAtContains, RemoveAtInjective
  <2>5. \A d \in Channels, x \in Slots, m2 \in Messages : Holds(d, x, m2)' <=> Holds(d, x, m2)
    BY <1>8 DEF Holds
  <2>6. InUcx \in PlacesOf(m)
    BY <2>4, PlaceIs
  <2>7. PlacesOf(m)' = (PlacesOf(m) \ {InUcx}) \cup {With(r)}
    <3>1. ASSUME NEW p  PROVE p \in PlacesOf(m)' <=> (p \in PlacesOf(m) /\ p # InUcx) \/ p = With(r)
      BY <1>8, <1>11, <2>3, <2>4, <2>5, PlaceIs, PlaceIsNext, PlacesDiffer
    <3> QED
      BY <3>1
  <2>8. ASSUME NEW x \in Messages, x # m  PROVE PlacesOf(x)' = PlacesOf(x)
    <3>1. ASSUME NEW p  PROVE p \in PlacesOf(x)' <=> p \in PlacesOf(x)
      BY <1>8, <1>11, <2>3, <2>4, <2>5, <2>8, PlaceIs, PlaceIsNext
    <3> QED
      BY <3>1
  <2>9. OnePlace' /\ Kept
    BY <2>6, <2>7, <2>8, Moves DEF Placed
  <2>10. Once'
    BY <1>8, <2>2, <2>4 DEF Placed, Once
  <2>11. Unfilled'
    BY <1>6, <1>7, <1>8, <1>10, <2>2 DEF Placed, Unfilled
  <2> QED
    BY <2>9, <2>10, <2>11 DEF Placed
<1> QED
  BY <1>14, <1>15

(* What arrives moves to UCX's unexpected queue or to a posted receive.    *)
LEMMA ArrivalPlaces ==
  ASSUME IInv, Matched, Placed, NEW m \in Messages, ProgressArrival(m)
  PROVE  Placed' /\ Kept
<1> USE DEF ProgressArrival, listVars, appVars, runVars, workVars, ucxVars
<1> DEFINE I == {k \in 1 .. Len(expected) : Matches(m, req[expected[k]].filter)}
           j == SelectInSeq(expected, LAMBDA r : Matches(m, req[r].filter))
<1>0. /\ TypeOK /\ unexpected \in Seq(Messages) /\ IsInjective(unexpected)
      /\ expected \in Seq(RecvRequests \cup ProbeRequests) /\ IsInjective(expected)
      /\ m \in net /\ net' = net \ {m}
      /\ UNCHANGED <<free, call, recvList, slot, ops>>
  BY DEF IInv, TypeOK, Placed, Once
<1>1. j = IF I # {} THEN Min(I) ELSE 0
  BY DEF SelectInSeq
<1>2. \/ /\ j = 0 /\ unexpected' = Append(unexpected, m)
         /\ UNCHANGED <<expected, req>>
      \/ /\ j # 0 /\ expected' = RemoveAt(expected, j)
         /\ req' = [req EXCEPT ![expected[j]] = [@ EXCEPT !.rx = m]]
         /\ UNCHANGED unexpected
  OBVIOUS
<1> HIDE DEF ProgressArrival, j
<1>3. j # 0 => j \in 1 .. Len(expected)
  <2>1. I \in SUBSET (1 .. Len(expected)) /\ Len(expected) \in Nat
    BY <1>0
  <2>2. j # 0 => j \in I
    <3> HIDE DEF I
    <3> QED
      BY <1>1, <2>1, LeastOf
  <2> QED
    BY <2>2
<1> HIDE DEF I
<1>4. AtNet \in PlacesOf(m)
  BY <1>0, PlaceIs
<1>5. \A d \in Channels, x \in Slots, m2 \in Messages : Holds(d, x, m2)' <=> Holds(d, x, m2)
  BY <1>0 DEF Holds
<1>6. CASE j = 0
  <2>1. unexpected' = Append(unexpected, m) /\ UNCHANGED <<expected, req>>
    BY <1>2, <1>6
  <2>2. ~Contains(unexpected, m)
    BY <1>4, PlaceIs, PlacesDiffer DEF Placed, OnePlace
  <2>3. /\ \A x : Contains(unexpected', x) <=> Contains(unexpected, x) \/ x = m
        /\ IsInjective(unexpected')
    BY <1>0, <2>1, <2>2, AppendContains
  <2>4. \A x \in Requests, m2 \in Messages : Claims(x, m2)' <=> Claims(x, m2)
    BY <1>0, <2>1 DEF Claims, IsFree, InCall
  <2>5. PlacesOf(m)' = (PlacesOf(m) \ {AtNet}) \cup {InUcx}
    <3>1. ASSUME NEW p  PROVE p \in PlacesOf(m)' <=> (p \in PlacesOf(m) /\ p # AtNet) \/ p = InUcx
      BY <1>0, <1>5, <2>3, <2>4, PlaceIs, PlaceIsNext, PlacesDiffer
    <3> QED
      BY <3>1
  <2>6. ASSUME NEW x \in Messages, x # m  PROVE PlacesOf(x)' = PlacesOf(x)
    <3>1. ASSUME NEW p  PROVE p \in PlacesOf(x)' <=> p \in PlacesOf(x)
      BY <1>0, <1>5, <2>3, <2>4, <2>6, PlaceIs, PlaceIsNext
    <3> QED
      BY <3>1
  <2>7. OnePlace' /\ Kept
    BY <1>4, <2>5, <2>6, Moves DEF Placed
  <2>8. Once' /\ Unfilled'
    BY <1>0, <2>1, <2>3 DEF Placed, Once, Unfilled, Pending, IsFree
  <2> QED
    BY <2>7, <2>8 DEF Placed
<1>7. CASE j # 0
  <2>1. PICK r \in Requests : r = expected[j]
    BY <1>0, <1>3, <1>7 DEF Requests
  <2>2. /\ UNCHANGED unexpected
        /\ req' = [req EXCEPT ![r] = [@ EXCEPT !.rx = m]]
        /\ \A x : Contains(expected', x) => Contains(expected, x) /\ x # r
        /\ IsInjective(expected')
    BY <1>0, <1>2, <1>3, <1>7, <2>1, RemoveAtContains, RemoveAtInjective
  <2>3. /\ Contains(ops, r) /\ req[r] \in RequestRecords /\ Pending(r) /\ ~IsFree(r) /\ ~InCall(r)
        /\ ~req[r].result /\ req[r].rx = NoMsg /\ req[r].msg = NoMsg
    <3>1. Contains(expected, r)
      BY <1>0, <1>3, <1>7, <2>1 DEF Contains
    <3>2. Contains(ops, r) /\ Pending(r)
      BY <3>1 DEF Matched, ExpectedPosted, IInv, PendingIsTracked, ToReceive
    <3>3. ~InCall(r) /\ ~IsFree(r) /\ ~req[r].result
      BY <3>2, InProbeCall DEF InCall, Pending, IInv, ResultsCompleted
    <3> QED
      BY <1>0, <3>1, <3>2, <3>3 DEF Placed, Unfilled, TypeOK
  <2>4. /\ req'[r] = [req[r] EXCEPT !.rx = m]
        /\ \A x \in Requests : x # r => req'[x] = req[x]
    BY <1>0, <2>2 DEF TypeOK
  <2>5. /\ req'[r].msg = NoMsg /\ req'[r].rx = m /\ req'[r].completed = req[r].completed
    BY <2>3, <2>4 DEF RequestRecords
  <2>6. \A x \in Requests : /\ IsFree(x)' <=> IsFree(x)
                            /\ InCall(x)' <=> InCall(x)
                            /\ Pending(x)' <=> Pending(x)
    BY <1>0, <2>4, <2>5 DEF IsFree, InCall, Pending
  <2>7. \A x \in Requests, m2 \in Messages :
          Claims(x, m2)' <=> Claims(x, m2) \/ (x = r /\ m2 = m)
    <3>1. \A m2 \in Messages : ~Claims(r, m2) /\ (Claims(r, m2)' <=> m2 = m)
      BY <2>3, <2>5, <2>6, MessagesType DEF Claims
    <3>2. \A x \in Requests, m2 \in Messages : x # r => (Claims(x, m2)' <=> Claims(x, m2))
      BY <2>4, <2>6, SameClaims
    <3> QED
      BY <3>1, <3>2
  <2>8. PlacesOf(m)' = (PlacesOf(m) \ {AtNet}) \cup {With(r)}
    <3>1. ASSUME NEW p  PROVE p \in PlacesOf(m)' <=> (p \in PlacesOf(m) /\ p # AtNet) \/ p = With(r)
      BY <1>0, <1>5, <2>2, <2>7, PlaceIs, PlaceIsNext, PlacesDiffer
    <3> QED
      BY <3>1
  <2>9. ASSUME NEW x \in Messages, x # m  PROVE PlacesOf(x)' = PlacesOf(x)
    <3>1. ASSUME NEW p  PROVE p \in PlacesOf(x)' <=> p \in PlacesOf(x)
      BY <1>0, <1>5, <2>2, <2>7, <2>9, PlaceIs, PlaceIsNext
    <3> QED
      BY <3>1
  <2>10. OnePlace' /\ Kept
    BY <1>4, <2>8, <2>9, Moves DEF Placed
  <2>12. Once'
    BY <1>0, <2>2 DEF Placed, Once
  <2>13. Unfilled'
    BY <1>0, <2>2, <2>3, <2>4, <2>6 DEF Placed, Unfilled
  <2> QED
    BY <2>10, <2>12, <2>13 DEF Placed
<1> QED
  BY <1>6, <1>7

(* The end of an operation moves nothing.                                  *)
LEMMA OpDonePlaces ==
  ASSUME IInv, Matched, Placed, OpDone
  PROVE  Placed' /\ Kept
<1> USE DEF OpDone, listVars, appVars, runVars, workVars, ucxVars
<1>0. /\ TypeOK /\ ops \in Seq(Requests) /\ IsInjective(ops) /\ idx \in 1 .. Len(ops)
      /\ UNCHANGED <<free, call, net, recvList, slot, expected, unexpected>>
  BY DEF IInv, TypeOK, OpsOnce
<1>1. PICK r \in Requests : r = ops[idx]
  BY <1>0
<1>2. /\ ops' = array_remove(ops, idx)
      /\ req' = [req EXCEPT ![r] = [@ EXCEPT !.completed = TRUE, !.env = Sender(r)]]
      /\ ~Contains(expected, r)
  BY <1>1 DEF Outstanding
<1> HIDE DEF OpDone
<1>3. \A x : Contains(ops', x) <=> Contains(ops, x) /\ x # r
  BY <1>0, <1>1, <1>2, ArrayRemoveContains
<1>4. Pending(r) /\ req[r] \in RequestRecords
  BY <1>0, <1>1 DEF IInv, PendingIsTracked, ToReceive, TypeOK, Contains
<1>5. /\ req'[r] = [req[r] EXCEPT !.completed = TRUE, !.env = Sender(r)]
      /\ \A x \in Requests : x # r => req'[x] = req[x]
  BY <1>0, <1>2 DEF TypeOK
<1>6. /\ req'[r].completed /\ req'[r].msg = req[r].msg /\ req'[r].rx = req[r].rx
      /\ req'[r].result = req[r].result /\ req'[r].remove = req[r].remove
  BY <1>4, <1>5 DEF RequestRecords
<1>7. \A x \in Requests : /\ IsFree(x)' <=> IsFree(x)
                          /\ InCall(x)' <=> InCall(x)
                          /\ Pending(x)' <=> Pending(x) /\ x # r
  BY <1>0, <1>5, <1>6 DEF IsFree, InCall, Pending
<1>8. \A x \in Requests, m2 \in Messages : Claims(x, m2)' <=> Claims(x, m2)
  BY <1>5, <1>6, <1>7, SameClaims
<1>9. OnePlace' /\ Kept
  BY <1>0, <1>8, NoMove DEF Placed
<1>11. Once' /\ Unfilled'
  BY <1>0, <1>3, <1>5, <1>6, <1>7 DEF Placed, Once, Unfilled
<1> QED
  BY <1>9, <1>11 DEF Placed
-----------------------------------------------------------------------------
(* Every step keeps the second invariant and forgets no message.           *)
LEMMA PlacedStep ==
  ASSUME Exclusive, IInv, Matched, Placed, [Next]_vars
  PROVE  Placed' /\ Kept
<1>1. CASE RunThread
  BY <1>1, QuietPlaces, IncomingPlaces, ClaimPlaces, PostPlaces, ArrivalPlaces, OpDonePlaces
  DEF RunThread, Progress
<1>2. ASSUME NEW r \in SendRequests, NEW c \in Channels, NEW tag \in Tags, clh_send(r, c, tag)
      PROVE  Placed' /\ Kept
  BY <1>2, SendPlaces
<1>3. ASSUME NEW r \in RecvRequests, NEW c \in Channels, NEW T \in TagSets,
             clh_recv(r, c, T) \/ \E s \in Sources : clh_recv_from(r, c, s, T)
      PROVE  Placed' /\ Kept
  <2>1. /\ AnySource(c, T) \in Filters
        /\ \A s \in Sources : FromSource(c, s, T) \in Filters
    BY TagSetsType DEF AnySource, FromSource, Filters
  <2> QED
    BY <1>3, <2>1, RecvPlaces DEF clh_recv, clh_recv_from
<1>4. ASSUME NEW t \in Threads, NEW r \in ProbeRequests, NEW c \in Channels, NEW T \in TagSets,
             NEW remove \in Removes,
             \/ clh_probe(t, r, c, T, remove)
             \/ \E s \in Sources : clh_probe_source(t, r, c, s, T, remove)
      PROVE  Placed' /\ Kept
  <2>1. /\ AnySource(c, T) \in Filters
        /\ \A s \in Sources : FromSource(c, s, T) \in Filters
    BY TagSetsType DEF AnySource, FromSource, Filters
  <2>2. remove \in BOOLEAN
    BY CallsType
  <2> QED
    BY <1>4, <2>1, <2>2, ProbePlaces DEF clh_probe, clh_probe_source
<1>5. ASSUME NEW t \in Threads, ProbeCall(t)
      PROVE  Placed' /\ Kept
  BY <1>5, CopyPlaces, RemovePlaces DEF ProbeCall
<1>6. CASE Application
  BY <1>2, <1>3, <1>4, <1>5, <1>6, RequestRecvPlaces, ReleasePlaces, QuietPlaces DEF Application
<1>7. CASE Stopped \/ UNCHANGED vars
  BY <1>7, QuietPlaces
<1> QED
  BY <1>1, <1>6, <1>7 DEF Next

(* With the discipline, the second invariant holds in every state.         *)
THEOREM AlwaysPlaced ==
  ASSUME Exclusive
  PROVE  Spec => []Placed
BY InitPlaced, Invariance, AlwaysMatched, PlacedStep, PTL DEF Spec

(* A set whose members are all equal has at most one.                      *)
LEMMA AtMostOne ==
  ASSUME NEW S, \A x, y \in S : x = y
  PROVE  \/ S = {} /\ Cardinality(S) = 0
         \/ S # {} /\ Cardinality(S) = 1
<1>1. CASE S = {}
  BY <1>1, FS_EmptySet
<1>2. CASE S # {}
  <2>1. PICK x : S = {x}
    BY <1>2
  <2> QED
    BY <2>1, FS_Singleton
<1> QED
  BY <1>1, <1>2

(* With the discipline, two requests never get the same message, and no    *)
(* message is claimed while it is still listed for another: each message   *)
(* is in one place on its way from the network to a request.               *)
THEOREM NeverTwice ==
  ASSUME Exclusive
  PROVE  Spec => []MessageInOnePlace
<1>1. TypeOK /\ Placed => MessageInOnePlace
  <2> SUFFICES ASSUME TypeOK, Placed, NEW m \in Messages
               PROVE  (IF m \in net THEN 1 ELSE 0)
                      + Cardinality({i \in DOMAIN unexpected : unexpected[i] = m})
                      + Cardinality({p \in Channels \X Slots :
                                       Contains(recvList[p[1]], p[2]) /\ slot[p[1]][p[2]] = m})
                      + Cardinality({r \in Requests : Claims(r, m)}) <= 1
    BY DEF MessageInOnePlace
  <2> DEFINE U == {i \in DOMAIN unexpected : unexpected[i] = m}
             L == {p \in Channels \X Slots :
                     Contains(recvList[p[1]], p[2]) /\ slot[p[1]][p[2]] = m}
             R == {r \in Requests : Claims(r, m)}
  <2>1. m \in net => AtNet \in PlacesOf(m)
    BY PlaceIs
  <2>2. \A i \in U : InUcx \in PlacesOf(m)
    BY PlaceIs DEF Contains, TypeOK
  <2>3. \A p \in L : InNode(p[1], p[2]) \in PlacesOf(m) /\ p = <<p[1], p[2]>>
    BY PlaceIs DEF Holds
  <2>4. \A r \in R : With(r) \in PlacesOf(m)
    BY PlaceIs
  <2>5. \A p, q \in PlacesOf(m) : p = q
    BY DEF Placed, OnePlace
  <2>6. \A i, j \in U : i = j
    BY DEF Placed, Once, IsInjective, TypeOK
  <2>7. \A p, q \in L : p = q
    BY <2>3, <2>5, PlacesDiffer
  <2>8. \A r, q \in R : r = q
    BY <2>4, <2>5, PlacesDiffer
  <2>9. /\ m \in net => U = {} /\ L = {} /\ R = {}
        /\ U # {} => L = {} /\ R = {}
        /\ L # {} => R = {}
    BY <2>1, <2>2, <2>3, <2>4, <2>5, PlacesDiffer
  <2> HIDE DEF U, L, R
  <2>10. (IF m \in net THEN 1 ELSE 0) + Cardinality(U) + Cardinality(L) + Cardinality(R) <= 1
    BY <2>6, <2>7, <2>8, <2>9, AtMostOne
  <2> QED
    BY <2>10 DEF U, L, R
<1>2. IInv => TypeOK
  BY DEF IInv
<1> QED
  BY <1>1, <1>2, Invariance, AlwaysPlaced, PTL

(* With the discipline, a message that reached this node stays with it,    *)
(* until the application releases the request that got it.                 *)
THEOREM NothingForgotten ==
  ASSUME Exclusive
  PROVE  Spec => NeverLost
<1>1. IInv /\ IInv' /\ Kept =>
        \A m \in Messages :
          (Present(m) /\ ~Present(m)') =>
            \E r \in Requests : Claims(r, m) /\ ~IsFree(r) /\ IsFree(r)'
  <2> SUFFICES ASSUME TypeOK, TypeOK', Kept, NEW m \in Messages, Present(m), ~Present(m)'
               PROVE  \E r \in Requests : Claims(r, m) /\ ~IsFree(r) /\ IsFree(r)'
    BY DEF IInv
  <2>1. PlacesOf(m) # {}
    BY ListedNode, PlaceIs DEF Present, Unclaimed, Holds
  <2>2. PlacesOf(m)' = {}
    <3> SUFFICES ASSUME NEW p \in PlacesOf(m)' PROVE FALSE
      OBVIOUS
    <3> QED
      BY ListedNodeNext, PlaceIsNext DEF Present, Unclaimed, Holds
  <2> QED
    BY <2>1, <2>2 DEF Kept
<1>2. IInv /\ IInv' /\ Matched /\ Placed /\ [Next]_vars =>
        [\A m \in Messages :
           (Present(m) /\ ~Present(m)') =>
             \E r \in Requests : Claims(r, m) /\ ~IsFree(r) /\ IsFree(r)']_vars
  BY <1>1, PlacedStep
<1> QED
  BY <1>2, Invariance, AlwaysMatched, AlwaysPlaced, PTL DEF Spec, NeverLost
-----------------------------------------------------------------------------
(* The function that Only builds its list with, from itself.               *)
Kept1(f, q, K) ==
  [i \in 0 .. Len(q) |->
     IF i = 0 THEN <<>>
     ELSE IF q[i] \in K THEN Append(f[i - 1], q[i]) ELSE f[i - 1]]

(* Its domain, its range and its values.                                   *)
Builds(f, q, K, S) ==
  /\ f \in [0 .. Len(q) -> Seq(S)]
  /\ f[0] = <<>>
  /\ \A i \in 1 .. Len(q) : f[i] = IF q[i] \in K THEN Append(f[i - 1], q[i]) ELSE f[i - 1]

(* There is such a function for every list.                                *)
LEMMA BuildsExists ==
  ASSUME NEW S, NEW K
  PROVE  \A q \in Seq(S) : \E f : Builds(f, q, K, S)
<1> DEFINE P == {q \in Seq(S) : \E f : Builds(f, q, K, S)}
<1>1. <<>> \in P
  <2> DEFINE f == [i \in 0 .. 0 |-> <<>>]
  <2>1. Len(<<>>) = 0 /\ <<>> \in Seq(S)
    OBVIOUS
  <2>2. f \in [0 .. 0 -> Seq(S)] /\ f[0] = <<>>
    BY <2>1
  <2> HIDE DEF f
  <2>3. Builds(f, <<>>, K, S)
    BY <2>1, <2>2 DEF Builds
  <2> QED
    BY <2>1, <2>3
<1>2. ASSUME NEW q \in P, NEW x \in S  PROVE Append(q, x) \in P
  <2>1. PICK f : Builds(f, q, K, S)
    OBVIOUS
  <2> DEFINE n == Len(q)
             t == Append(q, x)
             g == [i \in 0 .. n + 1 |->
                     IF i <= n THEN f[i] ELSE IF x \in K THEN Append(f[n], x) ELSE f[n]]
  <2>2. /\ n \in Nat /\ q \in Seq(S) /\ t \in Seq(S) /\ Len(t) = n + 1 /\ t[n + 1] = x
        /\ \A i \in 1 .. n : t[i] = q[i]
    OBVIOUS
  <2>3. /\ \A i \in 0 .. n : f[i] \in Seq(S)
        /\ f[0] = <<>>
        /\ \A i \in 1 .. n : f[i] = IF q[i] \in K THEN Append(f[i - 1], q[i]) ELSE f[i - 1]
    BY <2>1 DEF Builds
  <2> HIDE DEF n, t
  <2>4. g \in [0 .. n + 1 -> Seq(S)]
    <3>1. f[n] \in Seq(S) /\ Append(f[n], x) \in Seq(S)
      BY <2>2, <2>3
    <3> QED
      BY <2>2, <2>3, <3>1
  <2>5. g[0] = <<>> /\ \A i \in 0 .. n : g[i] = f[i]
    BY <2>2, <2>3
  <2>6. g[n + 1] = IF x \in K THEN Append(f[n], x) ELSE f[n]
    BY <2>2
  <2> HIDE DEF g
  <2>7. ASSUME NEW i \in 1 .. n + 1
        PROVE  g[i] = IF t[i] \in K THEN Append(g[i - 1], t[i]) ELSE g[i - 1]
    <3>1. CASE i = n + 1
      BY <2>2, <2>5, <2>6, <3>1
    <3>2. CASE i # n + 1
      <4>1. i \in 1 .. n /\ i - 1 \in 0 .. n
        BY <2>2, <3>2
      <4> QED
        BY <2>2, <2>3, <2>5, <4>1
    <3> QED
      BY <3>1, <3>2
  <2>8. Builds(g, t, K, S)
    BY <2>2, <2>4, <2>5, <2>7 DEF Builds
  <2> QED
    BY <2>2, <2>8 DEF t
<1> HIDE DEF P
<1>3. P = Seq(S)
  <2>1. P \subseteq Seq(S)
    BY DEF P
  <2> QED
    BY <1>1, <1>2, <2>1, ListInduction
<1> QED
  BY <1>3 DEF P

(* It is what Kept1 makes of itself.                                       *)
LEMMA BuildsIs ==
  ASSUME NEW S, NEW K, NEW q \in Seq(S), NEW f
  PROVE  Builds(f, q, K, S) => f = Kept1(f, q, K)
<1> SUFFICES ASSUME Builds(f, q, K, S) PROVE f = Kept1(f, q, K)
  OBVIOUS
<1> DEFINE g(i) == IF i = 0 THEN <<>>
                   ELSE IF q[i] \in K THEN Append(f[i - 1], q[i]) ELSE f[i - 1]
<1>1. \A i \in 0 .. Len(q) : f[i] = g(i)
  <2>1. \A i \in 0 .. Len(q) : i # 0 => i \in 1 .. Len(q)
    OBVIOUS
  <2> QED
    BY <2>1, Zenon DEF Builds
<1>2. f = [i \in 0 .. Len(q) |-> f[i]]
  BY DEF Builds
<1> HIDE DEF g
<1>3. [i \in 0 .. Len(q) |-> f[i]] = [i \in 0 .. Len(q) |-> g(i)]
  BY <1>1
<1> QED
  BY <1>2, <1>3, Zenon DEF g, Kept1

(* Only as one of these functions gives it, and no other gives another.    *)
LEMMA OnlyIsBuilt ==
  ASSUME NEW S, NEW K, NEW q \in Seq(S)
  PROVE  \E f : Builds(f, q, K, S) /\ Only(q, K) = f[Len(q)]
<1> DEFINE kept == CHOOSE f : f = Kept1(f, q, K)
<1>1. kept = Kept1(kept, q, K)
  <2>1. \E f : f = Kept1(f, q, K)
    <3>1. PICK f : Builds(f, q, K, S)
      BY BuildsExists
    <3> QED
      BY <3>1, BuildsIs
  <2> QED
    BY <2>1
<1>2. Only(q, K) = kept[Len(q)]
  BY DEF Only, Kept1
<1> HIDE DEF kept
<1> DEFINE n == Len(q)
           T == {i \in Nat : i <= n => kept[i] \in Seq(S)}
<1>3. n \in Nat
  OBVIOUS
<1>4. kept[0] = <<>> /\ DOMAIN kept = 0 .. n
  BY <1>1, <1>3 DEF Kept1
<1>5. \A i \in 1 .. n : kept[i] = IF q[i] \in K THEN Append(kept[i - 1], q[i]) ELSE kept[i - 1]
  <2> SUFFICES ASSUME NEW i \in 1 .. n
               PROVE  kept[i] = IF q[i] \in K THEN Append(kept[i - 1], q[i]) ELSE kept[i - 1]
    OBVIOUS
  <2>1. i \in 0 .. n /\ i # 0
    BY <1>3
  <2>2. Kept1(kept, q, K)[i] = IF q[i] \in K THEN Append(kept[i - 1], q[i]) ELSE kept[i - 1]
    BY <2>1, Zenon DEF Kept1, n
  <2> QED
    BY <1>1, <2>2, Zenon
<1>6. \A i \in 1 .. n : q[i] \in S
  OBVIOUS
<1> HIDE DEF n
<1>7. ASSUME NEW i \in Nat, i \in T  PROVE i + 1 \in T
  <2> SUFFICES ASSUME i + 1 <= n  PROVE kept[i + 1] \in Seq(S)
    OBVIOUS
  <2>1. i + 1 \in 1 .. n /\ (i + 1) - 1 = i /\ i <= n
    BY <1>3
  <2>2. kept[i] \in Seq(S)
    BY <1>7, <2>1
  <2>3. kept[i + 1] = IF q[i + 1] \in K THEN Append(kept[i], q[i + 1]) ELSE kept[i]
    BY <1>5, <2>1
  <2>4. q[i + 1] \in S
    BY <1>6, <2>1
  <2>5. Append(kept[i], q[i + 1]) \in Seq(S)
    BY <2>2, <2>4
  <2> QED
    BY <2>2, <2>3, <2>5
<1>8. 0 \in T
  <2>1. <<>> \in Seq(S)
    OBVIOUS
  <2> QED
    BY <1>4, <2>1
<1> HIDE DEF T
<1>9. Nat \subseteq T
  BY <1>7, <1>8, SetInduction
<1>10. \A i \in 0 .. n : kept[i] \in Seq(S)
  BY <1>3, <1>9 DEF T
<1>11. kept \in [0 .. n -> Seq(S)]
  <2>1. kept = [i \in 0 .. n |-> kept[i]]
    BY <1>1, Zenon DEF Kept1, n
  <2> QED
    BY <1>10, <2>1
<1>12. Builds(kept, q, K, S)
  BY <1>4, <1>5, <1>11 DEF Builds, n
<1> QED
  BY <1>2, <1>12

(* On a common beginning of two lists the functions agree.                 *)
LEMMA BuiltAlike ==
  ASSUME NEW S, NEW K, NEW q \in Seq(S), NEW p \in Seq(S), Len(q) <= Len(p),
         \A i \in 1 .. Len(q) : p[i] = q[i],
         NEW f, NEW g, Builds(f, q, K, S), Builds(g, p, K, S)
  PROVE  \A i \in 0 .. Len(q) : f[i] = g[i]
<1> DEFINE n == Len(q)
           T == {i \in Nat : i <= n => f[i] = g[i]}
<1>1. n \in Nat /\ Len(p) \in Nat /\ n <= Len(p)
  OBVIOUS
<1>2. f[0] = <<>> /\ g[0] = <<>>
  BY DEF Builds
<1>3. \A i \in 1 .. n :
        /\ p[i] = q[i]
        /\ f[i] = IF q[i] \in K THEN Append(f[i - 1], q[i]) ELSE f[i - 1]
        /\ g[i] = IF p[i] \in K THEN Append(g[i - 1], p[i]) ELSE g[i - 1]
  BY <1>1 DEF Builds
<1> HIDE DEF n
<1>4. 0 \in T
  BY <1>2
<1>5. ASSUME NEW i \in Nat, i \in T  PROVE i + 1 \in T
  <2> SUFFICES ASSUME i + 1 <= n  PROVE f[i + 1] = g[i + 1]
    OBVIOUS
  <2>1. i + 1 \in 1 .. n /\ (i + 1) - 1 = i /\ i <= n
    BY <1>1
  <2> QED
    BY <1>3, <1>5, <2>1
<1> HIDE DEF T
<1>6. Nat \subseteq T
  BY <1>4, <1>5, SetInduction
<1> QED
  BY <1>1, <1>6 DEF n, T

(* The elements kept of a list with one element more.                      *)
LEMMA OnlyAppend ==
  ASSUME NEW S, NEW K, NEW q \in Seq(S), NEW x \in S
  PROVE  /\ Only(q, K) \in Seq(S)
         /\ Only(Append(q, x), K) = IF x \in K THEN Append(Only(q, K), x) ELSE Only(q, K)
<1> DEFINE n == Len(q)
           p == Append(q, x)
<1>1. /\ n \in Nat /\ p \in Seq(S) /\ Len(p) = n + 1 /\ p[n + 1] = x
      /\ \A i \in 1 .. n : p[i] = q[i]
  OBVIOUS
<1>2. PICK f : Builds(f, q, K, S) /\ Only(q, K) = f[n]
  BY OnlyIsBuilt
<1> HIDE DEF p
<1>3. PICK g : Builds(g, p, K, S) /\ Only(p, K) = g[n + 1]
  <2>1. p \in Seq(S)
    BY <1>1
  <2>2. PICK g : Builds(g, p, K, S) /\ Only(p, K) = g[Len(p)]
    BY <2>1, OnlyIsBuilt, ZenonT(60)
  <2> QED
    BY <1>1, <2>2
<1>4. f[n] = g[n]
  <2>1. \A i \in 0 .. Len(q) : f[i] = g[i]
    <3>1. p \in Seq(S) /\ Len(q) <= Len(p) /\ \A i \in 1 .. Len(q) : p[i] = q[i]
      BY <1>1
    <3> QED
      BY <1>2, <1>3, <3>1, BuiltAlike, SMTT(30)
  <2> QED
    BY <1>1, <2>1
<1>5. g[n + 1] = IF x \in K THEN Append(g[n], x) ELSE g[n]
  <2>1. n + 1 \in 1 .. n + 1 /\ (n + 1) - 1 = n
    BY <1>1
  <2> QED
    BY <1>1, <1>3, <2>1 DEF Builds
<1>6. f[n] \in Seq(S)
  BY <1>1, <1>2 DEF Builds
<1> QED
  BY <1>2, <1>3, <1>4, <1>5, <1>6 DEF p

(* Nothing is kept of nothing.                                             *)
LEMMA OnlyEmpty ==
  ASSUME NEW K
  PROVE  Only(<<>>, K) = <<>>
<1>1. <<>> \in Seq({}) /\ Len(<<>>) = 0
  OBVIOUS
<1>2. PICK f : Builds(f, <<>>, K, {}) /\ Only(<<>>, K) = f[Len(<<>>)]
  BY <1>1, OnlyIsBuilt
<1> QED
  BY <1>1, <1>2 DEF Builds

(* What is kept of two lists, one after the other.                         *)
LEMMA OnlyConcat ==
  ASSUME NEW S, NEW K, NEW s \in Seq(S)
  PROVE  \A t \in Seq(S) : Only(s \o t, K) = Only(s, K) \o Only(t, K)
<1> DEFINE P == {t \in Seq(S) : Only(s \o t, K) = Only(s, K) \o Only(t, K)}
<1>1. <<>> \in P
  <2>1. Only(s, K) \in Seq(S) \/ Only(s, K) = <<>>
    BY OnlyIsBuilt DEF Builds
  <2>2. Only(s, K) \o <<>> = Only(s, K) /\ s \o <<>> = s
    BY <2>1, ConcatEmptySeq
  <2>3. <<>> \in Seq(S)
    OBVIOUS
  <2> QED
    BY <2>2, <2>3, OnlyEmpty
<1>2. ASSUME NEW t \in P, NEW x \in S  PROVE Append(t, x) \in P
  <2>1. t \in Seq(S) /\ Append(t, x) \in Seq(S) /\ s \o t \in Seq(S)
    BY ConcatProperties
  <2>2. s \o Append(t, x) = Append(s \o t, x)
    BY <2>1, ConcatAppend
  <2>3. /\ Only(t, K) \in Seq(S) /\ Only(s \o t, K) \in Seq(S)
        /\ Only(Append(t, x), K) = IF x \in K THEN Append(Only(t, K), x) ELSE Only(t, K)
        /\ Only(Append(s \o t, x), K) = IF x \in K THEN Append(Only(s \o t, K), x) ELSE Only(s \o t, K)
    <3> DEFINE u == s \o t
    <3>1. u \in Seq(S)
      BY <2>1
    <3> HIDE DEF u
    <3>2. /\ Only(u, K) \in Seq(S)
          /\ Only(Append(u, x), K) = IF x \in K THEN Append(Only(u, K), x) ELSE Only(u, K)
      BY <3>1, OnlyAppend
    <3>3. /\ Only(t, K) \in Seq(S)
          /\ Only(Append(t, x), K) = IF x \in K THEN Append(Only(t, K), x) ELSE Only(t, K)
      BY <2>1, OnlyAppend
    <3> QED
      BY <3>2, <3>3 DEF u
  <2>4. Only(s, K) \in Seq(S)
    BY OnlyAppend
  <2>5. Only(s, K) \o Append(Only(t, K), x) = Append(Only(s, K) \o Only(t, K), x)
    BY <2>3, <2>4, ConcatAppend
  <2>6. Only(s \o t, K) = Only(s, K) \o Only(t, K)
    OBVIOUS
  <2> QED
    BY <2>1, <2>2, <2>3, <2>5, <2>6
<1> HIDE DEF P
<1>3. P = Seq(S)
  <2>1. P \subseteq Seq(S)
    BY DEF P
  <2> QED
    BY <1>1, <1>2, <2>1, ListInduction
<1> QED
  BY <1>3 DEF P

(* Which elements are kept, and that none is doubled.                      *)
LEMMA OnlyContains ==
  ASSUME NEW S, NEW K
  PROVE  \A q \in Seq(S) : /\ Only(q, K) \in Seq(S)
                           /\ \A y : Contains(Only(q, K), y) <=> Contains(q, y) /\ y \in K
                           /\ IsInjective(q) => IsInjective(Only(q, K))
<1> DEFINE Good(q) == /\ Only(q, K) \in Seq(S)
                      /\ \A y : Contains(Only(q, K), y) <=> Contains(q, y) /\ y \in K
                      /\ IsInjective(q) => IsInjective(Only(q, K))
           P == {q \in Seq(S) : Good(q)}
<1>1. <<>> \in P
  <2>1. <<>> \in Seq(S) /\ ~(\E y : Contains(<<>>, y)) /\ IsInjective(<<>>)
    BY DEF Contains, IsInjective
  <2> QED
    BY <2>1, OnlyEmpty
<1>2. ASSUME NEW q \in P, NEW x \in S  PROVE Append(q, x) \in P
  <2>1. q \in Seq(S) /\ Good(q)
    OBVIOUS
  <2> HIDE DEF P
  <2>2. /\ Append(q, x) \in Seq(S)
        /\ \A y : Contains(Append(q, x), y) <=> Contains(q, y) \/ y = x
    BY <2>1, AppendContains
  <2>3. IsInjective(Append(q, x)) => IsInjective(q) /\ ~Contains(q, x)
    <3> DEFINE p == Append(q, x)
               n == Len(q)
    <3>1. /\ n \in Nat /\ DOMAIN q = 1 .. n /\ DOMAIN p = 1 .. n + 1 /\ p[n + 1] = x
          /\ \A i \in 1 .. n : p[i] = q[i] /\ i \in 1 .. n + 1 /\ i # n + 1
          /\ n + 1 \in 1 .. n + 1
      BY <2>1
    <3> HIDE DEF p
    <3> QED
      BY <3>1, Zenon DEF IsInjective, Contains, p, n
  <2>4. Only(Append(q, x), K) = IF x \in K THEN Append(Only(q, K), x) ELSE Only(q, K)
    BY <2>1, OnlyAppend
  <2>5. /\ Append(Only(q, K), x) \in Seq(S)
        /\ \A y : Contains(Append(Only(q, K), x), y) <=> Contains(Only(q, K), y) \/ y = x
        /\ IsInjective(Only(q, K)) /\ ~Contains(Only(q, K), x) => IsInjective(Append(Only(q, K), x))
    BY <2>1, AppendContains
  <2>6. Good(Append(q, x))
    BY <2>1, <2>2, <2>3, <2>4, <2>5
  <2> QED
    BY <2>2, <2>6 DEF P
<1> HIDE DEF P
<1>3. P = Seq(S)
  <2>1. P \subseteq Seq(S)
    BY DEF P
  <2> QED
    BY <1>1, <1>2, <2>1, ListInduction
<1> QED
  BY <1>3 DEF P

(* Whether other elements would be kept makes no difference.               *)
LEMMA OnlySame ==
  ASSUME NEW S, NEW K, NEW L
  PROVE  \A q \in Seq(S) : (\A y : Contains(q, y) => (y \in K <=> y \in L)) => Only(q, K) = Only(q, L)
<1> DEFINE Good(q) == (\A y : Contains(q, y) => (y \in K <=> y \in L)) => Only(q, K) = Only(q, L)
           P == {q \in Seq(S) : Good(q)}
<1>1. <<>> \in P
  <2>1. <<>> \in Seq(S)
    OBVIOUS
  <2> QED
    BY <2>1, OnlyEmpty
<1>2. ASSUME NEW q \in P, NEW x \in S  PROVE Append(q, x) \in P
  <2>1. q \in Seq(S) /\ Good(q)
    OBVIOUS
  <2> HIDE DEF P
  <2>2. /\ Append(q, x) \in Seq(S)
        /\ \A y : Contains(Append(q, x), y) <=> Contains(q, y) \/ y = x
    BY <2>1, AppendContains
  <2>3. /\ Only(Append(q, x), K) = IF x \in K THEN Append(Only(q, K), x) ELSE Only(q, K)
        /\ Only(Append(q, x), L) = IF x \in L THEN Append(Only(q, L), x) ELSE Only(q, L)
    BY <2>1, OnlyAppend
  <2>4. Good(Append(q, x))
    BY <2>1, <2>2, <2>3
  <2> QED
    BY <2>2, <2>4 DEF P
<1> HIDE DEF P
<1>3. P = Seq(S)
  <2>1. P \subseteq Seq(S)
    BY DEF P
  <2> QED
    BY <1>1, <1>2, <2>1, ListInduction
<1> QED
  BY <1>3 DEF P

(* What is kept around an element that is kept.                            *)
LEMMA OnlyAround ==
  ASSUME NEW S, NEW K, NEW a \in Seq(S), NEW b \in Seq(S), NEW x \in S, x \in K
  PROVE  /\ Only(Append(a, x) \o b, K) = Append(Only(a, K), x) \o Only(b, K)
         /\ Only(a \o b, K) = Only(a, K) \o Only(b, K)
         /\ Only(a, K) \in Seq(S) /\ Only(b, K) \in Seq(S)
<1> DEFINE c == Append(a, x)
<1>1. c \in Seq(S) /\ Only(a, K) \in Seq(S) /\ Only(b, K) \in Seq(S)
  BY OnlyContains
<1>2. Only(c, K) = Append(Only(a, K), x)
  <2>1. /\ Only(a, K) \in Seq(S)
        /\ Only(Append(a, x), K) = IF x \in K THEN Append(Only(a, K), x) ELSE Only(a, K)
    BY OnlyAppend
  <2> QED
    BY <2>1
<1>3. \A t \in Seq(S) : Only(c \o t, K) = Only(c, K) \o Only(t, K)
  <2> HIDE DEF c
  <2> QED
    BY <1>1, OnlyConcat
<1>4. Only(a \o b, K) = Only(a, K) \o Only(b, K)
  BY OnlyConcat
<1> QED
  BY <1>1, <1>2, <1>3, <1>4

(* What is not kept does not matter.                                       *)
LEMMA OnlyDropped ==
  ASSUME NEW S, NEW K, NEW a \in Seq(S), NEW b \in Seq(S), NEW x \in S, x \notin K
  PROVE  Only(Append(a, x) \o b, K) = Only(a \o b, K) /\ Only(a, K) \in Seq(S)
<1> DEFINE c == Append(a, x)
<1>1. c \in Seq(S)
  OBVIOUS
<1>2. Only(c, K) = Only(a, K) /\ Only(a, K) \in Seq(S)
  <2>1. /\ Only(a, K) \in Seq(S)
        /\ Only(Append(a, x), K) = IF x \in K THEN Append(Only(a, K), x) ELSE Only(a, K)
    BY OnlyAppend
  <2> QED
    BY <2>1
<1>3. \A t \in Seq(S) : Only(c \o t, K) = Only(c, K) \o Only(t, K)
  <2> HIDE DEF c
  <2> QED
    BY <1>1, OnlyConcat
<1>4. Only(a \o b, K) = Only(a, K) \o Only(b, K)
  BY OnlyConcat
<1> QED
  BY <1>2, <1>3, <1>4
-----------------------------------------------------------------------------
(* Messages are met in the order in which a source sent them: in UCX's     *)
(* unexpected queue, on a list, and what is listed was sent before what is *)
(* not.                                                                    *)
SentBefore ==
  /\ \A m, o : Precedes(unexpected, m, o) => ~Earlier(o, m)
  /\ \A c \in Channels : \A x, y :
       Precedes(recvList[c], x, y) => ~Earlier(slot[c][y], slot[c][x])
  /\ \A m, o \in Messages :
       /\ Listed(m) /\ (Contains(unexpected, o) \/ o \in net) => ~Earlier(o, m)
       /\ Contains(unexpected, m) /\ o \in net => ~Earlier(o, m)

(* What a search found is still the first of its list that passes.         *)
FirstIn(c, s, f) == \A x : Precedes(recvList[c], x, s) => ~Matches(slot[c][x], f)

(* The run thread found the first for the request it looks at, ...         *)
FirstFound ==
  rpc = "claim" => FirstIn(req[Head(batch)].env.channel, found, req[Head(batch)].filter)

(* ... and a probe the first for its filter, until its call ends.          *)
ProbedFirst(t) ==
  /\ FirstIn(call[t].channel, call[t].slot, req[call[t].req].filter)
  /\ req[call[t].req].filter \in CallFilters

FirstProbed == \A t \in Threads : call[t] # NoCall => ProbedFirst(t)

(* What the refinement needs beyond Matched and Placed.                    *)
InOrder == SentBefore /\ FirstFound /\ FirstProbed

(* A step that takes messages off their queues and lists, or nothing.      *)
OnlyLess ==
  /\ slot' = slot /\ net' \subseteq net
  /\ \A c \in Channels : \A x, y :
       /\ Precedes(recvList'[c], x, y) => Precedes(recvList[c], x, y)
       /\ Contains(recvList'[c], x) => Contains(recvList[c], x)
  /\ \A x, y : /\ Precedes(unexpected', x, y) => Precedes(unexpected, x, y)
               /\ Contains(unexpected', x) => Contains(unexpected, x)

(* Such a step keeps the order of the messages, ...                        *)
LEMMA SentKept ==
  ASSUME IInv, IInv', SentBefore, OnlyLess
  PROVE  SentBefore'
<1>1. TypeOK /\ TypeOK'
  BY DEF IInv
<1>2. \A m : Listed(m)' => Listed(m)
  BY <1>1, ListedNode, ListedNodeNext DEF OnlyLess
<1>3. \A m, o : Precedes(unexpected', m, o) => ~Earlier(o, m)
  BY DEF SentBefore, OnlyLess
<1>4. ASSUME NEW c \in Channels, NEW x, NEW y, Precedes(recvList'[c], x, y)
      PROVE  ~Earlier(slot'[c][y], slot'[c][x])
  BY <1>4 DEF SentBefore, OnlyLess
<1>5. ASSUME NEW m \in Messages, NEW o \in Messages
      PROVE  /\ Listed(m)' /\ (Contains(unexpected', o) \/ o \in net') => ~Earlier(o, m)
             /\ Contains(unexpected', m) /\ o \in net' => ~Earlier(o, m)
  BY <1>2 DEF SentBefore, OnlyLess
<1> QED
  BY <1>3, <1>4, <1>5, Zenon DEF SentBefore, Earlier

(* ... what the run thread found, while it looks at the same request, ...  *)
LEMMA FoundKept ==
  ASSUME IInv, FirstFound, OnlyLess, rpc = "claim", UNCHANGED <<batch, found>>,
         req'[Head(batch)] = req[Head(batch)]
  PROVE  FirstFound'
<1>1. req[Head(batch)].env.channel \in Channels
  BY DEF IInv, ListedHold
<1>2. FirstIn(req[Head(batch)].env.channel, found, req[Head(batch)].filter)
  BY DEF FirstFound
<1> QED
  BY <1>1, <1>2 DEF FirstFound, FirstIn, OnlyLess

(* ... and what a probe found, while its call goes on.                     *)
SameCall(t) ==
  /\ call[t] # NoCall /\ call'[t].req = call[t].req
  /\ call'[t].channel = call[t].channel /\ call'[t].slot = call[t].slot
  /\ req'[call[t].req].filter = req[call[t].req].filter

(* The filter and the node of such a call stay the first.                  *)
LEMMA ProbedKept ==
  ASSUME IInv, FirstProbed, OnlyLess, NEW t \in Threads, SameCall(t)
  PROVE  ProbedFirst(t)'
<1>1. call[t] # NoCall /\ call[t].channel \in Channels
  BY InProbeCall DEF SameCall
<1>2. ProbedFirst(t)
  BY <1>1 DEF FirstProbed
<1> QED
  BY <1>1, <1>2 DEF ProbedFirst, SameCall, FirstIn, OnlyLess

(* All three together.                                                     *)
LEMMA OrderKept ==
  ASSUME IInv, IInv', InOrder, OnlyLess,
         rpc' = "claim" => rpc = "claim" /\ UNCHANGED <<batch, found>>
                           /\ req'[Head(batch)] = req[Head(batch)],
         \A t \in Threads : call'[t] # NoCall => SameCall(t)
  PROVE  InOrder'
<1>1. SentBefore'
  BY SentKept DEF InOrder
<1>2. FirstFound'
  BY FoundKept DEF InOrder, FirstFound
<1>3. FirstProbed'
  BY ProbedKept DEF InOrder, FirstProbed
<1> QED
  BY <1>1, <1>2, <1>3 DEF InOrder
-----------------------------------------------------------------------------
(* The requests that receive, the line in which they wait, oldest first:   *)
(* posted, in the chain of the walk, in recv_queue; and those of them that *)
(* have no message yet, with their filters.                                *)
Receivers == RecvRequests \cup ProbeRequests

Rest == IF rpc = "next" THEN Tail(batch) ELSE batch

Line == (expected \o Rest) \o recvQ

NoneYet == {r \in Requests : req[r].msg = NoMsg}

Ask == [r \in Requests |-> [req |-> r, filter |-> req[r].filter]]

Waiting == Each(WaitingOnes, Ask)

(* The messages of the mailbox, and the first one of a source.             *)
Avail == {m \in Messages : Unclaimed(m)}

FirstOf(m, f) ==
  /\ m \in Avail /\ Matches(m, f)
  /\ \A o \in Messages : o.source = m.source /\ o.n < m.n /\ Matches(o, f) => o \notin Avail

(* The receives that wait, oldest first, with and without a message.       *)
LEMMA LineType ==
  ASSUME IInv
  PROVE  /\ expected \in Seq(Receivers) /\ Rest \in Seq(Receivers) /\ recvQ \in Seq(Receivers)
         /\ Line \in Seq(Receivers) /\ Line = expected \o (Rest \o recvQ)
         /\ \A x : Contains(Line, x) <=> Contains(expected, x) \/ Contains(Rest, x) \/ Contains(recvQ, x)
         /\ \A x : Contains(Rest, x) => Contains(batch, x)
<1>1. TypeOK /\ expected \in Seq(Receivers) /\ recvQ \in Seq(Receivers) /\ batch \in Seq(Receivers)
  BY DEF IInv, TypeOK, Receivers
<1>2. Rest \in Seq(Receivers) /\ \A x : Contains(Rest, x) => Contains(batch, x)
  <2>1. CASE rpc = "next"
    <3>1. batch # <<>>
      BY <2>1 DEF IInv, BatchWhileWalking, Walking
    <3> QED
      BY <1>1, <2>1, <3>1, TailContains DEF Rest
  <2>2. CASE rpc # "next"
    BY <1>1, <2>2 DEF Rest
  <2> QED
    BY <2>1, <2>2
<1> DEFINE e == expected \o Rest
<1>3. e \in Seq(Receivers) /\ \A x : Contains(e, x) <=> Contains(expected, x) \/ Contains(Rest, x)
  BY <1>1, <1>2, ConcatContains
<1>4. Line = e \o recvQ
  BY DEF Line
<1>5. Line = expected \o (Rest \o recvQ)
  BY <1>1, <1>2, ConcatAssoc DEF Line
<1> HIDE DEF e
<1>6. /\ e \o recvQ \in Seq(Receivers)
      /\ \A x : Contains(e \o recvQ, x) <=> Contains(e, x) \/ Contains(recvQ, x)
  BY <1>1, <1>3, ConcatContains
<1> QED
  BY <1>1, <1>2, <1>3, <1>4, <1>5, <1>6

(* A receive in the line is not completed.                                 *)
LEMMA InLine ==
  ASSUME IInv, Matched, NEW r, Contains(Line, r)
  PROVE  r \in Receivers /\ r \in Requests /\ Pending(r)
<1>1. Line \in Seq(Receivers)
  BY LineType
<1>2. r \in Receivers /\ r \in Requests
  BY <1>1 DEF Contains, Receivers, Requests
<1>3. Contains(expected, r) \/ Contains(batch, r) \/ Contains(recvQ, r)
  BY LineType
<1>4. ToReceive(r)
  BY <1>2, <1>3 DEF Matched, ExpectedPosted, ToReceive
<1> QED
  BY <1>2, <1>4 DEF IInv, PendingIsTracked

(* Those that wait for a message are the line without the others.          *)
LEMMA WaitingType ==
  ASSUME IInv
  PROVE  /\ WaitingOnes = Only(Line, NoneYet) /\ WaitingOnes \in Seq(Receivers)
         /\ \A r : Contains(WaitingOnes, r) <=> Contains(Line, r) /\ req[r].msg = NoMsg
         /\ Waiting \in Seq(Values(Ask, Receivers)) /\ Len(Waiting) = Len(WaitingOnes)
         /\ Waiting = [i \in DOMAIN WaitingOnes |->
                        [req |-> WaitingOnes[i], filter |-> req[WaitingOnes[i]].filter]]
<1>1. WaitingOnes = Only(Line, NoneYet)
  BY Zenon DEF WaitingOnes, Line, Rest, NoneYet
<1>2. Line \in Seq(Receivers)
  BY LineType
<1>3. /\ Only(Line, NoneYet) \in Seq(Receivers)
      /\ \A r : Contains(Only(Line, NoneYet), r) <=> Contains(Line, r) /\ r \in NoneYet
  BY <1>2, OnlyContains
<1>4. \A r : Contains(Line, r) => r \in Requests
  BY <1>2 DEF Contains, Receivers, Requests
<1>5. WaitingOnes \in Seq(Receivers)
  BY <1>1, <1>3
<1>6. \A r : Contains(WaitingOnes, r) <=> Contains(Line, r) /\ req[r].msg = NoMsg
  BY <1>1, <1>3, <1>4 DEF NoneYet
<1>7. Waiting \in Seq(Values(Ask, Receivers))
  BY <1>5, EachType DEF Waiting
<1>8. /\ DOMAIN WaitingOnes = 1 .. Len(WaitingOnes) /\ Len(WaitingOnes) \in Nat
      /\ \A i \in 1 .. Len(WaitingOnes) : WaitingOnes[i] \in Requests
  BY <1>5 DEF Receivers, Requests
<1>9. /\ Waiting = [i \in DOMAIN WaitingOnes |->
                     [req |-> WaitingOnes[i], filter |-> req[WaitingOnes[i]].filter]]
      /\ Len(Waiting) = Len(WaitingOnes)
  BY <1>8 DEF Waiting, Each, Ask
<1> QED
  BY <1>1, <1>5, <1>6, <1>7, <1>9

(* A request asks for the same while its filter is the same.               *)
LEMMA AskSame ==
  ASSUME NEW r \in Requests, req'[r].filter = req[r].filter
  PROVE  Ask'[r] = Ask[r]
BY DEF Ask

(* The same of the next state.                                             *)
WaitingIs ==
  /\ WaitingOnes = Only(Line, NoneYet) /\ WaitingOnes \in Seq(Receivers)
  /\ Line \in Seq(Receivers)
  /\ Waiting = [i \in DOMAIN WaitingOnes |->
                  [req |-> WaitingOnes[i], filter |-> req[WaitingOnes[i]].filter]]

(* It holds in every state of the invariant, ...                           *)
LEMMA WaitingNow == IInv => WaitingIs
BY LineType, WaitingType DEF WaitingIs

(* ... the next one too.                                                   *)
LEMMA WaitingNext == IInv' => WaitingIs'
BY WaitingNow, PTL

(* What the values are after a step.                                       *)
LEMMA WaitingTypeNext ==
  ASSUME IInv'
  PROVE  /\ WaitingOnes' = Only(Line', NoneYet') /\ WaitingOnes' \in Seq(Receivers)
         /\ Waiting' = Each(WaitingOnes', Ask')
         /\ Line' \in Seq(Receivers)
         /\ Waiting' = [i \in DOMAIN WaitingOnes' |->
                         [req |-> WaitingOnes'[i], filter |-> req'[WaitingOnes'[i]].filter]]
<1>1. WaitingIs'
  BY WaitingNext
<1>2. WaitingOnes' = Only(Line', NoneYet')
  BY <1>1, Zenon DEF WaitingIs, Only
<1>3. WaitingOnes' \in Seq(Receivers) /\ Line' \in Seq(Receivers)
  BY <1>1 DEF WaitingIs, Receivers
<1>4. Waiting' = Each(WaitingOnes', Ask')
  BY Zenon DEF Waiting, Each
<1> QED
  BY <1>1, <1>2, <1>3, <1>4 DEF WaitingIs

(* Nothing of the line changes.                                            *)
LEMMA SameLine ==
  ASSUME IInv, IInv', Line' = Line,
         \A r \in Requests : Contains(Line, r) =>
           req'[r].msg = req[r].msg /\ req'[r].filter = req[r].filter
  PROVE  WaitingOnes' = WaitingOnes /\ Waiting' = Waiting
<1>1. Line \in Seq(Receivers) /\ \A r : Contains(Line, r) => r \in Requests
  BY LineType DEF Contains, Receivers, Requests
<1>2. WaitingOnes' = WaitingOnes
  <2>1. \A r : Contains(Line, r) => (r \in NoneYet <=> r \in NoneYet')
    BY <1>1 DEF NoneYet
  <2>2. Only(Line, NoneYet) = Only(Line, NoneYet')
    BY <1>1, <2>1, OnlySame
  <2> QED
    BY <2>2, WaitingType, WaitingTypeNext
<1>3. Waiting' = Waiting
  <2>1. WaitingOnes \in Seq(Receivers) /\ \A r : Contains(WaitingOnes, r) => Contains(Line, r)
    BY WaitingType
  <2>2. \A r : Contains(WaitingOnes, r) => Ask[r] = Ask'[r]
    BY <1>1, <2>1, AskSame
  <2>3. Each(WaitingOnes, Ask) = Each(WaitingOnes, Ask')
    BY <2>1, <2>2, EachSame
  <2> QED
    BY <1>2, <2>3, WaitingTypeNext DEF Waiting
<1> QED
  BY <1>2, <1>3

(* Steps after which the mailbox is as it was.                             *)
LEMMA Stutters ==
  ASSUME IInv, IInv', Line' = Line,
         \A m \in Messages : Unclaimed(m)' <=> Unclaimed(m),
         \A r \in Requests : Contains(Line, r) =>
           req'[r].msg = req[r].msg /\ req'[r].filter = req[r].filter
  PROVE  UNCHANGED Box!vars
<1>1. Avail' = Avail
  BY DEF Avail
<1>2. Waiting' = Waiting
  BY SameLine
<1> QED
  BY <1>1, <1>2, WaitingType, WaitingTypeNext DEF Box!vars, Avail

(* A call that puts a receive at the end of the line.                      *)
LEMMA Joins ==
  ASSUME IInv, IInv', NEW r \in Receivers, ~Contains(Line, r), Line' = Append(Line, r),
         \A m \in Messages : Unclaimed(m)' <=> Unclaimed(m),
         \A x \in Requests : x # r => req'[x] = req[x],
         req'[r].filter \in CallFilters
  PROVE  Box!Next \/ UNCHANGED Box!vars
<1>1. Avail' = Avail
  BY DEF Avail
<1>2. Line \in Seq(Receivers) /\ r \in Requests /\ \A x : Contains(Line, x) => x \in Requests
  BY LineType DEF Contains, Receivers, Requests
<1>3. WaitingOnes' = IF req'[r].msg = NoMsg THEN Append(WaitingOnes, r) ELSE WaitingOnes
  <2>1. \A x : Contains(Line, x) => (x \in NoneYet <=> x \in NoneYet')
    BY <1>2 DEF NoneYet
  <2>2. Only(Line, NoneYet) = Only(Line, NoneYet')
    BY <1>2, <2>1, OnlySame
  <2>3. Only(Append(Line, r), NoneYet') =
          IF r \in NoneYet' THEN Append(Only(Line, NoneYet'), r) ELSE Only(Line, NoneYet')
    <3> DEFINE K == NoneYet'
    <3> HIDE DEF K
    <3>1. /\ Only(Line, K) \in Seq(Receivers)
          /\ Only(Append(Line, r), K) = IF r \in K THEN Append(Only(Line, K), r) ELSE Only(Line, K)
      BY <1>2, OnlyAppend
    <3> QED
      BY <3>1 DEF K
  <2>4. r \in NoneYet' <=> req'[r].msg = NoMsg
    BY <1>2 DEF NoneYet
  <2> QED
    BY <2>2, <2>3, <2>4, WaitingType, WaitingTypeNext
<1>4. /\ WaitingOnes \in Seq(Receivers) /\ \A x : Contains(WaitingOnes, x) => Contains(Line, x)
  BY WaitingType
<1>5. Each(WaitingOnes, Ask') = Waiting
  <2>1. \A x : Contains(WaitingOnes, x) => Ask[x] = Ask'[x]
    BY <1>2, <1>4, AskSame
  <2> QED
    BY <1>4, <2>1, EachSame DEF Waiting
<1>6. CASE req'[r].msg # NoMsg
  <2>1. Waiting' = Waiting
    BY <1>3, <1>5, <1>6, WaitingTypeNext
  <2> QED
    BY <1>1, <2>1, WaitingType, WaitingTypeNext DEF Box!vars, Avail
<1>7. CASE req'[r].msg = NoMsg
  <2>0. PICK f \in CallFilters : f = req'[r].filter
    OBVIOUS
  <2>1. Ask'[r] = [req |-> r, filter |-> f]
    BY <1>2, <2>0 DEF Ask
  <2>2. Waiting' = Append(Waiting, [req |-> r, filter |-> f])
    <3>1. Each(Append(WaitingOnes, r), Ask') = Append(Each(WaitingOnes, Ask'), Ask'[r])
      BY <1>4, EachAppend
    <3> QED
      BY <1>3, <1>5, <1>7, <2>1, <3>1, WaitingTypeNext
  <2>3. \A i \in DOMAIN Waiting : Waiting[i].req # r
    <3>1. \A i \in DOMAIN WaitingOnes : WaitingOnes[i] # r
      <4>1. DOMAIN WaitingOnes = 1 .. Len(WaitingOnes)
        BY <1>4
      <4> QED
        BY <1>4, <4>1 DEF Contains
    <3> QED
      BY <3>1, WaitingType
  <2>4. Box!Receive(r, f)
    BY <1>1, <2>2, <2>3, WaitingType, WaitingTypeNext DEF Box!Receive, Avail
  <2> QED
    BY <2>4 DEF Box!Next, Receivers
<1> QED
  BY <1>6, <1>7

(* A message meets the first receive of the line that it passes.           *)
LEMMA Leaves ==
  ASSUME IInv, IInv', NEW a \in Seq(Receivers), NEW b \in Seq(Receivers), NEW x \in Receivers,
         Line = Append(a, x) \o b, req[x].msg = NoMsg,
         WaitingOnes' = Only(a \o b, NoneYet),
         \A y \in Requests : Contains(a, y) \/ Contains(b, y) => req'[y].filter = req[y].filter,
         NEW m \in Messages, FirstOf(m, req[x].filter),
         \A y : Contains(a, y) /\ req[y].msg = NoMsg => ~Matches(m, req[y].filter),
         Avail' = Avail \ {m}
  PROVE  Box!Next
<1>1. /\ WaitingOnes = Only(Line, NoneYet) /\ Line \in Seq(Receivers) /\ WaitingOnes \in Seq(Receivers)
      /\ DOMAIN WaitingOnes = 1 .. Len(WaitingOnes) /\ x \in NoneYet
  BY WaitingType DEF NoneYet, Receivers, Requests
<1>2. PICK i \in 1 .. Len(WaitingOnes) :
        /\ WaitingOnes[i] = x
        /\ RemoveAt(WaitingOnes, i) = Only(a \o b, NoneYet)
        /\ \A j \in 1 .. i - 1 : Contains(a, WaitingOnes[j]) /\ WaitingOnes[j] \in NoneYet
  <2>1. PICK K : K = NoneYet
    OBVIOUS
  <2>2. /\ Only(Append(a, x) \o b, K) = Append(Only(a, K), x) \o Only(b, K)
        /\ Only(a \o b, K) = Only(a, K) \o Only(b, K)
        /\ Only(a, K) \in Seq(Receivers) /\ Only(b, K) \in Seq(Receivers)
    <3>1. x \in K
      BY <1>1, <2>1
    <3> QED
      BY <3>1, OnlyAround, SMTT(30)
  <2>3. PICK ka \in Seq(Receivers), kb \in Seq(Receivers) : ka = Only(a, K) /\ kb = Only(b, K)
    BY <2>2
  <2>4. WaitingOnes = Append(ka, x) \o kb /\ Only(a \o b, NoneYet) = ka \o kb
    BY <1>1, <2>1, <2>2, <2>3
  <2>5. \A y : Contains(ka, y) <=> Contains(a, y) /\ y \in NoneYet
    BY <2>1, <2>3, OnlyContains
  <2>6. LET s == Append(ka, x) \o kb IN
        /\ s \in Seq(Receivers) /\ Len(ka) + 1 \in 1 .. Len(s) /\ s[Len(ka) + 1] = x
        /\ \A j \in 1 .. Len(ka) : s[j] = ka[j]
    BY Middle
  <2>7. RemoveAt(Append(ka, x) \o kb, Len(ka) + 1) = ka \o kb
    BY MiddleRemoved
  <2>8. PICK n \in Nat : n = Len(ka)
    OBVIOUS
  <2>9. \A j \in 1 .. n : Contains(ka, ka[j])
    BY <2>8 DEF Contains
  <2>10. /\ n + 1 \in 1 .. Len(WaitingOnes) /\ WaitingOnes[n + 1] = x
         /\ RemoveAt(WaitingOnes, n + 1) = Only(a \o b, NoneYet)
         /\ \A j \in 1 .. n : WaitingOnes[j] = ka[j]
    BY <2>4, <2>6, <2>7, <2>8
  <2>11. \A j \in 1 .. n : Contains(a, WaitingOnes[j]) /\ WaitingOnes[j] \in NoneYet
    BY <2>5, <2>9, <2>10
  <2>12. (n + 1) - 1 = n
    BY <2>8
  <2> QED
    BY <2>10, <2>11, <2>12
<1>3. Waiting' = RemoveAt(Waiting, i)
  <2>1. Waiting' = Each(Only(a \o b, NoneYet), Ask')
    BY WaitingTypeNext
  <2>2. \A y : Contains(Only(a \o b, NoneYet), y) => Ask'[y] = Ask[y]
    <3>1. /\ a \o b \in Seq(Receivers)
          /\ \A y : Contains(a \o b, y) <=> Contains(a, y) \/ Contains(b, y)
      BY ConcatContains
    <3>2. \A y : Contains(Only(a \o b, NoneYet), y) => Contains(a \o b, y) /\ y \in NoneYet
      BY <3>1, OnlyContains
    <3>3. NoneYet \subseteq Requests
      BY DEF NoneYet
    <3> QED
      BY <3>1, <3>2, <3>3, AskSame
  <2>3. Only(a \o b, NoneYet) \in Seq(Receivers)
    BY <1>1, <1>2, RemoveAtElements
  <2>4. Waiting' = Each(Only(a \o b, NoneYet), Ask)
    BY <2>1, <2>2, <2>3, EachSame
  <2>5. RemoveAt(Each(WaitingOnes, Ask), i) = Each(RemoveAt(WaitingOnes, i), Ask)
    BY <1>1, EachRemoveAt
  <2> QED
    BY <1>2, <2>4, <2>5 DEF Waiting
<1>4. /\ Waiting = [k \in DOMAIN WaitingOnes |->
                      [req |-> WaitingOnes[k], filter |-> req[WaitingOnes[k]].filter]]
      /\ Waiting' = [k \in DOMAIN WaitingOnes' |->
                      [req |-> WaitingOnes'[k], filter |-> req'[WaitingOnes'[k]].filter]]
  BY WaitingType, WaitingTypeNext
<1>5. /\ i \in DOMAIN Waiting /\ Waiting[i].filter = req[x].filter
      /\ \A j \in 1 .. i - 1 : ~Matches(m, Waiting[j].filter)
  <2>1. \A j \in 1 .. i - 1 : j \in 1 .. Len(WaitingOnes)
    BY <1>1
  <2>2. \A j \in 1 .. i - 1 : ~Matches(m, req[WaitingOnes[j]].filter)
    BY <1>2 DEF NoneYet
  <2> QED
    BY <1>1, <1>2, <1>4, <2>1, <2>2
<1>6. Box!Match(i, m)
  <2>1. Box!First(m, Waiting[i].filter)
    BY <1>5 DEF Box!First, FirstOf, Avail
  <2> QED
    BY <1>3, <1>4, <1>5, <2>1 DEF Box!Match, Box!RemoveAt, RemoveAt, Avail
<1> QED
  BY <1>4, <1>5, <1>6 DEF Box!Next, FirstOf, Avail

(* A removing probe takes the first message that passes.                   *)
LEMMA Takes ==
  ASSUME IInv, IInv', Line' = Line,
         \A r \in Requests : Contains(Line, r) =>
           req'[r].msg = req[r].msg /\ req'[r].filter = req[r].filter,
         NEW m \in Messages, NEW f \in CallFilters, FirstOf(m, f), Avail' = Avail \ {m}
  PROVE  Box!Next
<1>1. Waiting' = Waiting
  BY SameLine
<1>2. Box!First(m, f)
  BY DEF Box!First, FirstOf, Avail
<1>3. Box!ProbeAway(m, f)
  BY <1>1, <1>2, WaitingType, WaitingTypeNext DEF Box!ProbeAway, Avail
<1> QED
  BY <1>3 DEF Box!Next, FirstOf, Avail

(* What message_search finds is the first that passes.                     *)
LEMMA SearchFirst ==
  ASSUME IInv, Once, NEW c \in Channels, NEW f, NEW i, i = message_search(c, f), i # 0
  PROVE  FirstIn(c, recvList[c][i], f)
<1> DEFINE I == {k \in 1 .. Len(recvList[c]) : Matches(slot[c][recvList[c][k]], f)}
<1>1. recvList[c] \in Seq(Slots) /\ IsInjective(recvList[c])
  BY DEF IInv, TypeOK, Once
<1>2. i = IF I # {} THEN Min(I) ELSE 0
  BY DEF message_search, SelectInSeq
<1>3. I \in SUBSET (1 .. Len(recvList[c]))
  OBVIOUS
<1>4. \A x : Precedes(recvList[c], x, recvList[c][i]) =>
        \E k \in 1 .. Len(recvList[c]) : k \notin I /\ recvList[c][k] = x
  <2> HIDE DEF I
  <2>1. PICK q, J, n : q = recvList[c] /\ J = I /\ n = i
    OBVIOUS
  <2>2. q \in Seq(Slots) /\ IsInjective(q) /\ J \in SUBSET (1 .. Len(q))
    BY <1>1, <1>3, <2>1
  <2>3. IsFirst(q, J, IF J # {} THEN Min(J) ELSE 0)
    BY <2>2, FirstPassing
  <2>4. n = IF J # {} THEN Min(J) ELSE 0
    BY <1>2, <2>1
  <2> QED
    BY <2>1, <2>3, <2>4 DEF IsFirst
<1> QED
  BY <1>4 DEF FirstIn
-----------------------------------------------------------------------------
(* Steps that touch neither messages nor what waits for them.              *)
LEMMA QuietMail ==
  ASSUME IInv, IInv', InOrder,
         \/ clh_finalize \/ run_ \/ SendOne \/ SendDone \/ DetachRecvQueue \/ NextInBatch
         \/ SearchWild \/ ProgressDone \/ (\E r \in Requests : ProgressTransfer(r))
         \/ OpInProgress \/ OpsEnd \/ UcxError \/ Stopped \/ UNCHANGED vars
  PROVE  InOrder' /\ UNCHANGED Box!vars
<1> USE DEF vars, listVars, appVars, runVars, workVars, ucxVars
<1>1. /\ UNCHANGED <<req, call, recvList, slot, net, unexpected, expected>>
      /\ rpc' = "claim" => rpc = "claim" /\ UNCHANGED <<batch, found>>
  BY DEF clh_finalize, run_, SendOne,
         SendDone, DetachRecvQueue, NextInBatch, SearchWild, ProgressDone, ProgressTransfer,
         OpInProgress, OpsEnd, UcxError, Stopped
<1>2. InOrder'
  BY <1>1, OrderKept DEF OnlyLess, SameCall
<1>3. Line' = Line
  <2>1. CASE DetachRecvQueue
    <3>1. /\ rpc = "recv" /\ batch = <<>> /\ recvQ \in Seq(Receivers) /\ expected \in Seq(Receivers)
      BY <2>1, LineType DEF DetachRecvQueue, IInv, BatchWhileWalking, Walking, Dead
    <3>2. Rest = <<>> /\ Rest' = recvQ /\ recvQ' = <<>> /\ expected' = expected
      BY <2>1, <3>1 DEF DetachRecvQueue, Rest
    <3>3. expected \o <<>> = expected /\ expected \o recvQ \in Seq(Receivers)
          /\ (expected \o recvQ) \o <<>> = expected \o recvQ
      BY <3>1, ConcatEmptySeq, ConcatProperties
    <3> QED
      BY <3>2, <3>3 DEF Line
  <2>2. CASE NextInBatch
    <3>1. rpc = "next" /\ rpc' # "next" /\ batch' = Tail(batch) /\ recvQ' = recvQ /\ expected' = expected
      BY <2>2 DEF NextInBatch
    <3> QED
      BY <3>1 DEF Line, Rest
  <2>3. CASE ~DetachRecvQueue /\ ~NextInBatch
    <3>1. /\ UNCHANGED <<expected, batch, recvQ>> /\ (rpc' = "next" <=> rpc = "next")
      BY <2>3 DEF clh_finalize, run_, SendOne,
         SendDone, SearchWild, ProgressDone, ProgressTransfer,
         OpInProgress, OpsEnd, UcxError, Stopped
    <3> QED
      BY <3>1 DEF Line, Rest
  <2> QED
    BY <2>1, <2>2, <2>3
<1>4. \A m \in Messages : Unclaimed(m)' <=> Unclaimed(m)
  BY <1>1 DEF Unclaimed, Listed
<1> QED
  BY <1>1, <1>2, <1>3, <1>4, Stutters

(* Calls on requests that do not wait, by which none comes to wait.        *)
LEMMA CallMail ==
  ASSUME IInv, IInv', Matched, InOrder, NEW r \in Requests, ~Pending(r),
         \A x \in Requests : x # r => req'[x] = req[x],
         UNCHANGED <<rpc, batch, found, expected, recvQ, net, unexpected, recvList, slot>>,
         \A t \in Threads : call'[t] # NoCall => SameCall(t)
  PROVE  InOrder' /\ UNCHANGED Box!vars
<1>1. rpc' = "claim" => rpc = "claim" /\ UNCHANGED <<batch, found>>
                           /\ req'[Head(batch)] = req[Head(batch)]
  BY HeadPending DEF IInv, BatchWhileWalking, Walking
<1>2. InOrder'
  BY <1>1, OrderKept DEF OnlyLess
<1>3. Line' = Line
  BY DEF Line, Rest
<1>4. \A m \in Messages : Unclaimed(m)' <=> Unclaimed(m)
  BY DEF Unclaimed, Listed
<1>5. \A x \in Requests : Contains(Line, x) => req'[x] = req[x]
  BY InLine
<1> QED
  BY <1>2, <1>3, <1>4, <1>5, Stutters

(* Calls that give the run thread a receive.                               *)
LEMMA JoinMail ==
  ASSUME IInv, IInv', Matched, InOrder, NEW r \in Requests, ~Pending(r), r \in Receivers,
         \A x \in Requests : x # r => req'[x] = req[x], req'[r].filter \in CallFilters,
         recvQ' = Append(recvQ, r), ~InCall(r),
         UNCHANGED <<call, rpc, batch, found, expected, net, unexpected, recvList, slot>>
  PROVE  InOrder' /\ (Box!Next \/ UNCHANGED Box!vars)
<1>1. rpc' = "claim" => rpc = "claim" /\ UNCHANGED <<batch, found>>
                           /\ req'[Head(batch)] = req[Head(batch)]
  BY HeadPending DEF IInv, BatchWhileWalking, Walking
<1>2. \A t \in Threads : call'[t] # NoCall => SameCall(t)
  BY InProbeCall DEF InCall, SameCall
<1>3. InOrder'
  BY <1>1, <1>2, OrderKept DEF OnlyLess
<1>4. Line' = Append(Line, r)
  <2>1. expected \in Seq(Receivers) /\ Rest \in Seq(Receivers) /\ recvQ \in Seq(Receivers)
    BY LineType
  <2>2. PICK e \in Seq(Receivers) : e = expected \o Rest
    BY <2>1, ConcatProperties
  <2>3. e \o Append(recvQ, r) = Append(e \o recvQ, r)
    BY <2>1, <2>2, ConcatAppend
  <2>4. Rest' = Rest
    BY DEF Rest
  <2> QED
    BY <2>2, <2>3, <2>4 DEF Line
<1>5. \A m \in Messages : Unclaimed(m)' <=> Unclaimed(m)
  BY DEF Unclaimed, Listed
<1>6. ~Contains(Line, r)
  BY InLine
<1> QED
  BY <1>3, <1>4, <1>5, <1>6, Joins

(* A step of the mailbox, or none.                                         *)
BoxStep == Box!Next \/ UNCHANGED Box!vars

(* clh_send: a request that does not receive.                              *)
LEMMA SendMail ==
  ASSUME IInv, IInv', Matched, InOrder, NEW r \in SendRequests, NEW c \in Channels, NEW tag \in Tags,
         clh_send(r, c, tag)
  PROVE  InOrder' /\ BoxStep
<1> USE DEF clh_send, listVars, appVars, runVars, workVars, ucxVars
<1>1. /\ r \in Requests /\ IsFree(r) /\ ~Pending(r)
      /\ \A t \in Threads : call[t] # NoCall => call[t].req # r
  BY TakeNode DEF Pending, Requests
<1>2. \A x \in Requests : x # r => req'[x] = req[x]
  BY DEF IInv, TypeOK
<1>3. \A t \in Threads : call'[t] # NoCall => SameCall(t)
  BY <1>1, <1>2, InProbeCall DEF SameCall
<1> QED
  BY <1>1, <1>2, <1>3, CallMail DEF BoxStep

(* clh_recv: the receive joins the line.                                   *)
LEMMA RecvMail ==
  ASSUME IInv, IInv', Matched, InOrder, NEW r \in RecvRequests, NEW f \in CallFilters, f \in Filters,
         clh_recv_(r, f)
  PROVE  InOrder' /\ BoxStep
<1> USE DEF clh_recv_, listVars, appVars, runVars, workVars, ucxVars
<1>0. TypeOK /\ r \in Requests /\ r \in Receivers /\ req[r] \in RequestRecords
  BY DEF IInv, TypeOK, Requests, Receivers
<1>1. /\ IsFree(r) /\ ~Pending(r) /\ ~InCall(r)
  <2>1. /\ IsFree(r)
        /\ \A t \in Threads : call[t] # NoCall => call[t].req # r
    BY TakeNode
  <2> QED
    BY <2>1 DEF InCall, Pending
<1>2. /\ req'[r] = [req[r] EXCEPT !.type = "RECV", !.completed = FALSE,
                                  !.filter = f, !.msg = NoMsg, !.rx = NoMsg]
      /\ \A x \in Requests : x # r => req'[x] = req[x]
      /\ recvQ' = Append(recvQ, r)
      /\ UNCHANGED <<call, rpc, batch, found, expected, net, unexpected, recvList, slot>>
  BY <1>0 DEF TypeOK, clh_list_push_node
<1> HIDE DEF clh_recv_
<1>3. req'[r].filter = f
  BY <1>0, <1>2 DEF RequestRecords
<1> QED
  BY <1>0, <1>1, <1>2, <1>3, JoinMail DEF BoxStep

(* clh_request_recv: the receive joins the line, with its message or not.  *)
LEMMA RequestRecvMail ==
  ASSUME IInv, IInv', Matched, InOrder, NEW r \in ProbeRequests, clh_request_recv(r)
  PROVE  InOrder' /\ BoxStep
<1> USE DEF clh_request_recv, listVars, appVars, runVars, workVars, ucxVars
<1>0. /\ TypeOK /\ r \in Requests /\ r \in Receivers /\ req[r] \in RequestRecords
      /\ req[r].result /\ req[r].seen # NoMsg /\ ~Pending(r) /\ ~InCall(r)
  BY DEF IInv, TypeOK, Requests, Receivers, ResultsCompleted, Pending
<1>1. /\ req'[r] = [req[r] EXCEPT !.completed = FALSE, !.result = FALSE,
                        !.filter = Exactly(Envelope(req[r].seen)), !.msg = HandleToReceive(r),
                        !.seen = NoMsg]
      /\ \A x \in Requests : x # r => req'[x] = req[x]
      /\ recvQ' = Append(recvQ, r)
      /\ UNCHANGED <<call, rpc, batch, found, expected, net, unexpected, recvList, slot>>
  BY <1>0 DEF TypeOK, clh_list_push_node
<1> HIDE DEF clh_request_recv
<1>2. req'[r].filter = Exactly(Envelope(req[r].seen)) /\ Envelope(req[r].seen) \in Envelopes
  BY <1>0, <1>1, EnvelopesAreStored DEF RequestRecords
<1>3. req'[r].filter \in CallFilters
  BY <1>2 DEF CallFilters
<1> QED
  BY <1>0, <1>1, <1>3, JoinMail DEF BoxStep

(* clh_request_release: the request is in no line.                         *)
LEMMA ReleaseMail ==
  ASSUME IInv, IInv', Matched, InOrder, NEW r \in Requests, clh_request_release(r)
  PROVE  InOrder' /\ BoxStep
<1> USE DEF clh_request_release, listVars, appVars, runVars, workVars, ucxVars
<1>0. ~Pending(r) /\ ~InCall(r)
  BY DEF Pending
<1>1. \A x \in Requests : x # r => req'[x] = req[x]
  BY DEF IInv, TypeOK
<1>2. \A t \in Threads : call'[t] # NoCall => SameCall(t)
  BY <1>0, <1>1, InProbeCall DEF SameCall, InCall
<1>3. UNCHANGED <<rpc, batch, found, expected, recvQ, net, unexpected, recvList, slot>>
  OBVIOUS
<1> HIDE DEF clh_request_release
<1> QED
  BY <1>0, <1>1, <1>2, <1>3, CallMail DEF BoxStep

(* The probe copies the node it found into its request.                    *)
LEMMA CopyMail ==
  ASSUME IInv, IInv', Matched, InOrder, NEW t \in Threads, ProbeCopy(t)
  PROVE  InOrder' /\ BoxStep
<1> USE DEF ProbeCopy, listVars, appVars, runVars, workVars, ucxVars
<1>0. TypeOK /\ call[t] # NoCall /\ call[t].pc \in DOMAIN CopiedNext
  BY DEF IInv, NoCall, CopiedNext
<1>1. PICK r \in ProbeRequests, m \in Messages, field \in DOMAIN CopiedNext :
        /\ r = call[t].req /\ m = slot[call[t].channel][call[t].slot]
        /\ field = call[t].pc
  BY <1>0, InProbeCall
<1>2. /\ r \in Requests /\ req[r] \in RequestRecords /\ ~Pending(r) /\ call[t] \in CallRecords
  BY <1>0, <1>1, InProbeCall DEF TypeOK, Pending
<1>3. /\ req' = [req EXCEPT ![r] = Copied(@, field, m)]
      /\ call' = [call EXCEPT ![t] = IF field = "tag" /\ ~req[r].remove THEN NoCall
                                     ELSE [@ EXCEPT !.pc = CopiedNext[field]]]
      /\ UNCHANGED <<rpc, batch, found, expected, recvQ, net, unexpected, recvList, slot>>
  BY <1>1
<1> HIDE DEF ProbeCopy
<1>4. /\ req'[r].filter = req[r].filter
      /\ \A x \in Requests : x # r => req'[x] = req[x]
  <2>1. req'[r] = Copied(req[r], field, m) /\ \A x \in Requests : x # r => req'[x] = req[x]
    BY <1>0, <1>2, <1>3 DEF TypeOK
  <2>2. PICK q \in RequestRecords : q = req[r]
    BY <1>2
  <2>3. Copied(q, field, m).filter = q.filter
    BY CopiedRecord
  <2> QED
    BY <2>1, <2>2, <2>3
<1>5. \A x \in Requests : req'[x].filter = req[x].filter
  BY <1>4
<1>6. ASSUME NEW u \in Threads, call'[u] # NoCall  PROVE SameCall(u)
  <2>1. CASE u # t
    BY <1>0, <1>3, <1>5, <1>6, <2>1, InProbeCall DEF SameCall, TypeOK
  <2>2. CASE u = t
    <3>1. call'[t] = [call[t] EXCEPT !.pc = CopiedNext[field]]
      BY <1>0, <1>3, <1>6, <2>2 DEF TypeOK
    <3>2. call'[t].req = call[t].req /\ call'[t].channel = call[t].channel /\ call'[t].slot = call[t].slot
      BY <1>2, <3>1 DEF CallRecords
    <3> QED
      BY <1>0, <1>1, <1>4, <2>2, <3>2 DEF SameCall
  <2> QED
    BY <2>1, <2>2
<1> QED
  BY <1>2, <1>3, <1>4, <1>6, CallMail DEF BoxStep

(* clh_wait finds the operation done: it was in no line any more.          *)
LEMMA OpDoneMail ==
  ASSUME IInv, IInv', Matched, InOrder, OpDone
  PROVE  InOrder' /\ BoxStep
<1> USE DEF OpDone, listVars, appVars, runVars, workVars, ucxVars
<1>0. /\ TypeOK /\ ops \in Seq(Requests) /\ idx \in 1 .. Len(ops) /\ rpc = "ops"
      /\ UNCHANGED <<call, rpc, batch, found, expected, recvQ, net, unexpected, recvList, slot>>
  BY DEF IInv, TypeOK
<1>1. PICK r \in Requests : r = ops[idx]
  BY <1>0
<1>2. req' = [req EXCEPT ![r] = [@ EXCEPT !.completed = TRUE, !.env = Sender(r)]]
  BY <1>1
<1> HIDE DEF OpDone
<1>3. /\ req'[r].msg = req[r].msg /\ req'[r].filter = req[r].filter
      /\ \A x \in Requests : x # r => req'[x] = req[x]
  BY <1>0, <1>2 DEF TypeOK, RequestRecords
<1>4. \A x \in Requests : req'[x].msg = req[x].msg /\ req'[x].filter = req[x].filter
  BY <1>3
<1>5. \A t \in Threads : call'[t] # NoCall => SameCall(t)
  BY <1>0, <1>4, InProbeCall DEF SameCall
<1>6. InOrder'
  BY <1>0, <1>5, OrderKept DEF OnlyLess
<1>7. Line' = Line
  BY <1>0 DEF Line, Rest
<1>8. \A m \in Messages : Unclaimed(m)' <=> Unclaimed(m)
  BY <1>0 DEF Unclaimed, Listed
<1> QED
  BY <1>4, <1>6, <1>7, <1>8, Stutters DEF BoxStep

(* clh_probe: what it finds is the first of its list that passes.          *)
LEMMA ProbeMail ==
  ASSUME IInv, IInv', Matched, Placed, InOrder, NEW t \in Threads, NEW r \in ProbeRequests,
         NEW f \in CallFilters, f \in Filters, NEW remove \in BOOLEAN, clh_probe_(t, r, f, remove)
  PROVE  InOrder' /\ BoxStep
<1> USE DEF clh_probe_, listVars, appVars, runVars, workVars, ucxVars
<1>0. /\ TypeOK /\ r \in Requests /\ req[r] \in RequestRecords /\ f.channel \in Channels
  BY DEF IInv, TypeOK, Requests, Filters
<1>1. /\ IsFree(r) /\ \A u \in Threads : call[u] # NoCall => call[u].req # r
  BY TakeNode
<1> DEFINE i == message_search(f.channel, f)
           new == [pc |-> "full_tag", req |-> r, channel |-> f.channel, slot |-> recvList[f.channel][i]]
<1>2. /\ req'[r] = [req[r] EXCEPT !.type = "PROBE", !.completed = TRUE, !.filter = f,
                                  !.msg = NoMsg, !.rx = NoMsg,
                                  !.result = FALSE, !.remove = remove]
      /\ \A x \in Requests : x # r => req'[x] = req[x]
      /\ UNCHANGED <<rpc, batch, found, expected, recvQ, net, unexpected, recvList, slot>>
      /\ call' = [call EXCEPT ![t] = IF i = 0 THEN NoCall ELSE new]
      /\ call[t] = NoCall
  BY <1>0 DEF TypeOK
<1>3. new.req = r /\ new.channel = f.channel /\ new.slot = recvList[f.channel][i]
  OBVIOUS
<1> HIDE DEF clh_probe_, new
<1>4. req'[r].filter = f
  BY <1>0, <1>2 DEF RequestRecords
<1>5. OnlyLess
  BY <1>2 DEF OnlyLess
<1>6. ~Pending(r)
  BY <1>1 DEF Pending
<1>7. SentBefore'
  BY <1>5, SentKept DEF InOrder
<1>8. FirstFound'
  <2>1. rpc = "claim" => req'[Head(batch)] = req[Head(batch)]
    BY <1>2, <1>6, HeadPending DEF IInv, BatchWhileWalking, Walking
  <2> QED
    BY <1>2, <1>5, <2>1, FoundKept DEF InOrder, FirstFound
<1>9. ASSUME NEW u \in Threads, call'[u] # NoCall  PROVE ProbedFirst(u)'
  <2>1. CASE u # t
    <3>1. SameCall(u)
      BY <1>0, <1>1, <1>2, <1>9, <2>1, InProbeCall DEF SameCall, TypeOK
    <3> QED
      BY <1>5, <3>1, ProbedKept DEF InOrder
  <2>2. CASE u = t
    <3>1. i # 0 /\ call'[t] = new
      BY <1>0, <1>2, <1>9, <2>2 DEF TypeOK
    <3>2. FirstIn(f.channel, recvList[f.channel][i], f)
      <4> HIDE DEF i
      <4>1. i = message_search(f.channel, f)
        BY DEF i
      <4> QED
        BY <1>0, <3>1, <4>1, SearchFirst DEF Placed
    <3>3. PICK s : s = recvList[f.channel][i]
      OBVIOUS
    <3>4. FirstIn(f.channel, s, f) /\ call'[u].slot = s /\ call'[u].channel = f.channel /\ call'[u].req = r
      BY <1>3, <2>2, <3>1, <3>2, <3>3
    <3>5. FirstIn(f.channel, s, f)'
      BY <1>2, <3>4 DEF FirstIn
    <3> QED
      BY <1>4, <3>4, <3>5 DEF ProbedFirst, FirstIn
  <2> QED
    BY <2>1, <2>2
<1>10. InOrder'
  BY <1>7, <1>8, <1>9 DEF InOrder, FirstProbed
<1>11. Line' = Line
  BY <1>2 DEF Line, Rest
<1>12. \A m \in Messages : Unclaimed(m)' <=> Unclaimed(m)
  BY <1>2 DEF Unclaimed, Listed
<1>13. \A x \in Requests : Contains(Line, x) => req'[x] = req[x]
  BY <1>2, <1>6, InLine
<1> QED
  BY <1>10, <1>11, <1>12, <1>13, Stutters DEF BoxStep

(* message_search of the run thread finds the first that passes.           *)
LEMMA SearchMail ==
  ASSUME IInv, IInv', Placed, InOrder, SearchHeld
  PROVE  InOrder' /\ BoxStep
<1> USE DEF SearchHeld, listVars, appVars, runVars, workVars, ucxVars
<1> DEFINE r == Head(batch)
           c == req[r].env.channel
           i == message_search(c, req[r].filter)
<1>1. r \in Requests /\ (req[r].msg = NoMsg => c \in Channels)
  <2>1. r \in Requests
    BY HeadPending DEF IInv, BatchWhileWalking, Walking
  <2>2. c \in Channels \cup {Unset}
    BY <2>1, EnvelopesAreStored DEF IInv, TypeOK, RequestRecords
  <2> QED
    BY <2>1, <2>2
<1>2. /\ rpc' = "claim" => req[r].msg = NoMsg /\ i # 0 /\ found' = recvList[c][i]
      /\ rpc = "search" /\ rpc' # "next"
      /\ UNCHANGED <<req, call, batch, recvQ, recvList, slot, net, unexpected, expected>>
  OBVIOUS
<1> HIDE DEF SearchHeld
<1>3. OnlyLess
  BY <1>2 DEF OnlyLess
<1>4. SentBefore'
  BY <1>3, SentKept DEF InOrder
<1>5. FirstProbed'
  <2>1. \A t \in Threads : call'[t] # NoCall => SameCall(t)
    BY <1>2 DEF SameCall
  <2> QED
    BY <1>3, <2>1, ProbedKept DEF InOrder, FirstProbed
<1>6. ASSUME rpc' = "claim"  PROVE FirstIn(c, recvList[c][i], req[r].filter)
  <2> HIDE DEF i
  <2>1. i # 0 /\ i = message_search(c, req[r].filter) /\ c \in Channels
    BY <1>1, <1>2, <1>6 DEF i
  <2>2. PICK b \in Channels : b = c
    BY <2>1
  <2> QED
    BY <2>1, <2>2, SearchFirst DEF Placed
<1>7. FirstFound'
  BY <1>2, <1>6 DEF FirstFound, FirstIn
<1>8. Line' = Line
  BY <1>2 DEF Line, Rest
<1>9. \A m \in Messages : Unclaimed(m)' <=> Unclaimed(m)
  BY <1>2 DEF Unclaimed, Listed
<1>10. UNCHANGED Box!vars
  BY <1>2, <1>8, <1>9, Stutters
<1> QED
  BY <1>4, <1>5, <1>7, <1>10 DEF InOrder, BoxStep

(* A message moves from UCX to the end of a list.                          *)
LEMMA IncomingMail ==
  ASSUME Exclusive, IInv, IInv', Matched, Placed, InOrder, probe_incomming_messages_
  PROVE  InOrder' /\ BoxStep
<1> USE DEF probe_incomming_messages_, listVars, appVars, runVars, workVars, ucxVars
<1>0. /\ TypeOK /\ TypeOK' /\ KeepClear /\ SentBefore /\ rpc' = "send" /\ rpc = "probe"
      /\ UNCHANGED <<req, call, net, expected, batch, recvQ>>
  BY DEF IInv, Matched, InOrder
<1>1. Line' = Line
  BY <1>0 DEF Line, Rest
<1>2. CASE unexpected = <<>>
  <2>1. UNCHANGED <<recvList, slot, unexpected>>
    BY <1>2
  <2> HIDE DEF probe_incomming_messages_
  <2>2. \A t \in Threads : call'[t] # NoCall => SameCall(t)
    BY <1>0 DEF SameCall
  <2>3. InOrder'
    BY <1>0, <2>1, <2>2, OrderKept DEF OnlyLess
  <2>4. \A m \in Messages : Unclaimed(m)' <=> Unclaimed(m)
    BY <1>0, <2>1 DEF Unclaimed, Listed
  <2> QED
    BY <1>0, <1>1, <2>3, <2>4, Stutters DEF BoxStep
<1>3. CASE unexpected # <<>>
  <2> DEFINE h == Head(unexpected)
  <2>1. /\ h \in Messages /\ h.channel \in Channels /\ unexpected \in Seq(Messages)
        /\ \A x : Contains(unexpected, x) <=> Contains(Tail(unexpected), x) \/ x = h
    <3>1. unexpected \in Seq(Messages)
      BY <1>0 DEF TypeOK
    <3>2. h \in Messages /\ \A x : Contains(unexpected, x) <=> Contains(Tail(unexpected), x) \/ x = h
      BY <1>3, <3>1, TailContains
    <3> QED
      BY <3>1, <3>2, MessagesType
  <2>2. PICK m \in Messages, c \in Channels : m = h /\ c = h.channel
    BY <2>1
  <2>3. PICK s \in Slots : /\ ~Contains(recvList[c], s)
                           /\ recvList' = [recvList EXCEPT ![c] = Append(@, s)]
                           /\ slot' = [slot EXCEPT ![c][s] = m]
    <3>1. recvList[c] \in Seq(Slots)
      BY <1>0 DEF TypeOK
    <3>2. \A x : x \notin ToSet(recvList[c]) <=> ~Contains(recvList[c], x)
      BY <3>1 DEF ToSet, Contains
    <3> QED
      BY <1>3, <2>2, <3>2 DEF clh_list_new_node, clh_list_push_node
  <2>4. unexpected' = Tail(unexpected)
    BY <1>3
  <2>5. /\ \A x, y : Precedes(unexpected', x, y) => Precedes(unexpected, x, y)
        /\ \A y : Contains(unexpected', y) => Precedes(unexpected, m, y)
        /\ \A x : Contains(unexpected, x) <=> Contains(unexpected', x) \/ x = m
    BY <1>3, <2>1, <2>2, <2>4, PrecedesInTail
  <2> HIDE DEF h, probe_incomming_messages_
  <2>6. /\ \A d \in Channels : d # c => recvList'[d] = recvList[d]
        /\ recvList'[c] = Append(recvList[c], s) /\ recvList[c] \in Seq(Slots)
        /\ \A d \in Channels, x \in Slots :
             slot'[d][x] = IF d = c /\ x = s THEN m ELSE slot[d][x]
    BY <1>0, <2>3 DEF TypeOK
  <2>7. /\ \A x, y : Precedes(recvList'[c], x, y) => Precedes(recvList[c], x, y) \/ (Contains(recvList[c], x) /\ y = s)
        /\ \A x : Contains(recvList'[c], x) <=> Contains(recvList[c], x) \/ x = s
    BY <2>6, PrecedesAppended, AppendContains
  <2>8. \A d \in Channels : recvList[d] \in Seq(Slots)
    BY <1>0 DEF TypeOK
  <2>9. \A d \in Channels : \A x, y : Precedes(recvList[d], x, y) =>
          x \in Slots /\ y \in Slots /\ Contains(recvList[d], x) /\ Contains(recvList[d], y)
    <3>1. \A d \in Channels : \A x : Contains(recvList[d], x) => x \in Slots
      BY <2>8 DEF Contains
    <3>2. \A d \in Channels : \A x, y : Precedes(recvList[d], x, y) =>
            Contains(recvList[d], x) /\ Contains(recvList[d], y)
      BY <2>8, PrecedesAfter
    <3> QED
      BY <3>1, <3>2
  <2>10. \A x : Contains(recvList[c], x) => x \in Slots /\ slot[c][x] \in Messages /\ Listed(slot[c][x])
    <3>1. ASSUME NEW x, Contains(recvList[c], x)
          PROVE  x \in Slots /\ slot[c][x] \in Messages /\ Listed(slot[c][x])
      <4>1. x \in Slots
        BY <2>8, <3>1 DEF Contains
      <4>2. slot[c][x] \in Messages
        BY <1>0, <3>1, <4>1 DEF TypeOK, IInv, ListedHold
      <4> QED
        BY <1>0, <3>1, <4>1, <4>2, ListedNode
    <3> QED
      BY <3>1
  <2>11. \A x : Listed(x)' <=> Listed(x) \/ x = m
    <3>1. \A d \in Channels, x \in Slots :
            Contains(recvList'[d], x) <=> Contains(recvList[d], x) \/ (d = c /\ x = s)
      BY <2>6, <2>7
    <3> QED
      BY <1>0, <2>3, <2>6, <3>1, ListedNode, ListedNodeNext
  <2>12. \A x, y : Precedes(unexpected', x, y) => ~Earlier(y, x)
    BY <1>0, <2>5 DEF SentBefore
  <2>13. ASSUME NEW d \in Channels, NEW x, NEW y, Precedes(recvList'[d], x, y)
         PROVE  ~Earlier(slot'[d][y], slot'[d][x])
    <3>1. CASE Precedes(recvList[d], x, y)
      <4>1. slot'[d][x] = slot[d][x] /\ slot'[d][y] = slot[d][y]
        <5>1. /\ x \in Slots /\ y \in Slots
              /\ Contains(recvList[d], x) /\ Contains(recvList[d], y)
          BY <2>9, <3>1
        <5>2. ~(d = c /\ x = s) /\ ~(d = c /\ y = s)
          BY <2>3, <5>1
        <5> QED
          BY <2>6, <5>1, <5>2
      <4> QED
        BY <1>0, <3>1, <4>1 DEF SentBefore
    <3>2. CASE d = c /\ Contains(recvList[c], x) /\ y = s
      <4>1. slot'[d][x] = slot[c][x] /\ slot'[d][y] = m
        BY <2>3, <2>6, <2>10, <3>2
      <4>2. ~Earlier(m, slot[c][x])
        BY <1>0, <2>5, <2>10, <3>2 DEF SentBefore
      <4> QED
        BY <4>1, <4>2
    <3> QED
      BY <2>6, <2>7, <2>13, <3>1, <3>2
  <2>14. ASSUME NEW x \in Messages, NEW o \in Messages
         PROVE  /\ Listed(x)' /\ (Contains(unexpected', o) \/ o \in net') => ~Earlier(o, x)
                /\ Contains(unexpected', x) /\ o \in net' => ~Earlier(o, x)
    BY <1>0, <2>5, <2>11 DEF SentBefore
  <2>15. SentBefore'
    BY <2>12, <2>13, <2>14, Zenon DEF SentBefore, Earlier
  <2>16. ASSUME NEW t \in Threads, call'[t] # NoCall  PROVE ProbedFirst(t)'
    <3>1. PICK d \in Channels, x \in Slots : d = call[t].channel /\ x = call[t].slot
      BY <1>0, <2>16, InProbeCall
    <3>2. Contains(recvList[d], x) /\ FirstIn(d, x, req[call[t].req].filter)
      BY <1>0, <2>16, <3>1 DEF KeepClear, InOrder, FirstProbed, ProbedFirst
    <3>3. ASSUME NEW y, Precedes(recvList'[d], y, x)
          PROVE  ~Matches(slot'[d][y], req[call[t].req].filter)
      <4>1. Precedes(recvList[d], y, x)
        BY <2>3, <2>6, <2>7, <3>2, <3>3
      <4>2. slot'[d][y] = slot[d][y]
        BY <2>3, <2>6, <2>9, <4>1
      <4> QED
        BY <3>2, <4>1, <4>2 DEF FirstIn
    <3> QED
      BY <1>0, <2>16, <3>1, <3>3 DEF ProbedFirst, FirstIn, InOrder, FirstProbed
  <2>17. FirstFound'
    BY <1>0 DEF FirstFound
  <2>18. \A x \in Messages : Unclaimed(x)' <=> Unclaimed(x)
    BY <1>0, <2>5, <2>11 DEF Unclaimed
  <2>19. UNCHANGED Box!vars
    BY <1>0, <1>1, <2>18, Stutters
  <2> QED
    BY <2>15, <2>16, <2>17, <2>19 DEF InOrder, FirstProbed, BoxStep
<1> QED
  BY <1>2, <1>3
-----------------------------------------------------------------------------
(* A message nobody has is at one of the places UCX and the lists are.     *)
LEMMA AvailPlaces ==
  ASSUME TypeOK, NEW m \in Messages
  PROVE  Unclaimed(m) <=> \/ AtNet \in PlacesOf(m) \/ InUcx \in PlacesOf(m)
                          \/ \E c \in Channels, s \in Slots : InNode(c, s) \in PlacesOf(m)
<1>1. /\ AtNet \in PlacesOf(m) <=> m \in net
      /\ InUcx \in PlacesOf(m) <=> Contains(unexpected, m)
  BY PlaceIs, PlacesDiffer
<1>2. \A c \in Channels, s \in Slots : InNode(c, s) \in PlacesOf(m) <=> Holds(c, s, m)
  BY PlaceIs, PlacesDiffer
<1> QED
  BY <1>1, <1>2, ListedNode DEF Unclaimed, Holds

(* The same, of the next state too.                                        *)
AvailIs == TypeOK => \A m \in Messages :
  Unclaimed(m) <=> \/ AtNet \in PlacesOf(m) \/ InUcx \in PlacesOf(m)
                   \/ \E c \in Channels, s \in Slots : InNode(c, s) \in PlacesOf(m)

(* It holds in every state of the invariant, ...                           *)
LEMMA AvailNow == IInv => AvailIs
BY AvailPlaces DEF AvailIs

(* ... the next one too.                                                   *)
LEMMA AvailNext == IInv' => AvailIs'
BY AvailNow, PTL

(* One that moves to a request is no longer there.                         *)
LEMMA Taken ==
  ASSUME IInv, IInv', OnePlace, OnePlace', NEW m \in Messages, NEW r \in Requests,
         Unclaimed(m), Claims(r, m)',
         \A x \in Messages : x # m => (Unclaimed(x)' <=> Unclaimed(x))
  PROVE  Avail' = Avail \ {m}
<1>1. With(r) \in PlacesOf(m)'
  BY PlaceIsNext
<1>2. ~Unclaimed(m)'
  <2>1. AvailIs'
    BY AvailNext
  <2>2. TypeOK'
    BY DEF IInv
  <2> QED
    BY <1>1, <2>1, <2>2, PlacesDiffer DEF AvailIs, OnePlace
<1> QED
  BY <1>2 DEF Avail

(* The first listed message that passes is the first sent that does.       *)
LEMMA FirstListed ==
  ASSUME IInv, OnePlace, SentBefore, OneWarmChannel, NEW c \in Channels, NEW s \in Slots, Contains(recvList[c], s),
         NEW f, FirstIn(c, s, f), NEW m \in Messages, m = slot[c][s], Matches(m, f)
  PROVE  FirstOf(m, f)
<1>1. TypeOK /\ recvList[c] \in Seq(Slots)
  BY DEF IInv, TypeOK
<1>2. Listed(m) /\ m \in Avail
  BY <1>1, ListedNode DEF Unclaimed, Avail
<1>3. ASSUME NEW o \in Messages, o.source = m.source, o.n < m.n, Matches(o, f), o \in Avail
      PROVE  FALSE
  <2>1. Earlier(o, m) /\ o # m
    BY <1>3, MessagesType DEF Earlier
  <2>2. CASE o \in net \/ Contains(unexpected, o)
    BY <1>2, <2>1, <2>2 DEF SentBefore
  <2>3. CASE Listed(o)
    <3>1. PICK x \in Slots : Contains(recvList[c], x) /\ slot[c][x] = o
      BY <1>1, <2>3, ListedNode DEF OneWarmChannel
    <3>2. x = s \/ Precedes(recvList[c], x, s) \/ Precedes(recvList[c], s, x)
      BY <1>1, <3>1, PrecedesAfter
    <3>3. CASE Precedes(recvList[c], x, s)
      BY <1>3, <3>1, <3>3 DEF FirstIn
    <3>4. CASE Precedes(recvList[c], s, x)
      BY <2>1, <3>1, <3>4 DEF SentBefore
    <3> QED
      BY <2>1, <3>1, <3>2, <3>3, <3>4
  <2> QED
    BY <1>3, <2>2, <2>3 DEF Avail, Unclaimed
<1> QED
  BY <1>2, <1>3 DEF FirstOf

(* A removing probe takes the first message that passes.                   *)
LEMMA RemoveMail ==
  ASSUME Exclusive, OneWarmChannel, IInv, IInv', Matched, Placed, Placed', InOrder,
         NEW t \in Threads, ProbeRemove(t)
  PROVE  InOrder' /\ BoxStep
<1> USE DEF ProbeRemove, listVars, appVars, runVars, workVars, ucxVars
<1>0. TypeOK /\ TypeOK' /\ KeepClear /\ call[t] # NoCall /\ call[t].pc = "remove"
  BY DEF IInv, NoCall, Matched
<1>1. PICK r \in ProbeRequests, c \in Channels, s \in Slots, m \in Messages :
        r = call[t].req /\ c = call[t].channel /\ s = call[t].slot /\ m = slot[c][s]
  BY <1>0, InProbeCall
<1>2. /\ r \in Requests /\ Contains(recvList[c], s) /\ ~IsFree(r) /\ Removing(t)
      /\ req[r].result /\ req[r].msg = m /\ req[r].rx = NoMsg /\ req[r].remove
      /\ Matches(m, req[r].filter)
  <2>1. CopiedSoFar(req[r], "remove", m)
    BY <1>0, <1>1 DEF KeepClear
  <2>2. /\ r \in Requests /\ req[r].result /\ req[r].msg = m
        /\ Matches(m, req[r].filter)
    BY <2>1 DEF Requests, CopiedSoFar
  <2> QED
    BY <1>0, <1>1, <2>2, InProbeCall DEF Matched, CallsFresh, KeepClear, Removing
<1>3. /\ recvList' = [recvList EXCEPT ![c] = RemoveFirst(@, s)]
      /\ UNCHANGED <<free, req, slot, net, expected, unexpected, rpc, batch, found, recvQ>>
      /\ call' = [call EXCEPT ![t] = NoCall]
  BY <1>1, <1>2 DEF clh_list_remove_node
<1> HIDE DEF ProbeRemove
<1>4. \A u \in Threads : call'[u] = NoCall
  BY <1>0, <1>2, <1>3 DEF KeepClear, TypeOK
<1>5. /\ \A d \in Channels, x \in Slots :
           Contains(recvList'[d], x) <=> Contains(recvList[d], x) /\ ~(d = c /\ x = s)
      /\ \A d \in Channels : \A x, y :
           /\ Precedes(recvList'[d], x, y) => Precedes(recvList[d], x, y)
           /\ Contains(recvList'[d], x) => Contains(recvList[d], x)
  <2>1. recvList[c] \in Seq(Slots) /\ IsInjective(recvList[c])
    BY <1>0 DEF TypeOK, Placed, Once
  <2>2. \A y : Contains(RemoveFirst(recvList[c], s), y) <=> Contains(recvList[c], y) /\ y # s
    BY <1>2, <2>1, RemoveFirstExactly
  <2>3. \A x, y : Precedes(RemoveFirst(recvList[c], s), x, y) => Precedes(recvList[c], x, y)
    BY <1>2, <2>1, PrecedesRemovedFirst
  <2>4. \A d \in Channels : recvList'[d] = IF d = c THEN RemoveFirst(recvList[c], s) ELSE recvList[d]
    BY <1>0, <1>3 DEF TypeOK
  <2> QED
    BY <2>2, <2>3, <2>4
<1>6. InOrder'
  BY <1>3, <1>4, <1>5, OrderKept DEF OnlyLess
<1>7. FirstIn(c, s, req[r].filter) /\ req[r].filter \in CallFilters
  BY <1>0, <1>1 DEF InOrder, FirstProbed, ProbedFirst
<1>8. FirstOf(m, req[r].filter)
  BY <1>1, <1>2, <1>7, FirstListed DEF Placed, InOrder
<1>9. Avail' = Avail \ {m}
  <2>1. Unclaimed(m)
    BY <1>8 DEF FirstOf, Avail
  <2>2. Claims(r, m)'
    <3>1. ~InCall(r)' /\ ~IsFree(r)'
      BY <1>2, <1>3, <1>4 DEF InCall, IsFree
    <3> QED
      BY <1>2, <1>3, <3>1 DEF Claims
  <2>3. ASSUME NEW x \in Messages, x # m  PROVE Unclaimed(x)' <=> Unclaimed(x)
    <3>1. Listed(x)' <=> Listed(x)
      BY <1>0, <1>1, <1>3, <1>5, <2>3, ListedNode, ListedNodeNext
    <3> QED
      BY <1>3, <3>1 DEF Unclaimed
  <2> QED
    BY <1>2, <2>1, <2>2, <2>3, Taken DEF Placed
<1>10. Line' = Line
  BY <1>3 DEF Line, Rest
<1>11. PICK f \in CallFilters : f = req[r].filter
  BY <1>7
<1>12. Box!Next
  BY <1>3, <1>8, <1>9, <1>10, <1>11, Takes
<1> QED
  BY <1>6, <1>12 DEF BoxStep

(* The head of the chain, before it is posted, is once in the line.        *)
LEMMA HeadInLine ==
  ASSUME IInv, Matched, rpc \in {"claim", "post"}
  PROVE  LET r == Head(batch) IN
         /\ batch \in Seq(Receivers) /\ batch # <<>> /\ recvQ \in Seq(Receivers)
         /\ expected \in Seq(Receivers) /\ r \in Receivers /\ r \in Requests
         /\ req[r] \in RequestRecords /\ Pending(r) /\ ~Contains(ops, r)
         /\ Line = Append(expected, r) \o (Tail(batch) \o recvQ)
         /\ Tail(batch) \o recvQ \in Seq(Receivers)
         /\ (expected \o Tail(batch)) \o recvQ = expected \o (Tail(batch) \o recvQ)
         /\ (Append(expected, r) \o Tail(batch)) \o recvQ = Line
         /\ \A y : Contains(expected, y) => Contains(Line, y) /\ y # r
         /\ \A y : Contains(Tail(batch) \o recvQ, y) => Contains(Line, y) /\ y # r
<1>1. /\ TypeOK /\ batch \in Seq(Receivers) /\ batch # <<>> /\ recvQ \in Seq(Receivers)
      /\ expected \in Seq(Receivers) /\ IsInjective(batch) /\ Rest = batch
  BY DEF IInv, TypeOK, Receivers, BatchWhileWalking, Walking, NodeOnOneList, Rest
<1>2. PICK r \in Receivers, k \in Seq(Receivers) : r = Head(batch) /\ k = Tail(batch)
  <2>1. Head(batch) \in Receivers /\ Tail(batch) \in Seq(Receivers)
    BY <1>1, TailContains
  <2> QED
    BY <2>1
<1>3. /\ r \in Requests /\ Pending(r) /\ Contains(batch, r) /\ ~Contains(ops, r)
      /\ req[r] \in RequestRecords
  BY <1>1, <1>2, HeadPending DEF IInv, OpsOnce, Dead, TypeOK
<1>4. /\ k \o recvQ \in Seq(Receivers)
      /\ Line = Append(expected, r) \o (k \o recvQ)
      /\ (expected \o k) \o recvQ = expected \o (k \o recvQ)
      /\ (Append(expected, r) \o k) \o recvQ = Append(expected, r) \o (k \o recvQ)
  <2>1. /\ Head(batch) \in Receivers /\ Tail(batch) \in Seq(Receivers) /\ Tail(batch) \o recvQ \in Seq(Receivers)
        /\ (expected \o batch) \o recvQ = Append(expected, Head(batch)) \o (Tail(batch) \o recvQ)
        /\ (expected \o Tail(batch)) \o recvQ = expected \o (Tail(batch) \o recvQ)
        /\ (Append(expected, Head(batch)) \o Tail(batch)) \o recvQ
             = Append(expected, Head(batch)) \o (Tail(batch) \o recvQ)
    <3> HIDE DEF Receivers
    <3>1. Tail(batch) \o recvQ \in Seq(Receivers) /\ Tail(batch) \in Seq(Receivers) /\ Head(batch) \in Receivers
      BY <1>1, Split
    <3>2. Tail(batch) \o recvQ \in Seq(Receivers)
          /\ (expected \o batch) \o recvQ = Append(expected, Head(batch)) \o (Tail(batch) \o recvQ)
      BY <1>1, SplitHead, SMTT(30)
    <3>3. Tail(batch) \o recvQ \in Seq(Receivers)
          /\ (expected \o Tail(batch)) \o recvQ = expected \o (Tail(batch) \o recvQ)
      BY <1>1, Split, SMTT(60)
    <3>4. Tail(batch) \o recvQ \in Seq(Receivers)
          /\ (Append(expected, Head(batch)) \o Tail(batch)) \o recvQ
             = Append(expected, Head(batch)) \o (Tail(batch) \o recvQ)
      <4>1. PICK a \in Seq(Receivers) : a = Append(expected, Head(batch))
        <5>1. Append(expected, Head(batch)) \in Seq(Receivers)
          BY <1>1, <3>1
        <5> QED
          BY <5>1
      <4>2. Tail(batch) \o recvQ \in Seq(Receivers)
            /\ (a \o Tail(batch)) \o recvQ = a \o (Tail(batch) \o recvQ)
        BY <1>1, Split
      <4> QED
        BY <3>1, <4>1, <4>2
    <3> QED
      BY <3>1, <3>2, <3>3, <3>4
  <2> QED
    BY <1>1, <1>2, <2>1 DEF Line
<1>5. \A y : Contains(Line, y) <=> Contains(expected, y) \/ y = r \/ Contains(k \o recvQ, y)
  <2>1. PICK b \in Seq(Receivers) : b = k \o recvQ
    BY <1>4
  <2>2. \A y : Contains(Append(expected, r) \o b, y) <=> Contains(expected, y) \/ y = r \/ Contains(b, y)
    BY <1>1, MiddleContains
  <2> QED
    BY <1>4, <2>1, <2>2
<1>6. ~Contains(expected, r)
  BY <1>3 DEF Matched, ExpectedPosted
<1>7. ~Contains(k \o recvQ, r)
  <2>1. ~Contains(k, r) /\ ~Contains(recvQ, r)
    BY <1>1, <1>2, <1>3, TailContains DEF IInv, NodeOnOneList
  <2>2. \A y : Contains(k \o recvQ, y) <=> Contains(k, y) \/ Contains(recvQ, y)
    BY <1>1, ConcatContains
  <2> QED
    BY <2>1, <2>2
<1> QED
  BY <1>1, <1>2, <1>3, <1>4, <1>5, <1>6, <1>7

(* The run thread gives the message found to its request.                  *)
LEMMA ClaimMail ==
  ASSUME Exclusive, OneWarmChannel, IInv, IInv', Matched, Placed, Placed', InOrder, ClaimHeld
  PROVE  InOrder' /\ BoxStep
<1> USE DEF ClaimHeld, listVars, appVars, runVars, workVars, ucxVars
<1> DEFINE h == Head(batch)
           d == req[h].env.channel
<1>0. /\ TypeOK /\ TypeOK' /\ KeepClear /\ rpc = "claim" /\ FoundMatches /\ FirstFound
      /\ h \in Requests /\ req[h] \in RequestRecords
  BY HeadPending DEF IInv, BatchWhileWalking, Walking, Matched, TypeOK, InOrder
<1>1. PICK r \in Requests, c \in Channels, s \in Slots, m \in Messages :
        r = h /\ c = d /\ s = found /\ m = slot[c][s]
  <2>1. d \in Channels
    BY <1>0 DEF IInv, ListedHold
  <2>2. found \in Slots /\ slot[d][found] \in Messages
    <3>1. found # 0 /\ slot[d][found] # NoMsg
      BY <1>0 DEF IInv, ListedHold
    <3>2. found \in Slots
      BY <1>0, <3>1 DEF TypeOK
    <3>3. slot[d][found] \in Messages \cup {NoMsg}
      BY <1>0, <2>1, <3>2 DEF TypeOK
    <3> QED
      BY <3>1, <3>2, <3>3
  <2>3. h \in Requests
    BY <1>0
  <2> HIDE DEF h, d
  <2> QED
    BY <2>1, <2>2, <2>3
<1>2. /\ req[r].msg = NoMsg /\ Matches(m, req[r].filter) /\ req[r] \in RequestRecords
      /\ Contains(recvList[c], s) /\ FirstIn(c, s, req[r].filter)
  BY <1>0, <1>1 DEF FoundMatches, KeepClear, FirstFound
<1>3. /\ req' = [req EXCEPT ![r] = [@ EXCEPT !.msg = m, !.env = Envelope(m)]]
      /\ recvList' = [recvList EXCEPT ![c] = RemoveFirst(@, s)]
      /\ rpc' = "post"
      /\ UNCHANGED <<free, call, slot, net, expected, unexpected, batch, found, recvQ>>
  BY <1>1, <1>2 DEF clh_list_remove_node
<1> HIDE DEF ClaimHeld
<1>4. /\ req'[r].msg = m /\ req'[r].filter = req[r].filter
      /\ req'[r].result = req[r].result /\ req'[r].completed = req[r].completed
      /\ \A x \in Requests : x # r => req'[x] = req[x]
  <2>1. /\ req'[r] = [req[r] EXCEPT !.msg = m, !.env = Envelope(m)]
        /\ \A x \in Requests : x # r => req'[x] = req[x]
    BY <1>0, <1>3 DEF TypeOK
  <2> QED
    BY <1>2, <2>1 DEF RequestRecords
<1>5. \A x \in Requests : req'[x].filter = req[x].filter
  BY <1>4
<1>6. /\ \A e \in Channels, x \in Slots :
           Contains(recvList'[e], x) <=> Contains(recvList[e], x) /\ ~(e = c /\ x = s)
      /\ \A e \in Channels : \A x, y :
           /\ Precedes(recvList'[e], x, y) => Precedes(recvList[e], x, y)
           /\ Contains(recvList'[e], x) => Contains(recvList[e], x)
  <2>1. recvList[c] \in Seq(Slots) /\ IsInjective(recvList[c])
    BY <1>0 DEF TypeOK, Placed, Once
  <2>2. \A y : Contains(RemoveFirst(recvList[c], s), y) <=> Contains(recvList[c], y) /\ y # s
    BY <1>2, <2>1, RemoveFirstExactly
  <2>3. \A x, y : Precedes(RemoveFirst(recvList[c], s), x, y) => Precedes(recvList[c], x, y)
    BY <1>2, <2>1, PrecedesRemovedFirst
  <2>4. \A e \in Channels : recvList'[e] = IF e = c THEN RemoveFirst(recvList[c], s) ELSE recvList[e]
    BY <1>0, <1>3 DEF TypeOK
  <2> QED
    BY <2>2, <2>3, <2>4
<1>7. InOrder'
  <2>1. \A t \in Threads : call'[t] # NoCall => SameCall(t)
    BY <1>3, <1>5, InProbeCall DEF SameCall
  <2> QED
    BY <1>3, <1>6, <2>1, OrderKept DEF OnlyLess
<1>8. FirstOf(m, req[r].filter)
  BY <1>1, <1>2, FirstListed DEF Placed, InOrder
<1>9. /\ r \in Receivers /\ Pending(r) /\ expected \in Seq(Receivers)
      /\ Line = Append(expected, r) \o (Tail(batch) \o recvQ)
      /\ Tail(batch) \o recvQ \in Seq(Receivers)
      /\ \A y : Contains(expected, y) => Contains(Line, y) /\ y # r
      /\ \A y : Contains(Tail(batch) \o recvQ, y) => Contains(Line, y) /\ y # r
  BY <1>0, <1>1, HeadInLine
<1>10. PICK b \in Seq(Receivers) : b = Tail(batch) \o recvQ
  BY <1>9
<1>11. Avail' = Avail \ {m}
  <2>1. Unclaimed(m)
    BY <1>8 DEF FirstOf, Avail
  <2>2. Claims(r, m)'
    <3>1. ~InCall(r) /\ ~IsFree(r) /\ ~req[r].result
      BY <1>9, InProbeCall DEF InCall, Pending, IInv, ResultsCompleted
    <3>2. ~InCall(r)' /\ ~IsFree(r)' /\ ~req'[r].result
      BY <1>3, <1>4, <3>1 DEF InCall, IsFree
    <3> QED
      BY <1>4, <3>2 DEF Claims
  <2>3. ASSUME NEW x \in Messages, x # m  PROVE Unclaimed(x)' <=> Unclaimed(x)
    <3>1. Listed(x)' <=> Listed(x)
      BY <1>0, <1>1, <1>3, <1>6, <2>3, ListedNode, ListedNodeNext
    <3> QED
      BY <1>3, <3>1 DEF Unclaimed
  <2> QED
    BY <2>1, <2>2, <2>3, Taken DEF Placed
<1>12. \A y \in Requests : y \in NoneYet' <=> y \in NoneYet /\ y # r
  <2>1. m # NoMsg
    BY MessagesType
  <2> QED
    BY <1>4, <2>1 DEF NoneYet
<1>13. WaitingOnes' = Only(expected \o b, NoneYet)
  <2>1. Line' = Append(expected, r) \o b
    BY <1>0, <1>3, <1>9, <1>10 DEF Line, Rest
  <2>2. PICK K : K = NoneYet'
    OBVIOUS
  <2>3. Only(Append(expected, r) \o b, K) = Only(expected \o b, K) /\ Only(expected, K) \in Seq(Receivers)
    <3>1. r \notin K
      BY <1>12, <2>2
    <3> QED
      BY <1>9, <3>1, OnlyDropped
  <2>4. Only(expected \o b, K) = Only(expected \o b, NoneYet)
    <3>1. /\ expected \o b \in Seq(Receivers)
          /\ \A y : Contains(expected \o b, y) <=> Contains(expected, y) \/ Contains(b, y)
      BY <1>9, ConcatContains
    <3>2. \A y : Contains(expected \o b, y) => y \in Requests /\ y # r
      BY <1>9, <1>10, <3>1, InLine
    <3>3. \A y : Contains(expected \o b, y) => (y \in K <=> y \in NoneYet)
      BY <1>12, <2>2, <3>2
    <3> QED
      BY <3>1, <3>3, OnlySame
  <2> QED
    BY <2>1, <2>2, <2>3, <2>4, WaitingTypeNext
<1>14. \A y : Contains(expected, y) => ~Matches(m, req[y].filter)
  <2>1. Listed(m)
    BY <1>0, <1>1, <1>2, ListedNode
  <2>2. \A y : Contains(expected, y) => y \in Requests
    BY <1>9, InLine
  <2> QED
    BY <2>1, <2>2 DEF Matched, Searched, NotStranded
<1>15. Box!Next
  BY <1>2, <1>5, <1>8, <1>9, <1>10, <1>11, <1>13, <1>14, Leaves
<1> QED
  BY <1>7, <1>15 DEF BoxStep

(* The first in UCX's unexpected queue that passes is the first sent.      *)
LEMMA FirstQueued ==
  ASSUME IInv, SentBefore, NEW m \in Messages, Contains(unexpected, m), NEW f, Matches(m, f),
         \A x : Precedes(unexpected, x, m) => ~Matches(x, f),
         \A x \in Messages : Listed(x) => ~Matches(x, f)
  PROVE  FirstOf(m, f)
<1>1. m \in Avail /\ unexpected \in Seq(Messages)
  BY DEF Avail, Unclaimed, IInv, TypeOK
<1>2. ASSUME NEW o \in Messages, o.source = m.source, o.n < m.n, Matches(o, f), o \in Avail
      PROVE  FALSE
  <2>1. Earlier(o, m) /\ o # m
    BY <1>2, MessagesType DEF Earlier
  <2>2. o \in net \/ Contains(unexpected, o)
    BY <1>2 DEF Avail, Unclaimed
  <2>3. ~(o \in net)
    BY <2>1 DEF SentBefore
  <2>4. Precedes(unexpected, o, m) \/ Precedes(unexpected, m, o)
    BY <1>1, <2>1, <2>2, <2>3, PrecedesAfter
  <2> QED
    BY <1>2, <2>1, <2>4 DEF SentBefore
<1> QED
  BY <1>1, <1>2 DEF FirstOf

(* So is one that arrives when none that is here passes.                   *)
LEMMA FirstArriving ==
  ASSUME NEW m \in net, m \in Messages, \A o \in net : ~Earlier(o, m), NEW f, Matches(m, f),
         \A x \in Messages : Contains(unexpected, x) \/ Listed(x) => ~Matches(x, f)
  PROVE  FirstOf(m, f)
BY DEF FirstOf, Avail, Unclaimed, Earlier

(* The receives that wait may move in the line past one that does not.     *)
LEMMA SameWaiting ==
  ASSUME IInv, IInv', WaitingOnes' = WaitingOnes,
         \A r \in Requests : Contains(Line, r) => req'[r].filter = req[r].filter,
         \A m \in Messages : Unclaimed(m)' <=> Unclaimed(m)
  PROVE  UNCHANGED Box!vars
<1>1. Avail' = Avail
  BY DEF Avail
<1>2. Line \in Seq(Receivers) /\ \A r : Contains(Line, r) => r \in Requests
  BY LineType DEF Contains, Receivers, Requests
<1>3. Waiting' = Waiting
  <2>1. WaitingOnes \in Seq(Receivers) /\ \A r : Contains(WaitingOnes, r) => Contains(Line, r)
    BY WaitingType
  <2>2. \A r : Contains(WaitingOnes, r) => Ask[r] = Ask'[r]
    BY <1>2, <2>1, AskSame
  <2>3. Each(WaitingOnes, Ask) = Each(WaitingOnes, Ask')
    BY <2>1, <2>2, EachSame
  <2> QED
    BY <2>3, WaitingTypeNext DEF Waiting
<1> QED
  BY <1>1, <1>3, WaitingType, WaitingTypeNext DEF Box!vars, Avail

(* A receive is posted: it leaves the line with what it brings or with the *)
(* first message of UCX that passes, or it stays, last of those posted.    *)
LEMMA PostMail ==
  ASSUME OneWarmChannel, IInv, IInv', Matched, Placed, Placed', InOrder, PostRecv
  PROVE  InOrder' /\ BoxStep
<1> USE DEF PostRecv, listVars, appVars, runVars, workVars, ucxVars
<1> DEFINE h == Head(batch)
           I == {k \in 1 .. Len(unexpected) : Matches(unexpected[k], req[h].filter)}
           j == SelectInSeq(unexpected, LAMBDA m : Matches(m, req[h].filter))
<1>0. /\ TypeOK /\ TypeOK' /\ rpc = "post" /\ rpc' = "next" /\ unexpected \in Seq(Messages)
      /\ IsInjective(unexpected) /\ batch' = batch /\ recvQ' = recvQ
      /\ UNCHANGED <<free, call, net, recvList, slot>>
  BY DEF IInv, TypeOK, Placed, Once
<1>1. j = IF I # {} THEN Min(I) ELSE 0
  BY DEF SelectInSeq
<1>2. /\ req' = [req EXCEPT ![h] = [@ EXCEPT !.rx = IF req[h].msg # NoMsg THEN req[h].msg
                                          ELSE IF j # 0 THEN unexpected[j] ELSE NoMsg]]
      /\ expected' = IF req[h].msg # NoMsg \/ j # 0 THEN expected ELSE Append(expected, h)
      /\ unexpected' = IF req[h].msg = NoMsg /\ j # 0 THEN RemoveAt(unexpected, j) ELSE unexpected
  OBVIOUS
<1> HIDE DEF PostRecv, j
<1>3. PICK i : i = j
  OBVIOUS
<1>4. /\ i # 0 => i \in 1 .. Len(unexpected) /\ Matches(unexpected[i], req[h].filter)
      /\ i # 0 => \A x : Precedes(unexpected, x, unexpected[i]) => ~Matches(x, req[h].filter)
  <2>1. I \in SUBSET (1 .. Len(unexpected))
    OBVIOUS
  <2>2. /\ i # 0 => i \in I
        /\ i # 0 => \A x : Precedes(unexpected, x, unexpected[i]) =>
                      \E k \in 1 .. Len(unexpected) : k \notin I /\ unexpected[k] = x
    <3> HIDE DEF I
    <3>1. PICK q, J, n : q = unexpected /\ J = I /\ n = i
      OBVIOUS
    <3>2. q \in Seq(Messages) /\ IsInjective(q) /\ J \in SUBSET (1 .. Len(q))
      BY <1>0, <2>1, <3>1
    <3>3. IsFirst(q, J, IF J # {} THEN Min(J) ELSE 0)
      BY <3>2, FirstPassing
    <3>4. n = IF J # {} THEN Min(J) ELSE 0
      BY <1>1, <1>3, <3>1
    <3> QED
      BY <3>1, <3>3, <3>4 DEF IsFirst
  <2> QED
    BY <2>2
<1>5. /\ h \in Requests /\ req[h] \in RequestRecords /\ Pending(h) /\ h \in Receivers
      /\ Tail(batch) \o recvQ \in Seq(Receivers) /\ expected \in Seq(Receivers)
      /\ Line = Append(expected, h) \o (Tail(batch) \o recvQ)
      /\ (expected \o Tail(batch)) \o recvQ = expected \o (Tail(batch) \o recvQ)
      /\ (Append(expected, h) \o Tail(batch)) \o recvQ = Line
      /\ \A y : Contains(expected, y) => Contains(Line, y) /\ y # h
      /\ \A y : Contains(Tail(batch) \o recvQ, y) => Contains(Line, y) /\ y # h
  BY <1>0, HeadInLine
<1>6. PICK r \in Receivers, b \in Seq(Receivers) : r = h /\ b = Tail(batch) \o recvQ
  BY <1>5
<1>7. /\ r \in Requests /\ req[r] \in RequestRecords /\ Pending(r)
      /\ Line = Append(expected, r) \o b /\ expected \in Seq(Receivers)
      /\ \A y : Contains(expected, y) => Contains(Line, y) /\ y # r
      /\ \A y : Contains(b, y) => Contains(Line, y) /\ y # r
  BY <1>5, <1>6
<1>8. Line' = (expected' \o Tail(batch)) \o recvQ
  BY <1>0 DEF Line, Rest
<1>9. /\ expected' = expected => Line' = expected \o b
      /\ expected' = Append(expected, r) => Line' = Line
  BY <1>5, <1>6, <1>8
<1> DEFINE rx == IF req[r].msg # NoMsg THEN req[r].msg ELSE IF i # 0 THEN unexpected[i] ELSE NoMsg
<1>10. /\ req'[r] = [req[r] EXCEPT !.rx = rx]
       /\ \A x \in Requests : x # r => req'[x] = req[x]
       /\ expected' = IF req[r].msg # NoMsg \/ i # 0 THEN expected ELSE Append(expected, r)
       /\ unexpected' = IF req[r].msg = NoMsg /\ i # 0 THEN RemoveAt(unexpected, i) ELSE unexpected
  BY <1>0, <1>2, <1>3, <1>6, <1>7 DEF TypeOK
<1> HIDE DEF rx
<1>11. req'[r].rx = rx /\ \A x \in Requests : req'[x].msg = req[x].msg /\ req'[x].filter = req[x].filter
  BY <1>7, <1>10 DEF RequestRecords
<1>12. /\ \A x, y : Precedes(unexpected', x, y) => Precedes(unexpected, x, y)
       /\ \A x : Contains(unexpected', x) => Contains(unexpected, x)
  <2>1. CASE i # 0 /\ req[r].msg = NoMsg
    <3>1. unexpected' = RemoveAt(unexpected, i) /\ i \in 1 .. Len(unexpected)
      BY <1>4, <1>10, <2>1
    <3> QED
      BY <1>0, <3>1, PrecedesRemoved, RemoveAtContains
  <2>2. CASE ~(i # 0 /\ req[r].msg = NoMsg)
    BY <1>10, <2>2
  <2> QED
    BY <2>1, <2>2
<1>13. InOrder'
  <2>1. \A t \in Threads : call'[t] # NoCall => SameCall(t)
    BY <1>0, <1>11, InProbeCall DEF SameCall
  <2> QED
    BY <1>0, <1>12, <2>1, OrderKept DEF OnlyLess
<1>14. NoneYet' = NoneYet
  BY <1>11 DEF NoneYet
<1>15. \A y \in Requests : req'[y].msg = req[y].msg /\ req'[y].filter = req[y].filter
  BY <1>11
<1>16. \A m \in Messages : unexpected' = unexpected => (Unclaimed(m)' <=> Unclaimed(m))
  BY <1>0 DEF Unclaimed, Listed
<1>17. CASE req[r].msg = NoMsg /\ i = 0
  BY <1>9, <1>10, <1>13, <1>15, <1>16, <1>17, Stutters DEF BoxStep
<1>18. CASE req[r].msg # NoMsg
  <2>1. WaitingOnes' = WaitingOnes
    <3>1. PICK K : K = NoneYet
      OBVIOUS
    <3>2. Only(Append(expected, r) \o b, K) = Only(expected \o b, K) /\ Only(expected, K) \in Seq(Receivers)
      <4>1. r \notin K
        BY <1>18, <3>1 DEF NoneYet
      <4> QED
        BY <1>7, <4>1, OnlyDropped
    <3>3. WaitingOnes = Only(Append(expected, r) \o b, K)
      BY <1>7, <3>1, WaitingType
    <3>4. WaitingOnes' = Only(expected \o b, K)
      BY <1>9, <1>10, <1>14, <1>18, <3>1, WaitingTypeNext
    <3> QED
      BY <3>2, <3>3, <3>4
  <2>2. \A y : Contains(Line, y) => y \in Requests
    BY InLine
  <2> QED
    BY <1>10, <1>13, <1>15, <1>16, <1>18, <2>1, <2>2, SameWaiting DEF BoxStep
<1>19. CASE req[r].msg = NoMsg /\ i # 0
  <2>1. PICK m \in Messages : m = unexpected[i]
    BY <1>0, <1>4, <1>19
  <2>2. rx = m /\ expected' = expected /\ unexpected' = RemoveAt(unexpected, i) /\ m # NoMsg
    BY <1>10, <1>19, <2>1, MessagesType DEF rx
  <2>3. /\ Contains(unexpected, m) /\ Matches(m, req[r].filter)
        /\ \A x : Precedes(unexpected, x, m) => ~Matches(x, req[r].filter)
    BY <1>4, <1>6, <1>19, <2>1 DEF Contains
  <2>4. FirstOf(m, req[r].filter)
    <3>1. \A x \in Messages : Listed(x) => ~Matches(x, req[r].filter)
      BY <1>0, <1>6, <1>19 DEF Matched, Searched
    <3> QED
      BY <2>3, <3>1, FirstQueued DEF InOrder
  <2>5. Avail' = Avail \ {m}
    <3>1. Unclaimed(m)
      BY <2>3 DEF Unclaimed
    <3>2. Claims(r, m)'
      <4>1. ~IsFree(r)'
        BY <1>0, <1>7 DEF IsFree, Pending
      <4> QED
        BY <1>11, <2>2, <4>1 DEF Claims
    <3>3. ASSUME NEW x \in Messages, x # m  PROVE Unclaimed(x)' <=> Unclaimed(x)
      <4>1. Contains(unexpected', x) <=> Contains(unexpected, x)
        <5>1. i \in 1 .. Len(unexpected)
          BY <1>4, <1>19
        <5> QED
          BY <1>0, <2>1, <2>2, <3>3, <5>1, RemoveAtContains
      <4> QED
        BY <1>0, <4>1 DEF Unclaimed, Listed
    <3> QED
      BY <1>7, <3>1, <3>2, <3>3, Taken DEF Placed
  <2>6. \A y : Contains(expected, y) => ~Matches(m, req[y].filter)
    <3>1. \A y : Contains(expected, y) => y \in Requests
      BY <1>7, InLine
    <3> QED
      BY <2>3, <3>1 DEF Matched, Searched, NotStranded
  <2>7. WaitingOnes' = Only(expected \o b, NoneYet)
    BY <1>9, <1>14, <2>2, WaitingTypeNext
  <2>8. Box!Next
    BY <1>7, <1>15, <1>19, <2>4, <2>5, <2>6, <2>7, Leaves
  <2> QED
    BY <1>13, <2>8 DEF BoxStep
<1> QED
  BY <1>17, <1>18, <1>19

(* The line, with a posted receive in the middle.                          *)
LEMMA PostedInLine ==
  ASSUME IInv, NEW i, i \in 1 .. Len(expected)
  PROVE  \E a, b \in Seq(Receivers), x \in Receivers :
           /\ x = expected[i] /\ Line = Append(a, x) \o b
           /\ (RemoveAt(expected, i) \o Rest) \o recvQ = a \o b
           /\ \A y : Contains(a, y) => \E k \in 1 .. i - 1 : expected[k] = y
<1>1. /\ expected \in Seq(Receivers) /\ Rest \in Seq(Receivers) /\ recvQ \in Seq(Receivers)
      /\ Line = expected \o (Rest \o recvQ)
  BY LineType
<1>2. PICK a, b, x : a = SubSeq(expected, 1, i - 1) /\ b = SubSeq(expected, i + 1, Len(expected))
                     /\ x = expected[i]
  OBVIOUS
<1>3. /\ a \in Seq(Receivers) /\ b \in Seq(Receivers) /\ x \in Receivers
      /\ expected = Append(a, x) \o b
      /\ RemoveAt(expected, i) = a \o b
      /\ \A y : Contains(a, y) => \E k \in 1 .. i - 1 : expected[k] = y
  <2> HIDE DEF Receivers
  <2>1. LET e == SubSeq(expected, 1, i - 1)
            d == SubSeq(expected, i + 1, Len(expected))
        IN  /\ e \in Seq(Receivers) /\ d \in Seq(Receivers) /\ expected[i] \in Receivers
            /\ expected = Append(e, expected[i]) \o d
            /\ RemoveAt(expected, i) = e \o d
            /\ \A y : Contains(e, y) => \E j \in 1 .. i - 1 : expected[j] = y
    BY <1>1, Around
  <2> QED
    BY <1>2, <2>1
<1>4. PICK w, z : w = Rest /\ z = recvQ
  OBVIOUS
<1>5. /\ b \o (w \o z) \in Seq(Receivers)
      /\ (Append(a, x) \o b) \o (w \o z) = Append(a, x) \o (b \o (w \o z))
      /\ ((a \o b) \o w) \o z = a \o (b \o (w \o z))
  <2>1. PICK R : R = Receivers
    OBVIOUS
  <2>2. a \in Seq(R) /\ x \in R
    BY <1>3, <2>1
  <2>3. b \in Seq(R)
    BY <1>3, <2>1
  <2>4. w \in Seq(R) /\ z \in Seq(R)
    BY <1>1, <1>4, <2>1
  <2>5. PICK t : t = w \o z /\ t \in Seq(R)
    BY <2>4, ConcatProperties
  <2>6. PICK c : c = Append(a, x) /\ c \in Seq(R)
    <3>1. Append(a, x) \in Seq(R)
      BY <2>2
    <3> QED
      BY <3>1
  <2>7. PICK v : v = a \o b /\ v \in Seq(R)
    BY <2>2, <2>3, ConcatProperties
  <2>8. b \o t \in Seq(R)
    BY <2>3, <2>5, ConcatProperties
  <2>9. (c \o b) \o t = c \o (b \o t)
    <3>1. c \in Seq(R) /\ t \in Seq(R)
      BY <2>5, <2>6
    <3> QED
      BY <2>3, <3>1, Assoc, SMTT(30)
  <2>10. (a \o b) \o t = a \o (b \o t)
    <3>1. a \in Seq(R) /\ t \in Seq(R)
      BY <2>2, <2>5
    <3> QED
      BY <2>3, <3>1, Assoc, SMTT(30)
  <2>11. (v \o w) \o z = v \o (w \o z)
    <3>1. v \in Seq(R)
      BY <2>7
    <3> QED
      BY <2>4, <3>1, Assoc, SMTT(30)
  <2> QED
    BY <2>1, <2>5, <2>6, <2>7, <2>8, <2>9, <2>10, <2>11
<1>6. PICK u \in Seq(Receivers) : u = b \o (w \o z)
  BY <1>5
<1>7. Line = Append(a, x) \o u /\ ((a \o b) \o Rest) \o recvQ = a \o u
  BY <1>1, <1>3, <1>4, <1>5, <1>6
<1>8. (RemoveAt(expected, i) \o Rest) \o recvQ = a \o u
  BY <1>3, <1>7
<1> QED
  BY <1>2, <1>3, <1>7, <1>8

(* What arrives goes to the first posted receive that it passes, or is the *)
(* last in UCX's unexpected queue.                                         *)
LEMMA ArrivalMail ==
  ASSUME OneWarmChannel, IInv, IInv', Matched, Placed, Placed', InOrder,
         NEW m \in Messages, ProgressArrival(m)
  PROVE  InOrder' /\ BoxStep
<1> USE DEF ProgressArrival, listVars, appVars, runVars, workVars, ucxVars
<1> DEFINE I == {k \in 1 .. Len(expected) : Matches(m, req[expected[k]].filter)}
           j == SelectInSeq(expected, LAMBDA r : Matches(m, req[r].filter))
<1>0. /\ TypeOK /\ TypeOK' /\ rpc = "progress" /\ unexpected \in Seq(Messages)
      /\ expected \in Seq(Receivers) /\ IsInjective(expected)
      /\ m \in net /\ net' = net \ {m} /\ \A o \in net : ~Earlier(o, m)
      /\ UNCHANGED <<free, call, recvList, slot, rpc, batch, found, recvQ>>
  BY DEF IInv, TypeOK, Placed, Once, Receivers
<1>1. j = IF I # {} THEN Min(I) ELSE 0
  BY DEF SelectInSeq
<1>2. \/ /\ j = 0 /\ unexpected' = Append(unexpected, m)
         /\ UNCHANGED <<expected, req>>
      \/ /\ j # 0 /\ expected' = RemoveAt(expected, j)
         /\ req' = [req EXCEPT ![expected[j]] = [@ EXCEPT !.rx = m]]
         /\ UNCHANGED unexpected
  OBVIOUS
<1> HIDE DEF ProgressArrival, j
<1>3. PICK i : i = j
  OBVIOUS
<1>4. /\ i # 0 => i \in 1 .. Len(expected) /\ Matches(m, req[expected[i]].filter)
      /\ i # 0 => \A x : Precedes(expected, x, expected[i]) => ~Matches(m, req[x].filter)
  <2>1. I \in SUBSET (1 .. Len(expected))
    OBVIOUS
  <2>2. /\ i # 0 => i \in I
        /\ i # 0 => \A x : Precedes(expected, x, expected[i]) =>
                      \E k \in 1 .. Len(expected) : k \notin I /\ expected[k] = x
    <3> HIDE DEF I
    <3>1. PICK q, J, n : q = expected /\ J = I /\ n = i
      OBVIOUS
    <3>2. q \in Seq(Receivers) /\ IsInjective(q) /\ J \in SUBSET (1 .. Len(q))
      BY <1>0, <2>1, <3>1
    <3>3. IsFirst(q, J, IF J # {} THEN Min(J) ELSE 0)
      BY <3>2, FirstPassing
    <3>4. n = IF J # {} THEN Min(J) ELSE 0
      BY <1>1, <1>3, <3>1
    <3> QED
      BY <3>1, <3>3, <3>4 DEF IsFirst
  <2> QED
    BY <2>2
<1>5. Rest' = Rest
  BY <1>0 DEF Rest
<1> HIDE DEF I
<1>6. CASE i = 0
  <2>1. unexpected' = Append(unexpected, m) /\ UNCHANGED <<expected, req>>
    BY <1>2, <1>3, <1>6
  <2>2. /\ \A x : Contains(unexpected', x) <=> Contains(unexpected, x) \/ x = m
        /\ \A x, y : Precedes(unexpected', x, y) =>
             Precedes(unexpected, x, y) \/ (Contains(unexpected, x) /\ y = m)
    BY <1>0, <2>1, AppendContains, PrecedesAppended
  <2>3. \A x : Listed(x)' <=> Listed(x)
    BY <1>0 DEF Listed
  <2>4. SentBefore'
    <3>1. \A x : Contains(unexpected, x) => x \in Messages
      BY <1>0 DEF Contains
    <3>2. ASSUME NEW x, NEW y, Precedes(unexpected', x, y)  PROVE ~Earlier(y, x)
      BY <1>0, <2>2, <3>1, <3>2 DEF InOrder, SentBefore
    <3>3. ASSUME NEW c \in Channels, NEW x, NEW y, Precedes(recvList'[c], x, y)
          PROVE  ~Earlier(slot'[c][y], slot'[c][x])
      BY <1>0, <3>3 DEF InOrder, SentBefore
    <3>4. ASSUME NEW x \in Messages, NEW o \in Messages
          PROVE  /\ Listed(x)' /\ (Contains(unexpected', o) \/ o \in net') => ~Earlier(o, x)
                 /\ Contains(unexpected', x) /\ o \in net' => ~Earlier(o, x)
      BY <1>0, <2>2, <2>3 DEF InOrder, SentBefore
    <3> QED
      BY <3>2, <3>3, <3>4, Zenon DEF SentBefore, Earlier
  <2>5. FirstFound' /\ FirstProbed'
    BY <1>0, <2>1 DEF FirstFound, FirstProbed, ProbedFirst, FirstIn, InOrder
  <2>6. Line' = Line
    BY <1>0, <1>5, <2>1 DEF Line
  <2>7. \A x \in Messages : Unclaimed(x)' <=> Unclaimed(x)
    BY <1>0, <2>2, <2>3 DEF Unclaimed
  <2> QED
    BY <2>1, <2>4, <2>5, <2>6, <2>7, Stutters DEF InOrder, BoxStep
<1>7. CASE i # 0
  <2>1. i \in 1 .. Len(expected)
    BY <1>4, <1>7
  <2>2. PICK a, b \in Seq(Receivers), r \in Receivers :
          /\ r = expected[i] /\ Line = Append(a, r) \o b
          /\ (RemoveAt(expected, i) \o Rest) \o recvQ = a \o b
          /\ \A y : Contains(a, y) => \E k \in 1 .. i - 1 : expected[k] = y
    BY <2>1, PostedInLine
  <2>3. /\ unexpected' = unexpected /\ expected' = RemoveAt(expected, i)
        /\ req' = [req EXCEPT ![r] = [@ EXCEPT !.rx = m]]
    BY <1>2, <1>3, <1>7, <2>2
  <2>4. /\ r \in Requests /\ Contains(expected, r) /\ Pending(r) /\ ~InCall(r) /\ ~IsFree(r)
        /\ req[r].msg = NoMsg /\ req[r] \in RequestRecords
    <3>1. Contains(expected, r) /\ r \in Requests
      BY <2>1, <2>2 DEF Contains, Receivers, Requests
    <3>2. Pending(r)
      BY <3>1 DEF Matched, ExpectedPosted, IInv, PendingIsTracked, ToReceive
    <3> QED
      BY <1>0, <3>1, <3>2, InProbeCall DEF InCall, Pending, Placed, Unfilled, TypeOK
  <2>5. /\ req'[r] = [req[r] EXCEPT !.rx = m]
        /\ \A x \in Requests : x # r => req'[x] = req[x]
    BY <1>0, <2>3, <2>4 DEF TypeOK
  <2>6. req'[r].rx = m /\ \A x \in Requests : req'[x].msg = req[x].msg /\ req'[x].filter = req[x].filter
    BY <2>4, <2>5 DEF RequestRecords
  <2>7. InOrder'
    <3>1. \A t \in Threads : call'[t] # NoCall => SameCall(t)
      BY <1>0, <2>6, InProbeCall DEF SameCall
    <3> QED
      BY <1>0, <2>3, <3>1, OrderKept DEF OnlyLess
  <2>8. \A y : Contains(a, y) => ~Matches(m, req[y].filter)
    <3>1. ASSUME NEW k \in 1 .. i - 1  PROVE Precedes(expected, expected[k], expected[i])
      <4>1. DOMAIN expected = 1 .. Len(expected) /\ Len(expected) \in Nat
        BY <1>0
      <4>2. k \in 1 .. Len(expected) /\ k < i
        BY <2>1, <4>1
      <4> QED
        BY <2>1, <4>1, <4>2 DEF Precedes
    <3> QED
      BY <1>4, <1>7, <2>2, <3>1
  <2>9. Matches(m, req[r].filter) /\ FirstOf(m, req[r].filter)
    <3>1. Matches(m, req[r].filter)
      BY <1>4, <1>7, <2>2
    <3>2. \A x \in Messages : Contains(unexpected, x) \/ Listed(x) => ~Matches(x, req[r].filter)
      BY <2>4 DEF Matched, Searched, NotStranded
    <3> QED
      BY <1>0, <3>1, <3>2, FirstArriving
  <2>10. Avail' = Avail \ {m}
    <3>1. Unclaimed(m)
      BY <1>0 DEF Unclaimed
    <3>2. Claims(r, m)'
      <4>1. ~IsFree(r)'
        BY <1>0, <2>4 DEF IsFree
      <4> QED
        BY <2>6, <4>1 DEF Claims
    <3>3. ASSUME NEW x \in Messages, x # m  PROVE Unclaimed(x)' <=> Unclaimed(x)
      BY <1>0, <2>3, <3>3 DEF Unclaimed, Listed
    <3> QED
      BY <2>4, <3>1, <3>2, <3>3, Taken DEF Placed
  <2>11. WaitingOnes' = Only(a \o b, NoneYet)
    <3>1. NoneYet' = NoneYet
      BY <2>6 DEF NoneYet
    <3>2. Line' = a \o b
      BY <1>0, <1>5, <2>2, <2>3 DEF Line
    <3> QED
      BY <3>1, <3>2, WaitingTypeNext
  <2>12. Box!Next
    <3>1. Line = Append(a, r) \o b
      BY <2>2
    <3>2. \A y \in Requests : Contains(a, y) \/ Contains(b, y) => req'[y].filter = req[y].filter
      BY <2>6
    <3>3. \A y : Contains(a, y) /\ req[y].msg = NoMsg => ~Matches(m, req[y].filter)
      BY <2>8
    <3>4. req[r].msg = NoMsg /\ FirstOf(m, req[r].filter)
      BY <2>4, <2>9
    <3> QED
      BY <2>10, <2>11, <3>1, <3>2, <3>3, <3>4, Leaves
  <2> QED
    BY <2>7, <2>12 DEF BoxStep
<1> QED
  BY <1>6, <1>7
-----------------------------------------------------------------------------
(* At first nothing waits and nothing is taken.                            *)
LEMMA InitMail == Init => InOrder /\ Box!Init
<1> SUFFICES ASSUME Init PROVE InOrder /\ Box!Init
  OBVIOUS
<1>1. /\ \A c \in Channels : recvList[c] = <<>>
      /\ expected = <<>> /\ batch = <<>> /\ recvQ = <<>> /\ unexpected = <<>>
      /\ net = Messages /\ rpc = "loop" /\ \A t \in Threads : call[t] = NoCall
  BY DEF Init
<1>2. \A x, y : ~Precedes(<<>>, x, y) /\ ~Contains(<<>>, x)
  BY DEF Precedes, Contains
<1>3. \A m : ~Listed(m)
  BY <1>1 DEF Listed
<1>4. InOrder
  BY <1>1, <1>2, <1>3 DEF InOrder, SentBefore, FirstFound, FirstProbed
<1>5. IInv
  BY InitInvariant
<1>6. WaitingOnes = <<>>
  <2>1. \A r : ~Contains(Line, r)
    BY <1>1, <1>2, <1>5, LineType DEF Rest
  <2>2. WaitingOnes \in Seq(Receivers) /\ \A r : ~Contains(WaitingOnes, r)
    BY <1>5, <2>1, WaitingType
  <2> QED
    BY <2>2 DEF Contains
<1>7. [i \in DOMAIN WaitingOnes |->
         [req |-> WaitingOnes[i], filter |-> req[WaitingOnes[i]].filter]] = <<>>
  BY <1>6
<1>8. {m \in Messages : Unclaimed(m)} = Messages
  BY <1>1 DEF Unclaimed
<1> QED
  BY <1>4, <1>7, <1>8 DEF Box!Init

(* The filters of the calls.                                               *)
LEMMA CallFiltersType ==
  ASSUME NEW c \in Channels, NEW T \in TagSets
  PROVE  /\ AnySource(c, T) \in Filters /\ AnySource(c, T) \in CallFilters
         /\ \A s \in Sources : FromSource(c, s, T) \in Filters /\ FromSource(c, s, T) \in CallFilters
<1>1. AnySource(c, T) \in Filters /\ \A s \in Sources : FromSource(c, s, T) \in Filters
  BY TagSetsType DEF AnySource, FromSource, Filters
<1>2. AnySource(c, T) \in {AnySource(d, U) : d \in Channels, U \in TagSets}
  OBVIOUS
<1>3. \A s \in Sources : FromSource(c, s, T) \in
        {FromSource(d, o, U) : d \in Channels, o \in Sources, U \in TagSets}
  OBVIOUS
<1> QED
  BY <1>1, <1>2, <1>3 DEF CallFilters

(* Every step of a handle is one of the mailbox or leaves it as it is.     *)
LEMMA MailStep ==
  ASSUME Exclusive, OneWarmChannel, IInv, IInv', Matched, Placed, Placed', InOrder, [Next]_vars
  PROVE  InOrder' /\ BoxStep
<1>1. CASE RunThread
  BY <1>1, QuietMail, IncomingMail, SearchMail, ClaimMail, PostMail, ArrivalMail, OpDoneMail
  DEF RunThread, Progress, BoxStep
<1>2. ASSUME NEW r \in SendRequests, NEW c \in Channels, NEW tag \in Tags, clh_send(r, c, tag)
      PROVE  InOrder' /\ BoxStep
  BY <1>2, SendMail
<1>3. ASSUME NEW r \in RecvRequests, NEW c \in Channels, NEW T \in TagSets,
             clh_recv(r, c, T) \/ \E s \in Sources : clh_recv_from(r, c, s, T)
      PROVE  InOrder' /\ BoxStep
  BY <1>3, CallFiltersType, RecvMail DEF clh_recv, clh_recv_from
<1>4. ASSUME NEW t \in Threads, NEW r \in ProbeRequests, NEW c \in Channels, NEW T \in TagSets,
             NEW remove \in Removes,
             \/ clh_probe(t, r, c, T, remove)
             \/ \E s \in Sources : clh_probe_source(t, r, c, s, T, remove)
      PROVE  InOrder' /\ BoxStep
  <2>1. remove \in BOOLEAN
    BY CallsType
  <2> QED
    BY <1>4, <2>1, CallFiltersType, ProbeMail DEF clh_probe, clh_probe_source
<1>5. ASSUME NEW t \in Threads, ProbeCall(t)
      PROVE  InOrder' /\ BoxStep
  BY <1>5, CopyMail, RemoveMail DEF ProbeCall
<1>6. CASE Application
  BY <1>2, <1>3, <1>4, <1>5, <1>6, RequestRecvMail, ReleaseMail, QuietMail DEF Application, BoxStep
<1>7. CASE Stopped \/ UNCHANGED vars
  BY <1>7, QuietMail DEF BoxStep
<1> QED
  BY <1>1, <1>6, <1>7 DEF Next

(* With the discipline and one channel, the order is an invariant.         *)
THEOREM AlwaysInOrder ==
  ASSUME Exclusive, OneWarmChannel
  PROVE  Spec => []InOrder
<1>1. IInv /\ IInv' /\ Matched /\ Placed /\ Placed' /\ InOrder /\ [Next]_vars => InOrder'
  BY MailStep
<1> QED
  BY <1>1, InitMail, Invariance, AlwaysMatched, AlwaysPlaced, PTL DEF Spec

(* With the discipline, on one channel and with requests that were all     *)
(* used on it before, the receives and probes of a node keep what a mailbox*)
(* promises.                                                               *)
THEOREM WorksAsMailbox ==
  ASSUME Exclusive, OneWarmChannel
  PROVE  Spec => ImplementsMailbox
<1>1. Init => Box!Init
  BY InitMail
<1>2. IInv /\ IInv' /\ Matched /\ Placed /\ Placed' /\ InOrder /\ [Next]_vars => [Box!Next]_(Box!vars)
  BY MailStep DEF BoxStep
<1> QED
  BY <1>1, <1>2, Invariance, AlwaysMatched, AlwaysPlaced, AlwaysInOrder, PTL
  DEF Spec, ImplementsMailbox, Box!Spec
=============================================================================
