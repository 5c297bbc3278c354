------------------------------ MODULE Network -------------------------------
(***************************************************************************)
(* The nodes of a job with the traffic between them: Startup's threads and *)
(* fences, and the messages of the warm-up and of the application from     *)
(* clh_send on one node to the end of a receive on another, through the    *)
(* run threads and UCX, until the endpoints are closed.                    *)
(*                                                                         *)
(* Each node's matching is taken at the level of Mailbox, which Worker     *)
(* implements on one channel: a message that was started is there for its  *)
(* destination, and goes to the first receive that its tag passes.  Tags   *)
(* are those of protocol.c.                                                *)
(***************************************************************************)
EXTENDS Startup, Tags, Sequences, SequencesExt

CONSTANTS
  AppMessages, \* what the applications may send: [src, dst, tag, id]
  AppReceives, \* what they may receive: [at, source, tag, mask, id]
  AnySource,   \* the source of a clh_recv
  None         \* no message

MessageType == [src : Nodes, dst : Nodes, tag : SUBSET u32, id : Nat]
ReceiveType ==
  [at : Nodes, source : Nodes \cup {AnySource}, tag : SUBSET u32, mask : SUBSET u32, id : Nat]

(* A rank is a number, which is the set of the places of its bits, and     *)
(* fits its field of the tag.                                              *)
Bits(n) == {i \in u32 : (n \div 2 ^ i) % 2 = 1}

ASSUME NodesFinite == IsFiniteSet(Nodes)
ASSUME RanksFit ==
  /\ Nodes \subseteq Nat
  /\ \A n \in Nodes : SenderFits(Bits(n)) /\ \A m \in Nodes : Bits(m) = Bits(n) => m = n

(* The warm-up, on channel 0 with tag 0 and all bits of the tag compared.  *)
WarmupMessage(n, m) == [src |-> n, dst |-> m, tag |-> {}, id |-> 0]
WarmupReceive(n, m) == [at |-> n, source |-> m, tag |-> {}, mask |-> u32, id |-> 0]

Messages == AppMessages \cup {WarmupMessage(n, m) : n, m \in Nodes}
Receives == AppReceives \cup {WarmupReceive(n, m) : n, m \in Nodes}

(* An application sends to no node its node has no endpoint to.            *)
ASSUME AppTypes ==
  /\ AppMessages \subseteq MessageType /\ AppReceives \subseteq ReceiveType
  /\ \A q \in AppMessages \cup AppReceives : q.id # 0
  /\ \A x \in AppMessages : x.src # x.dst
ASSUME OwnValues == AnySource \notin Nodes /\ None \notin MessageType

VARIABLES
  sendQ,   \* request_queues[SEND] of a node, head first
  wire,    \* what one node sent and another did not receive, oldest first
  waiting, \* the receives of a node that have no message, oldest first
  got,     \* the message a receive took
  called,  \* the sends and receives that were called
  ended,   \* those that completed
  waited   \* the nodes that called clh_finalize with all their own completed

traffic == <<sendQ, wire, waiting, got, called, ended, waited>>
netVars == <<vars, traffic>>

NetInit ==
  /\ Init
  /\ sendQ = [n \in Nodes |-> <<>>]
  /\ wire = [n \in Nodes |-> [m \in Nodes |-> <<>>]]
  /\ waiting = [n \in Nodes |-> <<>>]
  /\ got = [r \in Receives |-> None]
  /\ called = {} /\ ended = {} /\ waited = {}
-----------------------------------------------------------------------------
(* The tag a message carries, and whether it passes a receive's.           *)
FullTag(x) == clh_encode_tag({}, Bits(x.src), x.tag)

Takes(r, x) ==
  IF r.source = AnySource
  THEN Passes(FullTag(x), clh_encode_tag({}, {}, r.tag), MaskAnySource(r.mask))
  ELSE Passes(FullTag(x), clh_encode_tag({}, Bits(r.source), r.tag), MaskOneSource(r.mask))

OwnSends(n) == {x \in called : x \in Messages /\ x.src = n}
OwnReceives(n) == {r \in called : r \in Receives /\ r.at = n}
Own(n) == OwnSends(n) \cup OwnReceives(n)
Outstanding(n) == Own(n) \ ended
Closed(n) == thr[n] = "exited"
-----------------------------------------------------------------------------
(* The main thread.                                                        *)
WarmupSends(n) == {WarmupMessage(n, m) : m \in Peers(n)}

WarmupReceives(n) == {WarmupReceive(n, m) : m \in Peers(n)}

Warmup(n) ==
  /\ PostWarmup(n)
  /\ sendQ' = [sendQ EXCEPT ![n] = @ \o SetToSeq(WarmupSends(n))]
  /\ waiting' = [waiting EXCEPT ![n] = @ \o SetToSeq(WarmupReceives(n))]
  /\ called' = called \cup WarmupSends(n) \cup WarmupReceives(n)
  /\ UNCHANGED <<wire, got, ended, waited>>

WarmupEndsWrongSendsOnly(n) ==
  /\ Alive(n) /\ main[n] = "warming"
  /\ OwnSends(n) \subseteq ended
  /\ main' = [main EXCEPT ![n] = "barrier"]
  /\ UNCHANGED <<thr, run, published, endpoints, skipped, traffic>>

WarmupEnds(n) ==
  /\ Alive(n) /\ main[n] = "warming"
  /\ Outstanding(n) = {}
  /\ main' = [main EXCEPT ![n] = "barrier"]
  /\ UNCHANGED <<thr, run, published, endpoints, skipped, traffic>>

clh_send(x) ==
  /\ Alive(x.src) /\ main[x.src] = "ready"
  /\ x \in AppMessages \ called
  /\ sendQ' = [sendQ EXCEPT ![x.src] = Append(@, x)]
  /\ called' = called \cup {x}
  /\ UNCHANGED <<vars, wire, waiting, got, ended, waited>>

clh_recv(r) ==
  /\ Alive(r.at) /\ main[r.at] = "ready"
  /\ r \in AppReceives \ called
  /\ waiting' = [waiting EXCEPT ![r.at] = Append(@, r)]
  /\ called' = called \cup {r}
  /\ UNCHANGED <<vars, sendQ, wire, got, ended, waited>>

Finalize(n) ==
  /\ clh_finalize(n)
  /\ waited' = IF Outstanding(n) = {} THEN waited \cup {n} ELSE waited
  /\ UNCHANGED <<sendQ, wire, waiting, got, called, ended>>
-----------------------------------------------------------------------------
(* The run thread starts the queued sends, the newest first.               *)
StartSend(n) ==
  LET x == Last(sendQ[n]) IN
  /\ thr[n] = "loop" /\ sendQ[n] # <<>>
  /\ sendQ' = [sendQ EXCEPT ![n] = Front(@)]
  /\ wire' = [wire EXCEPT ![n][x.dst] = Append(@, x)]
  /\ UNCHANGED <<vars, waiting, got, called, ended, waited>>

(* A receive of m ends with the oldest message from n that it may take, if *)
(* no receive that waits longer may take it.                               *)
Serve(n, m) ==
  \E i \in DOMAIN waiting[m], k \in DOMAIN wire[n][m] :
    LET r == waiting[m][i]
        x == wire[n][m][k]
    IN
    /\ thr[m] = "loop"
    /\ Takes(r, x)
    /\ \A j \in 1 .. k - 1 : ~Takes(r, wire[n][m][j])
    /\ \A j \in 1 .. i - 1 : ~Takes(waiting[m][j], x)
    /\ waiting' = [waiting EXCEPT ![m] = RemoveAt(@, i)]
    /\ wire' = [wire EXCEPT ![n][m] = RemoveAt(@, k)]
    /\ got' = [got EXCEPT ![r] = x]
    /\ ended' = ended \cup {r}
    /\ UNCHANGED <<vars, sendQ, called, waited>>

(* A send ends: a short one when UCX has taken its data, a long one when a *)
(* receive took it.                                                        *)
Taken(x) == \E r \in Receives : got[r] = x

SendEnds(x) ==
  /\ x \in called \ ended /\ ~Contains(sendQ[x.src], x)
  /\ thr[x.src] = "loop"
  /\ ended' = ended \cup {x}
  /\ UNCHANGED <<vars, sendQ, wire, waiting, got, called, waited>>

(* An operation whose peer has closed its endpoints ends with an error,    *)
(* and an assertion of run_ fails.                                         *)
PeerGone(n) ==
  /\ thr[n] = "loop"
  /\ \E x \in OwnSends(n) \ ended : ~Contains(sendQ[n], x) /\ Closed(x.dst)
  /\ thr' = [thr EXCEPT ![n] = "assert"]
  /\ UNCHANGED <<main, run, published, endpoints, skipped, traffic>>

Leave(n) ==
  /\ LeaveLoop(n)
  /\ Outstanding(n) = {}
  /\ UNCHANGED traffic

(* The endpoints are closed by force: what is still on its way from here   *)
(* may be lost, and what is on its way to here is.                         *)
Close(n) ==
  /\ ucx_finalize(n)
  /\ \E lost \in SUBSET Nodes :
       wire' = [a \in Nodes |-> [b \in Nodes |->
                  IF b = n \/ (a = n /\ b \in lost) THEN <<>> ELSE wire[a][b]]]
  /\ UNCHANGED <<sendQ, waiting, got, called, ended, waited>>
-----------------------------------------------------------------------------
NetRunThread(n) ==
  \/ Publish(n) /\ UNCHANGED traffic
  \/ (\E m \in Nodes : Connect(n, m)) /\ UNCHANGED traffic
  \/ SetRun(n) /\ UNCHANGED traffic
  \/ Notify(n) /\ UNCHANGED traffic
  \/ StartSend(n) \/ PeerGone(n) \/ Leave(n) \/ Close(n)

NetMainThread(n) ==
  \/ Spawn(n) /\ UNCHANGED traffic
  \/ WaitInit(n) /\ UNCHANGED traffic
  \/ Warmup(n) \/ WarmupEnds(n)
  \/ Terminate(n) /\ UNCHANGED traffic
  \/ Join(n) /\ UNCHANGED traffic

Surroundings(n) ==
  \/ InitFails(n) /\ UNCHANGED traffic
  \/ SyncFails(n) /\ UNCHANGED traffic
  \/ MainFenceFails(n) /\ UNCHANGED traffic
  \/ WakeSpuriously(n) /\ UNCHANGED traffic

NetNext ==
  \/ \E n \in Nodes : NetRunThread(n) \/ NetMainThread(n) \/ Surroundings(n) \/ Finalize(n)
  \/ FenceComplete /\ UNCHANGED traffic
  \/ \E n, m \in Nodes : Serve(n, m)
  \/ \E r \in AppReceives : clh_recv(r)
  \/ \E x \in Messages : SendEnds(x) \/ clh_send(x)

NetSpec == NetInit /\ [][NetNext]_netVars

(* Threads run, a fence that every process entered completes, and UCX      *)
(* delivers what receives wait for and ends a send whose message a receive *)
(* took.  No step repeats, so it is enough that some such step is taken    *)
(* while there is one.                                                     *)
Progressing ==
  \/ \E n \in Nodes : NetRunThread(n) \/ NetMainThread(n)
  \/ FenceComplete /\ UNCHANGED traffic
  \/ \E n, m \in Nodes : Serve(n, m)
  \/ \E x \in Messages : Taken(x) /\ SendEnds(x)

NetFairness == WF_netVars(Progressing)

NetFairSpec == NetSpec /\ NetFairness
-----------------------------------------------------------------------------
(* What must hold: as long as no main thread went on without its fence     *)
(* (MainsMet), whatever failed in the run threads' ucx_init.               *)

(* With the real warm-up in place of Startup's condition for its end, and  *)
(* the real queues in its run thread's loop, a job goes through Startup's  *)
(* steps, up to the death of a node whose peer is gone.                    *)
ImplementsStartup ==
  Init /\ [][MainsMet => Next \/ \E n \in Nodes : PeerGone(n)]_vars

(* A receive gets a message that was sent to its node, from the rank it    *)
(* names, with a tag that agrees under its mask, whatever passed through   *)
(* encoding and masks; and a warm-up receive gets that rank's warm-up      *)
(* message, which clh_warmup_ asserts, an application's receive never.     *)
RightMessage ==
  MainsMet => \A r \in Receives : got[r] # None =>
    LET x == got[r] IN
    /\ x.dst = r.at
    /\ r.source # AnySource => x.src = r.source
    /\ x.tag \cap r.mask = r.tag \cap r.mask
    /\ (x.id = 0) = (r.id = 0)

(* Once a node closes its endpoints, by force, what is outstanding at any  *)
(* node is a request whose application did not wait for it before it       *)
(* called clh_finalize.                                                    *)
SafeClose ==
  MainsMet /\ (\E n \in Nodes : thr[n] \in {"closing", "exited"}) =>
    \A n \in waited \cup {m \in Nodes : main[m] = "ready"} : Outstanding(n) = {}

(* A peer that closes its endpoints brings down no node but one that had   *)
(* called clh_finalize without waiting for its requests; until then only a *)
(* ucx_init that fails ends a node, before its clh_init returned.          *)
InInit == {"spawned", "waiting", "warmup", "warming"}

OnlyTheHastyDie ==
  MainsMet => \A n \in Nodes : ~Alive(n) /\ main[n] \notin InInit =>
    main[n] \in {"terminate", "join"} /\ n \notin waited


(* Each fence at the end waits for all nodes, and each run thread for its  *)
(* queues; when every application waited for its requests, all get out,    *)
(* unless one goes on without its fence and leaves the others in it.       *)
AllReturn ==
  ((\A n \in Nodes : main[n] = "final") /\ waited = Nodes) ~>
    (~MainsMet \/ \A n \in Nodes : main[n] = "done")
=============================================================================
