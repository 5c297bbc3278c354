--------------------------- MODULE StartupProofs ----------------------------
(* Safety of Startup for any number of nodes.  What needs a second node    *)
(* (the warm-up is what keeps a main thread that was woken early from the  *)
(* barrier) is stated with that hypothesis.                                *)
EXTENDS Startup, TLAPS
-----------------------------------------------------------------------------
(* The inductive invariant follows the job through its phases: the warm-up *)
(* ends for one node only when all the others have come there, and so does *)
(* a fence that did not fail.                                              *)

Early == {"none", "init", "sync"}
Connected == {"connect", "notify", "loop", "closing", "exited"}
Met == {"barrier", "ready", "final", "terminate", "join", "done"}
Serving == {"ready", "final", "terminate", "join", "done"}
Ending == {"terminate", "join", "done"}

SeveralNodes == \A n \in Nodes : Peers(n) # {}

(* The first fence: past it, every node has published its address, if the  *)
(* fence did not fail on this one.                                         *)
SyncTogether ==
  \A n \in Nodes :
    /\ main[n] = "start" => thr[n] = "none"
    /\ thr[n] \in Early => "sync" \notin skipped[n]
    /\ thr[n] = "sync" => n \in published
    /\ thr[n] \in Connected /\ "sync" \notin skipped[n] => published = Nodes

(* A run thread in its loop has its endpoints and its run flag, and leaves *)
(* it only when its main thread told it to.                                *)
LoopWhileRunning ==
  \A n \in Nodes :
    /\ thr[n] \in {"notify", "loop"} => endpoints[n] = Peers(n)
    /\ thr[n] \in {"notify", "loop"} /\ main[n] \notin {"join", "done"} => run[n]
    /\ thr[n] \in {"closing", "exited"} => main[n] \in {"join", "done"}

(* No node is past the warm-up before every run thread was in its loop.    *)
WarmedTogether ==
  \A n \in Nodes : main[n] \in Met =>
    \A m \in Nodes : thr[m] \in {"loop", "closing", "exited", "assert"}

(* The two fences of the main threads.  A run thread that served may fail  *)
(* once all are past the last fence (in Network).                          *)
MainsTogether ==
  /\ \A n \in Nodes : main[n] \in Met =>
       \A m \in Nodes : thr[m] = "assert" => main[n] \in Ending
  /\ \A n \in Nodes : main[n] \in Serving => \A m \in Nodes : main[m] \in Serving
  /\ \A n \in Nodes : main[n] \in Ending => \A m \in Nodes : main[m] \in Ending

IInv ==
  TypeOK /\ SyncTogether /\ LoopWhileRunning /\ WarmedTogether /\ (MainsMet => MainsTogether)

USE DEF Early, Connected, Met, Serving, Ending

LEMMA InitInvariant == Init => IInv
BY DEF Init, IInv, TypeOK, SyncTogether, LoopWhileRunning, WarmedTogether, MainsTogether

LEMMA StepType == TypeOK /\ [Next]_vars => TypeOK'
<1> SUFFICES ASSUME TypeOK, [Next]_vars PROVE TypeOK'
  OBVIOUS
<1> USE DEF TypeOK
<1>1. ASSUME NEW n \in Nodes, RunThread(n) PROVE TypeOK'
  <2>1. CASE \E m \in Nodes : Connect(n, m)
    BY <2>1 DEF Connect, Peers
  <2>2. CASE Publish(n) \/ SetRun(n) \/ Notify(n) \/ LeaveLoop(n)
    BY <2>2 DEF Publish, SetRun, Notify, LeaveLoop
  <2>3. CASE ucx_finalize(n)
    BY <2>3 DEF ucx_finalize
  <2> QED
    BY <1>1, <2>1, <2>2, <2>3 DEF RunThread
<1>2. ASSUME NEW n \in Nodes, MainThread(n) PROVE TypeOK'
  <2>1. CASE Spawn(n)
    BY <2>1 DEF Spawn
  <2>2. CASE WaitInit(n) \/ PostWarmup(n) \/ WarmupOver(n)
    BY <2>2 DEF WaitInit, PostWarmup, WarmupOver
  <2>3. CASE Terminate(n) \/ Join(n)
    BY <2>3 DEF Terminate, Join
  <2> QED
    BY <1>2, <2>1, <2>2, <2>3 DEF MainThread
<1>3. ASSUME NEW n \in Nodes, InitFails(n) \/ WakeSpuriously(n) \/ clh_finalize(n) PROVE TypeOK'
  BY <1>3 DEF InitFails, WakeSpuriously, clh_finalize
<1>4. CASE FenceComplete
  BY <1>4 DEF FenceComplete, Fences, AfterFence
<1>5. ASSUME NEW n \in Nodes, SyncFails(n) \/ MainFenceFails(n) PROVE TypeOK'
  BY <1>5 DEF SyncFails, MainFenceFails, Fences, AfterFence
<1>6. CASE UNCHANGED vars
  BY <1>6 DEF vars
<1> QED
  BY <1>1, <1>2, <1>3, <1>4, <1>5, <1>6 DEF Next

(* A fence that went without a main thread stays so.                       *)
LEMMA MissedForGood == TypeOK /\ [Next]_vars /\ MainsMet' => MainsMet
<1> SUFFICES ASSUME TypeOK, [Next]_vars  PROVE \A n \in Nodes : skipped[n] \subseteq skipped'[n]
  BY DEF MainsMet
<1>1. CASE skipped' = skipped
  BY <1>1
<1>2. ASSUME NEW n \in Nodes, SyncFails(n) \/ MainFenceFails(n)
      PROVE  \A m \in Nodes : skipped[m] \subseteq skipped'[m]
  BY <1>2 DEF SyncFails, MainFenceFails, TypeOK
<1> QED
  BY <1>1, <1>2
     DEF Next, RunThread, MainThread, Publish, Connect, SetRun, Notify, LeaveLoop, ucx_finalize,
         InitFails, Spawn, WaitInit, WakeSpuriously, PostWarmup, WarmupOver, clh_finalize, Terminate,
         Join, FenceComplete, vars

(* With the invariant, the nodes that complete a fence are all in the same.*)
LEMMA Matching == IInv => FencesMatch
BY DEF IInv, TypeOK, SyncTogether, WarmedTogether, MainsTogether, FencesMatch, Arrived, Fences

LEMMA StepInvariant == SeveralNodes /\ IInv /\ [Next]_vars => IInv'
<1> SUFFICES ASSUME SeveralNodes, IInv, [Next]_vars PROVE IInv'
  OBVIOUS
<1> DEFINE Together == /\ SyncTogether /\ LoopWhileRunning /\ WarmedTogether
                       /\ MainsMet => MainsTogether
<1>0. TypeOK' /\ (MainsMet' => MainsMet)
  BY StepType, MissedForGood DEF IInv
<1> SUFFICES Together'
  BY <1>0 DEF IInv
<1> USE DEF IInv, TypeOK, SyncTogether, LoopWhileRunning, WarmedTogether, MainsTogether
<1>1. ASSUME NEW n \in Nodes, RunThread(n) PROVE Together'
  BY <1>0, <1>1 DEF RunThread, Publish, Connect, Peers, SetRun, Notify, LeaveLoop, ucx_finalize
<1>2. ASSUME NEW n \in Nodes, WarmupOver(n) PROVE Together'
  <2>1. \A m \in Nodes : thr[m] = "loop"
    BY <1>2 DEF WarmupOver, Exchanged, SeveralNodes, Peers
  <2> QED
    BY <1>0, <1>2, <2>1 DEF WarmupOver
<1>3. ASSUME NEW n \in Nodes,
             Spawn(n) \/ WaitInit(n) \/ PostWarmup(n) \/ Terminate(n) \/ Join(n)
      PROVE  Together'
  BY <1>0, <1>3 DEF Spawn, WaitInit, PostWarmup, Terminate, Join
<1>4. ASSUME NEW n \in Nodes, InitFails(n) \/ WakeSpuriously(n) \/ clh_finalize(n)
      PROVE  Together'
  BY <1>0, <1>4 DEF InitFails, WakeSpuriously, clh_finalize
<1>5. CASE FenceComplete
  <2>1. PICK f \in [Nodes -> Fences] :
          /\ \A n \in Nodes : f[n] \in Arrived(n)
          /\ thr' = [n \in Nodes |-> IF f[n] = "sync" THEN "connect" ELSE thr[n]]
          /\ main' = [n \in Nodes |-> IF f[n] = "sync" THEN main[n] ELSE AfterFence[f[n]]]
          /\ UNCHANGED <<run, published, endpoints, skipped>>
    BY <1>5 DEF FenceComplete
  <2>2. \A m, n \in Nodes : ((f[m] = "sync") = (f[n] = "sync")) /\ (MainsMet => f[m] = f[n])
    BY <2>1, Matching DEF FencesMatch
  <2>3. CASE \A n \in Nodes : f[n] = "sync"
    <3>1. \A n \in Nodes : "sync" \in Arrived(n)
      BY <2>1, <2>3
    <3>2. \A n \in Nodes : thr[n] = "sync" /\ thr'[n] = "connect"
      BY <2>1, <2>3, <3>1 DEF Arrived
    <3>3. \A n \in Nodes : main'[n] = main[n]
      BY <2>1, <2>3
    <3>4. published' = published /\ run' = run /\ \A n \in Nodes : n \in published
      BY <2>1, <3>1 DEF Arrived
    <3> QED
      BY <1>0, <2>1, <3>2, <3>3, <3>4
  <2>4. CASE \A n \in Nodes : f[n] \in {"barrier", "final"}
    <3>1. /\ \A n \in Nodes : main[n] = f[n] /\ main'[n] = AfterFence[f[n]]
          /\ thr' = thr
      BY <2>1, <2>4 DEF Arrived
    <3>2. ASSUME NEW n \in Nodes
          PROVE  \/ main[n] = "barrier" /\ main'[n] = "ready"
                 \/ main[n] = "final" /\ main'[n] = "terminate"
      <4>1. AfterFence["barrier"] = "ready" /\ AfterFence["final"] = "terminate"
        BY DEF AfterFence
      <4>2. CASE f[n] = "barrier"
        BY <3>1, <4>1, <4>2
      <4>3. CASE f[n] = "final"
        BY <3>1, <4>1, <4>3
      <4> QED
        BY <2>4, <4>2, <4>3
    <3>3. MainsMet => \A m, n \in Nodes : main'[m] = main'[n]
      BY <2>2, <3>1
    <3> HIDE DEF MainsMet
    <3> QED
      BY <1>0, <2>1, <3>1, <3>2, <3>3
  <2> QED
    BY <2>2, <2>3, <2>4 DEF Fences
<1>6. ASSUME NEW n \in Nodes, SyncFails(n) PROVE Together'
  BY <1>0, <1>6 DEF SyncFails
<1>7. ASSUME NEW n \in Nodes, MainFenceFails(n) PROVE Together'
  <2>1. ~MainsMet'
    BY <1>7 DEF MainFenceFails, MainsMet
  <2>2. main[n] \in Met \ Ending /\ main' = [main EXCEPT ![n] = AfterFence[main[n]]]
        /\ AfterFence[main[n]] \in {"ready", "terminate"}
    BY <1>7 DEF MainFenceFails, AfterFence
  <2>3. \A m \in Nodes : "sync" \in skipped'[m] <=> "sync" \in skipped[m]
    BY <1>7 DEF MainFenceFails
  <2> QED
    BY <1>0, <1>7, <2>1, <2>2, <2>3 DEF MainFenceFails
<1>8. CASE UNCHANGED vars
  BY <1>0, <1>8 DEF vars
<1> QED
  BY <1>1, <1>2, <1>3, <1>4, <1>5, <1>6, <1>7, <1>8 DEF Next, MainThread
-----------------------------------------------------------------------------
(* The variables keep their types, for any number of nodes.                *)
THEOREM TypeCorrect == Spec => []TypeOK
<1>1. Init => TypeOK
  BY InitInvariant DEF IInv
<1> QED
  BY <1>1, StepType, PTL DEF Spec

(* In a job of several nodes the invariant holds in every reachable state. *)
THEOREM Invariance == ASSUME SeveralNodes PROVE Spec => []IInv
<1>1. IInv /\ [Next]_vars => IInv'
  BY StepInvariant
<1> QED
  BY <1>1, InitInvariant, PTL DEF Spec

(* Every address ucx_init asks the store for is there, unless its own      *)
(* clh_pmi_sync reported an error, which ucx_init does not look at.        *)
THEOREM AddressesAreThere == ASSUME SeveralNodes PROVE Spec => []AddressesKnown
<1>1. IInv => AddressesKnown
  BY DEF IInv, SyncTogether, AddressesKnown
<1> QED
  BY <1>1, Invariance, PTL

(* In a job of several nodes no fence of PMIx ever completes between a     *)
(* clh_pmi_sync of a run thread and a call of another node's main thread,  *)
(* though fences carry no name, a main thread may be woken early and any   *)
(* call may fail; nor between a clh_barrier and a clh_finalize, while none *)
(* of the main threads' calls failed.                                      *)
THEOREM FencesNeverMixed == ASSUME SeveralNodes PROVE Spec => []FencesMatch
BY Invariance, Matching, PTL

(* In a job of several nodes every run thread serves while the application *)
(* of any node is between clh_init and clh_finalize, while no call of the  *)
(* main threads' fences failed, whatever failed in ucx_init.               *)
THEOREM AllServe == ASSUME SeveralNodes PROVE Spec => []ServingWhenReady
<1>1. IInv => ServingWhenReady
  BY DEF IInv, TypeOK, LoopWhileRunning, WarmedTogether, MainsTogether, ServingWhenReady
<1> QED
  BY <1>1, Invariance, PTL
=============================================================================
