------------------------------ MODULE Startup -------------------------------
(***************************************************************************)
(* A CLH job from clh_init to clh_finalize: on every node the main thread  *)
(* (clh_init, start_, clh_warmup_, clh_barrier, clh_finalize, terminate_)  *)
(* and the run thread (run_, ucx_init, ucx_finalize), and the PMIx         *)
(* key-value store and fence that tie the nodes together.                  *)
(*                                                                         *)
(* What happens to requests is in Worker; here the warm-up is over on a    *)
(* node when the messages it waits for can have been exchanged.            *)
(***************************************************************************)
EXTENDS Naturals, FiniteSets

CONSTANTS
  Nodes,           \* the ranks of the job
  SpuriousWakeups, \* whether pthread_cond_wait may return unsignalled
  MayFail          \* what may report an error: "ucx_init", and fences by name

Fences == {"sync", "barrier", "final"}

ASSUME NodesNonEmpty == Nodes # {}
ASSUME Switches == SpuriousWakeups \in BOOLEAN /\ MayFail \subseteq {"ucx_init"} \cup Fences

VARIABLES
  main,      \* where the main thread of a node is
  thr,       \* where the run thread of a node is
  run,       \* handle->run
  published, \* the nodes whose UCX address is in the PMIx store
  endpoints, \* the peers a node has an endpoint to
  skipped    \* the fences a node went on without, after an error (kept for the properties)

vars == <<main, thr, run, published, endpoints, skipped>>
-----------------------------------------------------------------------------
Init ==
  /\ main = [n \in Nodes |-> "start"]
  /\ thr = [n \in Nodes |-> "none"]
  /\ run = [n \in Nodes |-> FALSE]
  /\ published = {}
  /\ endpoints = [n \in Nodes |-> {}]
  /\ skipped = [n \in Nodes |-> {}]

(* A failed assert of run_ ends the process of the node.                   *)
Alive(n) == thr[n] # "assert"

Peers(n) == Nodes \ {n}
-----------------------------------------------------------------------------
(* The run thread: ucx_init puts this node's address in the store and      *)
(* commits it (clh_pmi_sync), then waits in the fence of that call, ...    *)
(*                                                                         *)
(* Names with "Wrong" are faulty variants of the definition that follows:  *)
(* the checked properties tell them from the code.                         *)
PublishWrongUncommitted(n) ==
  /\ thr[n] = "init"
  /\ thr' = [thr EXCEPT ![n] = "sync"]
  /\ UNCHANGED <<main, run, published, endpoints, skipped>>

Publish(n) ==
  /\ thr[n] = "init"
  /\ published' = published \cup {n}
  /\ thr' = [thr EXCEPT ![n] = "sync"]
  /\ UNCHANGED <<main, run, endpoints, skipped>>

(* ... gets the address of each peer, which fails when it is not there (at *)
(* once or after some time, in which it may get there), ...                *)
Connect(n, m) ==
  /\ thr[n] = "connect"
  /\ m \in Peers(n) \ endpoints[n]
  /\ IF m \in published
     THEN /\ endpoints' = [endpoints EXCEPT ![n] = @ \cup {m}]
          /\ thr' = thr
     ELSE /\ thr' = [thr EXCEPT ![n] = "assert"]
          /\ endpoints' = endpoints
  /\ UNCHANGED <<main, run, published, skipped>>

(* ... then run_ sets handle->run ...                                      *)
SetRun(n) ==
  /\ thr[n] = "connect"
  /\ endpoints[n] = Peers(n)
  /\ run' = [run EXCEPT ![n] = TRUE]
  /\ thr' = [thr EXCEPT ![n] = "notify"]
  /\ UNCHANGED <<main, published, endpoints, skipped>>

(* ... and signals init_cv: a thread that does not wait yet misses it.     *)
Notify(n) ==
  /\ thr[n] = "notify"
  /\ thr' = [thr EXCEPT ![n] = "loop"]
  /\ main' = IF main[n] = "waiting" THEN [main EXCEPT ![n] = "warmup"] ELSE main
  /\ UNCHANGED <<run, published, endpoints, skipped>>

(* The loop goes on while requests are left: those of the warm-up are.     *)
LeaveLoop(n) ==
  /\ thr[n] = "loop"
  /\ ~run[n] /\ main[n] # "warming"
  /\ thr' = [thr EXCEPT ![n] = "closing"]
  /\ UNCHANGED <<main, run, published, endpoints, skipped>>

ucx_finalize(n) ==
  /\ thr[n] = "closing"
  /\ endpoints' = [endpoints EXCEPT ![n] = {}]
  /\ thr' = [thr EXCEPT ![n] = "exited"]
  /\ UNCHANGED <<main, run, published, skipped>>

InitFails(n) ==
  /\ "ucx_init" \in MayFail
  /\ thr[n] \in {"init", "connect"}
  /\ thr' = [thr EXCEPT ![n] = "assert"]
  /\ UNCHANGED <<main, run, published, endpoints, skipped>>
-----------------------------------------------------------------------------
(* The main thread: start_ clears handle->run, spawns the run thread, ...  *)
Spawn(n) ==
  /\ main[n] = "start"
  /\ run' = [run EXCEPT ![n] = FALSE]
  /\ thr' = [thr EXCEPT ![n] = "init"]
  /\ main' = [main EXCEPT ![n] = "spawned"]
  /\ UNCHANGED <<published, endpoints, skipped>>

(* ... and waits on init_cv, with no predicate and no mutex in common.     *)
WaitInit(n) ==
  /\ Alive(n) /\ main[n] = "spawned"
  /\ main' = [main EXCEPT ![n] = "waiting"]
  /\ UNCHANGED <<thr, run, published, endpoints, skipped>>

WakeSpuriously(n) ==
  /\ SpuriousWakeups
  /\ Alive(n) /\ main[n] = "waiting"
  /\ main' = [main EXCEPT ![n] = "warmup"]
  /\ UNCHANGED <<thr, run, published, endpoints, skipped>>

(* clh_warmup_ sends to and receives from every peer, waits for all of it, *)
(* which takes both run threads in their loops, and enters the barrier.    *)
PostWarmup(n) ==
  /\ Alive(n) /\ main[n] = "warmup"
  /\ main' = [main EXCEPT ![n] = "warming"]
  /\ UNCHANGED <<thr, run, published, endpoints, skipped>>

Posted == {n \in Nodes : main[n] \notin {"start", "spawned", "waiting", "warmup"}}

ExchangedWrongAlways(n, m) == TRUE
ExchangedWrongReceivesLast(n, m) ==
  m \in {k \in Posted : main[k] # "warming"} /\ thr[m] = "loop" /\ thr[n] = "loop"
Exchanged(n, m) == m \in Posted /\ thr[m] = "loop" /\ thr[n] = "loop"

WarmupOver(n) ==
  /\ Alive(n) /\ main[n] = "warming"
  /\ \A m \in Peers(n) : Exchanged(n, m)
  /\ main' = [main EXCEPT ![n] = "barrier"]
  /\ UNCHANGED <<thr, run, published, endpoints, skipped>>

FinalizeWrongNoSync(n) ==
  /\ Alive(n) /\ main[n] = "ready"
  /\ main' = [main EXCEPT ![n] = "terminate"]
  /\ UNCHANGED <<thr, run, published, endpoints, skipped>>

(* clh_finalize enters the fence of clh_pmi_sync ...                       *)
clh_finalize(n) ==
  /\ Alive(n) /\ main[n] = "ready"
  /\ main' = [main EXCEPT ![n] = "final"]
  /\ UNCHANGED <<thr, run, published, endpoints, skipped>>

TerminateWrongRuns(n) ==
  /\ Alive(n) /\ main[n] = "terminate"
  /\ main' = [main EXCEPT ![n] = "join"]
  /\ UNCHANGED <<thr, run, published, endpoints, skipped>>

(* ... and terminate_ clears handle->run and joins the run thread.         *)
Terminate(n) ==
  /\ Alive(n) /\ main[n] = "terminate"
  /\ run' = [run EXCEPT ![n] = FALSE]
  /\ main' = [main EXCEPT ![n] = "join"]
  /\ UNCHANGED <<thr, published, endpoints, skipped>>

Join(n) ==
  /\ main[n] = "join" /\ thr[n] = "exited"
  /\ main' = [main EXCEPT ![n] = "done"]
  /\ UNCHANGED <<thr, run, published, endpoints, skipped>>
-----------------------------------------------------------------------------
(* PMIx_Fence over all processes: it completes when each process has one   *)
(* call in it.  It does not tell the calls of clh_pmi_sync (by either      *)
(* thread) from those of clh_barrier.                                      *)
Arrived(n) ==
  {f \in Fences : Alive(n) /\ IF f = "sync" THEN thr[n] = f ELSE main[n] = f}

AfterFence == [barrier |-> "ready", final |-> "terminate"]

FenceComplete ==
  \E f \in [Nodes -> Fences] :
    /\ \A n \in Nodes : f[n] \in Arrived(n)
    /\ thr' = [n \in Nodes |-> IF f[n] = "sync" THEN "connect" ELSE thr[n]]
    /\ main' = [n \in Nodes |-> IF f[n] = "sync" THEN main[n] ELSE AfterFence[f[n]]]
    /\ UNCHANGED <<run, published, endpoints, skipped>>

(* The calls of PMIx in clh_pmi_sync and clh_pmi_fence may report an error *)
(* instead, at which these return.  No caller looks at what they return:   *)
(* ucx_init goes on to ask for addresses, its own in the store only when   *)
(* it was the fence that failed and not the commit, ...                    *)
SyncFails(n) ==
  /\ "sync" \in MayFail
  /\ thr[n] \in {"init", "sync"} \* PMIx_Commit, or PMIx_Fence
  /\ thr' = [thr EXCEPT ![n] = "connect"]
  /\ skipped' = [skipped EXCEPT ![n] = @ \cup {"sync"}]
  /\ UNCHANGED <<main, run, published, endpoints>>

(* ... and clh_barrier returns, and clh_finalize goes on to terminate_.    *)
MainFenceFails(n) ==
  /\ Alive(n) /\ main[n] \in {"barrier", "final"} \cap MayFail
  /\ main' = [main EXCEPT ![n] = AfterFence[@]]
  /\ skipped' = [skipped EXCEPT ![n] = @ \cup {main[n]}]
  /\ UNCHANGED <<thr, run, published, endpoints>>
-----------------------------------------------------------------------------
RunThread(n) ==
  \/ Publish(n)
  \/ \E m \in Nodes : Connect(n, m)
  \/ SetRun(n) \/ Notify(n) \/ LeaveLoop(n) \/ ucx_finalize(n)

MainThread(n) ==
  Spawn(n) \/ WaitInit(n) \/ PostWarmup(n) \/ WarmupOver(n) \/ Terminate(n) \/ Join(n)

Next ==
  \/ \E n \in Nodes : RunThread(n) \/ MainThread(n) \/ InitFails(n)
                      \/ WakeSpuriously(n) \/ clh_finalize(n)
                      \/ SyncFails(n) \/ MainFenceFails(n)
  \/ FenceComplete

Spec == Init /\ [][Next]_vars

(* Both threads of a node run whenever they can, and a fence that every    *)
(* process entered completes.  The application owes no clh_finalize.       *)
Fairness ==
  /\ \A n \in Nodes : WF_vars(RunThread(n)) /\ WF_vars(MainThread(n))
  /\ WF_vars(FenceComplete)

FairSpec == Spec /\ Fairness
-----------------------------------------------------------------------------
(* What must hold.                                                         *)

(* The variables keep their types, and no node has an endpoint to itself.  *)
TypeOK ==
  /\ main \in [Nodes -> {"start", "spawned", "waiting", "warmup", "warming", "barrier",
                         "ready", "final", "terminate", "join", "done"}]
  /\ thr \in [Nodes -> {"none", "init", "sync", "connect", "notify", "loop", "closing",
                        "exited", "assert"}]
  /\ run \in [Nodes -> BOOLEAN]
  /\ published \subseteq Nodes
  /\ endpoints \in [Nodes -> SUBSET Nodes]
  /\ skipped \in [Nodes -> SUBSET Fences]
  /\ \A n \in Nodes : n \notin endpoints[n]

(* No main thread went on without a fence, though run threads may have.    *)
MainsMet == \A n \in Nodes : skipped[n] \subseteq {"sync"}

(* The fence calls of the run threads (ucx_init) and of the main threads   *)
(* (clh_barrier, clh_finalize) are never in one fence together, although   *)
(* nothing names them, a main thread may be woken early and fences may     *)
(* fail; and a clh_barrier meets no clh_finalize, unless one of these went *)
(* on after an error.                                                      *)
FencesMatch ==
  \A m, n \in Nodes : \A f \in Arrived(m), g \in Arrived(n) :
    ((f = "sync") = (g = "sync")) /\ (MainsMet => f = g)

(* A run thread that asks the store for the addresses of its peers finds   *)
(* every one there, unless its own clh_pmi_sync failed: a failure of       *)
(* another's, or its death, keeps it in the fence instead.                 *)
AddressesKnown ==
  \A n \in Nodes : thr[n] = "connect" /\ "sync" \notin skipped[n] => published = Nodes

(* Between the return of clh_init on one node and its call of clh_finalize *)
(* the run threads of all nodes are in their loops, connected to all       *)
(* others: what the application sends can be received.  A clh_pmi_sync     *)
(* that failed in a ucx_init changes nothing in it, because the warm-up    *)
(* ends for no node before all are connected; it takes all calls of        *)
(* clh_barrier and clh_finalize to succeed.                                *)
ServingWhenReady ==
  MainsMet => \A n \in Nodes : main[n] = "ready" =>
    \A m \in Nodes : thr[m] = "loop" /\ endpoints[m] = Peers(m)

(* clh_init returns on every node.                                         *)
InitReturns == \A n \in Nodes : main[n] = "spawned" ~> main[n] = "ready"

(* clh_init returns, unless on this node or on one it must meet the signal *)
(* of the run thread came before the wait of the main thread, or ucx_init  *)
(* failed and its assert ended the process, or a fence failed, so that the *)
(* others may wait in it for ever.                                         *)
SignalLost(n) == main[n] = "waiting" /\ thr[n] = "loop"
InitReturnsUnlessLost ==
  \A n \in Nodes : main[n] = "spawned" ~>
    (main[n] = "ready" \/ \E m \in Nodes : SignalLost(m) \/ ~Alive(m) \/ skipped[m] # {})
=============================================================================
