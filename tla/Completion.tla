----------------------------- MODULE Completion -----------------------------
(***************************************************************************)
(* How a thread learns that its request is completed: the request's mutex, *)
(* condition variable and completed flag, as clh_wait and                  *)
(* clh_request_completed use them on one side and CLH_COMPLETE_REQUEST on  *)
(* the other, one lock, unlock or wait at a time.  A request is released   *)
(* to the pool and used again while the run thread may still be inside     *)
(* CLH_COMPLETE_REQUEST for its previous use.                              *)
(*                                                                         *)
(* Worker takes a completion as one step; this module is about that step.  *)
(***************************************************************************)
EXTENDS Naturals, FiniteSets

CONSTANTS
  Reqs,            \* request nodes
  Threads,         \* application threads
  SpuriousWakeups, \* whether pthread_cond_wait may return unsignalled
  Nobody           \* no thread, no request

RunThread == "run_thread"

ASSUME ThreadNames == Nobody \notin Threads \cup Reqs /\ RunThread \notin Threads \cup {Nobody}
ASSUME SwitchType == SpuriousWakeups \in BOOLEAN

VARIABLES
  owner,     \* the thread that uses a request node, or Nobody (in the pool)
  completed, \* request->completed
  mutex,     \* who holds request->mutex
  pending,   \* the requests whose operation the run thread has not ended
  pc,        \* where a thread is in clh_wait
  cur,       \* the request it waits for
  rpc,       \* where the run thread is in CLH_COMPLETE_REQUEST
  rreq       \* the request it completes

vars == <<owner, completed, mutex, pending, pc, cur, rpc, rreq>>
appVars == <<pc, cur>>
runVars == <<rpc, rreq>>
-----------------------------------------------------------------------------
(* A node of the pool holds what its last use left in completed.           *)
Init ==
  /\ owner = [r \in Reqs |-> Nobody]
  /\ completed \in [Reqs -> BOOLEAN]
  /\ mutex = [r \in Reqs |-> Nobody]
  /\ pending = {}
  /\ pc = [t \in Threads |-> "idle"]
  /\ cur = [t \in Threads |-> Nobody]
  /\ rpc = "idle" /\ rreq = Nobody
-----------------------------------------------------------------------------
(* The application's threads.                                              *)

(* Names with "Wrong" are faulty variants of the definition that follows:  *)
(* the checked properties tell them from the code.                         *)
IssueWrongKeepsFlag(t, r) ==
  /\ pc[t] = "idle" /\ owner[r] = Nobody
  /\ owner' = [owner EXCEPT ![r] = t]
  /\ pending' = pending \cup {r}
  /\ UNCHANGED <<completed, mutex, appVars, runVars>>

(* clh_send or clh_recv: the flag is cleared without the mutex.            *)
Issue(t, r) ==
  /\ pc[t] = "idle" /\ owner[r] = Nobody
  /\ owner' = [owner EXCEPT ![r] = t]
  /\ completed' = [completed EXCEPT ![r] = FALSE]
  /\ pending' = pending \cup {r}
  /\ UNCHANGED <<mutex, appVars, runVars>>

(* clh_wait: lock, again after each wait, ...                              *)
clh_wait(t, r) ==
  /\ pc[t] = "idle" /\ owner[r] = t
  /\ pc' = [pc EXCEPT ![t] = "lock"]
  /\ cur' = [cur EXCEPT ![t] = r]
  /\ UNCHANGED <<owner, completed, mutex, pending, runVars>>

LockWrongTestsOnce(t) ==
  /\ pc[t] \in {"lock", "relock"} /\ mutex[cur[t]] = Nobody
  /\ mutex' = [mutex EXCEPT ![cur[t]] = t]
  /\ pc' = [pc EXCEPT ![t] = IF pc[t] = "lock" THEN "test" ELSE "unlock"]
  /\ UNCHANGED <<owner, completed, pending, cur, runVars>>

Lock(t) ==
  /\ pc[t] \in {"lock", "relock"} /\ mutex[cur[t]] = Nobody
  /\ mutex' = [mutex EXCEPT ![cur[t]] = t]
  /\ pc' = [pc EXCEPT ![t] = "test"]
  /\ UNCHANGED <<owner, completed, pending, cur, runVars>>

(* ... test the flag, ...                                                  *)
Test(t) ==
  /\ pc[t] = "test"
  /\ pc' = [pc EXCEPT ![t] = IF completed[cur[t]] THEN "unlock" ELSE "wait"]
  /\ UNCHANGED <<owner, completed, mutex, pending, cur, runVars>>

(* ... wait, which gives up the mutex as it blocks and takes it again when *)
(* woken, to test once more, ...                                           *)
Wait(t) ==
  /\ pc[t] = "wait"
  /\ pc' = [pc EXCEPT ![t] = "blocked"]
  /\ mutex' = [mutex EXCEPT ![cur[t]] = Nobody]
  /\ UNCHANGED <<owner, completed, pending, cur, runVars>>

WakeSpuriously(t) ==
  /\ SpuriousWakeups
  /\ pc[t] = "blocked"
  /\ pc' = [pc EXCEPT ![t] = "relock"]
  /\ UNCHANGED <<owner, completed, mutex, pending, cur, runVars>>

(* ... and unlock.                                                         *)
Unlock(t) ==
  /\ pc[t] = "unlock"
  /\ mutex' = [mutex EXCEPT ![cur[t]] = Nobody]
  /\ pc' = [pc EXCEPT ![t] = "returned"]
  /\ UNCHANGED <<owner, completed, pending, cur, runVars>>

(* clh_request_completed reads the flag without the mutex.                 *)
clh_request_completed(t, r) ==
  /\ pc[t] = "idle" /\ owner[r] = t
  /\ completed[r]
  /\ pc' = [pc EXCEPT ![t] = "returned"]
  /\ cur' = [cur EXCEPT ![t] = r]
  /\ UNCHANGED <<owner, completed, mutex, pending, runVars>>

clh_request_release(t) ==
  /\ pc[t] = "returned"
  /\ owner' = [owner EXCEPT ![cur[t]] = Nobody]
  /\ pc' = [pc EXCEPT ![t] = "idle"]
  /\ cur' = [cur EXCEPT ![t] = Nobody]
  /\ UNCHANGED <<completed, mutex, pending, runVars>>
-----------------------------------------------------------------------------
(* The run thread: CLH_COMPLETE_REQUEST for an operation that ended.       *)
OperationEnds(r) ==
  /\ rpc = "idle" /\ r \in pending
  /\ pending' = pending \ {r}
  /\ rpc' = "lock" /\ rreq' = r
  /\ UNCHANGED <<owner, completed, mutex, appVars>>

RunLockWrongSkipped ==
  /\ rpc = "lock"
  /\ rpc' = "set"
  /\ UNCHANGED <<owner, completed, mutex, pending, appVars, rreq>>

RunLock ==
  /\ rpc = "lock" /\ mutex[rreq] = Nobody
  /\ mutex' = [mutex EXCEPT ![rreq] = RunThread]
  /\ rpc' = "set"
  /\ UNCHANGED <<owner, completed, pending, appVars, rreq>>

Set ==
  /\ rpc = "set"
  /\ completed' = [completed EXCEPT ![rreq] = TRUE]
  /\ rpc' = "notify"
  /\ UNCHANGED <<owner, mutex, pending, appVars, rreq>>

(* pthread_cond_signal wakes one of the threads that block, if any does.   *)
NotifyWrongNobody ==
  /\ rpc = "notify"
  /\ rpc' = "unlock"
  /\ UNCHANGED <<owner, completed, mutex, pending, appVars, rreq>>

Blocked(r) == {t \in Threads : pc[t] = "blocked" /\ cur[t] = r}

Notify ==
  /\ rpc = "notify"
  /\ IF Blocked(rreq) = {}
     THEN pc' = pc
     ELSE \E t \in Blocked(rreq) : pc' = [pc EXCEPT ![t] = "relock"]
  /\ rpc' = "unlock"
  /\ UNCHANGED <<owner, completed, mutex, pending, cur, rreq>>

RunUnlockWrongSkipped ==
  /\ rpc = "unlock"
  /\ rpc' = "idle" /\ rreq' = Nobody
  /\ UNCHANGED <<owner, completed, mutex, pending, appVars>>

RunUnlock ==
  /\ rpc = "unlock"
  /\ mutex' = [mutex EXCEPT ![rreq] = Nobody]
  /\ rpc' = "idle" /\ rreq' = Nobody
  /\ UNCHANGED <<owner, completed, pending, appVars>>
-----------------------------------------------------------------------------
Waiting(t) == Lock(t) \/ Test(t) \/ Wait(t) \/ Unlock(t)

Completing == (\E r \in Reqs : OperationEnds(r)) \/ RunLock \/ Set \/ Notify \/ RunUnlock

Next ==
  \/ \E t \in Threads :
       \/ \E r \in Reqs : Issue(t, r) \/ clh_wait(t, r) \/ clh_request_completed(t, r)
       \/ Waiting(t) \/ WakeSpuriously(t) \/ clh_request_release(t)
  \/ Completing

Spec == Init /\ [][Next]_vars

(* The run thread keeps running and UCX ends every operation; a thread in  *)
(* clh_wait runs.  A mutex that is free again and again is given to each   *)
(* thread that waits for it.                                               *)
Fairness ==
  /\ \A r \in Reqs : SF_vars(OperationEnds(r))
  /\ SF_vars(RunLock) /\ WF_vars(Set \/ Notify \/ RunUnlock)
  /\ \A t \in Threads : SF_vars(Lock(t)) /\ WF_vars(Test(t) \/ Wait(t) \/ Unlock(t))

FairSpec == Spec /\ Fairness
-----------------------------------------------------------------------------
(* What must hold.                                                         *)

(* The variables keep their types, and who holds a mutex is in its region. *)
TypeOK ==
  /\ owner \in [Reqs -> Threads \cup {Nobody}]
  /\ completed \in [Reqs -> BOOLEAN]
  /\ mutex \in [Reqs -> Threads \cup {RunThread, Nobody}]
  /\ pending \subseteq Reqs
  /\ pc \in [Threads -> {"idle", "lock", "test", "wait", "blocked", "relock", "unlock",
                        "returned"}]
  /\ cur \in [Threads -> Reqs \cup {Nobody}]
  /\ rpc \in {"idle", "lock", "set", "notify", "unlock"}
  /\ rreq \in Reqs \cup {Nobody}
  /\ \A r \in Reqs :
       /\ mutex[r] \in Threads => cur[mutex[r]] = r /\ pc[mutex[r]] \in {"test", "wait", "unlock"}
       /\ mutex[r] = RunThread => rreq = r /\ rpc \in {"set", "notify", "unlock"}

(* A thread blocks only while a signal for its request is still to come.   *)
NoLostWakeup ==
  \A t \in Threads : pc[t] = "blocked" =>
    \/ cur[t] \in pending
    \/ cur[t] = rreq /\ rpc \in {"lock", "set", "notify"}

(* The end of CLH_COMPLETE_REQUEST for one use of a request does not mark  *)
(* its next use completed: the flag is clear until that use has ended.     *)
FlagMeansEnded ==
  \A r \in Reqs : owner[r] # Nobody =>
    (completed[r] <=> r \notin pending /\ ~(rreq = r /\ rpc \in {"lock", "set"}))

(* Seen from outside, a request completes once between its call and its    *)
(* release, and clh_wait returns after it has.                             *)
Life == INSTANCE RequestLife WITH
  state <- [r \in Reqs |-> IF owner[r] = Nobody THEN "free"
                           ELSE IF completed[r] THEN "completed" ELSE "pending"],
  returned <- [t \in Threads |-> IF pc[t] = "returned" THEN cur[t] ELSE Nobody],
  Nothing <- Nobody
ImplementsRequestLife == Life!Spec

(* clh_wait returns.                                                       *)
WaitReturns == \A t \in Threads : pc[t] = "lock" ~> pc[t] = "returned"
=============================================================================
