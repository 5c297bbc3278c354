-------------------------- MODULE CompletionProofs --------------------------
(* The completion protocol for any number of requests and threads: no      *)
(* wakeup is lost, the flag is right, and it implements RequestLife.       *)
EXTENDS Completion, TLAPS
-----------------------------------------------------------------------------
(* The inductive invariant.  That a thread blocks only while its signal is *)
(* to come needs that it tested the flag under the mutex the run thread    *)
(* sets it under, and that no other thread can have its signal.            *)

(* A thread in clh_wait, or back from it, uses a request that is its own;  *)
(* so no two threads wait for one request.                                 *)
OwnsWhatItWaitsFor ==
  \A t \in Threads : pc[t] # "idle" => cur[t] \in Reqs /\ owner[cur[t]] = t

(* A request is used until its operation has ended and its flag is set.    *)
PendingIsOwned ==
  /\ \A r \in pending : owner[r] # Nobody
  /\ rpc \in {"lock", "set"} => owner[rreq] # Nobody /\ rreq \notin pending

(* Who is in a region of a request's mutex holds it.                       *)
InRegion ==
  /\ \A t \in Threads : pc[t] \in {"test", "wait", "unlock"} => mutex[cur[t]] = t
  /\ rpc # "idle" => rreq \in Reqs
  /\ rpc \in {"set", "notify", "unlock"} => mutex[rreq] = RunThread

(* What a thread learned from the flag is still so.                        *)
TestStillHolds ==
  \A t \in Threads :
    /\ pc[t] = "wait" => ~completed[cur[t]]
    /\ pc[t] \in {"unlock", "returned"} => completed[cur[t]]

IInv ==
  /\ TypeOK /\ OwnsWhatItWaitsFor /\ PendingIsOwned /\ InRegion /\ TestStillHolds
  /\ FlagMeansEnded /\ NoLostWakeup

LEMMA InitInvariant == Init => IInv
BY ThreadNames DEF Init, IInv, TypeOK, OwnsWhatItWaitsFor, PendingIsOwned, InRegion,
   TestStillHolds, FlagMeansEnded, NoLostWakeup, RunThread

LEMMA Step == IInv /\ [Next]_vars => IInv'
<1> SUFFICES ASSUME IInv, [Next]_vars PROVE IInv'
  OBVIOUS
<1> USE ThreadNames DEF IInv, TypeOK, OwnsWhatItWaitsFor, PendingIsOwned, InRegion,
        TestStillHolds, FlagMeansEnded, NoLostWakeup, appVars, runVars, RunThread
<1>1. ASSUME NEW t \in Threads, NEW r \in Reqs, Issue(t, r) PROVE IInv'
  BY <1>1 DEF Issue
<1>2. ASSUME NEW t \in Threads, NEW r \in Reqs, clh_wait(t, r) PROVE IInv'
  BY <1>2 DEF clh_wait
<1>3. ASSUME NEW t \in Threads, NEW r \in Reqs, clh_request_completed(t, r) PROVE IInv'
  BY <1>3 DEF clh_request_completed
<1>4. ASSUME NEW t \in Threads, Lock(t) PROVE IInv'
  BY <1>4 DEF Lock
<1>5. ASSUME NEW t \in Threads, Test(t) PROVE IInv'
  BY <1>5 DEF Test
<1>6. ASSUME NEW t \in Threads, Wait(t) PROVE IInv'
  BY <1>6 DEF Wait
<1>7. ASSUME NEW t \in Threads, Unlock(t) PROVE IInv'
  BY <1>7 DEF Unlock
<1>8. ASSUME NEW t \in Threads, WakeSpuriously(t) PROVE IInv'
  BY <1>8 DEF WakeSpuriously
<1>9. ASSUME NEW t \in Threads, clh_request_release(t) PROVE IInv'
  BY <1>9 DEF clh_request_release
<1>10. ASSUME NEW r \in Reqs, OperationEnds(r) PROVE IInv'
  BY <1>10 DEF OperationEnds
<1>11. CASE RunLock
  BY <1>11 DEF RunLock
<1>12. CASE Set
  BY <1>12 DEF Set
<1>13. CASE Notify
  BY <1>13 DEF Notify, Blocked
<1>14. CASE RunUnlock
  BY <1>14 DEF RunUnlock
<1>15. CASE UNCHANGED vars
  BY <1>15 DEF vars
<1> QED
  BY <1>1, <1>2, <1>3, <1>4, <1>5, <1>6, <1>7, <1>8, <1>9, <1>10, <1>11, <1>12, <1>13,
     <1>14, <1>15 DEF Next, Waiting, Completing

(* The inductive invariant holds in every reachable state.                 *)
THEOREM Invariance == Spec => []IInv
BY InitInvariant, Step, PTL DEF Spec

(* The variables keep their types and a mutex has the holder whose region  *)
(* it guards, for all threads and requests.                                *)
THEOREM TypeCorrect == Spec => []TypeOK
<1>1. IInv => TypeOK
  BY DEF IInv
<1> QED
  BY <1>1, Invariance, PTL

(* clh_wait never blocks after its signal: one notify_one is enough, for   *)
(* any number of threads.                                                  *)
THEOREM SignalComes == Spec => []NoLostWakeup
<1>1. IInv => NoLostWakeup
  BY DEF IInv
<1> QED
  BY <1>1, Invariance, PTL

(* completed tells that this use of the request has ended, though the run  *)
(* thread may be unlocking for the use before.                             *)
THEOREM FlagRight == Spec => []FlagMeansEnded
<1>1. IInv => FlagMeansEnded
  BY DEF IInv
<1> QED
  BY <1>1, Invariance, PTL
-----------------------------------------------------------------------------
(* The refinement of RequestLife: calls, completions, returns and releases *)
(* are its steps; every other step leaves what it shows as it was.         *)
LEMMA InitRefines == Init => Life!Init
BY DEF Init, Life!Init

LEMMA StepRefines == IInv /\ [Next]_vars => [Life!Next]_Life!vars
<1> SUFFICES ASSUME IInv, [Next]_vars PROVE [Life!Next]_Life!vars
  OBVIOUS
<1> USE ThreadNames DEF appVars, runVars
<1>0. TypeOK /\ OwnsWhatItWaitsFor /\ PendingIsOwned /\ InRegion /\ TestStillHolds /\ FlagMeansEnded
  BY DEF IInv
<1>1. ASSUME NEW t \in Threads, NEW r \in Reqs, Issue(t, r) PROVE Life!Issue(r)
  BY <1>0, <1>1 DEF Issue, Life!Issue, TypeOK, OwnsWhatItWaitsFor
<1>2. ASSUME NEW t \in Threads, NEW r \in Reqs, clh_request_completed(t, r)
      PROVE  Life!Return(t, r)
  BY <1>0, <1>2 DEF clh_request_completed, Life!Return, TypeOK
<1>3. ASSUME NEW t \in Threads, Unlock(t) PROVE \E r \in Reqs : Life!Return(t, r)
  <2>1. cur[t] \in Reqs /\ owner[cur[t]] = t /\ completed[cur[t]] /\ t # Nobody
    BY <1>0, <1>3 DEF Unlock, OwnsWhatItWaitsFor, TestStillHolds
  <2>2. pc[t] # "returned" /\ pc' = [pc EXCEPT ![t] = "returned"] /\ DOMAIN pc = Threads
    BY <1>0, <1>3 DEF Unlock, TypeOK
  <2>3. UNCHANGED <<owner, completed, cur>>
    BY <1>3 DEF Unlock
  <2>4. PICK r \in Reqs : r = cur[t]
    BY <2>1
  <2>5. Life!Return(t, r)
    BY <2>1, <2>2, <2>3, <2>4 DEF Life!Return
  <2> QED
    BY <2>5
<1>4. ASSUME NEW t \in Threads, clh_request_release(t) PROVE Life!Release(t)
  <2>1. pc[t] = "returned" /\ cur[t] \in Reqs /\ cur[t] # Nobody
    BY <1>0, <1>4 DEF clh_request_release, OwnsWhatItWaitsFor
  <2>2. PICK r \in Reqs : r = cur[t]
    BY <2>1
  <2>3. /\ owner' = [owner EXCEPT ![r] = Nobody] /\ pc' = [pc EXCEPT ![t] = "idle"]
        /\ UNCHANGED completed /\ \A u \in Threads : u # t => cur'[u] = cur[u]
    BY <1>0, <1>4, <2>2 DEF clh_request_release, TypeOK
  <2>4. owner' \in [Reqs -> Threads \cup {Nobody}] /\ owner'[r] = Nobody
        /\ \A q \in Reqs : q # r => owner'[q] = owner[q]
    BY <1>0, <2>3 DEF TypeOK
  <2>5. pc'[t] # "returned" /\ \A u \in Threads : u # t => pc'[u] = pc[u]
    BY <1>0, <2>3 DEF TypeOK
  <2> DEFINE state == [q \in Reqs |-> IF owner[q] = Nobody THEN "free"
                                     ELSE IF completed[q] THEN "completed" ELSE "pending"]
             returned == [u \in Threads |-> IF pc[u] = "returned" THEN cur[u] ELSE Nobody]
  <2>6. returned[t] = r /\ r # Nobody
    BY <2>1, <2>2
  <2>7. state' = [state EXCEPT ![r] = "free"]
    BY <2>3, <2>4
  <2>8. returned' = [returned EXCEPT ![t] = Nobody]
    BY <2>3, <2>5
  <2> QED
    BY <2>6, <2>7, <2>8 DEF Life!Release
<1>5. CASE Set
  <2>1. rreq \in Reqs /\ owner[rreq] # Nobody /\ ~completed[rreq]
    BY <1>0, <1>5 DEF Set, PendingIsOwned, InRegion, FlagMeansEnded
  <2>2. completed \in [Reqs -> BOOLEAN] /\ completed' = [completed EXCEPT ![rreq] = TRUE]
    BY <1>0, <1>5 DEF Set, TypeOK
  <2>3. UNCHANGED <<owner, pc, cur>>
    BY <1>5 DEF Set
  <2>4. PICK r \in Reqs : r = rreq
    BY <2>1
  <2>5. Life!Complete(r)
    BY <2>1, <2>2, <2>3, <2>4 DEF Life!Complete
  <2> QED
    BY <2>5 DEF Life!Next
<1>6. ASSUME NEW t \in Threads,
             \/ \E r \in Reqs : clh_wait(t, r)
             \/ Lock(t) \/ Test(t) \/ Wait(t) \/ WakeSpuriously(t)
      PROVE  UNCHANGED Life!vars
  BY <1>0, <1>6 DEF clh_wait, Lock, Test, Wait, WakeSpuriously, Life!vars, TypeOK
<1>7. ASSUME (\E r \in Reqs : OperationEnds(r)) \/ RunLock \/ Notify \/ RunUnlock
      PROVE  UNCHANGED Life!vars
  BY <1>0, <1>7 DEF OperationEnds, RunLock, Notify, Blocked, RunUnlock, Life!vars, TypeOK
<1>8. CASE UNCHANGED vars
  BY <1>8 DEF vars, Life!vars
<1>9. CASE \E t \in Threads, r \in Reqs : Issue(t, r) \/ clh_request_completed(t, r)
  BY <1>1, <1>2, <1>9 DEF Life!Next
<1>10. CASE \E t \in Threads : Unlock(t) \/ clh_request_release(t)
  <2>1. PICK t \in Threads : Unlock(t) \/ clh_request_release(t)
    BY <1>10
  <2>2. CASE Unlock(t)
    BY <1>3, <2>2 DEF Life!Next
  <2>3. CASE clh_request_release(t)
    BY <1>4, <2>3, Zenon DEF Life!Next
  <2> QED
    BY <2>1, <2>2, <2>3
<1> QED
  BY <1>5, <1>6, <1>7, <1>8, <1>9, <1>10 DEF Next, Waiting, Completing

(* Completion implements RequestLife: between its call and its release a   *)
(* request completes once, and clh_wait returns only after that.           *)
THEOREM Implements == Spec => ImplementsRequestLife
BY InitRefines, StepRefines, Invariance, PTL DEF Spec, ImplementsRequestLife, Life!Spec
=============================================================================
