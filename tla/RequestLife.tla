----------------------------- MODULE RequestLife ----------------------------
(* What CLH promises about a request: after its call it is pending, it     *)
(* completes once, and only then does its owner get it back to release.    *)
CONSTANTS
  Reqs,     \* requests
  Threads,  \* the threads that use them
  Nothing   \* not a request

VARIABLES
  state,    \* of a request: "free", "pending" or "completed"
  returned  \* for a thread, the request clh_wait returned for, or Nothing

vars == <<state, returned>>

Init == state = [r \in Reqs |-> "free"] /\ returned = [t \in Threads |-> Nothing]

Issue(r) ==
  /\ state[r] = "free"
  /\ state' = [state EXCEPT ![r] = "pending"]
  /\ UNCHANGED returned

Complete(r) ==
  /\ state[r] = "pending"
  /\ state' = [state EXCEPT ![r] = "completed"]
  /\ UNCHANGED returned

Return(t, r) ==
  /\ state[r] = "completed" /\ returned[t] = Nothing
  /\ returned' = [returned EXCEPT ![t] = r]
  /\ UNCHANGED state

Release(t) ==
  /\ returned[t] # Nothing
  /\ state' = [state EXCEPT ![returned[t]] = "free"]
  /\ returned' = [returned EXCEPT ![t] = Nothing]

Next ==
  \/ \E r \in Reqs : Issue(r) \/ Complete(r) \/ \E t \in Threads : Return(t, r)
  \/ \E t \in Threads : Release(t)

Spec == Init /\ [][Next]_vars
=============================================================================
