------------------------------ MODULE Registry -------------------------------
(***************************************************************************)
(* What the buffer cache promises its callers: a map from addresses to the *)
(* UCX registration made when the address was first presented, or first    *)
(* since it was unregistered.                                              *)
(***************************************************************************)
CONSTANTS Addresses, Handles, NULL

VARIABLES
  handle, \* the registration of each address, NULL where there is none
  answer  \* [mem, memh] that register_or_get returned last

vars == <<handle, answer>>

Init ==
  /\ handle = [a \in Addresses |-> NULL]
  /\ answer = [mem |-> NULL, memh |-> NULL]

(* A registered address keeps its registration; a new one is not in use    *)
(* for any other address.                                                  *)
RegisterOrGet(a) ==
  \E h \in Handles :
    /\ handle[a] = h \/ (handle[a] = NULL /\ \A b \in Addresses : handle[b] # h)
    /\ handle' = [handle EXCEPT ![a] = h]
    /\ answer' = [mem |-> a, memh |-> h]

Nothing ==
  /\ answer' = [mem |-> NULL, memh |-> NULL]
  /\ UNCHANGED handle

Unregister(a) ==
  /\ handle[a] # NULL
  /\ handle' = [handle EXCEPT ![a] = NULL]
  /\ UNCHANGED answer

Next == Nothing \/ \E a \in Addresses : RegisterOrGet(a) \/ Unregister(a)

Spec == Init /\ [][Next]_vars
=============================================================================
