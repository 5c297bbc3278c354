-------------------------------- MODULE List --------------------------------
(***************************************************************************)
(* A CLH_List with its pointers: the doubly linked list of nodes in use,   *)
(* the singly linked list of free nodes, and the threads that use it.      *)
(* Each function of list.c is one region under the list's mutex, so one    *)
(* step; what a user does between two calls is between two steps:          *)
(* clh_list_pop_node looks at tail before it locks, message_search finds a *)
(* node that is removed later, and a chain detached by                     *)
(* clh_list_get_all_nodes is walked without the mutex.                     *)
(***************************************************************************)
EXTENDS Naturals, Sequences, FiniteSets, SequencesExt

CONSTANTS
  Nodes,   \* the nodes malloc may return
  Cached,  \* the nodes of the free list after clh_list_init_, in its order
  Finders, \* the threads that remove what they find: the run thread and those that probe
  NULL

ASSUME NodesFinite == IsFiniteSet(Nodes)
ASSUME CachedType == Cached \in Seq(Nodes) /\ IsInjective(Cached)
ASSUME NullIsNoNode == NULL \notin Nodes

VARIABLES
  use,             \* what the list is: "send_queue", "recv_queue", "recv_list"
  head, tail, len, \* the list of nodes in use
  free_nodes,      \* the free list
  next, prev,      \* the fields of the nodes
  known,           \* the nodes malloc has returned
  held,            \* the nodes that are with a user of the list
  cur,             \* where the consumer is in the chain it detached
  found,           \* the node a finder saw in the list and will remove
  pc               \* "run"; "pop", past the look at tail; or "abort", a failed assert

linkVars == <<head, tail, len, next, prev>>
vars == <<use, linkVars, free_nodes, known, held, cur, found, pc>>
-----------------------------------------------------------------------------
(* The nodes from n on, along links: no more of them than there are nodes. *)
Chain(links, n) ==
  LET at[k \in 0 .. Cardinality(Nodes)] ==
        IF k = 0 THEN n ELSE IF at[k - 1] = NULL THEN NULL ELSE links[at[k - 1]]
      length == Cardinality({k \in 0 .. Cardinality(Nodes) - 1 : at[k] # NULL})
  IN  [k \in 1 .. length |-> at[k - 1]]

Follow(n) == Chain(next, n)

(* clh_list_init_ puts default_capacity nodes on the free list.            *)
Init ==
  /\ use \in {"send_queue", "recv_queue", "recv_list"}
  /\ head = NULL /\ tail = NULL /\ len = 0
  /\ free_nodes = IF Cached = <<>> THEN NULL ELSE Cached[1]
  /\ next = [n \in Nodes |->
               IF \E i \in 1 .. Len(Cached) - 1 : Cached[i] = n
               THEN Cached[1 + CHOOSE i \in 1 .. Len(Cached) : Cached[i] = n] ELSE NULL]
  /\ prev = [n \in Nodes |-> NULL]
  /\ known = ToSet(Cached) /\ held = {}
  /\ cur = NULL /\ found = [f \in Finders |-> NULL] /\ pc = "run"
-----------------------------------------------------------------------------
(* An assertion of list.c fails: the process stops.                        *)
Abort ==
  /\ pc' = "abort"
  /\ UNCHANGED <<use, linkVars, free_nodes, known, held, cur, found>>

(* A node is used by the call that fills it in, by the operation it is the *)
(* request of, and by nobody else while the chain still leads through it.  *)
MayUse(n) == pc # "abort" /\ n \in held /\ n \notin ToSet(Follow(cur))

clh_list_new_node(n) ==
  /\ pc # "abort"
  /\ IF free_nodes = NULL
     THEN /\ n \notin known
          /\ free_nodes' = NULL
     ELSE /\ n = free_nodes
          /\ free_nodes' = next[n]
  /\ known' = known \cup {n}
  /\ next' = [next EXCEPT ![n] = NULL]
  /\ prev' = [prev EXCEPT ![n] = NULL]
  /\ held' = held \cup {n}
  /\ UNCHANGED <<use, head, tail, len, cur, found, pc>>

(* Pushed again after it was popped or detached, a node is one of another  *)
(* list's pool, as clh_request_recv pushes a probe's.                      *)
clh_list_push_node(n) ==
  /\ MayUse(n)
  /\ IF tail = NULL /\ head # NULL
     THEN Abort
     ELSE /\ prev' = [prev EXCEPT ![n] = tail]
          /\ next' = [k \in Nodes |-> IF k = n THEN NULL ELSE IF k = tail THEN n ELSE next[k]]
          /\ head' = IF tail = NULL THEN n ELSE head
          /\ tail' = n
          /\ len' = len + 1
          /\ held' = held \ {n}
          /\ UNCHANGED <<use, free_nodes, known, cur, found, pc>>

(* process_send_queue_ pops: first the look at tail, ...                   *)
SeeTail ==
  /\ use = "send_queue" /\ pc = "run"
  /\ tail # NULL
  /\ pc' = "pop"
  /\ UNCHANGED <<use, linkVars, free_nodes, known, held, cur, found>>

PopWrongLeavesNext ==
  /\ pc = "pop"
  /\ pc' = "run"
  /\ tail' = prev[tail]
  /\ prev' = [prev EXCEPT ![tail] = NULL]
  /\ head' = IF prev[tail] = NULL THEN next[tail] ELSE head
  /\ len' = len - 1
  /\ held' = held \cup {tail}
  /\ UNCHANGED <<use, next, free_nodes, known, cur, found>>

(* ... then, with the mutex, whatever is the tail by now.                  *)
clh_list_pop_node ==
  /\ pc = "pop"
  /\ IF prev[tail] = NULL /\ head # tail
     THEN Abort
     ELSE /\ pc' = "run"
          /\ tail' = prev[tail]
          /\ next' = [k \in Nodes |-> IF k = prev[tail] THEN NULL ELSE next[k]]
          /\ prev' = [prev EXCEPT ![tail] = NULL]
          /\ head' = IF prev[tail] = NULL THEN next[tail] ELSE head
          /\ len' = len - 1
          /\ held' = held \cup {tail}
          /\ UNCHANGED <<use, free_nodes, known, cur, found>>

(* message_search found n, for a receive that is posted or for a probe     *)
(* that removes; before the node is removed the list may grow, and another *)
(* finder may remove it.                                                   *)
message_search(f, n) ==
  /\ use = "recv_list" /\ pc = "run" /\ found[f] = NULL
  /\ Contains(Follow(head), n)
  /\ found' = [found EXCEPT ![f] = n]
  /\ UNCHANGED <<use, linkVars, free_nodes, known, held, cur, pc>>

RemoveWrongLeavesPrev(f) ==
  LET n == found[f] IN
  /\ pc = "run" /\ n # NULL
  /\ IF (next[n] = NULL /\ tail # n) \/ (prev[n] = NULL /\ head # n)
     THEN Abort
     ELSE /\ tail' = IF next[n] = NULL THEN prev[n] ELSE tail
          /\ head' = IF prev[n] = NULL THEN next[n] ELSE head
          /\ next' = [k \in Nodes |-> IF k = n THEN free_nodes
                                      ELSE IF k = prev[n] THEN next[n] ELSE next[k]]
          /\ prev' = [prev EXCEPT ![n] = NULL]
          /\ len' = len - 1
          /\ free_nodes' = n /\ found' = [found EXCEPT ![f] = NULL]
          /\ UNCHANGED <<use, known, held, cur, pc>>

clh_list_remove_node(f) ==
  LET n == found[f] IN
  /\ pc = "run" /\ n # NULL
  /\ IF (next[n] = NULL /\ tail # n) \/ (prev[n] = NULL /\ head # n)
     THEN Abort
     ELSE /\ tail' = IF next[n] = NULL THEN prev[n] ELSE tail
          /\ head' = IF prev[n] = NULL THEN next[n] ELSE head
          /\ next' = [k \in Nodes |-> IF k = n THEN free_nodes
                                      ELSE IF k = prev[n] THEN next[n] ELSE next[k]]
          /\ prev' = [k \in Nodes |-> IF k = n THEN NULL
                                      ELSE IF k = next[n] THEN prev[n] ELSE prev[k]]
          /\ len' = len - 1
          /\ free_nodes' = n /\ found' = [found EXCEPT ![f] = NULL]
          /\ UNCHANGED <<use, known, held, cur, pc>>

GetAllWrongKeepsHead ==
  /\ use = "recv_queue" /\ pc = "run" /\ cur = NULL
  /\ head # NULL
  /\ cur' = head
  /\ tail' = NULL /\ len' = 0
  /\ held' = held \cup ToSet(Follow(head))
  /\ UNCHANGED <<use, head, next, prev, free_nodes, known, found, pc>>

(* process_recv_queue_ detaches the list, if its head is not NULL, ...     *)
clh_list_get_all_nodes ==
  /\ use = "recv_queue" /\ pc = "run" /\ cur = NULL
  /\ head # NULL
  /\ cur' = head
  /\ head' = NULL /\ tail' = NULL /\ len' = 0
  /\ held' = held \cup ToSet(Follow(head))
  /\ UNCHANGED <<use, next, prev, free_nodes, known, found, pc>>

(* ... and walks the chain.                                                *)
Advance ==
  /\ pc = "run" /\ cur # NULL
  /\ cur' = next[cur]
  /\ UNCHANGED <<use, linkVars, free_nodes, known, held, found, pc>>

ReleaseWrongInChain(n) ==
  /\ pc # "abort" /\ n \in held
  /\ prev' = [prev EXCEPT ![n] = NULL]
  /\ next' = [next EXCEPT ![n] = free_nodes]
  /\ free_nodes' = n
  /\ held' = held \ {n}
  /\ UNCHANGED <<use, head, tail, len, known, cur, found, pc>>

clh_list_release_node(n) ==
  /\ MayUse(n)
  /\ prev' = [prev EXCEPT ![n] = NULL]
  /\ next' = [next EXCEPT ![n] = free_nodes]
  /\ free_nodes' = n
  /\ held' = held \ {n}
  /\ UNCHANGED <<use, head, tail, len, known, cur, found, pc>>

(* After a failed assertion the process is no more.                        *)
Stopped == pc = "abort" /\ UNCHANGED vars

Next ==
  \/ \E n \in Nodes : \/ clh_list_new_node(n) \/ clh_list_push_node(n)
                      \/ clh_list_release_node(n)
                      \/ \E f \in Finders : message_search(f, n)
  \/ \E f \in Finders : clh_list_remove_node(f)
  \/ SeeTail \/ clh_list_pop_node \/ clh_list_get_all_nodes \/ Advance
  \/ Stopped

Spec == Init /\ [][Next]_vars
-----------------------------------------------------------------------------
(* What must hold.                                                         *)

InUse == ToSet(Follow(head))
Free == ToSet(Follow(free_nodes))

(* The list reads the same both ways and its ends and length agree with    *)
(* it: next leads from head to tail over len nodes, prev leads back.       *)
WellLinked ==
  LET q == Follow(head) IN
  /\ len = Len(q)
  /\ tail = IF q = <<>> THEN NULL ELSE Last(q)
  /\ \A i \in 1 .. Len(q) : prev[q[i]] = IF i = 1 THEN NULL ELSE q[i - 1]

(* A node malloc returned is in the list, in the free list, or with a      *)
(* user, and in one of them only: no node is lost, none given out twice.   *)
NodeInOnePlace ==
  /\ InUse \cup Free \cup held = known
  /\ InUse \cap Free = {} /\ InUse \cap held = {} /\ Free \cap held = {}

(* An assertion of list.c fails in one case only: a finder of a recv_list  *)
(* removes a node that another one removed since it was found.  That it    *)
(* does fail then, unless the node is in the list again with another       *)
(* message, is part of ImplementsQueue.                                    *)
OnlySecondRemovalAborts ==
  pc = "abort" =>
    use = "recv_list" /\ \E f \in Finders : found[f] # NULL /\ found[f] \notin InUse

(* The pointers implement a queue with a pool beside it; the chain is what *)
(* get_all_nodes took, in order, whatever happens to the list meanwhile.   *)
Abstract == INSTANCE Queue WITH queue <- Follow(head), chain <- Follow(cur)
ImplementsQueue == Abstract!Spec
=============================================================================
