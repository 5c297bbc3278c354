-------------------------------- MODULE Queue -------------------------------
(* What a list of list.c promises its users: a sequence of nodes that      *)
(* grows at its tail, with a pool of free nodes beside it.                 *)
EXTENDS Sequences, FiniteSets, SequencesExt

CONSTANT Nodes  \* the nodes there are, in use or not

VARIABLES
  queue,  \* the nodes in the list, head first
  chain,  \* the nodes detached by clh_list_get_all_nodes, from the next one on
  held    \* the nodes that are with a user of the list

vars == <<queue, chain, held>>

Init == queue = <<>> /\ chain = <<>> /\ held = {}

New(n) ==
  /\ n \notin held \cup ToSet(queue)
  /\ held' = held \cup {n}
  /\ UNCHANGED <<queue, chain>>

Push(n) ==
  /\ n \in held
  /\ queue' = Append(queue, n)
  /\ held' = held \ {n}
  /\ UNCHANGED chain

Pop ==
  /\ queue # <<>>
  /\ queue' = Front(queue)
  /\ held' = held \cup {Last(queue)}
  /\ UNCHANGED chain

TakeOut(n) ==
  /\ Contains(queue, n)
  /\ queue' = RemoveFirst(queue, n)
  /\ UNCHANGED <<chain, held>>

TakeAll ==
  /\ chain = <<>>
  /\ queue' = <<>> /\ chain' = queue
  /\ held' = held \cup ToSet(queue)

Advance ==
  /\ chain # <<>>
  /\ chain' = Tail(chain)
  /\ UNCHANGED <<queue, held>>

Release(n) ==
  /\ n \in held
  /\ held' = held \ {n}
  /\ UNCHANGED <<queue, chain>>

Next ==
  \/ \E n \in Nodes : New(n) \/ Push(n) \/ TakeOut(n) \/ Release(n)
  \/ Pop \/ TakeAll \/ Advance

Spec == Init /\ [][Next]_vars
=============================================================================
