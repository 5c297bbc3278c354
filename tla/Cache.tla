-------------------------------- MODULE Cache --------------------------------
(***************************************************************************)
(* The buffer cache, cache.c: a binary search tree keyed by the address of *)
(* a buffer, whose nodes come from an arena of blocks and stay there until *)
(* the cache is destroyed.                                                 *)
(*                                                                         *)
(* Each operation is one region under the cache's mutex, one step here.    *)
(* The destruction, which takes no lock, is one step per node.  UCX's      *)
(* registrations are external: a handle is one that ucp_mem_map may give   *)
(* out again once ucp_mem_unmap took it back.                              *)
(***************************************************************************)
EXTENDS Naturals, Sequences, FiniteSets, SequencesExt

CONSTANTS
  Addresses, \* the addresses of the buffers in use
  Handles,   \* what ucp_mem_map may return
  BlockSize, \* nodes of one block of the arena
  MaxNodes,  \* bound: nodes the arena gives out
  NULL

ASSUME AddressesType == Addresses \subseteq Nat /\ NULL \notin Addresses
ASSUME HandlesType == NULL \notin Handles
ASSUME BlockSizeType == BlockSize \in Nat \ {0}
ASSUME MaxNodesType == MaxNodes \in Nat

Nodes == 1 .. MaxNodes
Root == <<"data", 0>>
Links == {Root} \cup ({"left", "right"} \X Nodes)

ASSUME NullIsNoNode == NULL \notin Nodes

VARIABLES
  link,   \* the node each pointer of the tree points to: data, left, right
  value,  \* the entry of a node: mem and memh
  blocks, \* the arena's blocks, each with the nodes given out of it
  mapped, \* UCX: the handles that are mapped
  phase,  \* "open", "destroying", "destroyed", or "assert"
  at,     \* the place the destruction has come to: a block and a node of it
  gone,   \* nodes taken out of the tree by unregister
  twice,  \* nodes whose handle the destruction found unmapped
  answer  \* what register_or_get returned last

vars == <<link, value, blocks, mapped, phase, at, gone, twice, answer>>
-----------------------------------------------------------------------------
NoEntry == [mem |-> NULL, memh |-> NULL]
First == [block |-> 1, i |-> 1]

Init ==
  /\ link = [l \in Links |-> NULL]
  /\ value = [n \in Nodes |-> NoEntry]
  /\ blocks = << <<>> >>
  /\ mapped = {} /\ phase = "open" /\ at = First /\ gone = {} /\ twice = {}
  /\ answer = NoEntry

(* Names with "Wrong" are faulty variants of the definition that follows:  *)
(* the checked properties tell them from the code.                         *)
Side(a, b) == IF a < b THEN "left" ELSE "right"

SearchWrongOneLevel(a) ==
  IF link[Root] = NULL \/ value[link[Root]].mem = a THEN Root
  ELSE <<Side(a, value[link[Root]].mem), link[Root]>>

(* The pointer that points to the node of an address, or the empty one     *)
(* where it belongs.                                                       *)
buffer_cache_search_(a) ==
  LET from[l \in Links] ==
        IF link[l] = NULL \/ value[link[l]].mem = a THEN l
        ELSE from[<<Side(a, value[link[l]].mem), link[l]>>]
  IN from[Root]

(* The arena: a node from the last block, or from a new one when it is full *)
Given == UNION {ToSet(blocks[b]) : b \in DOMAIN blocks}
NewNode == CHOOSE n \in Nodes \ Given : TRUE

CreateNodeWrongOneMore(n) ==
  IF Len(Last(blocks)) > BlockSize THEN Append(blocks, <<n>>)
  ELSE [blocks EXCEPT ![Len(blocks)] = Append(@, n)]

create_node(n) ==
  IF Len(Last(blocks)) >= BlockSize THEN Append(blocks, <<n>>)
  ELSE [blocks EXCEPT ![Len(blocks)] = Append(@, n)]
-----------------------------------------------------------------------------
(* clh_buffer_cache_register_or_get.  A failed ucp_mem_map leaves the      *)
(* result empty, and the assertion on its address fails.                   *)
RegisterNew(a, h) ==
  LET l == buffer_cache_search_(a)
      n == NewNode
  IN
  /\ phase = "open"
  /\ link[l] = NULL
  /\ Nodes # Given
  /\ h \in Handles \ mapped
  /\ mapped' = mapped \cup {h}
  /\ blocks' = create_node(n)
  /\ link' = [link EXCEPT ![l] = n, ![<<"left", n>>] = NULL, ![<<"right", n>>] = NULL]
  /\ value' = [value EXCEPT ![n] = [mem |-> a, memh |-> h]]
  /\ answer' = value'[n]
  /\ UNCHANGED <<phase, at, gone, twice>>

MapFails(a) ==
  /\ phase = "open"
  /\ link[buffer_cache_search_(a)] = NULL
  /\ phase' = "assert"
  /\ UNCHANGED <<link, value, blocks, mapped, at, gone, twice, answer>>

GetRegistered(a) ==
  LET l == buffer_cache_search_(a) IN
  /\ phase = "open"
  /\ link[l] # NULL
  /\ answer' = value[link[l]]
  /\ UNCHANGED <<link, value, blocks, mapped, phase, at, gone, twice>>

(* A buffer without memory is not looked up.                               *)
RegisterNull ==
  /\ phase = "open"
  /\ answer' = NoEntry
  /\ UNCHANGED <<link, value, blocks, mapped, phase, at, gone, twice>>

(* clh_buffer_cache_unregister: unmap, then remove_node_ puts the right    *)
(* subtree in the node's place and the left one below its leftmost node.   *)
Leftmost(n) ==
  LET down[l \in Links] == IF link[l] = NULL THEN l ELSE down[<<"left", link[l]>>]
  IN down[<<"left", n>>]

RemoveWrongLeftDropped(l) == [link EXCEPT ![l] = link[<<"right", link[l]>>]]

remove_node_(l) ==
  LET left == link[<<"left", link[l]>>]
      right == link[<<"right", link[l]>>]
  IN  IF right = NULL THEN [link EXCEPT ![l] = left]
      ELSE [link EXCEPT ![l] = right, ![Leftmost(right)] = left]

UnregisterWrongStillMapped(a) ==
  LET l == buffer_cache_search_(a) IN
  /\ phase = "open"
  /\ link[l] # NULL
  /\ link' = remove_node_(l)
  /\ gone' = gone \cup {link[l]}
  /\ UNCHANGED <<value, blocks, mapped, phase, at, twice, answer>>

clh_buffer_cache_unregister(a) ==
  LET l == buffer_cache_search_(a) IN
  /\ phase = "open"
  /\ link[l] # NULL
  /\ mapped' = mapped \ {value[link[l]].memh}
  /\ link' = remove_node_(l)
  /\ gone' = gone \cup {link[l]}
  /\ UNCHANGED <<value, blocks, phase, at, twice, answer>>

(* clh_buffer_cache_destroy: block after block, node after node.  Nobody   *)
(* uses an answer any more.                                                *)
DestroyWrongLastBlock ==
  /\ phase = "open"
  /\ phase' = "destroying"
  /\ at' = [block |-> Len(blocks), i |-> 1]
  /\ answer' = NoEntry
  /\ UNCHANGED <<link, value, blocks, mapped, gone, twice>>

Destroy ==
  /\ phase = "open"
  /\ phase' = "destroying"
  /\ at' = First
  /\ answer' = NoEntry
  /\ UNCHANGED <<link, value, blocks, mapped, gone, twice>>

DestroyNode ==
  LET n == blocks[at.block][at.i] IN
  /\ phase = "destroying" /\ at.block <= Len(blocks) /\ at.i <= Len(blocks[at.block])
  /\ at' = [at EXCEPT !.i = @ + 1]
  /\ mapped' = mapped \ {value[n].memh}
  /\ twice' = IF value[n].memh \in mapped THEN twice ELSE twice \cup {n}
  /\ UNCHANGED <<link, value, blocks, phase, gone, answer>>

FreeBlock ==
  /\ phase = "destroying" /\ at.block <= Len(blocks) /\ at.i > Len(blocks[at.block])
  /\ at' = [block |-> at.block + 1, i |-> 1]
  /\ UNCHANGED <<link, value, blocks, mapped, phase, gone, twice, answer>>

DestroyEnds ==
  /\ phase = "destroying" /\ at.block > Len(blocks)
  /\ phase' = "destroyed"
  /\ UNCHANGED <<link, value, blocks, mapped, at, gone, twice, answer>>

Ended == phase \in {"destroyed", "assert"} /\ UNCHANGED vars

Next ==
  \/ \E a \in Addresses :
       \/ \E h \in Handles : RegisterNew(a, h)
       \/ MapFails(a) \/ GetRegistered(a) \/ clh_buffer_cache_unregister(a)
  \/ RegisterNull
  \/ Destroy \/ DestroyNode \/ FreeBlock \/ DestroyEnds
  \/ Ended

Spec == Init /\ [][Next]_vars
-----------------------------------------------------------------------------
(* What must hold.                                                         *)

InTree == Given \ gone
TreeLinks == {Root} \cup ({"left", "right"} \X InTree)

(* The variables keep their types; no block gives out more nodes than it   *)
(* was allocated for, which would write past its end.                      *)
TypeOK ==
  /\ link \in [Links -> Nodes \cup {NULL}]
  /\ value \in [Nodes -> [mem : Addresses \cup {NULL}, memh : Handles \cup {NULL}]]
  /\ blocks \in Seq(Seq(Nodes))
  /\ blocks # <<>>
  /\ \A b \in DOMAIN blocks : Len(blocks[b]) <= BlockSize
  /\ mapped \subseteq Handles
  /\ phase \in {"open", "destroying", "destroyed", "assert"}
  /\ at \in [block : Nat \ {0}, i : Nat \ {0}]
  /\ gone \subseteq Nodes
  /\ twice \subseteq Nodes
  /\ answer \in [mem : Addresses \cup {NULL}, memh : Handles \cup {NULL}]

(* The pointers form one search tree: each node that was registered and    *)
(* not unregistered has one pointer to it, from data or from another such  *)
(* node, and the search finds it from the root by its address, also after  *)
(* remove_node_ moved two subtrees.                                        *)
OneTree ==
  /\ \A n \in InTree : /\ Cardinality({l \in TreeLinks : link[l] = n}) = 1
                       /\ link[buffer_cache_search_(value[n].mem)] = n
  /\ \A l \in TreeLinks : link[l] \in InTree \cup {NULL}

(* Destroying the cache leaves nothing mapped.                             *)
NothingLeaks == phase = "destroyed" => mapped = {}

(* It unmaps once too often for each node that unregister left in the      *)
(* arena; where nothing was unregistered it unmaps every handle once.      *)
OnlyRemovedUnmappedTwice ==
  /\ gone = {} => twice = {}
  /\ phase = "destroyed" => Cardinality(twice) = Cardinality(gone)

(* The tree, the arena and UCX together keep a map from addresses to       *)
(* registrations.                                                          *)
handle == [a \in Addresses |->
             LET n == link[buffer_cache_search_(a)] IN
             IF n = NULL THEN NULL ELSE value[n].memh]

Map == INSTANCE Registry
ImplementsRegistry == Map!Spec
=============================================================================
