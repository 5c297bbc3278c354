---------------------------- MODULE CacheProofs -----------------------------
(* Safety of the buffer cache for any addresses, handles, size of block    *)
(* and number of nodes: of the arena, of the tree, and of the two together *)
(* with UCX's mappings.                                                    *)
EXTENDS Cache, ListLemmas, FiniteSetTheorems
-----------------------------------------------------------------------------
(* A loop that goes from a pointer to the next until it has to stop: the   *)
(* ones it comes to, and what the recursive functions of Cache are.        *)

Closed(P, S, step, stop) == P \subseteq S /\ \A x \in P \ stop : step[x] \in P

Way(x, S, step, stop) ==
  {y \in S : \A P \in SUBSET S : x \in P /\ Closed(P, S, step, stop) => y \in P}

(* A way contains where it starts and each next step, and nothing else.    *)
LEMMA WayIsLeast ==
  ASSUME NEW S, NEW stop, NEW step, \A x \in S \ stop : step[x] \in S, NEW x \in S
  PROVE  /\ x \in Way(x, S, step, stop) /\ Closed(Way(x, S, step, stop), S, step, stop)
         /\ \A P : x \in P /\ Closed(P, S, step, stop) => Way(x, S, step, stop) \subseteq P
         /\ \A y \in Way(x, S, step, stop) \ {x} :
              \E z \in Way(x, S, step, stop) \ stop : y = step[z]
<1> DEFINE W == Way(x, S, step, stop)
<1>1. x \in W /\ W \subseteq S
  BY DEF Way
<1>2. ASSUME NEW y \in W \ stop  PROVE step[y] \in W
  BY <1>2 DEF Way, Closed
<1>3. ASSUME NEW P, x \in P, Closed(P, S, step, stop)  PROVE W \subseteq P
  BY <1>3 DEF Way, Closed
<1> HIDE DEF W
<1>4. \A y \in W \ {x} : \E z \in W \ stop : y = step[z]
  <2> DEFINE P == {y \in W : y = x \/ \E z \in W \ stop : y = step[z]}
  <2>1. x \in P /\ Closed(P, S, step, stop)
    BY <1>1, <1>2 DEF Closed
  <2> HIDE DEF P
  <2>2. W \subseteq P
    BY <2>1, <1>3
  <2> QED
    BY <2>2 DEF P
<1>5. Closed(W, S, step, stop)
  BY <1>1, <1>2 DEF Closed
<1> QED
  BY <1>1, <1>3, <1>4, <1>5 DEF W

(* The function that goes on until it stops exists.                        *)
GoesOn(f, S, step, stop) == [x \in S |-> IF x \in stop THEN x ELSE f[step[x]]]

LEMMA LoopExists ==
  ASSUME NEW S, NEW stop, NEW step, \A x \in S \ stop : step[x] \in S
  PROVE  \E f : f = GoesOn(f, S, step, stop)
<1> DEFINE Ends(x) == Way(x, S, step, stop) \cap stop
           f == [x \in S |-> CHOOSE y : y \in Ends(x)]
<1>1. ASSUME NEW x \in S, x \in stop  PROVE Ends(x) = {x}
  <2>1. Closed({x}, S, step, stop)
    BY <1>1 DEF Closed
  <2> QED
    BY <1>1, <2>1, WayIsLeast
<1>2. ASSUME NEW x \in S, x \notin stop  PROVE Ends(x) = Ends(step[x])
  <2> DEFINE V == Way(x, S, step, stop)
             W == Way(step[x], S, step, stop)
  <2>1. step[x] \in S
    BY <1>2
  <2>2. step[x] \in W /\ Closed(W, S, step, stop)
    BY <2>1, WayIsLeast
  <2>3. Closed(W \cup {x}, S, step, stop) /\ x \in W \cup {x}
    BY <2>2 DEF Closed
  <2>4. V \subseteq W \cup {x}
    BY <2>3, WayIsLeast
  <2>5. x \in V /\ Closed(V, S, step, stop)
    BY WayIsLeast
  <2>6. step[x] \in V
    BY <1>2, <2>5 DEF Closed
  <2>7. W \subseteq V
    BY <2>1, <2>5, <2>6, WayIsLeast
  <2> QED
    BY <1>2, <2>4, <2>7
<1>3. ASSUME NEW x \in S  PROVE f[x] = IF x \in stop THEN x ELSE f[step[x]]
  BY <1>1, <1>2
<1> HIDE DEF f
<1>4. f = [x \in S |-> IF x \in stop THEN x ELSE f[step[x]]]
  <2> DEFINE g(x) == IF x \in stop THEN x ELSE f[step[x]]
  <2>1. \A x \in S : f[x] = g(x)
    BY <1>3
  <2>2. f = [x \in S |-> f[x]]
    BY DEF f
  <2> QED
    BY <2>1, <2>2
<1> QED
  BY <1>4 DEF GoesOn

(* Induction over what is left to go.                                      *)
LEMMA Descent ==
  ASSUME NEW S, NEW mu, \A x \in S : mu[x] \in Nat, NEW G,
         \A x \in S : (\A y \in S : mu[y] < mu[x] => y \in G) => x \in G
  PROVE  S \subseteq G
<1> SUFFICES ASSUME S \ G # {} PROVE FALSE
  OBVIOUS
<1> DEFINE I == {mu[x] : x \in S \ G}
<1>1. I \subseteq Nat /\ I # {}
  OBVIOUS
<1>2. PICK k \in I : \A j \in I : k <= j
  <2> HIDE DEF I
  <2> QED
    BY <1>1, LeastMember
<1>3. PICK x \in S \ G : k = mu[x]
  OBVIOUS
<1>4. ASSUME NEW y \in S, mu[y] < mu[x]  PROVE y \in G
  <2> SUFFICES ASSUME y \notin G PROVE FALSE
    OBVIOUS
  <2>1. mu[x] <= mu[y]
    BY <1>2, <1>3
  <2>2. mu[x] \in Nat /\ mu[y] \in Nat
    BY <1>3
  <2> QED
    BY <1>4, <2>1, <2>2
<1> QED
  BY <1>3, <1>4
-----------------------------------------------------------------------------
(* T is a binary search tree along lk for the keys of its nodes; D gives   *)
(* the nodes below each pointer.                                           *)

Pointers(T) == {Root} \cup ({"left", "right"} \X T)

IsTree(lk, key, T, D) ==
  /\ T \subseteq Nodes /\ lk \in [Links -> Nodes \cup {NULL}] /\ \A n \in T : key[n] \in Nat
  /\ D \in [Links -> SUBSET T] /\ D[Root] = T
  /\ \A x \in Pointers(T) : lk[x] = NULL => D[x] = {}
  /\ \A x \in Pointers(T) : lk[x] # NULL =>
       /\ lk[x] \in T
       /\ D[x] = {lk[x]} \cup D[<<"left", lk[x]>>] \cup D[<<"right", lk[x]>>]
       /\ \A m \in D[<<"left", lk[x]>>] : key[m] < key[lk[x]]
       /\ \A m \in D[<<"right", lk[x]>>] : key[lk[x]] < key[m]
  /\ \A x, y \in Pointers(T) : lk[x] = lk[y] /\ lk[x] # NULL => x = y
  /\ \A n \in T : \E x \in Pointers(T) : lk[x] = n

LEMMA PointersOf ==
  ASSUME NEW T, T \subseteq Nodes
  PROVE  /\ Pointers(T) \subseteq Links /\ Root \in Pointers(T)
         /\ \A n \in T : <<"left", n>> \in Pointers(T) /\ <<"right", n>> \in Pointers(T)
         /\ \A x \in Pointers(T) : x = Root \/ \E n \in T : x = <<"left", n>> \/ x = <<"right", n>>
         /\ \A n : /\ <<"left", n>> # Root /\ <<"right", n>> # Root /\ <<"left", n>> # <<"right", n>>
                   /\ <<"left", n>> \in Pointers(T) => n \in T
                   /\ <<"right", n>> \in Pointers(T) => n \in T
  BY DEF Pointers, Links, Root

(* Where a pointer that is not empty leads to.                             *)
Below(T, D, x, n, y) ==
  /\ y \in Pointers(T) /\ y \in Links /\ y # x /\ n \notin D[y] /\ D[y] \subseteq D[x]
  /\ Cardinality(D[y]) < Cardinality(D[x])

LEMMA BranchesOf ==
  ASSUME NEW lk, NEW key, NEW T, NEW D, IsTree(lk, key, T, D), NEW x \in Pointers(T), lk[x] # NULL,
         NEW n, n = lk[x]
  PROVE  /\ x \in Links /\ n \in T /\ n \in D[x] /\ D[<<"left", n>>] \cap D[<<"right", n>>] = {}
         /\ Below(T, D, x, n, <<"left", n>>) /\ Below(T, D, x, n, <<"right", n>>)
<1> DEFINE L == <<"left", n>>
           R == <<"right", n>>
<1>1. /\ T \subseteq Nodes /\ n \in T /\ D \in [Links -> SUBSET T] /\ \A m \in T : key[m] \in Nat
      /\ D[x] = {n} \cup D[L] \cup D[R]
      /\ \A m \in D[L] : key[m] < key[n]
      /\ \A m \in D[R] : key[n] < key[m]
  BY DEF IsTree
<1>2. L \in Pointers(T) /\ R \in Pointers(T) /\ L \in Links /\ R \in Links /\ x \in Links
  BY <1>1, PointersOf
<1> HIDE DEF L, R
<1>3. D[x] \subseteq T /\ D[L] \subseteq T /\ D[R] \subseteq T
  BY <1>1, <1>2
<1>4. n \notin D[L] /\ n \notin D[R] /\ n \in D[x]
  BY <1>1
<1>5. D[L] \cap D[R] = {}
  <2> SUFFICES ASSUME NEW m \in D[L], m \in D[R] PROVE FALSE
    OBVIOUS
  <2>1. key[m] < key[n] /\ key[n] < key[m] /\ key[m] \in Nat /\ key[n] \in Nat
    BY <1>1, <1>3
  <2> QED
    BY <2>1
<1>6. ASSUME NEW y \in {L, R}  PROVE Below(T, D, x, n, y)
  <2>1. n \notin D[y] /\ D[y] \subseteq D[x] /\ y # x /\ y \in Pointers(T) /\ y \in Links
    BY <1>1, <1>2, <1>4
  <2>2. IsFiniteSet(Nodes)
    BY MaxNodesType, FS_Interval DEF Nodes
  <2>3. IsFiniteSet(D[x])
    BY <1>1, <1>3, <2>2, FS_Subset
  <2>4. /\ IsFiniteSet(D[y]) /\ Cardinality(D[y]) <= Cardinality(D[x])
        /\ Cardinality(D[x]) # Cardinality(D[y])
    BY <1>4, <2>1, <2>3, FS_Subset
  <2>5. Cardinality(D[y]) < Cardinality(D[x])
    BY <2>3, <2>4, FS_CardinalityType
  <2> QED
    BY <2>1, <2>5 DEF Below
<1> QED
  BY <1>1, <1>2, <1>4, <1>5, <1>6 DEF L, R

LEMMA Branches ==
  ASSUME NEW lk, NEW key, NEW T, NEW D, IsTree(lk, key, T, D)
  PROVE  \A x \in Pointers(T) : lk[x] # NULL =>
           /\ x \in Links /\ lk[x] \in T /\ lk[x] \in D[x]
           /\ D[<<"left", lk[x]>>] \cap D[<<"right", lk[x]>>] = {}
           /\ Below(T, D, x, lk[x], <<"left", lk[x]>>) /\ Below(T, D, x, lk[x], <<"right", lk[x]>>)
<1> SUFFICES ASSUME NEW x \in Pointers(T), lk[x] # NULL
             PROVE  /\ x \in Links /\ lk[x] \in T /\ lk[x] \in D[x]
                    /\ D[<<"left", lk[x]>>] \cap D[<<"right", lk[x]>>] = {}
                    /\ Below(T, D, x, lk[x], <<"left", lk[x]>>)
                    /\ Below(T, D, x, lk[x], <<"right", lk[x]>>)
  OBVIOUS
<1>1. PICK n : n = lk[x]
  OBVIOUS
<1> QED
  BY <1>1, BranchesOf

(* A loop down the tree stops at one of its pointers, on its way.          *)
GoesDown(lk, T, step, stop) ==
  \A x \in Pointers(T) \ stop :
    lk[x] # NULL /\ (step[x] = <<"left", lk[x]>> \/ step[x] = <<"right", lk[x]>>)

IsLoop(f, step, stop) == \A x \in Links : f[x] = IF x \in stop THEN x ELSE f[step[x]]

LEMMA LoopEnds ==
  ASSUME NEW lk, NEW key, NEW T, NEW D, IsTree(lk, key, T, D), NEW stop, NEW step,
         GoesDown(lk, T, step, stop), NEW f, IsLoop(f, step, stop)
  PROVE  \A x \in Pointers(T) :
           /\ f[x] \in Pointers(T) /\ f[x] \in stop /\ D[f[x]] \subseteq D[x]
           /\ \A P : x \in P /\ Closed(P, Links, step, stop) => f[x] \in P
<1> DEFINE G == {x \in Pointers(T) :
                   /\ f[x] \in Pointers(T) /\ f[x] \in stop /\ D[f[x]] \subseteq D[x]
                   /\ \A P : x \in P /\ Closed(P, Links, step, stop) => f[x] \in P}
           mu == [x \in Links |-> Cardinality(D[x])]
<1>1. Pointers(T) \subseteq Links
  BY PointersOf DEF IsTree
<1>0. \A x \in Pointers(T) : mu[x] = Cardinality(D[x])
  BY <1>1
<1> HIDE DEF mu
<1>2. ASSUME NEW x \in Pointers(T)  PROVE mu[x] \in Nat
  <2>1. IsFiniteSet(Nodes)
    BY MaxNodesType, FS_Interval DEF Nodes
  <2>2. D[x] \subseteq Nodes
    BY <1>1 DEF IsTree
  <2>3. Cardinality(D[x]) \in Nat
    BY <2>1, <2>2, FS_Subset, FS_CardinalityType
  <2> QED
    BY <1>0, <2>3
<1>3. ASSUME NEW x \in Pointers(T), \A y \in Pointers(T) : mu[y] < mu[x] => y \in G
      PROVE  x \in G
  <2>1. CASE x \in stop
    <3>1. f[x] = x
      BY <1>1, <2>1 DEF IsLoop
    <3> QED
      BY <2>1, <3>1
  <2>2. CASE x \notin stop
    <3> DEFINE y == step[x]
    <3>1. lk[x] # NULL /\ (y = <<"left", lk[x]>> \/ y = <<"right", lk[x]>>)
      BY <2>2 DEF GoesDown
    <3>2. y \in Pointers(T) /\ y \in Links /\ D[y] \subseteq D[x] /\ Cardinality(D[y]) < Cardinality(D[x])
      <4>1. Below(T, D, x, lk[x], <<"left", lk[x]>>) /\ Below(T, D, x, lk[x], <<"right", lk[x]>>)
        BY <3>1, Branches
      <4>2. Below(T, D, x, lk[x], y)
        BY <3>1, <4>1, Zenon
      <4> QED
        BY <4>2 DEF Below
    <3>3. f[x] = f[y]
      BY <1>1, <2>2 DEF IsLoop
    <3>4. y \in G
      BY <1>0, <1>3, <3>2
    <3>5. ASSUME NEW P, x \in P, Closed(P, Links, step, stop)  PROVE f[x] \in P
      BY <2>2, <3>3, <3>4, <3>5 DEF Closed
    <3> QED
      BY <3>2, <3>3, <3>4, <3>5
  <2> QED
    BY <2>1, <2>2
<1> HIDE DEF G
<1>4. Pointers(T) \subseteq G
  <2>1. PICK S : S = Pointers(T)
    OBVIOUS
  <2>2. \A x \in S : mu[x] \in Nat
    BY <1>2, <2>1
  <2>3. \A x \in S : (\A y \in S : mu[y] < mu[x] => y \in G) => x \in G
    BY <1>3, <2>1
  <2> QED
    BY <2>1, <2>2, <2>3, Descent
<1> QED
  BY <1>4 DEF G
-----------------------------------------------------------------------------
(* The search for an address.                                              *)
SearchStop(lk, key, a) == {x \in Links : lk[x] = NULL \/ key[lk[x]] = a}
SearchStep(lk, key, a) == [x \in Links |-> <<Side(a, key[lk[x]]), lk[x]>>]

(* At a pointer it goes on from, it takes the side the address belongs to. *)
LEMMA SearchGoes ==
  ASSUME NEW lk, NEW key, NEW a,
         NEW x \in Links, x \notin SearchStop(lk, key, a)
  PROVE  /\ lk[x] # NULL /\ key[lk[x]] # a
         /\ \/ a < key[lk[x]] /\ SearchStep(lk, key, a)[x] = <<"left", lk[x]>>
            \/ ~(a < key[lk[x]]) /\ SearchStep(lk, key, a)[x] = <<"right", lk[x]>>
  BY DEF SearchStop, SearchStep, Side

LEMMA SearchDown ==
  ASSUME NEW lk, NEW key, NEW T, NEW D, IsTree(lk, key, T, D), NEW a
  PROVE  /\ GoesDown(lk, T, SearchStep(lk, key, a), SearchStop(lk, key, a))
         /\ \A x \in Links \ SearchStop(lk, key, a) : SearchStep(lk, key, a)[x] \in Links
<1> DEFINE stop == SearchStop(lk, key, a)
           step == SearchStep(lk, key, a)
<1>1. T \subseteq Nodes /\ Pointers(T) \subseteq Links /\ lk \in [Links -> Nodes \cup {NULL}]
  BY PointersOf DEF IsTree
<1>2. ASSUME NEW x \in Links, x \notin stop
      PROVE  /\ lk[x] # NULL /\ (step[x] = <<"left", lk[x]>> \/ step[x] = <<"right", lk[x]>>)
             /\ step[x] \in Links
  <2>1. lk[x] # NULL /\ (step[x] = <<"left", lk[x]>> \/ step[x] = <<"right", lk[x]>>)
    BY <1>2, SearchGoes
  <2>2. lk[x] \in Nodes
    BY <1>1, <2>1
  <2>3. <<"left", lk[x]>> \in Links /\ <<"right", lk[x]>> \in Links
    BY <2>2 DEF Links
  <2>4. step[x] \in Links
    BY <2>1, <2>3, Zenon
  <2> QED
    BY <2>1, <2>4
<1> HIDE DEF step, stop
<1> QED
  BY <1>1, <1>2 DEF GoesDown, step, stop

(* It comes to the node with the address, if the tree has one, and to an   *)
(* empty pointer otherwise.                                                *)
LEMMA SearchFinds ==
  ASSUME NEW lk, NEW key, NEW T, NEW D, IsTree(lk, key, T, D), NEW a \in Nat,
         NEW f, IsLoop(f, SearchStep(lk, key, a), SearchStop(lk, key, a))
  PROVE  /\ f[Root] \in Pointers(T) /\ f[Root] \in SearchStop(lk, key, a)
         /\ \A P : Root \in P /\ Closed(P, Links, SearchStep(lk, key, a), SearchStop(lk, key, a))
                   => f[Root] \in P
         /\ \A m \in T : key[m] = a => lk[f[Root]] = m
<1> DEFINE stop == SearchStop(lk, key, a)
           step == SearchStep(lk, key, a)
           r == f[Root]
<1>1. /\ T \subseteq Nodes /\ \A m \in T : key[m] \in Nat
      /\ D \in [Links -> SUBSET T] /\ D[Root] = T
      /\ Root \in Pointers(T) /\ Pointers(T) \subseteq Links
  BY PointersOf DEF IsTree
<1>2. GoesDown(lk, T, step, stop)
  BY SearchDown
<1>3. ASSUME NEW m \in T, key[m] = a  PROVE Closed({y \in Pointers(T) : m \in D[y]}, Links, step, stop)
  <2> SUFFICES ASSUME NEW x \in Pointers(T) \ stop, m \in D[x]
               PROVE  step[x] \in Pointers(T) /\ m \in D[step[x]]
    BY <1>1 DEF Closed
  <2>1. PICK n : n = lk[x]
    OBVIOUS
  <2>2. PICK L, R : L = <<"left", n>> /\ R = <<"right", n>>
    OBVIOUS
  <2>3. /\ n # NULL /\ key[n] # a
        /\ (a < key[n] /\ step[x] = L) \/ (~(a < key[n]) /\ step[x] = R)
    BY <1>1, <2>1, <2>2, SearchGoes
  <2> HIDE DEF step, stop
  <2>4. n \in T /\ L \in Pointers(T) /\ R \in Pointers(T)
    BY <1>1, <2>1, <2>2, <2>3, BranchesOf DEF Below
  <2>5. /\ D[x] = {n} \cup D[L] \cup D[R]
        /\ \A k \in D[L] : key[k] < key[n]
        /\ \A k \in D[R] : key[n] < key[k]
    BY <2>1, <2>2, <2>3 DEF IsTree
  <2>6. m # n /\ key[n] \in Nat
    BY <1>1, <1>3, <2>3, <2>4
  <2>7. CASE m \in D[L]
    BY <1>3, <2>3, <2>4, <2>5, <2>7
  <2>8. CASE m \in D[R]
    <3>1. ~(a < key[n])
      BY <1>3, <2>5, <2>6, <2>8
    <3> QED
      BY <2>3, <2>4, <2>8, <3>1
  <2> QED
    BY <2>5, <2>6, <2>7, <2>8
<1>0. IsLoop(f, step, stop)
  OBVIOUS
<1> HIDE DEF step, stop
<1>4. /\ r \in Pointers(T) /\ r \in stop
      /\ \A P : Root \in P /\ Closed(P, Links, step, stop) => r \in P
  <2>1. \A x \in Pointers(T) :
          /\ f[x] \in Pointers(T) /\ f[x] \in stop
          /\ \A P : x \in P /\ Closed(P, Links, step, stop) => f[x] \in P
    BY <1>0, <1>2, LoopEnds
  <2> QED
    BY <1>1, <2>1
<1>5. ASSUME NEW m \in T, key[m] = a  PROVE lk[r] = m
  <2>1. m \in D[r]
    <3>1. PICK P : P = {y \in Pointers(T) : m \in D[y]}
      OBVIOUS
    <3>2. Closed(P, Links, step, stop)
      BY <1>3, <1>5, <3>1
    <3>3. Root \in P
      BY <1>1, <3>1
    <3>4. r \in P
      BY <1>4, <3>2, <3>3
    <3> QED
      BY <3>1, <3>4
  <2>2. PICK n : n = lk[r]
    OBVIOUS
  <2>3. n # NULL
    BY <1>4, <2>1, <2>2 DEF IsTree
  <2>4. key[n] = a
    BY <1>4, <2>2, <2>3 DEF stop, SearchStop
  <2>5. /\ n \in T /\ D[r] = {n} \cup D[<<"left", n>>] \cup D[<<"right", n>>]
        /\ \A k \in D[<<"left", n>>] : key[k] < key[n]
        /\ \A k \in D[<<"right", n>>] : key[n] < key[k]
    BY <1>4, <2>2, <2>3 DEF IsTree
  <2> QED
    BY <1>5, <2>1, <2>2, <2>4, <2>5
<1> QED
  BY <1>4, <1>5 DEF step, stop

(* A way down the tree stays on its pointers and ends where the loop does. *)
LEMMA WayDown ==
  ASSUME NEW lk, NEW key, NEW T, NEW D, IsTree(lk, key, T, D), NEW stop, NEW step,
         GoesDown(lk, T, step, stop), NEW f, IsLoop(f, step, stop), NEW x \in Pointers(T),
         \A y \in Links \ stop : step[y] \in Links,
         NEW W, W = Way(x, Links, step, stop)
  PROVE  /\ W \subseteq Pointers(T) /\ x \in W /\ f[x] \in W
         /\ \A y \in W \ stop : step[y] \in W
         /\ \A y \in W : D[y] \subseteq D[x]
         /\ \A y \in W \cap stop : y = f[x]
         /\ \A y \in W \ {x} : \E z \in W \ stop : y = step[z]
<1>1. Pointers(T) \subseteq Links /\ T \subseteq Nodes
  BY PointersOf DEF IsTree
<1>2. /\ x \in W /\ Closed(W, Links, step, stop)
      /\ \A P : x \in P /\ Closed(P, Links, step, stop) => W \subseteq P
      /\ \A y \in W \ {x} : \E z \in W \ stop : y = step[z]
  BY <1>1, WayIsLeast
<1>3. f[x] \in W
  BY <1>2, LoopEnds
<1>4. Closed({y \in Pointers(T) : D[y] \subseteq D[x] /\ f[y] = f[x]}, Links, step, stop)
  <2> SUFFICES ASSUME NEW y \in Pointers(T) \ stop, D[y] \subseteq D[x], f[y] = f[x]
               PROVE  step[y] \in Pointers(T) /\ D[step[y]] \subseteq D[x] /\ f[step[y]] = f[x]
    BY <1>1 DEF Closed
  <2>1. lk[y] # NULL /\ (step[y] = <<"left", lk[y]>> \/ step[y] = <<"right", lk[y]>>)
    BY DEF GoesDown
  <2>2. Below(T, D, y, lk[y], <<"left", lk[y]>>) /\ Below(T, D, y, lk[y], <<"right", lk[y]>>)
    BY <2>1, Branches
  <2>3. Below(T, D, y, lk[y], step[y])
    BY <2>1, <2>2, Zenon
  <2>4. f[y] = f[step[y]]
    BY <1>1 DEF IsLoop
  <2> QED
    BY <2>3, <2>4 DEF Below
<1>5. W \subseteq {y \in Pointers(T) : D[y] \subseteq D[x] /\ f[y] = f[x]}
  BY <1>2, <1>4
<1>6. \A y \in W \cap stop : y = f[x]
  BY <1>1, <1>5 DEF IsLoop
<1> QED
  BY <1>2, <1>3, <1>5, <1>6 DEF Closed

(* A new node where the search for its address ended keeps the tree.       *)
LEMMA TreeInsert ==
  ASSUME NEW lk, NEW key, NEW T, NEW D, IsTree(lk, key, T, D), NEW a \in Nat,
         NEW f, IsLoop(f, SearchStep(lk, key, a), SearchStop(lk, key, a)),
         NEW r, r = f[Root], lk[r] = NULL, NEW new \in Nodes \ T,
         NEW l2 \in [Links -> Nodes \cup {NULL}], NEW key2,
         l2[r] = new, l2[<<"left", new>>] = NULL, l2[<<"right", new>>] = NULL,
         \A x \in Pointers(T) : x # r => l2[x] = lk[x],
         key2[new] = a, \A m \in T : key2[m] = key[m]
  PROVE  \E D2 : IsTree(l2, key2, T \cup {new}, D2)
<1> DEFINE stop == SearchStop(lk, key, a)
           step == SearchStep(lk, key, a)
           U == T \cup {new}
           W == Way(Root, Links, step, stop)
           D2 == [x \in Links |-> IF x \in {<<"left", new>>, <<"right", new>>} THEN {}
                                  ELSE IF x \in W THEN D[x] \cup {new} ELSE D[x]]
<1>1. /\ T \subseteq Nodes /\ \A m \in T : key[m] \in Nat
      /\ D \in [Links -> SUBSET T] /\ D[Root] = T
      /\ Root \in Pointers(T) /\ Pointers(T) \subseteq Links
  BY PointersOf DEF IsTree
<1>2. PICK NL, NR : NL = <<"left", new>> /\ NR = <<"right", new>>
  OBVIOUS
<1>3. /\ NL \in Links /\ NR \in Links /\ NL # NR /\ NL \notin Pointers(T) /\ NR \notin Pointers(T)
      /\ \A x : x \in Pointers(U) <=> x \in Pointers(T) \/ x = NL \/ x = NR
  <2>1. NL \in Links /\ NR \in Links /\ NL # NR
    BY <1>2 DEF Links
  <2>2. NL \notin Pointers(T) /\ NR \notin Pointers(T)
    BY <1>1, <1>2, PointersOf
  <2>3. \A x : x \in Pointers(U) <=> x \in Pointers(T) \/ x = NL \/ x = NR
    BY <1>2 DEF Pointers
  <2> QED
    BY <2>1, <2>2, <2>3
<1>4. /\ W \subseteq Pointers(T) /\ Root \in W /\ r \in W
      /\ \A y \in W \ stop : step[y] \in W
      /\ \A y \in W \cap stop : y = r
      /\ \A y \in W \ {Root} : \E z \in W \ stop : y = step[z]
  <2>1. GoesDown(lk, T, step, stop) /\ \A x \in Links \ stop : step[x] \in Links
    BY SearchDown
  <2>2. IsLoop(f, step, stop)
    OBVIOUS
  <2> HIDE DEF step, stop
  <2>3. PICK V : V = W
    OBVIOUS
  <2> HIDE DEF W
  <2> QED
    BY <1>1, <2>1, <2>2, <2>3, WayDown DEF W
<1>5. \A x \in Links : x \notin stop => /\ lk[x] # NULL /\ key[lk[x]] # a
         /\ \/ a < key[lk[x]] /\ step[x] = <<"left", lk[x]>>
            \/ ~(a < key[lk[x]]) /\ step[x] = <<"right", lk[x]>>
  BY SearchGoes
<1>6. r \in Pointers(T) /\ \A m \in T : key[m] # a
  <2>1. r \in Pointers(T) /\ \A m \in T : key[m] = a => lk[r] = m
    BY SearchFinds
  <2> QED
    BY <1>1, <2>1, NullIsNoNode
<1>7. /\ D2 \in [Links -> SUBSET U] /\ D2[NL] = {} /\ D2[NR] = {}
      /\ \A x \in Pointers(T) : x \in W => D2[x] = D[x] \cup {new}
      /\ \A x \in Pointers(T) : x \notin W => D2[x] = D[x]
  BY <1>1, <1>2, <1>3
<1>0. l2[NL] = NULL /\ l2[NR] = NULL /\ new # NULL
  BY <1>2, NullIsNoNode
<1> HIDE DEF D2, W, step
<1>8. U \subseteq Nodes /\ (\A n \in U : key2[n] \in Nat) /\ D2[Root] = U
  BY <1>1, <1>4, <1>7
<1>9. ASSUME NEW x \in Pointers(U), l2[x] = NULL  PROVE D2[x] = {}
  <2> SUFFICES ASSUME x \in Pointers(T) PROVE D2[x] = {}
    BY <1>3, <1>7
  <2>1. x # r /\ lk[x] = NULL
    BY <1>0, <1>9
  <2>2. D[x] = {}
    BY <2>1 DEF IsTree
  <2>3. x \notin W
    BY <1>1, <1>4, <2>1 DEF SearchStop
  <2> QED
    BY <1>7, <2>2, <2>3
<1>10. ASSUME NEW x \in Pointers(U), l2[x] # NULL
       PROVE  /\ l2[x] \in U
              /\ D2[x] = {l2[x]} \cup D2[<<"left", l2[x]>>] \cup D2[<<"right", l2[x]>>]
              /\ \A m \in D2[<<"left", l2[x]>>] : key2[m] < key2[l2[x]]
              /\ \A m \in D2[<<"right", l2[x]>>] : key2[l2[x]] < key2[m]
  <2>1. x \in Pointers(T)
    BY <1>0, <1>3, <1>10
  <2>2. CASE x = r
    <3>1. D[x] = {}
      BY <2>1, <2>2 DEF IsTree
    <3>2. D2[x] = {new}
      BY <1>4, <1>7, <2>1, <2>2, <3>1
    <3> QED
      BY <1>2, <1>7, <2>2, <3>2
  <2>3. CASE x # r
    <3>1. l2[x] = lk[x] /\ lk[x] # NULL
      BY <1>10, <2>1, <2>3
    <3>2. PICK n : n = lk[x]
      OBVIOUS
    <3>3. PICK L, R : L = <<"left", n>> /\ R = <<"right", n>>
      OBVIOUS
    <3>4. /\ n \in T /\ D[x] = {n} \cup D[L] \cup D[R]
          /\ \A m \in D[L] : key[m] < key[n]
          /\ \A m \in D[R] : key[n] < key[m]
      BY <2>1, <3>1, <3>2, <3>3 DEF IsTree
    <3>5. L \in Pointers(T) /\ R \in Pointers(T) /\ L # R /\ L # Root /\ R # Root
      BY <1>1, <3>3, <3>4, PointersOf
    <3>6. \A y \in Pointers(T) : lk[y] = n => y = x
      BY <2>1, <3>1, <3>2 DEF IsTree
    <3>9. ASSUME NEW B \in {L, R}, B \in W  PROVE x \in W /\ step[x] = B
      <4>1. PICK z \in W \ stop : B = step[z]
        BY <1>4, <3>5, <3>9
      <4>2. z \in Pointers(T) /\ z \in Links
        BY <1>1, <1>4
      <4>3. lk[z] = n
        BY <1>5, <3>3, <3>9, <4>1, <4>2
      <4> QED
        BY <3>6, <4>1, <4>2, <4>3
    <3>10. /\ n \in U /\ \A m \in D[L] : key2[m] < key2[n]
           /\ \A m \in D[R] : key2[n] < key2[m]
      <4>1. D[L] \subseteq T /\ D[R] \subseteq T
        BY <1>1, <3>5
      <4> QED
        BY <3>4, <4>1
    <3>7. ASSUME x \in W
          PROVE  /\ D2[x] = {n} \cup D2[L] \cup D2[R]
                 /\ \A m \in D2[L] : key2[m] < key2[n]
                 /\ \A m \in D2[R] : key2[n] < key2[m]
      <4>1. x \notin stop
        BY <1>4, <2>3, <3>7
      <4>2. \/ a < key[n] /\ step[x] = L
            \/ ~(a < key[n]) /\ step[x] = R
        BY <1>1, <1>5, <2>1, <3>2, <3>3, <4>1
      <4>3. step[x] \in W
        BY <1>4, <3>7, <4>1
      <4>4. D2[x] = D[x] \cup {new} /\ key2[new] = a /\ key2[n] = key[n] /\ a # key[n]
        BY <1>6, <1>7, <2>1, <3>4, <3>7
      <4>5. CASE a < key[n] /\ step[x] = L
        <5>1. D2[L] = D[L] \cup {new} /\ D2[R] = D[R]
          BY <1>7, <3>5, <3>9, <4>3, <4>5
        <5> QED
          BY <3>4, <3>10, <4>4, <4>5, <5>1
      <4>6. CASE ~(a < key[n]) /\ step[x] = R
        <5>1. D2[L] = D[L] /\ D2[R] = D[R] \cup {new}
          BY <1>7, <3>5, <3>9, <4>3, <4>6
        <5>2. key[n] < a
          BY <1>1, <3>4, <4>4, <4>6
        <5> QED
          BY <3>4, <3>10, <4>4, <4>6, <5>1, <5>2
      <4> QED
        BY <4>2, <4>5, <4>6
    <3>8. ASSUME x \notin W
          PROVE  /\ D2[x] = {n} \cup D2[L] \cup D2[R]
                 /\ \A m \in D2[L] : key2[m] < key2[n]
                 /\ \A m \in D2[R] : key2[n] < key2[m]
      <4>1. D2[x] = D[x] /\ D2[L] = D[L] /\ D2[R] = D[R]
        BY <1>7, <2>1, <3>5, <3>8, <3>9
      <4> QED
        BY <3>4, <3>10, <4>1
    <3>11. /\ n \in U /\ D2[x] = {n} \cup D2[L] \cup D2[R]
           /\ \A m \in D2[L] : key2[m] < key2[n]
           /\ \A m \in D2[R] : key2[n] < key2[m]
      BY <3>7, <3>8, <3>10
    <3>12. l2[x] = n
      BY <3>1, <3>2
    <3> QED
      BY <3>3, <3>11, <3>12, Zenon
  <2> QED
    BY <2>2, <2>3
<1>11. ASSUME NEW x \in Pointers(U), NEW y \in Pointers(U), l2[x] = l2[y], l2[x] # NULL
       PROVE  x = y
  <2>1. x \in Pointers(T) /\ y \in Pointers(T)
    BY <1>0, <1>3, <1>11
  <2>2. \A z \in Pointers(T) : z # r /\ l2[z] # NULL => l2[z] = lk[z] /\ l2[z] \in T
    BY DEF IsTree
  <2>3. CASE x = r \/ y = r
    BY <1>11, <2>1, <2>2, <2>3
  <2>4. CASE x # r /\ y # r
    BY <1>11, <2>1, <2>2, <2>4 DEF IsTree
  <2> QED
    BY <2>3, <2>4
<1>12. ASSUME NEW n \in U  PROVE \E x \in Pointers(U) : l2[x] = n
  <2>1. CASE n = new
    BY <1>3, <1>6, <2>1
  <2>2. CASE n \in T
    <3>1. PICK x \in Pointers(T) : lk[x] = n
      BY <2>2 DEF IsTree
    <3>2. x # r
      BY <1>1, <2>2, <3>1, NullIsNoNode
    <3> QED
      BY <1>3, <3>1, <3>2
  <2> QED
    BY <2>1, <2>2
<1>13. IsTree(l2, key2, U, D2)
  <2>1. \A x \in Pointers(U) : l2[x] = NULL => D2[x] = {}
    BY <1>9
  <2>2. \A x \in Pointers(U) : l2[x] # NULL =>
          /\ l2[x] \in U
          /\ D2[x] = {l2[x]} \cup D2[<<"left", l2[x]>>] \cup D2[<<"right", l2[x]>>]
          /\ \A m \in D2[<<"left", l2[x]>>] : key2[m] < key2[l2[x]]
          /\ \A m \in D2[<<"right", l2[x]>>] : key2[l2[x]] < key2[m]
    BY <1>10
  <2>3. \A x, y \in Pointers(U) : l2[x] = l2[y] /\ l2[x] # NULL => x = y
    BY <1>11
  <2>4. \A n \in U : \E x \in Pointers(U) : l2[x] = n
    BY <1>12
  <2> HIDE DEF U
  <2> QED
    BY <1>7, <1>8, <2>1, <2>2, <2>3, <2>4 DEF IsTree
<1> QED
  BY <1>13

(* The pointers that are left without a node.                              *)
LEMMA PointersWithout ==
  ASSUME NEW T, T \subseteq Nodes, NEW n \in T
  PROVE  \A x : x \in Pointers(T \ {n}) <=> x \in Pointers(T) /\ x # <<"left", n>> /\ x # <<"right", n>>
<1>1. ASSUME NEW x, x \in Pointers(T \ {n})
      PROVE  x \in Pointers(T) /\ x # <<"left", n>> /\ x # <<"right", n>>
  BY <1>1 DEF Pointers, Root
<1>2. ASSUME NEW x, x \in Pointers(T), x # <<"left", n>>, x # <<"right", n>>
      PROVE  x \in Pointers(T \ {n})
  <2>1. CASE x = Root
    BY <2>1 DEF Pointers
  <2>2. CASE x # Root
    <3>1. PICK s \in {"left", "right"}, m \in T : x = <<s, m>>
      BY <1>2, <2>2 DEF Pointers
    <3>2. m # n
      BY <1>2, <3>1
    <3> QED
      BY <3>1, <3>2 DEF Pointers
  <2> QED
    BY <2>1, <2>2
<1> QED
  BY <1>1, <1>2

(* Removing a node without a right subtree keeps the tree, ...             *)
LEMMA TreeRemoveLeft ==
  ASSUME NEW lk, NEW key, NEW T, NEW D, IsTree(lk, key, T, D), NEW l \in Pointers(T),
         lk[l] # NULL, lk[<<"right", lk[l]>>] = NULL,
         NEW l2 \in [Links -> Nodes \cup {NULL}], l2[l] = lk[<<"left", lk[l]>>],
         \A x \in Pointers(T) : x # l => l2[x] = lk[x]
  PROVE  /\ l \in Pointers(T \ {lk[l]})
         /\ \E D2 : IsTree(l2, key, T \ {lk[l]}, D2)
<1>n. PICK n : n = lk[l]
  OBVIOUS
<1>p. PICK NL, NR : NL = <<"left", n>> /\ NR = <<"right", n>>
  OBVIOUS
<1>h. n # NULL /\ lk[NR] = NULL /\ l2[l] = lk[NL]
  BY <1>n, <1>p, Zenon
<1> USE <1>n, <1>p, <1>h
<1> DEFINE U == T \ {n}
           D2 == [x \in Links |-> D[x] \ {n}]
<1>1. /\ T \subseteq Nodes /\ Pointers(T) \subseteq Links /\ n \in T /\ Root \in Pointers(T)
      /\ D \in [Links -> SUBSET T] /\ D[Root] = T
  BY PointersOf DEF IsTree
<1>2. /\ NL \in Pointers(T) /\ NR \in Pointers(T) /\ NL # NR /\ NL # Root /\ NR # Root
      /\ \A x : x \in Pointers(U) <=> x \in Pointers(T) /\ x # NL /\ x # NR
  <2>1. NL \in Pointers(T) /\ NR \in Pointers(T) /\ NL # NR /\ NL # Root /\ NR # Root
    BY <1>1, PointersOf
  <2>2. \A x : x \in Pointers(U) <=> x \in Pointers(T) /\ x # NL /\ x # NR
    <3>1. \A x : x \in Pointers(T \ {n}) <=>
                   x \in Pointers(T) /\ x # <<"left", n>> /\ x # <<"right", n>>
      BY <1>1, PointersWithout
    <3> QED
      BY <3>1, Zenon
  <2> QED
    BY <2>1, <2>2
<1>3. /\ D[l] = {n} \cup D[NL] \cup D[NR] /\ n \notin D[NL] /\ D[NR] = {} /\ l # NL /\ l # NR
  <2>1. n \notin D[NL] /\ l # NL /\ l # NR
    BY BranchesOf DEF Below
  <2> QED
    BY <1>2, <2>1 DEF IsTree
<1>4. /\ D2 \in [Links -> SUBSET U] /\ \A x \in Pointers(T) : D2[x] = D[x] \ {n}
  BY <1>1
<1> HIDE DEF D2
<1>5. \A x \in Pointers(T) : lk[x] = n => x = l
  BY DEF IsTree
<1>6. U \subseteq Nodes /\ (\A m \in U : key[m] \in Nat) /\ D2[Root] = U
  BY <1>1, <1>4 DEF IsTree
(* The branch that gives a pointer its node.                               *)
<1>7. ASSUME NEW x \in Pointers(U), l2[x] # NULL
      PROVE  \E y \in Pointers(T) : y # l /\ y # NR /\ lk[y] = l2[x] /\ D2[x] = D[y] \ {n}
                /\ ((x = l /\ y = NL) \/ (x # l /\ y = x))
  <2>1. CASE x = l
    <3>1. D2[x] = D[NL] \ {n}
      BY <1>2, <1>3, <1>4, <2>1
    <3> QED
      BY <1>2, <1>3, <2>1, <3>1
  <2>2. CASE x # l
    BY <1>2, <1>4, <2>2
  <2> QED
    BY <2>1, <2>2
<1>8. \A x \in Pointers(U) : l2[x] = NULL => D2[x] = {}
  <2> SUFFICES ASSUME NEW x \in Pointers(U), l2[x] = NULL PROVE D2[x] = {}
    OBVIOUS
  <2>1. CASE x = l
    <3>1. D[NL] = {}
      BY <1>2, <2>1 DEF IsTree
    <3> QED
      BY <1>2, <1>3, <1>4, <2>1, <3>1
  <2>2. CASE x # l
    <3>1. D[x] = {}
      BY <1>2, <2>2 DEF IsTree
    <3> QED
      BY <1>2, <1>4, <3>1
  <2> QED
    BY <2>1, <2>2
<1>9. ASSUME NEW x \in Pointers(U), l2[x] # NULL
      PROVE  /\ l2[x] \in U
             /\ D2[x] = {l2[x]} \cup D2[<<"left", l2[x]>>] \cup D2[<<"right", l2[x]>>]
             /\ \A k \in D2[<<"left", l2[x]>>] : key[k] < key[l2[x]]
             /\ \A k \in D2[<<"right", l2[x]>>] : key[l2[x]] < key[k]
  <2>1. PICK m : m = l2[x]
    OBVIOUS
  <2>2. PICK y \in Pointers(T) : y # l /\ lk[y] = m /\ D2[x] = D[y] \ {n}
    BY <1>7, <1>9, <2>1
  <2>3. PICK L, R : L = <<"left", m>> /\ R = <<"right", m>>
    OBVIOUS
  <2>4. m \in T /\ L \in Pointers(T) /\ R \in Pointers(T)
    BY <1>9, <2>1, <2>2, <2>3, BranchesOf DEF Below
  <2>5. /\ D[y] = {m} \cup D[L] \cup D[R]
        /\ \A k \in D[L] : key[k] < key[m]
        /\ \A k \in D[R] : key[m] < key[k]
    BY <1>9, <2>1, <2>2, <2>3 DEF IsTree
  <2>6. m # n
    BY <1>5, <2>2
  <2>7. D2[L] = D[L] \ {n} /\ D2[R] = D[R] \ {n}
    BY <1>4, <2>4
  <2>8. /\ m \in U /\ D2[x] = {m} \cup D2[L] \cup D2[R]
        /\ \A k \in D2[L] : key[k] < key[m]
        /\ \A k \in D2[R] : key[m] < key[k]
    BY <2>2, <2>4, <2>5, <2>6, <2>7
  <2> QED
    BY <2>1, <2>3, <2>8, Zenon
<1>10. ASSUME NEW x \in Pointers(U), NEW y \in Pointers(U), l2[x] = l2[y], l2[x] # NULL
       PROVE  x = y
  <2>1. PICK v \in Pointers(T) : lk[v] = l2[x] /\ ((x = l /\ v = NL) \/ (x # l /\ v = x))
    BY <1>7, <1>10
  <2>2. PICK w \in Pointers(T) : lk[w] = l2[x] /\ ((y = l /\ w = NL) \/ (y # l /\ w = y))
    BY <1>7, <1>10
  <2>3. v = w
    BY <1>10, <2>1, <2>2 DEF IsTree
  <2> QED
    BY <1>2, <2>1, <2>2, <2>3
<1>11. ASSUME NEW m \in U  PROVE \E x \in Pointers(U) : l2[x] = m
  <2>1. PICK x \in Pointers(T) : lk[x] = m
    BY DEF IsTree
  <2>2. x # NR /\ x # l
    BY <1>1, <2>1, NullIsNoNode
  <2> QED
    BY <1>2, <1>3, <2>1, <2>2
<1>12. IsTree(l2, key, U, D2)
  <2>1. \A x \in Pointers(U) : l2[x] # NULL =>
          /\ l2[x] \in U
          /\ D2[x] = {l2[x]} \cup D2[<<"left", l2[x]>>] \cup D2[<<"right", l2[x]>>]
          /\ \A k \in D2[<<"left", l2[x]>>] : key[k] < key[l2[x]]
          /\ \A k \in D2[<<"right", l2[x]>>] : key[l2[x]] < key[k]
    BY <1>9
  <2>2. \A x, y \in Pointers(U) : l2[x] = l2[y] /\ l2[x] # NULL => x = y
    BY <1>10
  <2>3. \A m \in U : \E x \in Pointers(U) : l2[x] = m
    BY <1>11
  <2> HIDE DEF U
  <2> QED
    BY <1>4, <1>6, <1>8, <2>1, <2>2, <2>3 DEF IsTree
<1> QED
  BY <1>2, <1>3, <1>12

(* The way down to the leftmost node.                                      *)
DownStop(lk) == {x \in Links : lk[x] = NULL}
DownStep(lk) == [x \in Links |-> <<"left", lk[x]>>]

LEMMA DownGoes ==
  ASSUME NEW lk, NEW key, NEW T, NEW D, IsTree(lk, key, T, D)
  PROVE  /\ GoesDown(lk, T, DownStep(lk), DownStop(lk))
         /\ \A x \in Links \ DownStop(lk) : DownStep(lk)[x] \in Links
<1>1. Pointers(T) \subseteq Links /\ lk \in [Links -> Nodes \cup {NULL}]
  BY PointersOf DEF IsTree
<1>2. ASSUME NEW x \in Links, lk[x] # NULL
      PROVE  DownStep(lk)[x] = <<"left", lk[x]>> /\ DownStep(lk)[x] \in Links
  <2>1. lk[x] \in Nodes
    BY <1>1, <1>2
  <2>2. <<"left", lk[x]>> \in Links
    BY <2>1 DEF Links
  <2> QED
    BY <2>2, Zenon DEF DownStep
<1> QED
  BY <1>1, <1>2 DEF GoesDown, DownStop

LEMMA LeftmostEmpty ==
  ASSUME NEW lk, NEW key, NEW T, NEW D, IsTree(lk, key, T, D),
         NEW f, IsLoop(f, DownStep(lk), DownStop(lk)), NEW y \in Pointers(T)
  PROVE  f[y] \in Pointers(T) /\ lk[f[y]] = NULL
<1>1. GoesDown(lk, T, DownStep(lk), DownStop(lk))
  BY DownGoes
<1>2. f[y] \in Pointers(T) /\ f[y] \in DownStop(lk)
  BY <1>1, LoopEnds
<1> QED
  BY <1>2 DEF DownStop

(* The pointer that had the node a pointer has now.                        *)
Before(l, r, NL, NR, x, y) ==
  (x = l /\ y = NR) \/ (x = r /\ y = NL) \/ (x # l /\ x # r /\ y = x)

(* ... and so does removing one with a right subtree: that takes its place *)
(* and the left one goes below its leftmost node.                          *)
LEMMA TreeRemoveRight ==
  ASSUME NEW lk, NEW key, NEW T, NEW D, IsTree(lk, key, T, D), NEW l \in Pointers(T),
         lk[l] # NULL, NEW right, right = lk[<<"right", lk[l]>>], right # NULL,
         NEW f, IsLoop(f, DownStep(lk), DownStop(lk)),
         NEW l2 \in [Links -> Nodes \cup {NULL}],
         l2[l] = right, l2[f[<<"left", right>>]] = lk[<<"left", lk[l]>>],
         \A x \in Pointers(T) : x # l /\ x # f[<<"left", right>>] => l2[x] = lk[x]
  PROVE  \E D2 : IsTree(l2, key, T \ {lk[l]}, D2)
<1>n. PICK n : n = lk[l]
  OBVIOUS
<1>p. PICK NL, NR : NL = <<"left", n>> /\ NR = <<"right", n>>
  OBVIOUS
<1>r. PICK r : r = f[<<"left", right>>]
  OBVIOUS
<1>h. /\ n # NULL /\ lk[NR] # NULL /\ right = lk[NR] /\ l2[l] = lk[NR] /\ l2[r] = lk[NL]
      /\ \A x \in Pointers(T) : x # l /\ x # r => l2[x] = lk[x]
  BY <1>n, <1>p, <1>r, Zenon
<1> USE <1>n, <1>p, <1>r, <1>h
<1> DEFINE U == T \ {n}
           stop == DownStop(lk)
           step == DownStep(lk)
           S == Way(NR, Links, step, stop)
           D2 == [x \in Links |-> (D[x] \ {n}) \cup (IF x \in S THEN D[NL] \ {n} ELSE {})]
<1>1. /\ T \subseteq Nodes /\ Pointers(T) \subseteq Links /\ n \in T /\ Root \in Pointers(T)
      /\ D \in [Links -> SUBSET T] /\ D[Root] = T
  BY PointersOf DEF IsTree
<1>2. /\ NL \in Pointers(T) /\ NR \in Pointers(T) /\ NL # NR /\ NL # Root /\ NR # Root
      /\ \A x : x \in Pointers(U) <=> x \in Pointers(T) /\ x # NL /\ x # NR
  <2>1. NL \in Pointers(T) /\ NR \in Pointers(T) /\ NL # NR /\ NL # Root /\ NR # Root
    BY <1>1, PointersOf
  <2>2. \A x : x \in Pointers(U) <=> x \in Pointers(T) /\ x # NL /\ x # NR
    <3>1. \A x : x \in Pointers(T \ {n}) <=>
                   x \in Pointers(T) /\ x # <<"left", n>> /\ x # <<"right", n>>
      BY <1>1, PointersWithout
    <3> QED
      BY <3>1, Zenon
  <2> QED
    BY <2>1, <2>2
<1>3. /\ D[l] = {n} \cup D[NL] \cup D[NR] /\ n \in D[l] /\ n \notin D[NL] /\ n \notin D[NR]
      /\ l # NL /\ l # NR
      /\ \A k \in D[NL] : key[k] < key[n]
      /\ \A k \in D[NR] : key[n] < key[k]
  <2>1. n \notin D[NL] /\ n \notin D[NR] /\ l # NL /\ l # NR
    BY BranchesOf DEF Below
  <2>2. /\ D[l] = {n} \cup D[<<"left", n>>] \cup D[<<"right", n>>]
        /\ \A k \in D[<<"left", n>>] : key[k] < key[n]
        /\ \A k \in D[<<"right", n>>] : key[n] < key[k]
    BY DEF IsTree
  <2>3. D[<<"left", n>>] = D[NL] /\ D[<<"right", n>>] = D[NR]
    BY Zenon
  <2> QED
    BY <2>1, <2>2, <2>3
<1>4. r = f[NR] /\ NR \notin stop
  <2>1. NR \in Links /\ NR \notin stop
    BY <1>1, <1>2 DEF DownStop
  <2>2. step[NR] = <<"left", lk[NR]>>
    BY <2>1 DEF DownStep
  <2>3. f[NR] = f[step[NR]]
    BY <2>1 DEF IsLoop
  <2> QED
    BY <2>1, <2>2, <2>3, Zenon
<1>5. /\ S \subseteq Pointers(T) /\ NR \in S /\ r \in S
      /\ \A y \in S \ stop : step[y] \in S
      /\ \A y \in S : D[y] \subseteq D[NR]
      /\ \A y \in S \cap stop : y = r
      /\ \A y \in S \ {NR} : \E z \in S \ stop : y = step[z]
  <2>1. GoesDown(lk, T, step, stop) /\ \A x \in Links \ stop : step[x] \in Links
    BY DownGoes
  <2>2. IsLoop(f, step, stop)
    OBVIOUS
  <2> HIDE DEF step, stop
  <2>3. PICK V : V = S
    OBVIOUS
  <2> HIDE DEF S
  <2> QED
    BY <1>2, <1>4, <2>1, <2>2, <2>3, WayDown DEF S
<1>6. r \in stop
  <2>1. GoesDown(lk, T, step, stop) /\ IsLoop(f, step, stop)
    BY DownGoes
  <2> HIDE DEF step, stop
  <2> QED
    BY <1>2, <1>4, <2>1, LoopEnds
<1>7. \A x \in Pointers(T) : lk[x] = n => x = l
  BY DEF IsTree
<1>8. \A z \in S \ stop : z \in Pointers(T) /\ lk[z] # NULL /\ step[z] = <<"left", lk[z]>>
  BY <1>1, <1>5 DEF DownStop, DownStep
<1>9. /\ l \notin S /\ NL \notin S /\ Root \notin S /\ r # l /\ r # NL /\ r # NR /\ r \in Pointers(T)
      /\ lk[r] = NULL
  <2>1. l \notin S
    BY <1>3, <1>5
  <2>2. NL \notin S
    <3> SUFFICES ASSUME NL \in S PROVE FALSE
      OBVIOUS
    <3>1. PICK z \in S \ stop : NL = step[z]
      BY <1>2, <1>5
    <3>2. lk[z] = n
      BY <1>8, <3>1
    <3> QED
      BY <1>7, <1>8, <2>1, <3>2
  <2>3. Root \notin S
    <3> SUFFICES ASSUME Root \in S PROVE FALSE
      OBVIOUS
    <3>1. PICK z \in S \ stop : Root = step[z]
      BY <1>2, <1>5
    <3>2. Root = <<"left", lk[z]>>
      BY <1>8, <3>1
    <3> QED
      BY <3>2 DEF Root
  <2>4. lk[r] = NULL /\ r \in Pointers(T)
    BY <1>5, <1>6 DEF DownStop
  <2> QED
    BY <1>5, <2>1, <2>2, <2>3, <2>4
<1>10. /\ D2 \in [Links -> SUBSET U]
       /\ \A x \in Pointers(T) : x \in S => D2[x] = (D[x] \ {n}) \cup D[NL]
       /\ \A x \in Pointers(T) : x \notin S => D2[x] = D[x] \ {n}
  <2>1. D[NL] \subseteq T /\ D[NL] \ {n} = D[NL]
    BY <1>1, <1>2, <1>3
  <2> HIDE DEF S
  <2>2. D2 \in [Links -> SUBSET U]
    BY <1>1, <2>1
  <2> QED
    BY <1>1, <2>1, <2>2
<1> HIDE DEF D2, S, stop, step
<1>11. U \subseteq Nodes /\ (\A m \in U : key[m] \in Nat) /\ D2[Root] = U
  BY <1>1, <1>9, <1>10 DEF IsTree
(* The pointer the node had before.                                        *)
<1>12. ASSUME NEW x \in Pointers(U), l2[x] # NULL
       PROVE  \E y \in Pointers(T) : y # l /\ lk[y] = l2[x]
                /\ (y \in S => D2[x] = (D[y] \ {n}) \cup D[NL])
                /\ (y \notin S => D2[x] = D[y] \ {n})
                /\ Before(l, r, NL, NR, x, y)
  <2>1. CASE x = l
    <3>1. D2[x] = (D[NR] \ {n}) \cup D[NL]
      BY <1>3, <1>9, <1>10, <2>1
    <3> QED
      BY <1>2, <1>3, <1>5, <2>1, <3>1 DEF Before
  <2>2. CASE x = r
    <3>1. D[r] = {}
      BY <1>9 DEF IsTree
    <3>2. D2[x] = D[NL] \ {n}
      BY <1>3, <1>5, <1>9, <1>10, <2>2, <3>1
    <3> QED
      BY <1>2, <1>3, <1>9, <2>2, <3>2 DEF Before
  <2>3. CASE x # l /\ x # r
    BY <1>2, <1>10, <2>3 DEF Before
  <2> QED
    BY <2>1, <2>2, <2>3
<1>13. \A x \in Pointers(U) : l2[x] # NULL =>
         \E y \in Pointers(T) : lk[y] = l2[x] /\ Before(l, r, NL, NR, x, y)
  BY <1>12
<1>14. \A x, y \in Pointers(T) : lk[x] = lk[y] /\ lk[x] # NULL => x = y
  BY DEF IsTree
<1>15. \A y \in S : y = NR \/ \E z \in S \ stop : y = step[z]
  BY <1>5
<1>16. \A x \in Pointers(U) : l2[x] = NULL => D2[x] = {}
  <2> SUFFICES ASSUME NEW x \in Pointers(U), l2[x] = NULL PROVE D2[x] = {}
    OBVIOUS
  <2>1. x # l /\ x \in Pointers(T)
    BY <1>2
  <2>2. CASE x = r
    <3>1. D[r] = {} /\ D[NL] = {}
      BY <1>2, <1>9, <2>2 DEF IsTree
    <3> QED
      BY <1>5, <1>9, <1>10, <2>2, <3>1
  <2>3. CASE x # r
    <3>1. D[x] = {} /\ lk[x] = NULL
      BY <2>1, <2>3 DEF IsTree
    <3>2. x \notin S
      BY <1>1, <1>5, <2>1, <2>3, <3>1 DEF stop, DownStop
    <3> QED
      BY <1>10, <2>1, <3>1, <3>2
  <2> QED
    BY <2>2, <2>3
<1>17. ASSUME NEW x \in Pointers(U), l2[x] # NULL
       PROVE  /\ l2[x] \in U
              /\ D2[x] = {l2[x]} \cup D2[<<"left", l2[x]>>] \cup D2[<<"right", l2[x]>>]
              /\ \A k \in D2[<<"left", l2[x]>>] : key[k] < key[l2[x]]
              /\ \A k \in D2[<<"right", l2[x]>>] : key[l2[x]] < key[k]
  <2>1. PICK m : m = l2[x]
    OBVIOUS
  <2>2. PICK y \in Pointers(T) : /\ y # l /\ lk[y] = m
                                 /\ (y \in S => D2[x] = (D[y] \ {n}) \cup D[NL])
                                 /\ (y \notin S => D2[x] = D[y] \ {n})
    BY <1>12, <1>17, <2>1
  <2>3. PICK L, R : L = <<"left", m>> /\ R = <<"right", m>>
    OBVIOUS
  <2>4. m \in T /\ L \in Pointers(T) /\ R \in Pointers(T)
    BY <1>17, <2>1, <2>2, <2>3, BranchesOf DEF Below
  <2>5. /\ D[y] = {m} \cup D[L] \cup D[R]
        /\ \A k \in D[L] : key[k] < key[m]
        /\ \A k \in D[R] : key[m] < key[k]
    BY <1>17, <2>1, <2>2, <2>3 DEF IsTree
  <2>6. m # n
    BY <1>7, <2>2
  <2>7. R \notin S
    <3> SUFFICES ASSUME R \in S PROVE FALSE
      OBVIOUS
    <3>1. R # NR
      BY <2>3, <2>6
    <3>2. PICK z \in S \ stop : R = step[z]
      BY <1>15, <3>1
    <3> QED
      BY <1>8, <2>3, <3>2
  <2>8. L \in S <=> y \in S
    <3>1. ASSUME L \in S  PROVE y \in S
      <4>1. L # NR
        BY <2>3
      <4>2. PICK z \in S \ stop : L = step[z]
        BY <1>15, <3>1, <4>1
      <4>3. lk[z] = m /\ z \in Pointers(T)
        BY <1>8, <2>3, <4>2
      <4>4. z = y
        BY <1>17, <1>14, <2>1, <2>2, <4>3
      <4> QED
        BY <4>2, <4>4
    <3>2. ASSUME y \in S  PROVE L \in S
      <4>1. y \notin stop
        BY <1>17, <2>1, <2>2 DEF stop, DownStop
      <4>2. step[y] = L
        BY <1>8, <2>2, <2>3, <3>2, <4>1
      <4> QED
        BY <1>5, <3>2, <4>1, <4>2
    <3> QED
      BY <3>1, <3>2
  <2>9. D2[R] = D[R] \ {n}
    BY <1>10, <2>4, <2>7
  <2>10. ASSUME y \in S
         PROVE  /\ D2[x] = {m} \cup D2[L] \cup D2[R]
                /\ \A k \in D2[L] : key[k] < key[m]
                /\ \A k \in D2[R] : key[m] < key[k]
    <3>1. D2[L] = (D[L] \ {n}) \cup D[NL] /\ D2[x] = (D[y] \ {n}) \cup D[NL]
      BY <1>10, <2>2, <2>4, <2>8, <2>10
    <3>2. \A k \in D[NL] : key[k] < key[m]
      <4>1. m \in D[NR] /\ D[NL] \subseteq T
        BY <1>1, <1>2, <1>5, <2>5, <2>10
      <4>2. \A k \in T : key[k] \in Nat
        BY DEF IsTree
      <4> QED
        BY <1>1, <1>3, <2>4, <4>1, <4>2
    <3> QED
      BY <2>5, <2>6, <2>9, <3>1, <3>2
  <2>11. ASSUME y \notin S
         PROVE  /\ D2[x] = {m} \cup D2[L] \cup D2[R]
                /\ \A k \in D2[L] : key[k] < key[m]
                /\ \A k \in D2[R] : key[m] < key[k]
    <3>1. D2[L] = D[L] \ {n} /\ D2[x] = D[y] \ {n}
      BY <1>10, <2>2, <2>4, <2>8, <2>11
    <3> QED
      BY <2>5, <2>6, <2>9, <3>1
  <2>12. /\ m \in U /\ D2[x] = {m} \cup D2[L] \cup D2[R]
         /\ \A k \in D2[L] : key[k] < key[m]
         /\ \A k \in D2[R] : key[m] < key[k]
    BY <2>4, <2>6, <2>10, <2>11
  <2> QED
    BY <2>1, <2>3, <2>12, Zenon
<1>18. ASSUME NEW x \in Pointers(U), NEW y \in Pointers(U), l2[x] = l2[y], l2[x] # NULL
       PROVE  x = y
  <2>1. PICK v \in Pointers(T) :
          lk[v] = l2[x] /\ Before(l, r, NL, NR, x, v)
    BY <1>18, <1>13
  <2>2. PICK w \in Pointers(T) :
          lk[w] = l2[y] /\ Before(l, r, NL, NR, y, w)
    <3>1. l2[y] # NULL
      BY <1>18
    <3> QED
      BY <1>13, <3>1
  <2>3. v = w
    BY <1>18, <1>14, <2>1, <2>2
  <2>4. x # NL /\ x # NR /\ y # NL /\ y # NR /\ NL # NR /\ r # l
    BY <1>2, <1>9
  <2> QED
    BY <2>1, <2>2, <2>3, <2>4, Zenon DEF Before
<1>19. ASSUME NEW m \in U  PROVE \E x \in Pointers(U) : l2[x] = m
  <2>1. PICK x \in Pointers(T) : lk[x] = m
    BY DEF IsTree
  <2>2. x # r /\ x # l
    BY <1>1, <1>9, <2>1, NullIsNoNode
  <2> QED
    BY <1>2, <1>3, <1>9, <2>1, <2>2
<1>20. IsTree(l2, key, U, D2)
  <2>1. \A x \in Pointers(U) : l2[x] # NULL =>
          /\ l2[x] \in U
          /\ D2[x] = {l2[x]} \cup D2[<<"left", l2[x]>>] \cup D2[<<"right", l2[x]>>]
          /\ \A k \in D2[<<"left", l2[x]>>] : key[k] < key[l2[x]]
          /\ \A k \in D2[<<"right", l2[x]>>] : key[l2[x]] < key[k]
    BY <1>17
  <2>2. \A x, y \in Pointers(U) : l2[x] = l2[y] /\ l2[x] # NULL => x = y
    BY <1>18
  <2>3. \A m \in U : \E x \in Pointers(U) : l2[x] = m
    BY <1>19
  <2> HIDE DEF U
  <2> QED
    BY <1>10, <1>11, <1>16, <2>1, <2>2, <2>3 DEF IsTree
<1> QED
  BY <1>20
-----------------------------------------------------------------------------
Entries == [mem : Addresses \cup {NULL}, memh : Handles \cup {NULL}]

(* No block gives out more nodes than it was allocated for.                *)
BlocksFit == \A b \in DOMAIN blocks : Len(blocks[b]) <= BlockSize

ArenaType ==
  /\ blocks \in Seq(Seq(Nodes)) /\ blocks # <<>>
  /\ value \in [Nodes -> Entries]
  /\ phase \in {"open", "destroying", "destroyed", "assert"}
  /\ at \in [block : Nat \ {0}, i : Nat \ {0}]

(* Whether the destruction has still to come to a node of the arena.       *)
ToVisit(b, i) ==
  phase \in {"destroying", "destroyed"} => (b > at.block \/ (b = at.block /\ i >= at.i))

(* Whatever is mapped, the destruction comes to a node that says so.       *)
MappedInArena ==
  \A h \in mapped :
    \E b \in DOMAIN blocks : \E i \in DOMAIN blocks[b] :
      value[blocks[b][i]].memh = h /\ ToVisit(b, i)

IInv ==
  /\ ArenaType /\ BlocksFit /\ MappedInArena
  /\ phase = "destroyed" => at.block > Len(blocks)

LEMMA GivenNodes == ArenaType => Given \subseteq Nodes
BY DEF ArenaType, Given, ToSet

(* A new node is one the arena did not give out, ...                       *)
LEMMA NewNodeIsNew ==
  ASSUME ArenaType, Nodes # Given
  PROVE  /\ NewNode \in Nodes
         /\ \A b \in DOMAIN blocks : \A i \in DOMAIN blocks[b] : blocks[b][i] # NewNode
<1>1. NewNode \in Nodes \ Given
  BY GivenNodes DEF NewNode
<1> QED
  BY <1>1 DEF Given, ToSet

(* ... and giving one out keeps the place of every other.                  *)
LEMMA CreateKeeps ==
  ASSUME ArenaType, BlocksFit, NEW n \in Nodes
  PROVE  /\ create_node(n) \in Seq(Seq(Nodes)) /\ create_node(n) # <<>>
         /\ \A b \in DOMAIN create_node(n) : Len(create_node(n)[b]) <= BlockSize
         /\ \A b \in DOMAIN blocks : \A i \in DOMAIN blocks[b] :
              /\ b \in DOMAIN create_node(n) /\ i \in DOMAIN create_node(n)[b]
              /\ create_node(n)[b][i] = blocks[b][i]
         /\ \E b \in DOMAIN create_node(n) : \E i \in DOMAIN create_node(n)[b] :
              create_node(n)[b][i] = n
<1> DEFINE k == Len(blocks)
           new == create_node(n)
<1>1. k \in Nat \ {0} /\ Last(blocks) = blocks[k] /\ blocks[k] \in Seq(Nodes)
      /\ DOMAIN blocks = 1 .. k
  BY DEF ArenaType, Last
<1> HIDE DEF k
<1>2. CASE Len(blocks[k]) >= BlockSize
  <2>1. new = Append(blocks, <<n>>)
    BY <1>1, <1>2 DEF create_node
  <2>2. /\ new \in Seq(Seq(Nodes)) /\ DOMAIN new = 1 .. k + 1
        /\ \A b \in 1 .. k : new[b] = blocks[b]
        /\ new[k + 1] = <<n>>
    BY <1>1, <2>1 DEF ArenaType
  <2>3. Len(<<n>>) <= BlockSize /\ 1 \in DOMAIN <<n>> /\ <<n>>[1] = n
    BY BlockSizeType
  <2> HIDE DEF new
  <2>4. \A b \in 1 .. k + 1 : Len(new[b]) <= BlockSize
    <3> SUFFICES ASSUME NEW b \in 1 .. k + 1 PROVE Len(new[b]) <= BlockSize
      OBVIOUS
    <3>1. CASE b = k + 1
      BY <3>1, <2>2, <2>3
    <3>2. CASE b \in 1 .. k
      BY <3>2, <1>1, <2>2 DEF BlocksFit
    <3> QED
      BY <1>1, <3>1, <3>2
  <2>5. new # <<>> /\ k + 1 \in DOMAIN new
    BY <1>1, <2>2
  <2> QED
    BY <1>1, <2>2, <2>3, <2>4, <2>5 DEF new
<1>3. CASE ~(Len(blocks[k]) >= BlockSize)
  <2>1. new = [blocks EXCEPT ![k] = Append(blocks[k], n)]
    BY <1>1, <1>3 DEF create_node, k
  <2>2. /\ new \in Seq(Seq(Nodes)) /\ DOMAIN new = 1 .. k
        /\ \A b \in 1 .. k : new[b] = IF b = k THEN Append(blocks[k], n) ELSE blocks[b]
    BY <1>1, <2>1 DEF ArenaType
  <2>3. /\ Len(Append(blocks[k], n)) <= BlockSize
        /\ DOMAIN Append(blocks[k], n) = 1 .. Len(blocks[k]) + 1
        /\ Append(blocks[k], n)[Len(blocks[k]) + 1] = n
        /\ \A i \in DOMAIN blocks[k] : i \in DOMAIN Append(blocks[k], n)
                                       /\ Append(blocks[k], n)[i] = blocks[k][i]
    BY <1>1, <1>3, BlockSizeType
  <2> HIDE DEF new
  <2>4. \A b \in 1 .. k : Len(new[b]) <= BlockSize
    BY <1>1, <2>2, <2>3 DEF BlocksFit
  <2>5. k \in 1 .. k /\ Len(blocks[k]) \in Nat
    BY <1>1
  <2>6. new # <<>> /\ k \in DOMAIN new /\ Len(blocks[k]) + 1 \in DOMAIN new[k]
    BY <2>2, <2>3, <2>5
  <2> QED
    BY <1>1, <2>2, <2>3, <2>4, <2>6 DEF new
<1> QED
  BY <1>2, <1>3

LEMMA InitInvariant == Init => IInv
<1> SUFFICES ASSUME Init PROVE IInv
  OBVIOUS
<1>1. << <<>> >> \in Seq(Seq(Nodes)) /\ << <<>> >> # <<>> /\ Len(<< <<>> >>[1]) = 0
      /\ DOMAIN << <<>> >> = {1}
  OBVIOUS
<1> QED
  BY <1>1, BlockSizeType
     DEF Init, IInv, ArenaType, BlocksFit, MappedInArena, Entries, NoEntry, First

(* What leaves the arena, the mappings and the destruction alone.          *)
LEMMA SameArena == IInv /\ UNCHANGED <<value, blocks, mapped, phase, at>> => IInv'
BY DEF IInv, ArenaType, BlocksFit, MappedInArena, ToVisit

LEMMA StepInvariant == IInv /\ [Next]_vars => IInv'
<1> SUFFICES ASSUME IInv, [Next]_vars PROVE IInv'
  OBVIOUS
<1> USE DEF IInv
<1>1. ASSUME NEW a \in Addresses, NEW h \in Handles, RegisterNew(a, h)
      PROVE  IInv'
  <2> DEFINE n == NewNode
  <2>0. phase = "open" /\ Nodes # Given /\ mapped' = mapped \cup {h} /\ blocks' = create_node(n)
        /\ value' = [value EXCEPT ![n] = [mem |-> a, memh |-> h]] /\ UNCHANGED <<phase, at>>
    BY <1>1 DEF RegisterNew
  <2> HIDE DEF n
  <2>1. n \in Nodes /\ \A b \in DOMAIN blocks : \A i \in DOMAIN blocks[b] : blocks[b][i] # n
    BY <2>0, NewNodeIsNew DEF n
  <2>2. /\ blocks' \in Seq(Seq(Nodes)) /\ blocks' # <<>> /\ BlocksFit'
        /\ \A b \in DOMAIN blocks : \A i \in DOMAIN blocks[b] :
             b \in DOMAIN blocks' /\ i \in DOMAIN blocks'[b] /\ blocks'[b][i] = blocks[b][i]
        /\ \E b \in DOMAIN blocks' : \E i \in DOMAIN blocks'[b] : blocks'[b][i] = n
    BY <2>0, <2>1, CreateKeeps DEF BlocksFit
  <2>3. value' \in [Nodes -> Entries] /\ value'[n].memh = h
        /\ \A m \in Nodes : m # n => value'[m] = value[m]
    BY <2>0, <2>1 DEF ArenaType, Entries
  <2>4. ArenaType'
    BY <2>0, <2>2, <2>3 DEF ArenaType
  <2>5. MappedInArena'
    <3> SUFFICES ASSUME NEW g \in mapped'
                 PROVE  \E b \in DOMAIN blocks' : \E i \in DOMAIN blocks'[b] :
                          value'[blocks'[b][i]].memh = g
      BY <2>0 DEF MappedInArena, ToVisit
    <3>1. CASE g = h
      BY <3>1, <2>2, <2>3
    <3>2. CASE g \in mapped
      <4>1. PICK b \in DOMAIN blocks : \E i \in DOMAIN blocks[b] : value[blocks[b][i]].memh = g
        BY <3>2 DEF MappedInArena
      <4>2. PICK i \in DOMAIN blocks[b] : value[blocks[b][i]].memh = g
        BY <4>1
      <4>3. blocks[b][i] \in Nodes /\ blocks[b][i] # n
        BY <2>1 DEF ArenaType
      <4> QED
        BY <2>2, <2>3, <4>2, <4>3
    <3> QED
      BY <2>0, <3>1, <3>2
  <2> QED
    BY <2>0, <2>2, <2>4, <2>5
<1>2. ASSUME NEW a \in Addresses, MapFails(a)
      PROVE  IInv'
  BY <1>2 DEF MapFails, ArenaType, BlocksFit, MappedInArena, ToVisit
<1>3. ASSUME NEW a \in Addresses, GetRegistered(a)
      PROVE  IInv'
  BY <1>3, SameArena DEF GetRegistered
<1>4. ASSUME NEW a \in Addresses, clh_buffer_cache_unregister(a)
      PROVE  IInv'
  <2>1. mapped' \subseteq mapped /\ UNCHANGED <<value, blocks, phase, at>>
    BY <1>4 DEF clh_buffer_cache_unregister
  <2> QED
    BY <2>1 DEF ArenaType, BlocksFit, MappedInArena, ToVisit
<1>5. CASE Destroy
  <2>1. \A b \in DOMAIN blocks : \A i \in DOMAIN blocks[b] : b >= 1 /\ i >= 1 /\ b \in Nat /\ i \in Nat
    BY DEF ArenaType
  <2>2. /\ phase' = "destroying" /\ at'.block = 1 /\ at'.i = 1
        /\ at' \in [block : Nat \ {0}, i : Nat \ {0}] /\ UNCHANGED <<value, blocks, mapped>>
    BY <1>5 DEF Destroy, First
  <2>3. \A b \in DOMAIN blocks : \A i \in DOMAIN blocks[b] : ToVisit(b, i)'
    BY <2>1, <2>2 DEF ToVisit
  <2> QED
    BY <2>2, <2>3 DEF ArenaType, BlocksFit, MappedInArena
<1>6. CASE DestroyNode
  <2>0. /\ at.block \in DOMAIN blocks /\ blocks[at.block] \in Seq(Nodes)
        /\ at.i \in DOMAIN blocks[at.block]
    BY <1>6 DEF DestroyNode, ArenaType
  <2>1. /\ phase = "destroying"
        /\ mapped' = mapped \ {value[blocks[at.block][at.i]].memh}
        /\ at' = [at EXCEPT !.i = at.i + 1] /\ UNCHANGED <<value, blocks, phase>>
    BY <1>6 DEF DestroyNode
  <2>2. at' = [block |-> at.block, i |-> at.i + 1] /\ at.i + 1 \in Nat \ {0}
    BY <2>1 DEF ArenaType
  <2>4. ArenaType'
    BY <2>1, <2>2 DEF ArenaType
  <2>3. MappedInArena'
    <3> SUFFICES ASSUME NEW h \in mapped'
                 PROVE  \E b \in DOMAIN blocks : \E i \in DOMAIN blocks[b] :
                          value[blocks[b][i]].memh = h /\ ToVisit(b, i)'
      BY <2>1 DEF MappedInArena
    <3>1. PICK b \in DOMAIN blocks : \E i \in DOMAIN blocks[b] :
                 value[blocks[b][i]].memh = h /\ ToVisit(b, i)
      BY <2>1 DEF MappedInArena
    <3>2. PICK i \in DOMAIN blocks[b] : value[blocks[b][i]].memh = h /\ ToVisit(b, i)
      BY <3>1
    <3>3. ~(b = at.block /\ i = at.i)
      BY <2>0, <2>1, <3>2
    <3>4. b \in Nat /\ i \in Nat /\ at.block \in Nat /\ at.i \in Nat
      BY <2>0, <2>1 DEF ArenaType
    <3>5. ToVisit(b, i)'
      BY <2>1, <2>2, <3>2, <3>3, <3>4 DEF ToVisit
    <3> QED
      BY <3>2, <3>5
  <2> QED
    BY <2>1, <2>3, <2>4 DEF BlocksFit
<1>7. CASE FreeBlock
  <2>1. /\ phase = "destroying" /\ at.block \in DOMAIN blocks /\ at.i > Len(blocks[at.block])
        /\ at' = [block |-> at.block + 1, i |-> 1] /\ UNCHANGED <<value, blocks, mapped, phase>>
    BY <1>7 DEF FreeBlock, ArenaType
  <2>2. \A b \in DOMAIN blocks : \A i \in DOMAIN blocks[b] : ToVisit(b, i) => ToVisit(b, i)'
    <3> SUFFICES ASSUME NEW b \in DOMAIN blocks, NEW i \in DOMAIN blocks[b], ToVisit(b, i)
                 PROVE  ToVisit(b, i)'
      OBVIOUS
    <3>1. b \in Nat /\ i \in Nat \ {0} /\ i <= Len(blocks[b]) /\ Len(blocks[b]) \in Nat
          /\ at.block \in Nat /\ at.i \in Nat
      BY <2>1 DEF ArenaType
    <3> QED
      BY <2>1, <3>1 DEF ToVisit
  <2>3. ArenaType'
    BY <2>1 DEF ArenaType
  <2> QED
    BY <2>1, <2>2, <2>3 DEF BlocksFit, MappedInArena
<1>8. CASE DestroyEnds
  BY <1>8 DEF DestroyEnds, ArenaType, BlocksFit, MappedInArena, ToVisit
<1>9. CASE Ended \/ UNCHANGED vars
  BY <1>9, SameArena DEF Ended, vars
<1>10. CASE RegisterNull
  BY <1>10, SameArena DEF RegisterNull
<1> QED
  BY <1>1, <1>2, <1>3, <1>4, <1>5, <1>6, <1>7, <1>8, <1>9, <1>10 DEF Next

(* The invariant holds in every reachable state.                           *)
THEOREM Invariance == Spec => []IInv
BY InitInvariant, StepInvariant, PTL DEF Spec

(* The destruction unmaps everything that is still mapped, whatever was    *)
(* registered and unregistered before: it walks the arena, not the tree.   *)
THEOREM DestroyUnmapsAll == Spec => []NothingLeaks
<1>1. IInv => NothingLeaks
  <2> SUFFICES ASSUME IInv, phase = "destroyed", NEW h \in mapped PROVE FALSE
    BY DEF NothingLeaks
  <2>1. PICK b \in DOMAIN blocks : \E i \in DOMAIN blocks[b] : ToVisit(b, i)
    BY DEF IInv, MappedInArena
  <2> QED
    BY <2>1 DEF IInv, ToVisit, ArenaType
<1> QED
  BY <1>1, Invariance, PTL

(* No node of the arena is given out beyond the end of its block.          *)
THEOREM ArenaBounded == Spec => []BlocksFit
<1>1. IInv => BlocksFit
  BY DEF IInv
<1> QED
  BY <1>1, Invariance, PTL
-----------------------------------------------------------------------------
(* The tree of a state.                                                    *)
Keys == [n \in Nodes |-> value[n].mem]
Tree == \E D : IsTree(link, Keys, InTree, D)

LEMMA SearchIsLoop ==
  link \in [Links -> Nodes \cup {NULL}] =>
    \A a : \E f : /\ IsLoop(f, SearchStep(link, Keys, a), SearchStop(link, Keys, a))
                  /\ buffer_cache_search_(a) = f[Root]
<1> SUFFICES ASSUME link \in [Links -> Nodes \cup {NULL}], NEW a
             PROVE  \E f : /\ IsLoop(f, SearchStep(link, Keys, a), SearchStop(link, Keys, a))
                           /\ buffer_cache_search_(a) = f[Root]
  OBVIOUS
<1> DEFINE stop == SearchStop(link, Keys, a)
           step == SearchStep(link, Keys, a)
           body(f) == [l \in Links |-> IF link[l] = NULL \/ value[link[l]].mem = a THEN l
                                       ELSE f[<<Side(a, value[link[l]].mem), link[l]>>]]
           from == CHOOSE f : f = body(f)
<1>1. ASSUME NEW x \in Links, link[x] # NULL
      PROVE  link[x] \in Nodes /\ Keys[link[x]] = value[link[x]].mem
  <2>1. link[x] \in Nodes
    BY <1>1
  <2> QED
    BY <2>1 DEF Keys
<1>2. ASSUME NEW x \in Links
      PROVE  /\ x \in stop <=> link[x] = NULL \/ value[link[x]].mem = a
             /\ x \notin stop => step[x] = <<Side(a, value[link[x]].mem), link[x]>>
             /\ x \notin stop => step[x] \in Links
  <2>1. x \in stop <=> link[x] = NULL \/ Keys[link[x]] = a
    BY DEF SearchStop
  <2>2. step[x] = <<Side(a, Keys[link[x]]), link[x]>>
    BY DEF SearchStep
  <2>3. link[x] \in Nodes => <<Side(a, Keys[link[x]]), link[x]>> \in Links
    BY DEF Links, Side
  <2>4. link[x] # NULL => link[x] \in Nodes /\ Keys[link[x]] = value[link[x]].mem
    BY <1>1
  <2>5. x \in stop <=> link[x] = NULL \/ value[link[x]].mem = a
    BY <2>1, <2>4, Zenon
  <2>6. x \notin stop => link[x] # NULL
    BY <2>1
  <2> QED
    BY <2>2, <2>3, <2>4, <2>5, <2>6, Zenon
<1> HIDE DEF stop, step
<1>3. \E f : f = GoesOn(f, Links, step, stop)
  <2>1. \A x \in Links \ stop : step[x] \in Links
    BY <1>2
  <2> QED
    BY <2>1, LoopExists
<1>4. PICK f : f = GoesOn(f, Links, step, stop)
  BY <1>3
<1>5. f = body(f)
  <2> DEFINE g(x) == IF x \in stop THEN x ELSE f[step[x]]
             h(x) == IF link[x] = NULL \/ value[link[x]].mem = a THEN x
                     ELSE f[<<Side(a, value[link[x]].mem), link[x]>>]
  <2>1. \A x \in Links : g(x) = h(x)
    BY <1>2, Zenon
  <2> HIDE DEF g, h
  <2>2. [x \in Links |-> g(x)] = [x \in Links |-> h(x)]
    BY <2>1
  <2> QED
    BY <1>4, <2>2, Zenon DEF g, h, GoesOn
<1>6. from = body(from)
  BY <1>5
<1>7. buffer_cache_search_(a) = from[Root]
  BY DEF buffer_cache_search_
<1> HIDE DEF from
<1>8. IsLoop(from, step, stop)
  <2> SUFFICES ASSUME NEW x \in Links PROVE from[x] = IF x \in stop THEN x ELSE from[step[x]]
    BY DEF IsLoop
  <2>1. from[x] = IF link[x] = NULL \/ value[link[x]].mem = a THEN x
                  ELSE from[<<Side(a, value[link[x]].mem), link[x]>>]
    BY <1>6
  <2> QED
    BY <1>2, <2>1, Zenon
<1> QED
  BY <1>7, <1>8 DEF stop, step

LEMMA LeftmostIsLoop ==
  link \in [Links -> Nodes \cup {NULL}] =>
    \A n : \E f : IsLoop(f, DownStep(link), DownStop(link)) /\ Leftmost(n) = f[<<"left", n>>]
<1> SUFFICES ASSUME link \in [Links -> Nodes \cup {NULL}], NEW n
             PROVE  \E f : IsLoop(f, DownStep(link), DownStop(link)) /\ Leftmost(n) = f[<<"left", n>>]
  OBVIOUS
<1> DEFINE stop == DownStop(link)
           step == DownStep(link)
           body(f) == [l \in Links |-> IF link[l] = NULL THEN l ELSE f[<<"left", link[l]>>]]
           down == CHOOSE f : f = body(f)
<1>1. ASSUME NEW x \in Links
      PROVE  /\ x \in stop <=> link[x] = NULL
             /\ step[x] = <<"left", link[x]>>
             /\ x \notin stop => step[x] \in Links
  <2>1. (x \in stop <=> link[x] = NULL) /\ step[x] = <<"left", link[x]>>
    BY DEF DownStop, DownStep
  <2>2. link[x] \in Nodes => <<"left", link[x]>> \in Links
    BY DEF Links
  <2>3. link[x] = NULL \/ link[x] \in Nodes
    OBVIOUS
  <2> QED
    BY <2>1, <2>2, <2>3, Zenon
<1> HIDE DEF stop, step
<1>2. \E f : f = GoesOn(f, Links, step, stop)
  <2>1. \A x \in Links \ stop : step[x] \in Links
    BY <1>1
  <2> QED
    BY <2>1, LoopExists
<1>3. PICK f : f = GoesOn(f, Links, step, stop)
  BY <1>2
<1>4. f = body(f)
  <2> DEFINE g(x) == IF x \in stop THEN x ELSE f[step[x]]
             h(x) == IF link[x] = NULL THEN x ELSE f[<<"left", link[x]>>]
  <2>1. \A x \in Links : g(x) = h(x)
    BY <1>1, Zenon
  <2> HIDE DEF g, h
  <2>2. [x \in Links |-> g(x)] = [x \in Links |-> h(x)]
    BY <2>1
  <2> QED
    BY <1>3, <2>2, Zenon DEF g, h, GoesOn
<1>5. down = body(down)
  BY <1>4
<1>6. Leftmost(n) = down[<<"left", n>>]
  BY DEF Leftmost
<1> HIDE DEF down
<1>7. IsLoop(down, step, stop)
  <2> SUFFICES ASSUME NEW x \in Links PROVE down[x] = IF x \in stop THEN x ELSE down[step[x]]
    BY DEF IsLoop
  <2>1. down[x] = IF link[x] = NULL THEN x ELSE down[<<"left", link[x]>>]
    BY <1>5
  <2> QED
    BY <1>1, <2>1, Zenon
<1> QED
  BY <1>6, <1>7 DEF stop, step

(* What the search gives in a state whose pointers form a tree.            *)
Found(a) ==
  LET l == buffer_cache_search_(a) IN
  /\ l \in Pointers(InTree) /\ l \in Links
  /\ link[l] # NULL => link[l] \in InTree /\ value[link[l]].mem = a
  /\ \A m \in InTree : value[m].mem = a => link[l] = m

LEMMA SearchFound == Tree => \A a \in Addresses : Found(a)
<1> SUFFICES ASSUME Tree, NEW a \in Addresses PROVE Found(a)
  OBVIOUS
<1>1. PICK D : IsTree(link, Keys, InTree, D)
  BY DEF Tree
<1>2. link \in [Links -> Nodes \cup {NULL}] /\ InTree \subseteq Nodes /\ Pointers(InTree) \subseteq Links
  BY <1>1, PointersOf DEF IsTree
<1>3. PICK f : /\ IsLoop(f, SearchStep(link, Keys, a), SearchStop(link, Keys, a))
               /\ buffer_cache_search_(a) = f[Root]
  BY <1>2, SearchIsLoop
<1>4. PICK l : l = f[Root]
  OBVIOUS
<1>5. /\ l \in Pointers(InTree) /\ l \in SearchStop(link, Keys, a)
      /\ \A m \in InTree : Keys[m] = a => link[l] = m
  BY <1>1, <1>3, <1>4, SearchFinds, AddressesType
<1>6. link[l] # NULL => link[l] \in InTree /\ Keys[link[l]] = a
  BY <1>1, <1>5 DEF IsTree, SearchStop
<1>7. \A m \in InTree : Keys[m] = value[m].mem
  BY <1>2 DEF Keys
<1>8. /\ l \in Pointers(InTree) /\ l \in Links
      /\ link[l] # NULL => link[l] \in InTree /\ value[link[l]].mem = a
      /\ \A m \in InTree : value[m].mem = a => link[l] = m
  BY <1>2, <1>5, <1>6, <1>7
<1> QED
  BY <1>3, <1>4, <1>8 DEF Found
-----------------------------------------------------------------------------
(* The nodes the destruction has still to come to.                         *)
Unvisited ==
  {n \in Nodes : \E b \in DOMAIN blocks : \E i \in DOMAIN blocks[b] : blocks[b][i] = n /\ ToVisit(b, i)}

(* The arena gives a node out once.                                        *)
ArenaOnce ==
  \A b, c \in DOMAIN blocks : \A i \in DOMAIN blocks[b], j \in DOMAIN blocks[c] :
    blocks[b][i] = blocks[c][j] => b = c /\ i = j

(* The nodes, their entries and what UCX has mapped.                       *)
Shape ==
  /\ Tree /\ ArenaOnce /\ gone \subseteq Given
  /\ \A n \in Given : value[n].mem \in Addresses /\ value[n].memh \in Handles
  /\ \A n, m \in InTree : value[n].memh = value[m].memh => n = m
  /\ phase = "open" => \A n \in InTree : value[n].memh \in mapped

(* Each node the destruction has still to come to, and each it found       *)
(* unmapped, stands for a mapping or for a node that unregister left.      *)
Tally ==
  /\ mapped \subseteq Handles /\ IsFiniteSet(mapped) /\ twice \subseteq Given /\ answer \in Entries
  /\ twice \cap Unvisited = {} /\ (phase \in {"open", "assert"} => twice = {})
  /\ gone = {} => /\ twice = {}
                  /\ phase \in {"destroying", "destroyed"} => \A n \in Unvisited : value[n].memh \in mapped
  /\ Cardinality(twice) + Cardinality(Unvisited) = Cardinality(gone) + Cardinality(mapped)

LEMMA InitShape == Init => Shape
<1> SUFFICES ASSUME Init PROVE Shape
  OBVIOUS
<1>1. Given = {} /\ InTree = {} /\ \A b \in DOMAIN blocks : DOMAIN blocks[b] = {}
  <2>1. DOMAIN blocks = {1} /\ blocks[1] = <<>>
    BY DEF Init
  <2> QED
    BY <2>1 DEF Given, InTree, ToSet
<1>2. IsTree(link, Keys, {}, [x \in Links |-> {}])
  BY DEF Init, IsTree, Pointers, Links
<1>3. Tree
  BY <1>1, <1>2 DEF Tree
<1> QED
  BY <1>1, <1>3 DEF Init, Shape, ArenaOnce

LEMMA InitTally == Init => Tally
<1> SUFFICES ASSUME Init PROVE Tally
  OBVIOUS
<1>1. DOMAIN blocks = {1} /\ blocks[1] = <<>> /\ Unvisited = {}
  BY DEF Init, Unvisited
<1>2. Cardinality({}) = 0 /\ IsFiniteSet({})
  BY FS_EmptySet
<1>3. Cardinality(twice) + Cardinality(Unvisited) = Cardinality(gone) + Cardinality(mapped)
  <2>1. twice = {} /\ Unvisited = {} /\ gone = {} /\ mapped = {}
    BY <1>1 DEF Init
  <2> QED
    BY <2>1
<1>4. NoEntry \in Entries
  BY DEF NoEntry, Entries
<1> QED
  BY <1>1, <1>2, <1>3, <1>4 DEF Init, Tally

(* What leaves the nodes and their entries alone.                          *)
LEMMA SameNodes ==
  Shape /\ UNCHANGED <<link, value, blocks, gone>> /\ (phase' = "open" => phase = "open" /\ mapped' = mapped)
    => Shape' /\ Given' = Given
<1> SUFFICES ASSUME Shape, UNCHANGED <<link, value, blocks, gone>>,
                    phase' = "open" => phase = "open" /\ mapped' = mapped
             PROVE  Shape' /\ Given' = Given
  OBVIOUS
<1>1. Given' = Given /\ InTree' = InTree
  BY DEF Given, InTree
<1>2. Tree'
  BY <1>1 DEF Shape, Tree, Keys
<1> QED
  BY <1>1, <1>2 DEF Shape, ArenaOnce

(* What leaves UCX and the destruction's findings alone.                   *)
LEMMA SameTally ==
  ASSUME Tally, Shape, Unvisited' = Unvisited, UNCHANGED <<value, blocks, mapped, gone, twice>>,
         answer' \in Entries, Unvisited \subseteq Given,
         phase' \in {"open", "assert"} => phase = "open" \/ phase' = phase,
         phase' \in {"destroying", "destroyed"} => phase \in {"open", "destroying", "destroyed"}
  PROVE  Tally'
<1>1. Given' = Given
  BY DEF Given
<1>2. gone = {} /\ phase' \in {"destroying", "destroyed"} => \A n \in Unvisited : value[n].memh \in mapped
  BY DEF Tally, Shape, InTree
<1> QED
  BY <1>1, <1>2 DEF Tally, Entries

LEMMA UnvisitedGiven ==
  IInv => /\ Unvisited \subseteq Given /\ Given \subseteq Nodes
          /\ phase \in {"open", "assert"} => Unvisited = Given
<1> SUFFICES ASSUME IInv
             PROVE  /\ Unvisited \subseteq Given /\ Given \subseteq Nodes
                    /\ phase \in {"open", "assert"} => Unvisited = Given
  OBVIOUS
<1>1. Given \subseteq Nodes
  BY GivenNodes DEF IInv
<1>2. Given = {n \in Nodes : \E b \in DOMAIN blocks : \E i \in DOMAIN blocks[b] : blocks[b][i] = n}
  BY <1>1 DEF Given, ToSet
<1> QED
  BY <1>1, <1>2 DEF Unvisited, ToVisit

(* The steps that visit no node.                                           *)
LEMMA QuietStep ==
  ASSUME IInv, Shape, Tally,
         \/ \E a \in Addresses : MapFails(a) \/ GetRegistered(a)
         \/ RegisterNull \/ Destroy \/ FreeBlock \/ DestroyEnds \/ Ended \/ UNCHANGED vars
  PROVE  Shape' /\ Tally'
<1>1. UNCHANGED <<link, value, blocks, mapped, gone, twice>>
  BY DEF MapFails, GetRegistered, RegisterNull, Destroy, FreeBlock, DestroyEnds, Ended, vars
<1>2. /\ phase' \in {"open", "assert"} => phase = "open" \/ phase' = phase
      /\ phase' \in {"destroying", "destroyed"} => phase \in {"open", "destroying", "destroyed"}
      /\ phase' = "open" => phase = "open"
  BY DEF MapFails, GetRegistered, RegisterNull, Destroy, FreeBlock, DestroyEnds, Ended, vars
<1>3. Unvisited \subseteq Given /\ Given \subseteq Nodes
  BY UnvisitedGiven
<1>4. answer' \in Entries
  <2>1. NoEntry \in Entries
    BY DEF NoEntry, Entries
  <2>2. ASSUME NEW a \in Addresses, GetRegistered(a)  PROVE answer' \in Entries
    <3>1. Found(a)
      BY SearchFound DEF Shape
    <3>2. answer' = value[link[buffer_cache_search_(a)]] /\ link[buffer_cache_search_(a)] # NULL
      BY <2>2 DEF GetRegistered
    <3>3. link[buffer_cache_search_(a)] \in Nodes
      BY <1>3, <3>1, <3>2 DEF Found, InTree
    <3> QED
      BY <3>2, <3>3 DEF IInv, ArenaType
  <2>3. (\E a \in Addresses : GetRegistered(a)) \/ answer' = NoEntry \/ answer' = answer
    BY DEF MapFails, RegisterNull, Destroy, FreeBlock, DestroyEnds, Ended, vars
  <2> QED
    BY <2>1, <2>2, <2>3 DEF Tally
<1>5. \A b \in DOMAIN blocks : \A i \in DOMAIN blocks[b] : ToVisit(b, i)' <=> ToVisit(b, i)
  <2> SUFFICES ASSUME NEW b \in DOMAIN blocks, NEW i \in DOMAIN blocks[b]
               PROVE  ToVisit(b, i)' <=> ToVisit(b, i)
    OBVIOUS
  <2>1. b \in Nat \ {0} /\ i \in Nat \ {0} /\ blocks[b] \in Seq(Nodes) /\ i <= Len(blocks[b])
        /\ at.block \in Nat /\ at.i \in Nat
    BY DEF IInv, ArenaType
  <2>2. CASE FreeBlock
    <3>1. /\ phase = "destroying" /\ phase' = phase /\ at.i > Len(blocks[at.block])
          /\ at' = [block |-> at.block + 1, i |-> 1]
      BY <2>2 DEF FreeBlock
    <3>2. Len(blocks[b]) \in Nat
      BY <2>1
    <3> QED
      BY <2>1, <3>1, <3>2 DEF ToVisit
  <2>3. CASE Destroy
    <3>1. phase = "open" /\ at' = [block |-> 1, i |-> 1]
      BY <2>3 DEF Destroy, First
    <3> QED
      BY <2>1, <3>1 DEF ToVisit
  <2>4. CASE ~FreeBlock /\ ~Destroy
    <3>1. at' = at /\ (phase' = phase \/ (phase = "open" /\ phase' = "assert")
                                       \/ (phase = "destroying" /\ phase' = "destroyed"))
      BY <2>4 DEF MapFails, GetRegistered, RegisterNull, DestroyEnds, Ended, vars
    <3> QED
      BY <3>1 DEF ToVisit
  <2> QED
    BY <2>2, <2>3, <2>4
<1>6. Unvisited' = Unvisited
  BY <1>1, <1>5 DEF Unvisited
<1>7. Tally'
  BY <1>1, <1>2, <1>3, <1>4, <1>6, SameTally
<1>8. Shape'
  BY <1>1, <1>2, SameNodes
<1> QED
  BY <1>7, <1>8

(* The destruction of a node.                                              *)
LEMMA DestroyNodeStep == ASSUME IInv, Shape, Tally, DestroyNode  PROVE Shape' /\ Tally'
<1>1. /\ at.block \in DOMAIN blocks /\ blocks[at.block] \in Seq(Nodes)
      /\ at.i \in DOMAIN blocks[at.block]
      /\ at.block \in Nat /\ at.i \in Nat
  BY DEF DestroyNode, IInv, ArenaType
<1>2. PICK n \in Nodes : n = blocks[at.block][at.i]
  BY <1>1
<1>3. /\ phase = "destroying" /\ UNCHANGED <<link, value, blocks, phase, gone, answer>>
      /\ mapped' = mapped \ {value[n].memh}
      /\ twice' = IF value[n].memh \in mapped THEN twice ELSE twice \cup {n}
      /\ at' = [block |-> at.block, i |-> at.i + 1]
  BY <1>2 DEF DestroyNode, IInv, ArenaType
<1>4. Shape' /\ Given' = Given
  BY <1>3, SameNodes
<1>5. Unvisited \subseteq Given /\ Given \subseteq Nodes
  BY UnvisitedGiven
<1>6. n \in Unvisited /\ Unvisited' = Unvisited \ {n}
  <2>1. ToVisit(at.block, at.i)
    BY <1>1 DEF ToVisit
  <2>2. ASSUME NEW b \in DOMAIN blocks, NEW i \in DOMAIN blocks[b]
        PROVE  ToVisit(b, i)' <=> ToVisit(b, i) /\ ~(b = at.block /\ i = at.i)
    <3>1. b \in Nat /\ i \in Nat
      BY DEF IInv, ArenaType
    <3> QED
      BY <1>1, <1>3, <3>1 DEF ToVisit
  <2>3. \A b \in DOMAIN blocks : \A i \in DOMAIN blocks[b] :
          blocks[b][i] = n <=> b = at.block /\ i = at.i
    BY <1>1, <1>2 DEF Shape, ArenaOnce
  <2>4. n \in Unvisited
    BY <1>1, <1>2, <2>1 DEF Unvisited
  <2>5. Unvisited' = {m \in Nodes : \E b \in DOMAIN blocks : \E i \in DOMAIN blocks[b] :
                                      blocks[b][i] = m /\ ToVisit(b, i)'}
    BY <1>3 DEF Unvisited
  <2> QED
    BY <2>2, <2>3, <2>4, <2>5 DEF Unvisited
<1>7. /\ IsFiniteSet(Nodes) /\ IsFiniteSet(Unvisited) /\ IsFiniteSet(twice) /\ IsFiniteSet(mapped)
      /\ IsFiniteSet(gone)
  <2>1. IsFiniteSet(Nodes)
    BY MaxNodesType, FS_Interval DEF Nodes
  <2>2. Unvisited \subseteq Nodes /\ twice \subseteq Nodes /\ gone \subseteq Nodes
    BY <1>5 DEF Tally, Shape
  <2> QED
    BY <2>1, <2>2, FS_Subset DEF Tally
<1>8. /\ Cardinality(Unvisited) \in Nat /\ Cardinality(Unvisited') = Cardinality(Unvisited) - 1
      /\ Cardinality(twice) \in Nat /\ Cardinality(mapped) \in Nat /\ Cardinality(gone) \in Nat
  BY <1>6, <1>7, FS_CardinalityType, FS_RemoveElement
<1>9. n \notin twice
  BY <1>6 DEF Tally
<1>10. gone = {} => /\ value[n].memh \in mapped
                    /\ \A m \in Unvisited' : value[m].memh \in mapped'
  <2> SUFFICES ASSUME gone = {}
               PROVE  /\ value[n].memh \in mapped
                      /\ \A m \in Unvisited' : value[m].memh \in mapped'
    OBVIOUS
  <2>1. \A m \in Unvisited : value[m].memh \in mapped
    BY <1>3 DEF Tally
  <2>2. \A m \in Unvisited : m \in InTree
    BY <1>5 DEF InTree
  <2>3. \A m \in Unvisited : m # n => value[m].memh # value[n].memh
    BY <1>6, <2>2 DEF Shape
  <2> QED
    BY <1>3, <1>6, <2>1, <2>3
<1>11. Cardinality(twice') + Cardinality(Unvisited') = Cardinality(gone) + Cardinality(mapped')
  <2>1. CASE value[n].memh \in mapped
    <3>1. twice' = twice /\ Cardinality(mapped') = Cardinality(mapped) - 1
      BY <1>3, <1>7, <2>1, FS_RemoveElement
    <3> QED
      BY <1>8, <3>1 DEF Tally
  <2>2. CASE value[n].memh \notin mapped
    <3>1. mapped' = mapped /\ Cardinality(twice') = Cardinality(twice) + 1
      BY <1>3, <1>7, <1>9, <2>2, FS_AddElement
    <3> QED
      BY <1>8, <3>1 DEF Tally
  <2> QED
    BY <2>1, <2>2
<1>12. IsFiniteSet(mapped') /\ mapped' \subseteq Handles
  BY <1>3, <1>7, FS_Subset DEF Tally
<1>13. twice' \subseteq Given' /\ twice' \cap Unvisited' = {}
  BY <1>3, <1>4, <1>5, <1>6 DEF Tally
<1>14. Tally'
  BY <1>3, <1>10, <1>11, <1>12, <1>13 DEF Tally, Entries
<1> QED
  BY <1>4, <1>14

(* A node given out takes one new place in the arena.                      *)
LEMMA CreateAdds ==
  ASSUME ArenaType, NEW n \in Nodes
  PROVE  \E c \in DOMAIN create_node(n) : \E k \in DOMAIN create_node(n)[c] :
           /\ create_node(n)[c][k] = n
           /\ ~(c \in DOMAIN blocks /\ k \in DOMAIN blocks[c])
           /\ \A b \in DOMAIN create_node(n) : \A i \in DOMAIN create_node(n)[b] :
                \/ b = c /\ i = k
                \/ /\ b \in DOMAIN blocks /\ i \in DOMAIN blocks[b]
                   /\ create_node(n)[b][i] = blocks[b][i]
<1> DEFINE k == Len(blocks)
           new == create_node(n)
<1>1. k \in Nat \ {0} /\ Last(blocks) = blocks[k] /\ blocks[k] \in Seq(Nodes)
      /\ DOMAIN blocks = 1 .. k
  BY DEF ArenaType, Last
<1> HIDE DEF k
<1>2. CASE Len(blocks[k]) >= BlockSize
  <2>1. new = Append(blocks, <<n>>)
    BY <1>1, <1>2 DEF create_node
  <2>2. /\ DOMAIN new = 1 .. k + 1 /\ \A b \in 1 .. k : new[b] = blocks[b]
        /\ new[k + 1] = <<n>>
    BY <1>1, <2>1 DEF ArenaType
  <2> HIDE DEF new
  <2>3. k + 1 \in DOMAIN new /\ k + 1 \notin DOMAIN blocks /\ DOMAIN new[k + 1] = {1} /\ new[k + 1][1] = n
        /\ \A b \in DOMAIN new : b = k + 1 \/ (b \in DOMAIN blocks /\ new[b] = blocks[b])
    BY <1>1, <2>2
  <2> QED
    BY <2>3 DEF new
<1>3. CASE ~(Len(blocks[k]) >= BlockSize)
  <2>1. new = [blocks EXCEPT ![k] = Append(blocks[k], n)]
    BY <1>1, <1>3 DEF create_node, k
  <2>2. /\ DOMAIN new = 1 .. k /\ new[k] = Append(blocks[k], n)
        /\ \A b \in 1 .. k : b # k => new[b] = blocks[b]
    BY <1>1, <2>1 DEF ArenaType
  <2> DEFINE j == Len(blocks[k]) + 1
  <2>3. /\ j \in DOMAIN Append(blocks[k], n) /\ Append(blocks[k], n)[j] = n /\ j \notin DOMAIN blocks[k]
        /\ \A i \in DOMAIN Append(blocks[k], n) :
             i = j \/ (i \in DOMAIN blocks[k] /\ Append(blocks[k], n)[i] = blocks[k][i])
    BY <1>1
  <2>4. k \in 1 .. k
    BY <1>1
  <2> HIDE DEF new, j
  <2> QED
    BY <1>1, <2>2, <2>3, <2>4 DEF new
<1> QED
  BY <1>2, <1>3

(* The registration of an address that was not in the tree.                *)
LEMMA RegisterNewStep ==
  ASSUME IInv, Shape, Tally, NEW a \in Addresses, NEW h \in Handles, RegisterNew(a, h)
  PROVE  /\ Shape' /\ Tally'
         /\ \E n : /\ InTree' = InTree \cup {n} /\ value'[n] = [mem |-> a, memh |-> h]
                   /\ \A m \in InTree : value'[m] = value[m]
         /\ answer' = [mem |-> a, memh |-> h]
<1>1. PICK n : n = NewNode
  OBVIOUS
<1>2. PICK l : l = buffer_cache_search_(a)
  OBVIOUS
<1>3. /\ phase = "open" /\ link[l] = NULL /\ Nodes # Given /\ h \notin mapped
      /\ mapped' = mapped \cup {h} /\ blocks' = create_node(n)
      /\ link' = [link EXCEPT ![l] = n, ![<<"left", n>>] = NULL, ![<<"right", n>>] = NULL]
      /\ value' = [value EXCEPT ![n] = [mem |-> a, memh |-> h]]
      /\ answer' = value'[n]
      /\ UNCHANGED <<phase, at, gone, twice>>
  BY <1>1, <1>2 DEF RegisterNew
<1>4. /\ n \in Nodes /\ n \notin Given
      /\ \A b \in DOMAIN blocks : \A i \in DOMAIN blocks[b] : blocks[b][i] # n
  <2>1. n \in Nodes /\ \A b \in DOMAIN blocks : \A i \in DOMAIN blocks[b] : blocks[b][i] # n
    BY <1>1, <1>3, NewNodeIsNew DEF IInv
  <2> QED
    BY <2>1 DEF Given, ToSet
<1>5. \A b \in DOMAIN blocks : \A i \in DOMAIN blocks[b] :
        b \in DOMAIN blocks' /\ i \in DOMAIN blocks'[b] /\ blocks'[b][i] = blocks[b][i]
  BY <1>3, <1>4, CreateKeeps DEF IInv
<1>6. /\ \E b \in DOMAIN blocks' : \E i \in DOMAIN blocks'[b] : blocks'[b][i] = n
      /\ \A b, d \in DOMAIN blocks' : \A i \in DOMAIN blocks'[b], j \in DOMAIN blocks'[d] :
           \/ b = d /\ i = j
           \/ b \in DOMAIN blocks /\ i \in DOMAIN blocks[b] /\ blocks'[b][i] = blocks[b][i]
           \/ d \in DOMAIN blocks /\ j \in DOMAIN blocks[d] /\ blocks'[d][j] = blocks[d][j]
      /\ \A b \in DOMAIN blocks' : \A i \in DOMAIN blocks'[b] :
           \/ blocks'[b][i] = n
           \/ b \in DOMAIN blocks /\ i \in DOMAIN blocks[b] /\ blocks'[b][i] = blocks[b][i]
  <2>1. PICK c \in DOMAIN blocks' : \E k \in DOMAIN blocks'[c] :
          /\ blocks'[c][k] = n
          /\ \A b \in DOMAIN blocks' : \A i \in DOMAIN blocks'[b] :
               \/ b = c /\ i = k
               \/ b \in DOMAIN blocks /\ i \in DOMAIN blocks[b] /\ blocks'[b][i] = blocks[b][i]
    BY <1>3, <1>4, CreateAdds DEF IInv
  <2>2. PICK k \in DOMAIN blocks'[c] :
          /\ blocks'[c][k] = n
          /\ \A b \in DOMAIN blocks' : \A i \in DOMAIN blocks'[b] :
               \/ b = c /\ i = k
               \/ b \in DOMAIN blocks /\ i \in DOMAIN blocks[b] /\ blocks'[b][i] = blocks[b][i]
    BY <2>1
  <2> QED
    BY <2>2
<1>7. Given' = Given \cup {n}
  BY <1>5, <1>6 DEF Given, ToSet
<1>8. gone \subseteq Given /\ InTree' = InTree \cup {n} /\ n \notin InTree
  BY <1>3, <1>4, <1>7 DEF Shape, InTree
<1>9. ArenaOnce'
  <2> SUFFICES ASSUME NEW b \in DOMAIN blocks', NEW d \in DOMAIN blocks',
                      NEW i \in DOMAIN blocks'[b], NEW j \in DOMAIN blocks'[d],
                      blocks'[b][i] = blocks'[d][j]
               PROVE  b = d /\ i = j
    BY DEF ArenaOnce
  <2> QED
    BY <1>4, <1>6 DEF Shape, ArenaOnce
<1>10. /\ value'[n] = [mem |-> a, memh |-> h]
       /\ \A m \in Nodes : m # n => value'[m] = value[m]
  BY <1>3, <1>4 DEF IInv, ArenaType
<1>11. Given \subseteq Nodes /\ Unvisited = Given
  BY <1>3, UnvisitedGiven
<1>12. \A m \in Given' : value'[m].mem \in Addresses /\ value'[m].memh \in Handles
  BY <1>4, <1>7, <1>10, <1>11 DEF Shape
<1>13. \A m \in InTree : value'[m] = value[m] /\ value[m].memh \in mapped /\ value[m].memh # h
  BY <1>3, <1>8, <1>10, <1>11 DEF Shape, InTree
<1>14. /\ \A m \in InTree' : value'[m].memh \in mapped'
       /\ \A m, o \in InTree' : value'[m].memh = value'[o].memh => m = o
  <2>1. \A m \in InTree' : m = n \/ m \in InTree
    BY <1>8
  <2> QED
    BY <1>3, <1>10, <1>13, <2>1 DEF Shape
<1>15. Tree'
  <2>1. PICK D : IsTree(link, Keys, InTree, D)
    BY DEF Shape, Tree
  <2>2. /\ link \in [Links -> Nodes \cup {NULL}] /\ InTree \subseteq Nodes
        /\ Pointers(InTree) \subseteq Links
    BY <2>1, PointersOf DEF IsTree
  <2>3. PICK f : /\ IsLoop(f, SearchStep(link, Keys, a), SearchStop(link, Keys, a))
                 /\ l = f[Root]
    BY <1>2, <2>2, SearchIsLoop
  <2>4. l \in Pointers(InTree) /\ l \in Links
    BY <1>2, SearchFound DEF Shape, Found
  <2>5. PICK NL, NR : NL = <<"left", n>> /\ NR = <<"right", n>>
    OBVIOUS
  <2>6. NL \in Links /\ NR \in Links /\ NL # NR /\ NL \notin Pointers(InTree) /\ NR \notin Pointers(InTree)
    <3>1. NL \in Links /\ NR \in Links /\ NL # NR
      BY <1>4, <2>5 DEF Links
    <3> QED
      BY <1>8, <2>2, <2>5, <3>1, PointersOf
  <2>7. link' = [link EXCEPT ![l] = n, ![NL] = NULL, ![NR] = NULL]
    BY <1>3, <2>5, Zenon
  <2>8. /\ link' \in [Links -> Nodes \cup {NULL}] /\ link'[l] = n
        /\ link'[NL] = NULL /\ link'[NR] = NULL
        /\ \A x \in Pointers(InTree) : x # l => link'[x] = link[x]
    BY <1>4, <2>2, <2>4, <2>6, <2>7
  <2>9. /\ Keys'[n] = a
        /\ \A m \in InTree : Keys'[m] = Keys[m]
    BY <1>4, <1>10, <1>13, <2>2 DEF Keys
  <2>10. PICK l2, k2 : l2 = link' /\ k2 = Keys'
    OBVIOUS
  <2>11. l2[<<"left", n>>] = NULL /\ l2[<<"right", n>>] = NULL
    BY <2>5, <2>8, <2>10, Zenon
  <2>12. /\ l2 \in [Links -> Nodes \cup {NULL}] /\ l2[l] = n /\ k2[n] = a
         /\ \A x \in Pointers(InTree) : x # l => l2[x] = link[x]
         /\ \A m \in InTree : k2[m] = Keys[m]
    BY <2>8, <2>9, <2>10
  <2>13. a \in Nat /\ n \in Nodes \ InTree
    BY <1>4, <1>8, AddressesType
  <2>14. \E E : IsTree(l2, k2, InTree \cup {n}, E)
    BY <1>3, <2>1, <2>3, <2>11, <2>12, <2>13, TreeInsert
  <2> QED
    BY <1>8, <2>10, <2>14 DEF Tree
<1>16. Shape'
  BY <1>3, <1>7, <1>8, <1>9, <1>12, <1>14, <1>15 DEF Shape
<1>17. Unvisited' = Given'
  <2>1. Given' \subseteq Nodes
    BY <1>4, <1>7, <1>11
  <2>2. Unvisited' = {m \in Nodes : \E b \in DOMAIN blocks' : \E i \in DOMAIN blocks'[b] : blocks'[b][i] = m}
    BY <1>3 DEF Unvisited, ToVisit
  <2>3. Given' = {m \in Nodes : \E b \in DOMAIN blocks' : \E i \in DOMAIN blocks'[b] : blocks'[b][i] = m}
    BY <2>1 DEF Given, ToSet
  <2> QED
    BY <2>2, <2>3
<1>18. IsFiniteSet(Given) /\ IsFiniteSet(mapped) /\ twice = {} /\ twice' = {} /\ gone' = gone
       /\ IsFiniteSet(gone) /\ Cardinality({}) = 0
  <2>1. IsFiniteSet(Nodes)
    BY MaxNodesType, FS_Interval DEF Nodes
  <2>2. twice = {} /\ IsFiniteSet(mapped)
    BY <1>3 DEF Tally
  <2> QED
    BY <1>3, <1>8, <1>11, <2>1, <2>2, FS_Subset, FS_EmptySet
<1>19. Cardinality(twice') + Cardinality(Unvisited') = Cardinality(gone') + Cardinality(mapped')
  <2>1. Cardinality(twice) + Cardinality(Unvisited) = Cardinality(gone) + Cardinality(mapped)
    BY DEF Tally
  <2>2. /\ Cardinality(Unvisited') = Cardinality(Unvisited) + 1
        /\ Cardinality(mapped') = Cardinality(mapped) + 1
    BY <1>3, <1>4, <1>7, <1>11, <1>17, <1>18, FS_AddElement
  <2>3. /\ Cardinality(twice) \in Nat /\ Cardinality(Unvisited) \in Nat /\ Cardinality(gone) \in Nat
        /\ Cardinality(mapped) \in Nat
    BY <1>11, <1>18, FS_CardinalityType
  <2>4. twice' = twice /\ gone' = gone
    BY <1>3
  <2> QED
    BY <2>1, <2>2, <2>3, <2>4
<1>20. IsFiniteSet(mapped') /\ mapped' \subseteq Handles
  BY <1>3, <1>18, FS_AddElement DEF Tally
<1>21. answer' \in Entries'
  BY <1>3, <1>10 DEF Entries
<1>22. Tally'
  BY <1>3, <1>18, <1>19, <1>20, <1>21 DEF Tally
<1> QED
  BY <1>3, <1>8, <1>10, <1>13, <1>16, <1>22

(* Unregistering an address takes its node out of the tree, and no other.  *)
LEMMA UnregisterStep ==
  ASSUME IInv, Shape, Tally, NEW a \in Addresses, clh_buffer_cache_unregister(a)
  PROVE  /\ Shape' /\ Tally'
         /\ InTree' = InTree \ {link[buffer_cache_search_(a)]}
<1>1. PICK l : l = buffer_cache_search_(a)
  OBVIOUS
<1>2. PICK n : n = link[l]
  OBVIOUS
<1>3. /\ phase = "open" /\ n # NULL /\ mapped' = mapped \ {value[n].memh}
      /\ link' = remove_node_(l) /\ gone' = gone \cup {n}
      /\ UNCHANGED <<value, blocks, phase, at, twice, answer>>
  BY <1>1, <1>2 DEF clh_buffer_cache_unregister
<1>4. /\ l \in Pointers(InTree) /\ l \in Links /\ n \in InTree
  <2>1. Found(a)
    BY SearchFound DEF Shape
  <2> QED
    BY <1>1, <1>2, <1>3, <2>1 DEF Found
<1>5. Given' = Given /\ InTree' = InTree \ {n} /\ gone' \subseteq Given' /\ n \notin gone
  BY <1>3, <1>4 DEF Given, InTree, Shape
<1>6. \A m \in InTree' : value[m].memh \in mapped'
  BY <1>3, <1>4, <1>5 DEF Shape
<1>7. Tree'
  <2>1. PICK D : IsTree(link, Keys, InTree, D)
    BY DEF Shape, Tree
  <2>2. /\ link \in [Links -> Nodes \cup {NULL}] /\ InTree \subseteq Nodes
        /\ Pointers(InTree) \subseteq Links
    BY <2>1, PointersOf DEF IsTree
  <2>3. PICK NL, NR : NL = <<"left", n>> /\ NR = <<"right", n>>
    OBVIOUS
  <2>4. NL \in Links /\ NR \in Links
    BY <1>4, <2>2, <2>3 DEF Links
  <2>5. Keys' = Keys
    BY <1>3 DEF Keys
  <2>6. link' = IF link[NR] = NULL THEN [link EXCEPT ![l] = link[NL]]
                ELSE [link EXCEPT ![l] = link[NR], ![Leftmost(link[NR])] = link[NL]]
    BY <1>2, <1>3, <2>3, Zenon DEF remove_node_
  <2>7. PICK l2 : l2 = link'
    OBVIOUS
  <2>8. CASE link[NR] = NULL
    <3>1. /\ l2 \in [Links -> Nodes \cup {NULL}] /\ l2[l] = link[NL]
          /\ \A x \in Pointers(InTree) : x # l => l2[x] = link[x]
      BY <1>4, <2>2, <2>4, <2>6, <2>7, <2>8
    <3>2. /\ link[l] # NULL /\ link[<<"right", link[l]>>] = NULL
          /\ l2[l] = link[<<"left", link[l]>>]
      BY <1>2, <1>3, <2>3, <2>8, <3>1, Zenon
    <3>3. \E E : IsTree(l2, Keys, InTree \ {n}, E)
      BY <1>2, <1>4, <2>1, <3>1, <3>2, TreeRemoveLeft
    <3> QED
      BY <1>5, <2>5, <2>7, <3>3 DEF Tree
  <2>9. CASE link[NR] # NULL
    <3>1. PICK f : /\ IsLoop(f, DownStep(link), DownStop(link))
                   /\ Leftmost(link[NR]) = f[<<"left", link[NR]>>]
      BY <2>2, LeftmostIsLoop
    <3>2. PICK r, right : r = f[<<"left", right>>] /\ right = link[NR]
      OBVIOUS
    <3>3. /\ right = link[<<"right", link[l]>>] /\ right # NULL
          /\ <<"left", right>> \in Pointers(InTree)
      <4>1. NR \in Pointers(InTree)
        BY <1>4, <2>2, <2>3, PointersOf
      <4>2. right \in InTree
        BY <2>1, <2>9, <3>2, <4>1 DEF IsTree
      <4> QED
        BY <1>2, <2>2, <2>3, <2>9, <3>2, <4>2, PointersOf
    <3>4. r \in Pointers(InTree) /\ link[r] = NULL
      BY <2>1, <3>1, <3>2, <3>3, LeftmostEmpty
    <3>5. r \in Links /\ r # l
      BY <1>2, <1>3, <2>2, <3>4
    <3>6. link' = [link EXCEPT ![l] = right, ![r] = link[NL]]
      BY <2>6, <2>9, <3>1, <3>2, Zenon
    <3>7. /\ l2 \in [Links -> Nodes \cup {NULL}] /\ l2[l] = right /\ l2[r] = link[NL]
          /\ \A x \in Pointers(InTree) : x # l /\ x # r => l2[x] = link[x]
      <4>1. right \in Nodes
        BY <2>2, <2>4, <2>9, <3>2
      <4> QED
        BY <1>4, <2>2, <2>4, <2>7, <3>5, <3>6, <4>1
    <3>8. link[NL] = link[<<"left", link[l]>>] /\ r = f[<<"left", right>>]
      BY <1>2, <2>3, <3>2, Zenon
    <3>9. /\ l2[f[<<"left", right>>]] = link[<<"left", link[l]>>]
          /\ \A x \in Pointers(InTree) : x # l /\ x # f[<<"left", right>>] => l2[x] = link[x]
      BY <3>7, <3>8, Zenon
    <3>10. \E E : IsTree(l2, Keys, InTree \ {n}, E)
      BY <1>2, <1>3, <1>4, <2>1, <3>1, <3>3, <3>7, <3>9, TreeRemoveRight
    <3> QED
      BY <1>5, <2>5, <2>7, <3>10 DEF Tree
  <2> QED
    BY <2>8, <2>9
<1>8. Shape'
  BY <1>3, <1>5, <1>6, <1>7 DEF Shape, ArenaOnce
<1>9. Given \subseteq Nodes /\ Unvisited = Given
  BY <1>3, UnvisitedGiven
<1>10. Unvisited' = Unvisited
  BY <1>3 DEF Unvisited, ToVisit
<1>11. /\ IsFiniteSet(gone) /\ IsFiniteSet(mapped) /\ twice = {} /\ twice' = {}
       /\ value[n].memh \in mapped /\ gone' # {}
  <2>1. IsFiniteSet(Nodes)
    BY MaxNodesType, FS_Interval DEF Nodes
  <2>2. gone \subseteq Nodes
    BY <1>9 DEF Shape
  <2>3. IsFiniteSet(gone)
    BY <2>1, <2>2, FS_Subset
  <2>4. value[n].memh \in mapped
    BY <1>3, <1>4 DEF Shape
  <2> QED
    BY <1>3, <2>3, <2>4 DEF Tally
<1>12. Cardinality(twice') + Cardinality(Unvisited') = Cardinality(gone') + Cardinality(mapped')
  <2>1. Cardinality(twice) + Cardinality(Unvisited) = Cardinality(gone) + Cardinality(mapped)
    BY DEF Tally
  <2>2. /\ Cardinality(gone') = Cardinality(gone) + 1
        /\ Cardinality(mapped') = Cardinality(mapped) - 1
    BY <1>3, <1>5, <1>11, FS_AddElement, FS_RemoveElement
  <2>3. Cardinality(gone) \in Nat /\ Cardinality(mapped) \in Nat
    BY <1>11, FS_CardinalityType
  <2>4. twice' = twice
    BY <1>3
  <2> QED
    BY <1>10, <2>1, <2>2, <2>3, <2>4
<1>13. IsFiniteSet(mapped') /\ mapped' \subseteq Handles
  BY <1>3, <1>11, FS_Subset DEF Tally
<1>14. Tally'
  BY <1>3, <1>10, <1>11, <1>12, <1>13 DEF Tally, Entries
<1> QED
  BY <1>1, <1>2, <1>5, <1>8, <1>14
-----------------------------------------------------------------------------
CInv == IInv /\ Shape /\ Tally

LEMMA CacheStep == CInv /\ [Next]_vars => CInv'
<1> SUFFICES ASSUME CInv, [Next]_vars PROVE CInv'
  OBVIOUS
<1> USE DEF CInv
<1>1. IInv'
  BY StepInvariant
<1>2. CASE \E a \in Addresses : \E h \in Handles : RegisterNew(a, h)
  BY <1>1, <1>2, RegisterNewStep
<1>3. CASE \E a \in Addresses : clh_buffer_cache_unregister(a)
  BY <1>1, <1>3, UnregisterStep
<1>4. CASE DestroyNode
  BY <1>1, <1>4, DestroyNodeStep
<1>5. CASE \/ \E a \in Addresses : MapFails(a) \/ GetRegistered(a)
           \/ RegisterNull \/ Destroy \/ FreeBlock \/ DestroyEnds \/ Ended \/ UNCHANGED vars
  BY <1>1, <1>5, QuietStep
<1> QED
  BY <1>2, <1>3, <1>4, <1>5 DEF Next

(* The cache's invariant: the arena gives a node out once, the pointers of *)
(* the nodes not unregistered form one binary search tree whose nodes have *)
(* handles of their own, and the mappings are those the arena accounts for.*)
THEOREM CacheInvariance == Spec => []CInv
<1>1. Init => CInv
  BY InitInvariant, InitShape, InitTally DEF CInv
<1> QED
  BY <1>1, CacheStep, PTL DEF Spec

(* The variables keep their types.                                         *)
THEOREM CacheTyped == Spec => []TypeOK
<1>1. CInv => TypeOK
  <2> SUFFICES ASSUME CInv PROVE TypeOK
    OBVIOUS
  <2>1. link \in [Links -> Nodes \cup {NULL}]
    BY DEF CInv, Shape, Tree, IsTree
  <2>2. gone \subseteq Nodes /\ twice \subseteq Nodes
    BY GivenNodes DEF CInv, IInv, Shape, Tally
  <2> QED
    BY <2>1, <2>2 DEF CInv, IInv, ArenaType, BlocksFit, Tally, Entries, TypeOK
<1> QED
  BY <1>1, CacheInvariance, PTL

(* Each node that was registered and not unregistered has one pointer to   *)
(* it and is what the search finds for its address, whatever order of      *)
(* registering and unregistering moved it there.                           *)
THEOREM CacheOneTree == Spec => []OneTree
<1>1. CInv => OneTree
  <2> SUFFICES ASSUME CInv PROVE OneTree
    OBVIOUS
  <2>1. PICK D : IsTree(link, Keys, InTree, D)
    BY DEF CInv, Shape, Tree
  <2>2. TreeLinks = Pointers(InTree)
    BY DEF TreeLinks, Pointers
  <2>3. ASSUME NEW n \in InTree  PROVE Cardinality({l \in TreeLinks : link[l] = n}) = 1
    <3>1. PICK x \in TreeLinks : link[x] = n
      BY <2>1, <2>2 DEF IsTree
    <3>2. n # NULL
      BY <2>1, NullIsNoNode DEF IsTree
    <3>3. {l \in TreeLinks : link[l] = n} = {x}
      BY <2>1, <2>2, <3>1, <3>2 DEF IsTree
    <3> QED
      BY <3>3, FS_Singleton
  <2>4. \A l \in TreeLinks : link[l] \in InTree \cup {NULL}
    BY <2>1, <2>2 DEF IsTree
  <2>5. ASSUME NEW n \in InTree  PROVE link[buffer_cache_search_(value[n].mem)] = n
    <3>1. n \in Given
      BY DEF InTree
    <3>2. PICK a \in Addresses : a = value[n].mem
      BY <3>1 DEF CInv, Shape
    <3>3. link[buffer_cache_search_(a)] = n
      BY <3>2, SearchFound DEF CInv, Shape, Found
    <3> QED
      BY <3>2, <3>3
  <2> QED
    BY <2>3, <2>4, <2>5 DEF OneTree
<1> QED
  BY <1>1, CacheInvariance, PTL

(* The destruction finds a handle unmapped once for each node unregister   *)
(* left in the arena, and never when nothing was unregistered.             *)
THEOREM CacheOnlyRemovedUnmappedTwice == Spec => []OnlyRemovedUnmappedTwice
<1>1. CInv => OnlyRemovedUnmappedTwice
  <2> SUFFICES ASSUME CInv PROVE OnlyRemovedUnmappedTwice
    OBVIOUS
  <2>1. gone = {} => twice = {}
    BY DEF CInv, Tally
  <2>2. ASSUME phase = "destroyed"  PROVE Cardinality(twice) = Cardinality(gone)
    <3>1. \A b \in DOMAIN blocks : ~(b > at.block \/ b = at.block) /\ DOMAIN blocks = 1 .. Len(blocks)
      BY <2>2 DEF CInv, IInv, ArenaType
    <3>2. Unvisited = {}
      BY <2>2, <3>1 DEF Unvisited, ToVisit
    <3>3. mapped = {}
      BY <2>2, <3>1 DEF CInv, IInv, MappedInArena, ToVisit
    <3>4. IsFiniteSet(Nodes)
      BY MaxNodesType, FS_Interval DEF Nodes
    <3>5. twice \subseteq Nodes /\ gone \subseteq Nodes
      BY GivenNodes DEF CInv, IInv, Shape, Tally
    <3>6. Cardinality(twice) \in Nat /\ Cardinality(gone) \in Nat
      BY <3>4, <3>5, FS_Subset, FS_CardinalityType
    <3>7. Cardinality(twice) + Cardinality(Unvisited) = Cardinality(gone) + Cardinality(mapped)
      BY DEF CInv, Tally
    <3>8. Cardinality(Unvisited) = 0 /\ Cardinality(mapped) = 0
      BY <3>2, <3>3, FS_EmptySet
    <3> QED
      BY <3>6, <3>7, <3>8
  <2> QED
    BY <2>1, <2>2 DEF OnlyRemovedUnmappedTwice
<1> QED
  BY <1>1, CacheInvariance, PTL
-----------------------------------------------------------------------------
(* The cache keeps a map from addresses to registrations: what the map has *)
(* is what the nodes of the tree say.                                      *)
Says ==
  /\ \A n \in InTree : handle[value[n].mem] = value[n].memh
  /\ \A a \in Addresses : (\A n \in InTree : value[n].mem # a) => handle[a] = NULL

LEMMA HandleSays == Shape /\ IInv => Says
<1> SUFFICES ASSUME Shape, IInv PROVE Says
  OBVIOUS
<1>1. Given \subseteq Nodes /\ InTree \subseteq Given
  BY GivenNodes DEF IInv, InTree
<1>2. ASSUME NEW n \in InTree  PROVE handle[value[n].mem] = value[n].memh
  <2>1. PICK a \in Addresses : a = value[n].mem
    BY <1>1 DEF Shape
  <2>2. link[buffer_cache_search_(a)] = n
    BY <2>1, SearchFound DEF Shape, Found
  <2>3. n # NULL
    BY <1>1, NullIsNoNode
  <2> QED
    BY <2>1, <2>2, <2>3 DEF handle
<1>3. ASSUME NEW a \in Addresses, \A n \in InTree : value[n].mem # a  PROVE handle[a] = NULL
  <2>1. link[buffer_cache_search_(a)] = NULL
    BY <1>3, SearchFound DEF Shape, Found
  <2> QED
    BY <2>1 DEF handle
<1> QED
  BY <1>2, <1>3 DEF Says

LEMMA HandleIsMap == handle = [a \in Addresses |-> handle[a]]
BY DEF handle

LEMMA StepMaps == CInv /\ CInv' /\ [Next]_vars => [Map!Next]_(Map!vars)
<1> SUFFICES ASSUME CInv, CInv', [Next]_vars PROVE Map!Next \/ UNCHANGED <<handle, answer>>
  BY DEF Map!vars
<1>1. Says /\ Says'
  <2>1. Says
    BY HandleSays DEF CInv
  <2>2. Shape' /\ IInv' => Says'
    BY HandleSays, PTL
  <2> QED
    BY <2>1, <2>2 DEF CInv
<1>2. PICK g, k : g = handle /\ k = handle'
  OBVIOUS
<1>3. g = [a \in Addresses |-> g[a]] /\ k = [a \in Addresses |-> k[a]]
  BY <1>2 DEF handle
<1>4. /\ Given \subseteq Nodes /\ InTree \subseteq Given
      /\ \A n \in InTree : value[n].mem \in Addresses /\ value[n].memh \in Handles
  BY GivenNodes DEF CInv, IInv, InTree, Shape
<1>5. ASSUME UNCHANGED <<link, value>>  PROVE handle' = handle
  BY <1>5 DEF handle, buffer_cache_search_
<1>6. ASSUME NEW a \in Addresses, NEW h \in Handles, RegisterNew(a, h)  PROVE Map!RegisterOrGet(a)
  <2>1. PICK n : /\ InTree' = InTree \cup {n} /\ value'[n] = [mem |-> a, memh |-> h]
                 /\ \A m \in InTree : value'[m] = value[m]
    BY <1>6, RegisterNewStep DEF CInv
  <2>2. answer' = [mem |-> a, memh |-> h]
    BY <1>6, RegisterNewStep DEF CInv
  <2>3. h \notin mapped /\ phase = "open" /\ link[buffer_cache_search_(a)] = NULL
    BY <1>6 DEF RegisterNew
  <2>4. \A m \in InTree : value[m].mem # a
    <3>1. \A m \in InTree : value[m].mem = a => link[buffer_cache_search_(a)] = m
      BY SearchFound DEF CInv, Shape, Found
    <3> QED
      BY <1>4, <2>3, <3>1, NullIsNoNode
  <2>5. g[a] = NULL
    BY <1>1, <1>2, <2>4 DEF Says
  <2>6. \A b \in Addresses : g[b] # h
    <3> SUFFICES ASSUME NEW b \in Addresses, g[b] = h PROVE FALSE
      OBVIOUS
    <3>1. PICK m \in InTree : value[m].mem = b
      BY <1>1, <1>2, HandlesType DEF Says
    <3>2. g[b] = value[m].memh
      BY <1>1, <1>2, <3>1 DEF Says
    <3> QED
      BY <2>3, <3>2 DEF CInv, Shape
  <2>7. \A b \in Addresses : k[b] = IF b = a THEN h ELSE g[b]
    <3> SUFFICES ASSUME NEW b \in Addresses PROVE k[b] = IF b = a THEN h ELSE g[b]
      OBVIOUS
    <3>1. CASE b = a
      BY <1>1, <1>2, <2>1, <3>1 DEF Says
    <3>2. CASE b # a /\ \E m \in InTree : value[m].mem = b
      <4>1. PICK m \in InTree : value[m].mem = b
        BY <3>2
      <4>2. m \in InTree' /\ value'[m] = value[m]
        BY <2>1
      <4>3. g[b] = value[m].memh /\ k[b] = value[m].memh
        BY <1>1, <1>2, <4>1, <4>2 DEF Says
      <4> QED
        BY <3>2, <4>3
    <3>3. CASE b # a /\ \A m \in InTree : value[m].mem # b
      <4>1. \A m \in InTree' : value'[m].mem # b
        BY <2>1, <3>3
      <4>2. g[b] = NULL /\ k[b] = NULL
        BY <1>1, <1>2, <3>3, <4>1 DEF Says
      <4> QED
        BY <3>3, <4>2
    <3> QED
      BY <3>1, <3>2, <3>3
  <2>8. k = [g EXCEPT ![a] = h]
    BY <1>3, <2>7
  <2> QED
    BY <1>2, <2>2, <2>5, <2>6, <2>8 DEF Map!RegisterOrGet
<1>7. ASSUME NEW a \in Addresses, GetRegistered(a)  PROVE Map!RegisterOrGet(a)
  <2>1. PICK n : n = link[buffer_cache_search_(a)]
    OBVIOUS
  <2>2. n \in InTree /\ value[n].mem = a /\ answer' = value[n] /\ UNCHANGED <<link, value>>
    BY <1>7, <2>1, SearchFound DEF GetRegistered, CInv, Shape, Found
  <2>3. value[n] \in Entries
    BY <1>4, <2>2 DEF CInv, IInv, ArenaType
  <2>4. PICK h \in Handles : h = value[n].memh
    BY <1>4, <2>2
  <2>5. answer' = [mem |-> a, memh |-> h]
    BY <2>2, <2>3, <2>4 DEF Entries
  <2>6. g[a] = h /\ k = g
    BY <1>1, <1>2, <1>5, <2>2, <2>4 DEF Says
  <2>7. k = [g EXCEPT ![a] = h]
    BY <1>3, <2>6
  <2> QED
    BY <1>2, <2>5, <2>6, <2>7 DEF Map!RegisterOrGet
<1>8. ASSUME NEW a \in Addresses, clh_buffer_cache_unregister(a)  PROVE Map!Unregister(a)
  <2>1. PICK n : n = link[buffer_cache_search_(a)]
    OBVIOUS
  <2>2. n # NULL /\ UNCHANGED <<value, answer>>
    BY <1>8, <2>1 DEF clh_buffer_cache_unregister
  <2>3. n \in InTree /\ value[n].mem = a /\ \A m \in InTree : value[m].mem = a => m = n
    BY <2>1, <2>2, SearchFound DEF CInv, Shape, Found
  <2>4. InTree' = InTree \ {n}
    BY <1>8, <2>1, UnregisterStep DEF CInv
  <2>5. g[a] # NULL
    BY <1>1, <1>2, <1>4, <2>3, HandlesType DEF Says
  <2>6. \A b \in Addresses : k[b] = IF b = a THEN NULL ELSE g[b]
    <3> SUFFICES ASSUME NEW b \in Addresses PROVE k[b] = IF b = a THEN NULL ELSE g[b]
      OBVIOUS
    <3>1. CASE b # a /\ \E m \in InTree : value[m].mem = b
      <4>1. PICK m \in InTree : value[m].mem = b
        BY <3>1
      <4>2. m \in InTree' /\ value'[m] = value[m]
        BY <2>2, <2>3, <2>4, <3>1, <4>1
      <4>3. g[b] = value[m].memh /\ k[b] = value[m].memh
        BY <1>1, <1>2, <4>1, <4>2 DEF Says
      <4> QED
        BY <3>1, <4>3
    <3>2. CASE b = a \/ \A m \in InTree : value[m].mem # b
      <4>1. \A m \in InTree' : value'[m].mem # b
        BY <2>2, <2>3, <2>4, <3>2
      <4>2. k[b] = NULL
        BY <1>1, <1>2, <4>1 DEF Says
      <4>3. b # a => g[b] = NULL
        BY <1>1, <1>2, <3>2 DEF Says
      <4> QED
        BY <4>2, <4>3
    <3> QED
      BY <3>1, <3>2
  <2>7. k = [g EXCEPT ![a] = NULL]
    BY <1>3, <2>6
  <2> QED
    BY <1>2, <2>2, <2>5, <2>7 DEF Map!Unregister
<1>9. ASSUME RegisterNull \/ Destroy  PROVE Map!Nothing
  <2>1. UNCHANGED <<link, value>> /\ answer' = [mem |-> NULL, memh |-> NULL]
    BY <1>9 DEF RegisterNull, Destroy, NoEntry
  <2> QED
    BY <1>5, <2>1 DEF Map!Nothing
<1>10. ASSUME \/ \E a \in Addresses : MapFails(a)
              \/ DestroyNode \/ FreeBlock \/ DestroyEnds \/ Ended \/ UNCHANGED vars
       PROVE  UNCHANGED <<handle, answer>>
  <2>1. UNCHANGED <<link, value, answer>>
    BY <1>10 DEF MapFails, DestroyNode, FreeBlock, DestroyEnds, Ended, vars
  <2> QED
    BY <1>5, <2>1
<1> QED
  BY <1>6, <1>7, <1>8, <1>9, <1>10 DEF Next, Map!Next

(* An address keeps the registration made when it was first presented, or  *)
(* first since it was unregistered, and no two addresses share one: tree,  *)
(* arena and mappings implement the map.                                   *)
THEOREM CacheImplementsRegistry == Spec => ImplementsRegistry
<1>1. Init => Map!Init
  <2> SUFFICES ASSUME Init PROVE Map!Init
    OBVIOUS
  <2>1. Says
    BY InitInvariant, InitShape, HandleSays
  <2>2. InTree = {}
    <3>1. DOMAIN blocks = {1} /\ blocks[1] = <<>>
      BY DEF Init
    <3> QED
      BY <3>1 DEF Given, InTree, ToSet
  <2>3. \A a \in Addresses : handle[a] = NULL
    BY <2>1, <2>2 DEF Says
  <2>4. handle = [a \in Addresses |-> NULL]
    BY <2>3, HandleIsMap
  <2> QED
    BY <2>4 DEF Init, NoEntry, Map!Init
<1> QED
  BY <1>1, StepMaps, CacheInvariance, PTL DEF Spec, ImplementsRegistry, Map!Spec
=============================================================================
