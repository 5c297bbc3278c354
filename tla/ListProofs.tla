----------------------------- MODULE ListProofs ------------------------------
(* Safety of List for any nodes: the pointers always form the sequences    *)
(* that Queue speaks of, so no assertion of list.c fails.                  *)
EXTENDS List, ListLemmas
-----------------------------------------------------------------------------
(* s is what links lead through, from n on.                                *)
IsPath(links, n, s) ==
  /\ s \in Seq(Nodes) /\ IsInjective(s)
  /\ n = IF s = <<>> THEN NULL ELSE s[1]
  /\ \A i \in 1 .. Len(s) : links[s[i]] = IF i = Len(s) THEN NULL ELSE s[i + 1]

LEMMA IntervalSize ==
  ASSUME NEW k \in Nat
  PROVE  Cardinality(1 .. k) = k /\ Cardinality(0 .. k - 1) = k
<1>1. 1 \in Int /\ 0 \in Int /\ k \in Int /\ k - 1 \in Int
  OBVIOUS
<1>2. Cardinality(1 .. k) = IF 1 > k THEN 0 ELSE k - 1 + 1
  BY <1>1, FS_Interval
<1>3. Cardinality(0 .. k - 1) = IF 0 > k - 1 THEN 0 ELSE k - 1 - 0 + 1
  BY <1>1, FS_Interval
<1> QED
  BY <1>2, <1>3

(* There are no more places on a path than nodes.                          *)
LEMMA PathIsShort ==
  ASSUME NEW s \in Seq(Nodes), IsInjective(s)
  PROVE  Cardinality(Nodes) \in Nat /\ Len(s) \in 0 .. Cardinality(Nodes)
<1>1. Cardinality(Nodes) \in Nat /\ Len(s) \in Nat
  BY NodesFinite, FS_CardinalityType
<1>2. s \in Injection(1 .. Len(s), Nodes)
  BY LenProperties DEF Injection
<1>3. Cardinality(1 .. Len(s)) <= Cardinality(Nodes)
  BY <1>2, NodesFinite, FS_Injection
<1>4. Cardinality(1 .. Len(s)) = Len(s)
  BY <1>1, IntervalSize
<1> QED
  BY <1>1, <1>3, <1>4

(* Following the links gives the path.                                     *)
LEMMA ChainIsPath ==
  ASSUME NEW links, NEW n, NEW s, IsPath(links, n, s)
  PROVE  Chain(links, n) = s
<1> DEFINE N == Cardinality(Nodes)
           step(f, k) == IF k = 0 THEN n ELSE IF f[k - 1] = NULL THEN NULL ELSE links[f[k - 1]]
           at == CHOOSE f : f = [k \in 0 .. N |-> step(f, k)]
           g == [k \in 0 .. N |-> IF k < Len(s) THEN s[k + 1] ELSE NULL]
           length == Cardinality({k \in 0 .. N - 1 : at[k] # NULL})
<1>1. /\ s \in Seq(Nodes) /\ N \in Nat /\ Len(s) \in 0 .. N
      /\ \A i \in 1 .. Len(s) : s[i] # NULL
  BY PathIsShort, NullIsNoNode DEF IsPath
<1>2. g = [k \in 0 .. N |-> step(g, k)]
  <2>1. ASSUME NEW k \in 0 .. N  PROVE g[k] = step(g, k)
    <3>1. CASE k = 0
      BY <1>1, <3>1 DEF IsPath
    <3>2. CASE k # 0 /\ k - 1 < Len(s)
      <4>1. g[k - 1] = s[k] /\ g[k - 1] # NULL /\ k \in 1 .. Len(s)
        BY <1>1, <3>2
      <4> QED
        BY <1>1, <3>2, <4>1 DEF IsPath
    <3>3. CASE k # 0 /\ ~(k - 1 < Len(s))
      BY <1>1, <3>3
    <3> QED
      BY <3>1, <3>2, <3>3
  <2> HIDE DEF step
  <2> QED
    BY <2>1
<1>3. at = [k \in 0 .. N |-> step(at, k)]
  <2> HIDE DEF g, step
  <2> QED
    BY <1>2
<1> HIDE DEF at, g, N
<1>4. \A k \in 0 .. N : at[k] = g[k]
  <2> DEFINE T == {k \in Nat : k <= N => at[k] = g[k]}
  <2>1. 0 \in T
    BY <1>1, <1>2, <1>3
  <2>2. ASSUME NEW k \in Nat, k \in T  PROVE k + 1 \in T
    <3>1. CASE k + 1 <= N
      <4>1. k \in 0 .. N /\ k + 1 \in 0 .. N /\ (k + 1) - 1 = k /\ k + 1 # 0
        BY <1>1, <3>1
      <4>2. at[k + 1] = step(at, k + 1) /\ g[k + 1] = step(g, k + 1) /\ at[k] = g[k]
        BY <1>2, <1>3, <2>2, <4>1
      <4> QED
        BY <4>1, <4>2
    <3> QED
      BY <3>1
  <2> HIDE DEF T
  <2>3. Nat \subseteq T
    BY <2>1, <2>2, SetInduction
  <2> QED
    BY <1>1, <2>3 DEF T
<1>5. length = Len(s)
  <2>1. {k \in 0 .. N - 1 : at[k] # NULL} = 0 .. Len(s) - 1
    BY <1>1, <1>4 DEF g
  <2>2. Cardinality(0 .. Len(s) - 1) = Len(s)
    BY <1>1, IntervalSize
  <2> QED
    BY <2>1, <2>2
<1>6. Chain(links, n) = [k \in 1 .. length |-> at[k - 1]]
  BY DEF Chain, at, N
<1>7. \A k \in 1 .. Len(s) : at[k - 1] = s[k]
  BY <1>1, <1>4 DEF g
<1>8. s = [k \in 1 .. Len(s) |-> s[k]]
  BY <1>1
<1> QED
  BY <1>5, <1>6, <1>7, <1>8

(* A path does not depend on the links of other nodes.                     *)
LEMMA PathKept ==
  ASSUME NEW l, NEW k, NEW n, NEW s, IsPath(l, n, s), \A x \in Nodes : Contains(s, x) => k[x] = l[x]
  PROVE  IsPath(k, n, s)
<1>1. \A i \in 1 .. Len(s) : s[i] \in Nodes /\ Contains(s, s[i])
  BY DEF IsPath, Contains
<1> QED
  BY <1>1 DEF IsPath

(* The path from the second node on.                                       *)
LEMMA PathTail ==
  ASSUME NEW l, NEW n, NEW s, IsPath(l, n, s), n # NULL
  PROVE  s # <<>> /\ n = Head(s) /\ n \in Nodes /\ IsPath(l, l[n], Tail(s))
<1>1. s \in Seq(Nodes) /\ s # <<>> /\ n = s[1] /\ Len(s) \in Nat \ {0} /\ Head(s) = s[1]
  BY DEF IsPath
<1>2. /\ Tail(s) \in Seq(Nodes) /\ Len(Tail(s)) = Len(s) - 1
      /\ \A i \in 1 .. Len(s) - 1 : Tail(s)[i] = s[i + 1]
  BY <1>1
<1>3. IsInjective(Tail(s))
  BY <1>1, TailContains DEF IsPath
<1> DEFINE t == Tail(s)
<1> HIDE DEF t
<1>4. l[n] = IF t = <<>> THEN NULL ELSE t[1]
  <2>1. t \in Seq(Nodes) /\ Len(t) = Len(s) - 1 /\ (t = <<>> <=> Len(t) = 0)
    BY <1>2, EmptySeq DEF t
  <2>2. 1 \in 1 .. Len(s) /\ 1 + 1 = 2
    BY <1>1
  <2>3. l[s[1]] = IF 1 = Len(s) THEN NULL ELSE s[2]
    BY <2>2 DEF IsPath
  <2>4. Len(s) # 1 => t[1] = s[2]
    BY <1>1, <1>2 DEF t
  <2> QED
    BY <1>1, <2>1, <2>3, <2>4
<1>5. ASSUME NEW i \in 1 .. Len(s) - 1
      PROVE  l[t[i]] = IF i = Len(s) - 1 THEN NULL ELSE t[i + 1]
  <2>1. i + 1 \in 1 .. Len(s) /\ (i + 1 = Len(s) <=> i = Len(s) - 1)
    BY <1>1
  <2>2. l[s[i + 1]] = IF i + 1 = Len(s) THEN NULL ELSE s[i + 1 + 1]
    BY <2>1 DEF IsPath
  <2>3. i # Len(s) - 1 => i + 1 \in 1 .. Len(s) - 1
    BY <1>1
  <2>4. t[i] = s[i + 1] /\ (i # Len(s) - 1 => t[i + 1] = s[i + 1 + 1])
    BY <1>2, <2>3 DEF t
  <2> QED
    BY <2>1, <2>2, <2>4
<1>6. t \in Seq(Nodes) /\ Len(t) = Len(s) - 1 /\ IsInjective(t)
  BY <1>2, <1>3 DEF t
<1>7. IsPath(l, l[n], t)
  BY <1>4, <1>5, <1>6 DEF IsPath
<1> QED
  BY <1>1, <1>7 DEF t

(* A node put before a path.                                               *)
LEMMA PathCons ==
  ASSUME NEW l, NEW n, NEW s, IsPath(l, n, s), NEW x \in Nodes, ~Contains(s, x), l[x] = n
  PROVE  /\ IsPath(l, x, <<x>> \o s)
         /\ \A y : Contains(<<x>> \o s, y) <=> y = x \/ Contains(s, y)
<1> DEFINE t == <<x>> \o s
<1>1. s \in Seq(Nodes) /\ <<x>> \in Seq(Nodes) /\ Len(<<x>>) = 1 /\ Len(s) \in Nat
      /\ <<x>>[1] = x
  BY DEF IsPath
<1>2. /\ t \in Seq(Nodes) /\ Len(t) = Len(s) + 1 /\ t[1] = x
      /\ \A i \in 1 .. Len(s) : t[i + 1] = s[i]
  <2>1. /\ t \in Seq(Nodes) /\ Len(t) = 1 + Len(s)
        /\ \A i \in 1 .. 1 + Len(s) : t[i] = IF i <= 1 THEN <<x>>[i] ELSE s[i - 1]
    BY <1>1, ConcatProperties
  <2> HIDE DEF t
  <2>2. \A i \in 1 .. Len(s) : i + 1 \in 1 .. 1 + Len(s) /\ ~(i + 1 <= 1) /\ (i + 1) - 1 = i
    BY <1>1
  <2> QED
    BY <1>1, <2>1, <2>2
<1>3. /\ \A y : Contains(t, y) <=> y = x \/ Contains(s, y)
      /\ IsInjective(t)
  <2>1. \A y : Contains(<<x>>, y) <=> y = x
    BY <1>1 DEF Contains
  <2>2. IsInjective(<<x>>)
    BY DEF IsInjective
  <2>3. IsInjective(s)
    BY DEF IsPath
  <2>4. \A y \in Nodes : ~(Contains(<<x>>, y) /\ Contains(s, y))
    BY <2>1
  <2>5. \A y : Contains(t, y) <=> Contains(<<x>>, y) \/ Contains(s, y)
    BY <1>1, ConcatContains
  <2>6. IsInjective(t)
    <3> HIDE DEF t
    <3> QED
      BY <1>1, <2>2, <2>3, <2>4, ConcatContains DEF t
  <2> QED
    BY <2>1, <2>5, <2>6
<1> HIDE DEF t
<1>4. t # <<>>
  BY <1>1, <1>2
<1>5. ASSUME NEW i \in 1 .. Len(t)
      PROVE  l[t[i]] = IF i = Len(t) THEN NULL ELSE t[i + 1]
  <2>1. CASE i = 1
    <3>1. s = <<>> <=> Len(s) = 0
      BY <1>1
    <3>2. s # <<>> => t[2] = s[1]
      BY <1>1, <1>2, <3>1
    <3> QED
      BY <1>1, <1>2, <2>1, <3>1, <3>2 DEF IsPath
  <2>2. CASE i # 1
    <3>1. PICK j \in 1 .. Len(s) : i = j + 1
      <4>1. i - 1 \in 1 .. Len(s) /\ i = (i - 1) + 1
        BY <1>1, <1>2, <2>2
      <4> QED
        BY <4>1
    <3>2. l[s[j]] = IF j = Len(s) THEN NULL ELSE s[j + 1]
      BY DEF IsPath
    <3>3. t[i] = s[j] /\ (j = Len(s) <=> i = Len(t))
      BY <1>1, <1>2, <3>1
    <3>4. j # Len(s) => t[i + 1] = s[j + 1]
      BY <1>1, <1>2, <3>1
    <3> QED
      BY <3>2, <3>3, <3>4
  <2> QED
    BY <2>1, <2>2
<1> QED
  BY <1>2, <1>3, <1>4, <1>5 DEF IsPath, t
-----------------------------------------------------------------------------
(* s is a list between first and last, linked both ways.                   *)
IsList(links, back, first, last, s) ==
  /\ IsPath(links, first, s)
  /\ last = IF s = <<>> THEN NULL ELSE s[Len(s)]
  /\ \A i \in 1 .. Len(s) : back[s[i]] = IF i = 1 THEN NULL ELSE s[i - 1]

(* The same, by the places of the nodes.                                   *)
AtPlaces(links, back, first, last, s, m) ==
  /\ s \in Seq(Nodes) /\ Len(s) = m /\ m \in Nat
  /\ \A i \in 1 .. m : s[i] \in Nodes /\ s[i] # NULL
  /\ \A i, j \in 1 .. m : s[i] = s[j] => i = j
  /\ first = IF m = 0 THEN NULL ELSE s[1]
  /\ last = IF m = 0 THEN NULL ELSE s[m]
  /\ \A i \in 1 .. m : links[s[i]] = IF i = m THEN NULL ELSE s[i + 1]
  /\ \A i \in 1 .. m : back[s[i]] = IF i = 1 THEN NULL ELSE s[i - 1]

LEMMA ListPlaces ==
  ASSUME NEW l, NEW p, NEW h, NEW t, NEW s, IsList(l, p, h, t, s)
  PROVE  AtPlaces(l, p, h, t, s, Len(s))
<1>1. s \in Seq(Nodes) /\ IsInjective(s)
  BY DEF IsList, IsPath
<1>2. Len(s) \in Nat /\ (s = <<>> <=> Len(s) = 0)
  BY <1>1, EmptySeq
<1>3. \A i \in 1 .. Len(s) : s[i] \in Nodes /\ s[i] # NULL
  BY <1>1, NullIsNoNode
<1>4. \A i, j \in 1 .. Len(s) : s[i] = s[j] => i = j
  BY <1>1 DEF IsInjective
<1> QED
  BY <1>1, <1>2, <1>3, <1>4 DEF IsList, IsPath, AtPlaces

LEMMA PlacesList ==
  ASSUME NEW l, NEW p, NEW h, NEW t, NEW s, NEW m, AtPlaces(l, p, h, t, s, m)
  PROVE  IsList(l, p, h, t, s)
<1>1. s = <<>> <=> m = 0
  BY EmptySeq DEF AtPlaces
<1>2. IsInjective(s)
  BY DEF IsInjective, AtPlaces
<1> QED
  BY <1>1, <1>2 DEF IsList, IsPath, AtPlaces

(* clh_list_push_node: a node that is not in the list becomes its last.    *)
LEMMA ListPush ==
  ASSUME NEW l, NEW p \in [Nodes -> Nodes \cup {NULL}], NEW h, NEW t, NEW s, IsList(l, p, h, t, s),
         NEW n \in Nodes, ~Contains(s, n), NEW l2, NEW p2,
         \A x \in Nodes : l2[x] = IF x = n THEN NULL ELSE IF x = t THEN n ELSE l[x],
         \A x \in Nodes : p2[x] = IF x = n THEN t ELSE p[x]
  PROVE  /\ t = NULL <=> h = NULL
         /\ IsList(l2, p2, IF t = NULL THEN n ELSE h, n, Append(s, n))
<1> DEFINE u == Append(s, n)
           m == Len(s)
<1>1. AtPlaces(l, p, h, t, s, m)
  BY ListPlaces
<1> USE DEF AtPlaces
<1>2. \A i \in 1 .. m : s[i] # n
  BY DEF Contains
<1>3. /\ u \in Seq(Nodes) /\ Len(u) = m + 1 /\ u[m + 1] = n
      /\ \A i \in 1 .. m : u[i] = s[i]
  BY <1>1
<1>4. /\ \A x \in Nodes : l2[x] = IF x = n THEN NULL ELSE IF x = t THEN n ELSE l[x]
      /\ \A x \in Nodes : p2[x] = IF x = n THEN t ELSE p[x]
  OBVIOUS
<1>5. n # NULL
  BY NullIsNoNode
<1> HIDE DEF u, m
<1>6. t = NULL <=> h = NULL
  BY <1>1
<1>7. \A i, j \in 1 .. m + 1 : u[i] = u[j] => i = j
  BY <1>1, <1>2, <1>3
<1>8. ASSUME NEW i \in 1 .. m + 1
      PROVE  /\ l2[u[i]] = IF i = m + 1 THEN NULL ELSE u[i + 1]
             /\ p2[u[i]] = IF i = 1 THEN NULL ELSE u[i - 1]
  <2>1. CASE i = m + 1
    <3>1. l2[n] = NULL /\ p2[n] = t
      BY <1>4
    <3>2. m # 0 => t = u[m] /\ (m + 1) - 1 = m
      BY <1>1, <1>3
    <3> QED
      BY <1>1, <1>3, <2>1, <3>1, <3>2
  <2>2. CASE i # m + 1
    <3>1. i \in 1 .. m /\ u[i] = s[i] /\ s[i] \in Nodes /\ s[i] # n
      BY <1>1, <1>2, <1>3, <2>2
    <3>2. s[i] = t <=> i = m
      BY <1>1, <3>1
    <3>3. i # m => i + 1 \in 1 .. m
      BY <1>1, <3>1
    <3>4. i # 1 => i - 1 \in 1 .. m
      BY <1>1, <3>1
    <3>5. l2[s[i]] = IF i = m THEN n ELSE s[i + 1]
      BY <1>1, <1>4, <3>1, <3>2
    <3>6. p2[s[i]] = IF i = 1 THEN NULL ELSE s[i - 1]
      BY <1>1, <1>4, <3>1
    <3> QED
      BY <1>3, <2>2, <3>1, <3>3, <3>4, <3>5, <3>6
  <2> QED
    BY <2>1, <2>2
<1>9. (IF t = NULL THEN n ELSE h) = u[1]
  <2>1. m # 0 => 1 \in 1 .. m
    BY <1>1
  <2> QED
    BY <1>1, <1>3, <2>1
<1>10. IsList(l2, p2, IF t = NULL THEN n ELSE h, n, u)
  <2>1. m + 1 # 0 /\ m + 1 \in Nat
    BY <1>1
  <2>2. \A i \in 1 .. m + 1 : u[i] \in Nodes /\ u[i] # NULL
    BY <1>3, NullIsNoNode
  <2>3. AtPlaces(l2, p2, IF t = NULL THEN n ELSE h, n, u, m + 1)
    BY <1>3, <1>7, <1>8, <1>9, <2>1, <2>2
  <2> QED
    BY <2>3, PlacesList
<1> QED
  BY <1>6, <1>10 DEF u

(* clh_list_pop_node: the last node goes.                                  *)
LEMMA ListPop ==
  ASSUME NEW l \in [Nodes -> Nodes \cup {NULL}], NEW p \in [Nodes -> Nodes \cup {NULL}],
         NEW h, NEW t, NEW s, IsList(l, p, h, t, s), s # <<>>, NEW l2, NEW p2,
         \A x \in Nodes : l2[x] = IF x = p[t] THEN NULL ELSE l[x],
         \A x \in Nodes : p2[x] = IF x = t THEN NULL ELSE p[x]
  PROVE  /\ t \in Nodes /\ t = Last(s) /\ (p[t] = NULL => h = t)
         /\ IsList(l2, p2, IF p[t] = NULL THEN l[t] ELSE h, p[t], Front(s))
<1> DEFINE u == Front(s)
           m == Len(s)
<1>1. AtPlaces(l, p, h, t, s, m)
  BY ListPlaces
<1>2. m # 0
  BY <1>1, EmptySeq DEF AtPlaces
<1>3. u \in Seq(Nodes) /\ Len(u) = m - 1 /\ \A i \in 1 .. m - 1 : u[i] = s[i]
  <2>1. s \in Seq(Nodes) /\ Len(s) \in Nat \ {0}
    BY <1>1, <1>2 DEF AtPlaces
  <2>2. Len(u) = m - 1
    <3>1. 1 \in Int /\ m - 1 \in Int /\ 1 <= 1 /\ m - 1 <= Len(s) /\ 1 <= m - 1 + 1
      BY <2>1
    <3>2. Len(SubSeq(s, 1, m - 1)) = m - 1 - 1 + 1
      BY <2>1, <3>1, LenOfSubSeq
    <3> QED
      BY <2>1, <3>2 DEF Front
  <2>3. u \in Seq(Nodes) /\ \A i \in 1 .. m - 1 : u[i] = s[i]
    BY <1>1, <1>2 DEF Front, AtPlaces
  <2> QED
    BY <2>2, <2>3
<1>4. t = s[m] /\ t \in Nodes /\ t = Last(s)
  <2>1. m \in 1 .. m
    BY <1>1, <1>2 DEF AtPlaces
  <2> QED
    BY <1>1, <1>2, <2>1 DEF AtPlaces, Last
<1>5. /\ \A x \in Nodes : l2[x] = IF x = p[t] THEN NULL ELSE l[x]
      /\ \A x \in Nodes : p2[x] = IF x = t THEN NULL ELSE p[x]
  OBVIOUS
<1> HIDE DEF u, m
<1> USE DEF AtPlaces
<1>6. p[t] = IF m = 1 THEN NULL ELSE s[m - 1]
  <2>1. m \in 1 .. m
    BY <1>1, <1>2
  <2> QED
    BY <1>1, <1>4, <2>1
<1>7. m # 1 => m - 1 \in 1 .. m /\ s[m - 1] # NULL
  <2>1. m # 1 => m - 1 \in 1 .. m
    BY <1>1, <1>2
  <2> QED
    BY <1>1, <2>1
<1>8. l[t] = NULL
  <2>1. m \in 1 .. m
    BY <1>1, <1>2
  <2> QED
    BY <1>1, <1>4, <2>1
<1>9. p[t] = NULL => h = t
  BY <1>1, <1>2, <1>4, <1>6, <1>7
<1>10. (IF p[t] = NULL THEN l[t] ELSE h) = IF m - 1 = 0 THEN NULL ELSE u[1]
  <2>1. m # 1 => m - 1 # 0 /\ 1 \in 1 .. m - 1
    BY <1>1, <1>2
  <2>2. m # 1 => p[t] # NULL /\ h = s[1] /\ u[1] = s[1]
    BY <1>1, <1>2, <1>3, <1>6, <1>7, <2>1
  <2>3. m = 1 => p[t] = NULL /\ m - 1 = 0
    BY <1>6
  <2> QED
    BY <1>8, <2>1, <2>2, <2>3
<1>11. p[t] = IF m - 1 = 0 THEN NULL ELSE u[m - 1]
  <2>1. m # 1 => m - 1 \in 1 .. m - 1
    BY <1>1, <1>2
  <2> QED
    BY <1>1, <1>2, <1>3, <1>6, <2>1
<1>12. ASSUME NEW i \in 1 .. m - 1
       PROVE  /\ l2[u[i]] = IF i = m - 1 THEN NULL ELSE u[i + 1]
              /\ p2[u[i]] = IF i = 1 THEN NULL ELSE u[i - 1]
  <2>1. i \in 1 .. m /\ i # m /\ m \in 1 .. m /\ u[i] = s[i]
    BY <1>1, <1>2, <1>3
  <2>2. s[i] \in Nodes /\ s[i] # t
    BY <1>1, <1>4, <2>1
  <2>3. s[i] = p[t] <=> i = m - 1
    <3>1. m # 1
      BY <1>1, <2>1
    <3>2. p[t] = s[m - 1] /\ m - 1 \in 1 .. m
      BY <1>6, <1>7, <3>1
    <3>3. \A j, k \in 1 .. m : s[j] = s[k] => j = k
      BY <1>1
    <3> QED
      BY <2>1, <3>2, <3>3
  <2>4. l2[s[i]] = IF i = m - 1 THEN NULL ELSE s[i + 1]
    BY <1>1, <1>5, <2>1, <2>2, <2>3
  <2>5. p2[s[i]] = IF i = 1 THEN NULL ELSE s[i - 1]
    BY <1>1, <1>5, <2>1, <2>2
  <2>6. (i # m - 1 => i + 1 \in 1 .. m - 1) /\ (i # 1 => i - 1 \in 1 .. m - 1)
    BY <1>1
  <2> QED
    BY <1>3, <2>1, <2>4, <2>5, <2>6
<1>13. IsList(l2, p2, IF p[t] = NULL THEN l[t] ELSE h, p[t], u)
  <2>1. m - 1 \in Nat /\ \A i \in 1 .. m - 1 : i \in 1 .. m
    BY <1>1, <1>2
  <2>2. \A i \in 1 .. m - 1 : u[i] \in Nodes /\ u[i] # NULL
    BY <1>1, <1>3, <2>1
  <2>3. \A i, j \in 1 .. m - 1 : u[i] = u[j] => i = j
    BY <1>1, <1>3, <2>1
  <2>4. AtPlaces(l2, p2, IF p[t] = NULL THEN l[t] ELSE h, p[t], u, m - 1)
    BY <1>3, <1>10, <1>11, <1>12, <2>1, <2>2, <2>3
  <2> QED
    BY <2>4, PlacesList
<1> QED
  BY <1>4, <1>9, <1>13 DEF u

(* clh_list_remove_node: a node of the list goes, wherever it is.          *)
LEMMA ListRemove ==
  ASSUME NEW l \in [Nodes -> Nodes \cup {NULL}], NEW p \in [Nodes -> Nodes \cup {NULL}],
         NEW h, NEW t, NEW s, IsList(l, p, h, t, s), NEW i \in 1 .. Len(s), NEW x, x = s[i],
         NEW l2, NEW p2,
         \A y \in Nodes : y # x => l2[y] = IF y = p[x] THEN l[x] ELSE l[y],
         \A y \in Nodes : p2[y] = IF y = x THEN NULL ELSE IF y = l[x] THEN p[x] ELSE p[y]
  PROVE  /\ x \in Nodes /\ (l[x] = NULL => t = x) /\ (p[x] = NULL => h = x)
         /\ IsList(l2, p2, IF p[x] = NULL THEN l[x] ELSE h, IF l[x] = NULL THEN p[x] ELSE t,
                   RemoveAt(s, i))
<1> DEFINE h2 == IF p[x] = NULL THEN l[x] ELSE h
           t2 == IF l[x] = NULL THEN p[x] ELSE t
           u == RemoveAt(s, i)
           m == Len(s)
<1>1. AtPlaces(l, p, h, t, s, m)
  BY ListPlaces
<1>2. /\ \A y \in Nodes : y # x => l2[y] = IF y = p[x] THEN l[x] ELSE l[y]
      /\ \A y \in Nodes : p2[y] = IF y = x THEN NULL ELSE IF y = l[x] THEN p[x] ELSE p[y]
  OBVIOUS
<1>3. /\ u \in Seq(Nodes) /\ Len(u) = m - 1
      /\ \A j \in 1 .. m - 1 : u[j] = IF j < i THEN s[j] ELSE s[j + 1]
  BY <1>1, RemoveAtElements DEF AtPlaces
<1>4. i \in 1 .. m
  OBVIOUS
<1> HIDE DEF h2, t2, u, m
<1> USE DEF AtPlaces
<1>5. /\ x \in Nodes /\ x # NULL
      /\ l[x] = IF i = m THEN NULL ELSE s[i + 1]
      /\ p[x] = IF i = 1 THEN NULL ELSE s[i - 1]
  BY <1>1, <1>4
<1>6. /\ i # m => i + 1 \in 1 .. m /\ s[i + 1] \in Nodes /\ s[i + 1] # NULL /\ s[i + 1] # x
      /\ i # 1 => i - 1 \in 1 .. m /\ s[i - 1] \in Nodes /\ s[i - 1] # NULL /\ s[i - 1] # x
  <2>1. (i # m => i + 1 \in 1 .. m /\ i + 1 # i) /\ (i # 1 => i - 1 \in 1 .. m /\ i - 1 # i)
    BY <1>1, <1>4
  <2> QED
    BY <1>1, <1>4, <2>1
<1>7. (l[x] = NULL => t = x) /\ (p[x] = NULL => h = x)
  BY <1>1, <1>4, <1>5, <1>6
<1>8. h2 = IF m - 1 = 0 THEN NULL ELSE u[1]
  <2>1. CASE i = 1
    <3>1. h2 = IF m = 1 THEN NULL ELSE s[2]
      BY <1>5, <2>1 DEF h2
    <3>2. m # 1 => u[1] = s[2]
      BY <1>1, <1>3, <1>4, <2>1
    <3> QED
      BY <1>1, <3>1, <3>2
  <2>2. CASE i # 1
    <3>1. h2 = s[1]
      BY <1>1, <1>4, <1>5, <1>6, <2>2 DEF h2
    <3>2. m - 1 # 0 /\ 1 \in 1 .. m - 1 /\ 1 < i
      BY <1>1, <1>4, <2>2
    <3> QED
      BY <1>3, <3>1, <3>2
  <2> QED
    BY <2>1, <2>2
<1>9. t2 = IF m - 1 = 0 THEN NULL ELSE u[m - 1]
  <2>1. CASE i = m
    <3>1. t2 = IF m = 1 THEN NULL ELSE s[m - 1]
      BY <1>5, <2>1 DEF t2
    <3>2. m # 1 => m - 1 \in 1 .. m - 1 /\ m - 1 < i
      BY <1>1, <1>4, <2>1
    <3>3. m # 1 => u[m - 1] = s[m - 1]
      BY <1>3, <3>2
    <3> QED
      BY <1>1, <3>1, <3>3
  <2>2. CASE i # m
    <3>1. t2 = s[m]
      BY <1>1, <1>4, <1>5, <1>6, <2>2 DEF t2
    <3>2. m - 1 # 0 /\ m - 1 \in 1 .. m - 1 /\ ~(m - 1 < i) /\ m - 1 + 1 = m
      BY <1>1, <1>4, <2>2
    <3>3. u[m - 1] = s[m]
      BY <1>3, <3>2
    <3> QED
      BY <3>1, <3>2, <3>3
  <2> QED
    BY <2>1, <2>2
<1>10. ASSUME NEW j \in 1 .. m - 1
       PROVE  /\ l2[u[j]] = IF j = m - 1 THEN NULL ELSE u[j + 1]
              /\ p2[u[j]] = IF j = 1 THEN NULL ELSE u[j - 1]
  <2>1. j \in 1 .. m /\ j + 1 \in 1 .. m /\ (j # 1 => j - 1 \in 1 .. m - 1)
        /\ (j # m - 1 => j + 1 \in 1 .. m - 1 /\ j + 1 + 1 \in 1 .. m)
    BY <1>1
  <2>2. CASE j < i
    <3>1. u[j] = s[j] /\ s[j] \in Nodes /\ s[j] # x /\ (i # m => s[j] # s[i + 1])
      <4>1. j # i /\ j # i + 1
        BY <1>1, <1>4, <2>2
      <4> QED
        BY <1>1, <1>3, <1>4, <1>6, <2>1, <2>2, <4>1
    <3>2. p2[s[j]] = p[s[j]]
      BY <1>2, <1>5, <3>1, <1>1, <2>1
    <3>3. j # 1 => u[j - 1] = s[j - 1]
      BY <1>1, <1>3, <1>4, <2>1, <2>2
    <3>4. p2[u[j]] = IF j = 1 THEN NULL ELSE u[j - 1]
      BY <1>1, <2>1, <3>1, <3>2, <3>3
    <3>5. CASE j = i - 1
      <4>1. s[j] = p[x]
        BY <1>1, <1>4, <1>5, <3>5
      <4>2. l2[s[j]] = IF i = m THEN NULL ELSE s[i + 1]
        BY <1>2, <1>5, <3>1, <4>1
      <4>3. i # m => u[j + 1] = s[i + 1]
        BY <1>1, <1>3, <1>4, <2>1, <3>5
      <4>4. i = m <=> j = m - 1
        BY <1>1, <1>4, <3>5
      <4> QED
        BY <3>1, <3>4, <4>2, <4>3, <4>4
    <3>6. CASE j # i - 1
      <4>1. j + 1 < i /\ j # m /\ j # m - 1
        BY <1>1, <1>4, <2>2, <3>6
      <4>2. s[j] # p[x]
        BY <1>1, <1>4, <1>5, <1>6, <2>1, <3>1, <3>6
      <4>3. l2[s[j]] = s[j + 1]
        BY <1>1, <1>2, <2>1, <3>1, <4>1, <4>2
      <4>4. u[j + 1] = s[j + 1]
        BY <1>3, <2>1, <4>1
      <4> QED
        BY <3>1, <3>4, <4>1, <4>3, <4>4
    <3> QED
      BY <3>5, <3>6
  <2>3. CASE ~(j < i)
    <3>1. u[j] = s[j + 1] /\ s[j + 1] \in Nodes /\ s[j + 1] # x /\ (i # 1 => s[j + 1] # s[i - 1])
      <4>1. j + 1 # i /\ j + 1 # i - 1
        BY <1>1, <1>4, <2>3
      <4> QED
        BY <1>1, <1>3, <1>4, <1>6, <2>1, <2>3, <4>1
    <3>2. l2[s[j + 1]] = l[s[j + 1]]
      BY <1>1, <1>2, <1>5, <2>1, <3>1
    <3>3. j # m - 1 => u[j + 1] = s[j + 1 + 1]
      BY <1>1, <1>3, <1>4, <2>1, <2>3
    <3>4. j + 1 = m <=> j = m - 1
      BY <1>1
    <3>5. l2[u[j]] = IF j = m - 1 THEN NULL ELSE u[j + 1]
      BY <1>1, <2>1, <3>1, <3>2, <3>3, <3>4
    <3>6. CASE j = i
      <4>1. s[j + 1] = l[x]
        BY <1>1, <1>5, <2>1, <3>6
      <4>2. p2[s[j + 1]] = IF j = 1 THEN NULL ELSE s[j - 1]
        BY <1>2, <1>5, <3>1, <3>6, <4>1
      <4>3. j # 1 => u[j - 1] = s[j - 1]
        BY <1>1, <1>3, <1>4, <2>1, <3>6
      <4> QED
        BY <3>1, <3>5, <4>2, <4>3
    <3>7. CASE j # i
      <4>1. j # 1 /\ ~(j - 1 < i) /\ j - 1 + 1 = j /\ j + 1 # 1 /\ (j + 1) - 1 = j
        BY <1>1, <1>4, <2>3, <3>7
      <4>2. s[j + 1] # l[x]
        <5>1. i # m => j + 1 # i + 1
          BY <1>1, <1>4, <3>7
        <5> QED
          BY <1>1, <1>5, <1>6, <2>1, <5>1
      <4>3. p2[s[j + 1]] = s[j]
        BY <1>1, <1>2, <2>1, <3>1, <4>1, <4>2
      <4>4. u[j - 1] = s[j]
        BY <1>3, <2>1, <4>1
      <4> QED
        BY <3>1, <3>5, <4>1, <4>3, <4>4
    <3> QED
      BY <3>6, <3>7
  <2> QED
    BY <2>2, <2>3
<1>11. IsList(l2, p2, h2, t2, u)
  <2>1. s \in Seq(Nodes) /\ IsInjective(s)
    BY DEF IsList, IsPath
  <2>2. IsInjective(u)
    BY <2>1, RemoveAtInjective DEF u
  <2>3. m - 1 \in Nat
    BY <1>1, <1>4
  <2>4. \A j, k \in 1 .. m - 1 : u[j] = u[k] => j = k
    <3>1. DOMAIN u = 1 .. m - 1
      BY <1>3
    <3> QED
      BY <2>2, <3>1 DEF IsInjective
  <2>5. \A j \in 1 .. m - 1 : u[j] \in Nodes /\ u[j] # NULL
    BY <1>3, NullIsNoNode
  <2>6. AtPlaces(l2, p2, h2, t2, u, m - 1)
    BY <1>3, <1>8, <1>9, <1>10, <2>3, <2>4, <2>5
  <2> QED
    BY <2>6, PlacesList
<1> QED
  BY <1>5, <1>7, <1>11 DEF h2, t2, u
-----------------------------------------------------------------------------
(* What List's variables hold when the list is q, the free list f, and c   *)
(* what is left of the chain the consumer detached.                        *)
Linked(q, f, c) ==
  /\ next \in [Nodes -> Nodes \cup {NULL}] /\ prev \in [Nodes -> Nodes \cup {NULL}]
  /\ IsList(next, prev, head, tail, q) /\ len = Len(q)
  /\ IsPath(next, free_nodes, f)
  /\ IsPath(next, cur, c)

(* The three are made of different nodes: a detached node is its user's.   *)
Places(q, f, c) ==
  /\ known \subseteq Nodes /\ held \subseteq known
  /\ \A x \in Nodes : x \in known => Contains(q, x) \/ Contains(f, x) \/ x \in held
  /\ \A x \in Nodes : Contains(q, x) => x \in known /\ x \notin held /\ ~Contains(f, x)
  /\ \A x \in Nodes : Contains(f, x) => x \in known /\ x \notin held
  /\ \A x \in Nodes : Contains(c, x) => x \in held

(* No two threads look for nodes to remove.                                *)
OneFinder == \A g, h \in Finders : g = h

(* What the consumer of a queue saw is still so, since only it takes nodes *)
(* out; what a finder saw is still so if it is the only one, and has no    *)
(* way back in the list once another finder removed it.                    *)
Users(q) ==
  /\ pc \in {"run", "pop", "abort"}
  /\ pc = "pop" => use = "send_queue" /\ q # <<>>
  /\ found \in [Finders -> Nodes \cup {NULL}]
  /\ \A h \in Finders : found[h] # NULL => use = "recv_list"
  /\ pc = "abort" =>
       use = "recv_list" /\ \E h \in Finders : found[h] # NULL /\ ~Contains(q, found[h])
  /\ cur # NULL => use = "recv_queue"
  /\ use = "recv_list" => \A n \in Nodes : ~Contains(q, n) => prev[n] = NULL
  /\ OneFinder =>
       pc # "abort" /\ \A h \in Finders : found[h] # NULL => Contains(q, found[h])

Shape(q, f, c) == Linked(q, f, c) /\ Places(q, f, c) /\ Users(q)

IInv == Shape(Follow(head), Follow(free_nodes), Follow(cur))

LEMMA ShapeFollows ==
  ASSUME NEW q, NEW f, NEW c, Shape(q, f, c)
  PROVE  IInv /\ Follow(head) = q /\ Follow(free_nodes) = f /\ Follow(cur) = c
<1>1. Follow(head) = q /\ Follow(free_nodes) = f /\ Follow(cur) = c
  BY ChainIsPath DEF Shape, Linked, IsList, Follow
<1> QED
  BY <1>1 DEF IInv

LEMMA NextShapeFollows ==
  ASSUME NEW q, NEW f, NEW c, Shape(q, f, c)'
  PROVE  IInv' /\ Follow(head)' = q /\ Follow(free_nodes)' = f /\ Follow(cur)' = c
<1>1. Follow(head)' = q /\ Follow(free_nodes)' = f /\ Follow(cur)' = c
  BY ChainIsPath DEF Shape, Linked, IsList, Follow
<1> QED
  BY <1>1 DEF IInv, Shape, Linked, Places, Users, OneFinder

(* The nodes clh_list_init_ caches.                                        *)
LEMMA InitShape ==
  ASSUME Init
  PROVE  Shape(<<>>, Cached, <<>>)
<1>1. /\ Cached \in Seq(Nodes) /\ Len(Cached) \in Nat
      /\ \A i \in 1 .. Len(Cached) : Cached[i] \in Nodes
      /\ \A i, j \in 1 .. Len(Cached) : Cached[i] = Cached[j] => i = j
  BY CachedType DEF IsInjective
<1>2. ASSUME NEW i \in 1 .. Len(Cached)
      PROVE  (CHOOSE j \in 1 .. Len(Cached) : Cached[j] = Cached[i]) = i
  BY <1>1
<1>3. ASSUME NEW i \in 1 .. Len(Cached)
      PROVE  next[Cached[i]] = IF i = Len(Cached) THEN NULL ELSE Cached[i + 1]
  <2>1. (\E j \in 1 .. Len(Cached) - 1 : Cached[j] = Cached[i]) <=> i # Len(Cached)
    BY <1>1
  <2>2. next[Cached[i]] = IF \E j \in 1 .. Len(Cached) - 1 : Cached[j] = Cached[i]
                          THEN Cached[1 + CHOOSE j \in 1 .. Len(Cached) : Cached[j] = Cached[i]]
                          ELSE NULL
    BY <1>1 DEF Init
  <2>3. 1 + i = i + 1
    OBVIOUS
  <2> QED
    BY <1>2, <2>1, <2>2, <2>3
<1>4. IsPath(next, free_nodes, Cached)
  BY <1>1, <1>3, CachedType DEF IsPath, Init
<1>5. IsPath(next, NULL, <<>>)
  BY DEF IsPath, IsInjective
<1>6. IsList(next, prev, head, tail, <<>>)
  BY <1>5 DEF IsList, Init
<1>7. next \in [Nodes -> Nodes \cup {NULL}] /\ prev \in [Nodes -> Nodes \cup {NULL}]
  <2>1. ASSUME NEW n \in Nodes
        PROVE  next[n] \in Nodes \cup {NULL}
    <3>1. CASE \E i \in 1 .. Len(Cached) - 1 : Cached[i] = n
      <4>1. PICK i \in 1 .. Len(Cached) - 1 : Cached[i] = n
        BY <3>1
      <4>2. i \in 1 .. Len(Cached) /\ i + 1 \in 1 .. Len(Cached) /\ i # Len(Cached)
        BY <1>1
      <4> QED
        BY <1>1, <1>3, <4>1, <4>2
    <3>2. CASE ~\E i \in 1 .. Len(Cached) - 1 : Cached[i] = n
      BY <3>2 DEF Init
    <3> QED
      BY <3>1, <3>2
  <2>2. next \in [Nodes -> Nodes \cup {NULL}]
    <3> DEFINE at(n) == IF \E i \in 1 .. Len(Cached) - 1 : Cached[i] = n
                        THEN Cached[1 + CHOOSE i \in 1 .. Len(Cached) : Cached[i] = n] ELSE NULL
    <3>1. next = [n \in Nodes |-> at(n)]
      BY DEF Init
    <3> HIDE DEF at
    <3>2. \A n \in Nodes : at(n) \in Nodes \cup {NULL}
      BY <2>1, <3>1
    <3> QED
      BY <3>1, <3>2
  <2> QED
    BY <2>2 DEF Init
<1>8. Linked(<<>>, Cached, <<>>)
  BY <1>4, <1>5, <1>6, <1>7 DEF Linked, Init
<1>9. Places(<<>>, Cached, <<>>) /\ Users(<<>>)
  <2>1. \A x : ~Contains(<<>>, x)
    BY DEF Contains
  <2>2. \A x : x \in ToSet(Cached) <=> Contains(Cached, x)
    BY <1>1 DEF ToSet, Contains
  <2>3. \A x : Contains(Cached, x) => x \in Nodes
    BY <1>1 DEF Contains
  <2> QED
    BY <2>1, <2>2, <2>3 DEF Places, Users, Init
<1> QED
  BY <1>8, <1>9 DEF Shape
-----------------------------------------------------------------------------
(* What each function does to the three sequences.                         *)

LEMMA ListKept ==
  ASSUME NEW l, NEW p, NEW h, NEW t, NEW s, IsList(l, p, h, t, s), NEW l2, NEW p2,
         \A x \in Nodes : Contains(s, x) => l2[x] = l[x] /\ p2[x] = p[x]
  PROVE  IsList(l2, p2, h, t, s)
<1>1. IsPath(l2, h, s)
  BY PathKept DEF IsList
<1>2. \A i \in 1 .. Len(s) : s[i] \in Nodes /\ Contains(s, s[i])
  BY DEF IsList, IsPath, Contains
<1> QED
  BY <1>1, <1>2 DEF IsList

LEMMA MembersContained ==
  ASSUME NEW S, NEW s \in Seq(S), NEW x
  PROVE  x \in ToSet(s) <=> Contains(s, x)
BY DEF ToSet, Contains

LEMMA NewShape ==
  ASSUME NEW q, NEW f, NEW c, Shape(q, f, c), NEW n \in Nodes, clh_list_new_node(n)
  PROVE  /\ n \notin held /\ ~Contains(q, n)
         /\ Shape(q, f, c)' \/ Shape(q, Tail(f), c)'
<1>0. Linked(q, f, c) /\ Places(q, f, c) /\ Users(q)
  BY DEF Shape
<1>1. PICK g \in {f, Tail(f)} :
         /\ IsPath(next, free_nodes', g)
         /\ g \in Seq(Nodes)
         /\ \A x \in Nodes : Contains(f, x) <=> (Contains(g, x) \/ (x = n /\ n \in known))
         /\ ~Contains(g, n) /\ ~Contains(q, n) /\ n \notin held
  <2>1. CASE free_nodes = NULL
    <3>1. n \notin known /\ free_nodes' = NULL
      BY <2>1 DEF clh_list_new_node
    <3>2. IsPath(next, free_nodes', f) /\ f \in Seq(Nodes)
      BY <1>0, <2>1, <3>1 DEF Linked, IsPath
    <3>3. ~Contains(f, n) /\ ~Contains(q, n) /\ n \notin held
      BY <1>0, <3>1 DEF Places
    <3> QED
      BY <3>1, <3>2, <3>3
  <2>2. CASE free_nodes # NULL
    <3>1. n = free_nodes /\ free_nodes' = next[n]
      BY <2>2 DEF clh_list_new_node
    <3>2. /\ f # <<>> /\ n = Head(f) /\ IsPath(next, next[n], Tail(f))
          /\ f \in Seq(Nodes) /\ IsInjective(f)
      <4>1. IsPath(next, free_nodes, f)
        BY <1>0 DEF Linked
      <4>2. f # <<>> /\ n = Head(f) /\ IsPath(next, next[n], Tail(f))
        BY <2>2, <3>1, <4>1, PathTail
      <4> QED
        BY <4>1, <4>2 DEF IsPath
    <3>3. /\ Tail(f) \in Seq(Nodes) /\ Contains(f, n) /\ ~Contains(Tail(f), n)
          /\ \A y : Contains(f, y) <=> Contains(Tail(f), y) \/ y = n
      BY <3>2, TailContains
    <3>4. n \in known /\ ~Contains(q, n) /\ n \notin held
      BY <1>0, <3>3 DEF Places
    <3> QED
      BY <3>1, <3>2, <3>3, <3>4
  <2> QED
    BY <2>1, <2>2
<1>2. /\ next' = [next EXCEPT ![n] = NULL] /\ prev' = [prev EXCEPT ![n] = NULL]
      /\ known' = known \cup {n} /\ held' = held \cup {n}
      /\ UNCHANGED <<use, head, tail, len, cur, found, pc>>
  BY DEF clh_list_new_node
<1>3. /\ next' \in [Nodes -> Nodes \cup {NULL}] /\ prev' \in [Nodes -> Nodes \cup {NULL}]
      /\ \A x \in Nodes : x # n => next'[x] = next[x] /\ prev'[x] = prev[x]
  BY <1>0, <1>2 DEF Linked
<1>4. ~Contains(c, n)
  BY <1>0, <1>1 DEF Places
<1>5. IsList(next', prev', head', tail', q)
  <2>1. IsList(next, prev, head, tail, q)
    BY <1>0 DEF Linked
  <2>2. \A x \in Nodes : Contains(q, x) => next'[x] = next[x] /\ prev'[x] = prev[x]
    BY <1>1, <1>3
  <2>3. IsList(next', prev', head, tail, q)
    BY <2>1, <2>2, ListKept
  <2>4. head' = head /\ tail' = tail
    BY <1>2
  <2> QED
    BY <2>3, <2>4
<1>6. IsPath(next', free_nodes', g) /\ IsPath(next', cur', c)
  <2>1. IsPath(next, free_nodes', g) /\ IsPath(next, cur, c)
    BY <1>0, <1>1 DEF Linked
  <2>2. \A x \in Nodes : Contains(g, x) => next'[x] = next[x]
    BY <1>1, <1>3
  <2>3. \A x \in Nodes : Contains(c, x) => next'[x] = next[x]
    BY <1>3, <1>4
  <2>4. IsPath(next', free_nodes', g) /\ IsPath(next', cur, c)
    BY <2>1, <2>2, <2>3, PathKept
  <2>5. cur' = cur
    BY <1>2
  <2> QED
    BY <2>4, <2>5
<1>7. Linked(q, g, c)'
  BY <1>0, <1>2, <1>3, <1>5, <1>6 DEF Linked
<1>8. Places(q, g, c)'
  BY <1>0, <1>1, <1>2 DEF Places
<1>9. Users(q)'
  <2>1. pc # "abort"
    BY DEF clh_list_new_node
  <2>2. \A x \in Nodes : prev'[x] = IF x = n THEN NULL ELSE prev[x]
    BY <1>0, <1>2 DEF Linked
  <2> QED
    BY <1>0, <1>2, <2>1, <2>2 DEF Users, OneFinder
<1> QED
  BY <1>1, <1>7, <1>8, <1>9 DEF Shape

LEMMA PushShape ==
  ASSUME NEW q, NEW f, NEW c, Shape(q, f, c), NEW n \in Nodes, clh_list_push_node(n)
  PROVE  n \in held /\ held' = held \ {n} /\ Shape(Append(q, n), f, c)'
<1>0. Linked(q, f, c) /\ Places(q, f, c) /\ Users(q)
  BY DEF Shape
<1>1. Follow(cur) = c /\ c \in Seq(Nodes)
  BY <1>0, ShapeFollows DEF Linked, IsPath
<1>2. n \in held /\ ~Contains(c, n) /\ ~Contains(q, n) /\ ~Contains(f, n)
  BY <1>0, <1>1, MembersContained DEF clh_list_push_node, MayUse, Places
<1> DEFINE l2 == [x \in Nodes |-> IF x = n THEN NULL ELSE IF x = tail THEN n ELSE next[x]]
           p2 == [prev EXCEPT ![n] = tail]
<1>3. /\ tail = NULL <=> head = NULL
      /\ IsList(l2, p2, IF tail = NULL THEN n ELSE head, n, Append(q, n))
  <2>1. prev \in [Nodes -> Nodes \cup {NULL}] /\ IsList(next, prev, head, tail, q)
    BY <1>0 DEF Linked
  <2>2. /\ \A x \in Nodes : l2[x] = IF x = n THEN NULL ELSE IF x = tail THEN n ELSE next[x]
        /\ \A x \in Nodes : p2[x] = IF x = n THEN tail ELSE prev[x]
    BY <2>1
  <2> HIDE DEF l2, p2
  <2> QED
    BY <1>2, <2>1, <2>2, ListPush
<1>4. /\ next' = l2 /\ prev' = p2 /\ head' = IF tail = NULL THEN n ELSE head
      /\ tail' = n /\ len' = len + 1 /\ held' = held \ {n}
      /\ UNCHANGED <<use, free_nodes, known, cur, found, pc>>
  BY <1>3 DEF clh_list_push_node, Abort
<1>5. q \in Seq(Nodes) /\ Len(q) \in Nat
  BY <1>0 DEF Linked, IsList, IsPath
<1>6. tail # NULL => tail \in Nodes /\ Contains(q, tail)
  <2>1. q # <<>> => Len(q) \in 1 .. Len(q)
    BY <1>5, EmptySeq
  <2> QED
    BY <1>0, <1>5, <2>1 DEF Linked, IsList, Contains
<1>7. l2 \in [Nodes -> Nodes \cup {NULL}] /\ p2 \in [Nodes -> Nodes \cup {NULL}]
  BY <1>0, <1>6 DEF Linked
<1>8. \A x \in Nodes : x # n /\ x # tail => l2[x] = next[x]
  OBVIOUS
<1> HIDE DEF l2, p2
<1>9. /\ \A x \in Nodes : Contains(f, x) => l2[x] = next[x]
      /\ \A x \in Nodes : Contains(c, x) => l2[x] = next[x]
  BY <1>0, <1>2, <1>6, <1>8, NullIsNoNode DEF Places
<1>10. IsPath(l2, free_nodes, f) /\ IsPath(l2, cur, c)
  BY <1>0, <1>9, PathKept DEF Linked
<1>11. Len(Append(q, n)) = Len(q) + 1
  BY <1>5
<1>12. \A x : Contains(Append(q, n), x) <=> Contains(q, x) \/ x = n
  BY <1>5, AppendContains
<1> DEFINE u == Append(q, n)
<1> HIDE DEF u
<1>13. Linked(u, f, c)'
  BY <1>0, <1>3, <1>4, <1>7, <1>10, <1>11 DEF Linked, u
<1>14. Places(u, f, c)'
  BY <1>0, <1>2, <1>4, <1>12 DEF Places, u
<1>15. Users(u)'
  <2>1. u # <<>>
    BY <1>5, <1>11, EmptySeq DEF u
  <2>2. pc # "abort"
    BY DEF clh_list_push_node, MayUse
  <2>3. \A x \in Nodes : x # n => prev'[x] = prev[x]
    BY <1>0, <1>4 DEF Linked, p2
  <2> QED
    BY <1>0, <1>4, <1>12, <2>1, <2>2, <2>3 DEF Users, OneFinder, u
<1> QED
  BY <1>2, <1>4, <1>13, <1>14, <1>15 DEF Shape, u

LEMMA LookShape ==
  ASSUME NEW q, NEW f, NEW c, Shape(q, f, c),
         SeeTail \/ \E n \in Nodes, h \in Finders : message_search(h, n)
  PROVE  held' = held /\ Shape(q, f, c)'
<1>1. Linked(q, f, c) /\ Places(q, f, c) /\ Users(q)
  BY DEF Shape
<1>2. q \in Seq(Nodes) /\ Follow(head) = q
  BY <1>1, ShapeFollows DEF Linked, IsList, IsPath
<1>3. UNCHANGED <<use, head, tail, len, next, prev, free_nodes, known, held, cur>>
  BY DEF SeeTail, message_search, linkVars
<1>4. Users(q)'
  <2>1. CASE SeeTail
    <3>1. q # <<>>
      BY <1>1, <2>1 DEF SeeTail, Linked, IsList
    <3>2. use = "send_queue" /\ pc' = "pop" /\ found' = found
      BY <2>1 DEF SeeTail
    <3> QED
      BY <1>1, <1>3, <3>1, <3>2 DEF Users, OneFinder
  <2>2. ASSUME NEW n \in Nodes, NEW h \in Finders, message_search(h, n)  PROVE Users(q)'
    <3>1. /\ use = "recv_list" /\ pc = "run" /\ pc' = pc /\ Contains(q, n)
          /\ found' = [found EXCEPT ![h] = n]
      BY <1>2, <2>2 DEF message_search
    <3>2. \A g \in Finders : found'[g] = IF g = h THEN n ELSE found[g]
      BY <1>1, <3>1 DEF Users
    <3>3. found' \in [Finders -> Nodes \cup {NULL}]
      BY <1>1, <3>1 DEF Users
    <3> QED
      BY <1>1, <1>3, <3>1, <3>2, <3>3 DEF Users, OneFinder
  <2> QED
    BY <2>1, <2>2
<1>5. Linked(q, f, c)' /\ Places(q, f, c)'
  BY <1>1, <1>3 DEF Linked, Places
<1> QED
  BY <1>3, <1>4, <1>5 DEF Shape

LEMMA PopShape ==
  ASSUME NEW q, NEW f, NEW c, Shape(q, f, c), clh_list_pop_node
  PROVE  q # <<>> /\ held' = held \cup {Last(q)} /\ Shape(Front(q), f, c)'
<1>1. Linked(q, f, c) /\ Places(q, f, c) /\ Users(q)
  BY DEF Shape
<1>2. q # <<>> /\ use = "send_queue" /\ pc = "pop"
  BY <1>1 DEF clh_list_pop_node, Users
<1>3. /\ next \in [Nodes -> Nodes \cup {NULL}] /\ prev \in [Nodes -> Nodes \cup {NULL}]
      /\ IsList(next, prev, head, tail, q) /\ q \in Seq(Nodes) /\ IsInjective(q)
  BY <1>1 DEF Linked, IsList, IsPath
<1> DEFINE l2 == [k \in Nodes |-> IF k = prev[tail] THEN NULL ELSE next[k]]
           p2 == [prev EXCEPT ![tail] = NULL]
           u == Front(q)
<1>4. /\ \A x \in Nodes : l2[x] = IF x = prev[tail] THEN NULL ELSE next[x]
      /\ \A x \in Nodes : p2[x] = IF x = tail THEN NULL ELSE prev[x]
  BY <1>3
<1>5. l2 \in [Nodes -> Nodes \cup {NULL}] /\ p2 \in [Nodes -> Nodes \cup {NULL}]
  BY <1>3
<1> HIDE DEF l2, p2, u
<1>6. /\ tail \in Nodes /\ tail = Last(q) /\ (prev[tail] = NULL => head = tail)
      /\ IsList(l2, p2, IF prev[tail] = NULL THEN next[tail] ELSE head, prev[tail], u)
  BY <1>2, <1>3, <1>4, ListPop DEF u
<1>7. /\ next' = l2 /\ prev' = p2 /\ head' = IF prev[tail] = NULL THEN next[tail] ELSE head
      /\ tail' = prev[tail] /\ len' = len - 1 /\ held' = held \cup {tail} /\ pc' = "run"
      /\ UNCHANGED <<use, free_nodes, known, cur, found>>
  BY <1>6 DEF clh_list_pop_node, l2, p2
<1>8. /\ \A y : Contains(q, y) <=> Contains(u, y) \/ y = tail
      /\ ~Contains(u, tail) /\ u \in Seq(Nodes)
  BY <1>2, <1>3, <1>6, FrontContains DEF u
<1>9. prev[tail] # NULL => Contains(u, prev[tail])
  <2>1. AtPlaces(l2, p2, IF prev[tail] = NULL THEN next[tail] ELSE head, prev[tail], u, Len(u))
    BY <1>6, ListPlaces
  <2>2. prev[tail] # NULL => Len(u) \in 1 .. Len(u) /\ u[Len(u)] = prev[tail]
    BY <2>1 DEF AtPlaces
  <2> QED
    BY <2>2 DEF Contains
<1>10. /\ \A x \in Nodes : Contains(f, x) => l2[x] = next[x]
       /\ \A x \in Nodes : Contains(c, x) => l2[x] = next[x]
  BY <1>1, <1>4, <1>8, <1>9, NullIsNoNode DEF Places
<1>11. IsPath(l2, free_nodes, f) /\ IsPath(l2, cur, c)
  BY <1>1, <1>10, PathKept DEF Linked
<1>12. Len(u) = Len(q) - 1
  <2>1. Len(q) \in Nat \ {0}
    BY <1>2, <1>3, EmptySeq
  <2>2. 1 \in Int /\ Len(q) - 1 \in Int /\ 1 <= 1 /\ Len(q) - 1 <= Len(q) /\ 1 <= Len(q) - 1 + 1
    BY <2>1
  <2>3. Len(SubSeq(q, 1, Len(q) - 1)) = Len(q) - 1 - 1 + 1
    BY <1>3, <2>1, <2>2, LenOfSubSeq
  <2> QED
    BY <2>1, <2>3 DEF u, Front
<1>13. Linked(u, f, c)'
  BY <1>1, <1>5, <1>6, <1>7, <1>11, <1>12 DEF Linked
<1>14. Places(u, f, c)'
  BY <1>1, <1>6, <1>7, <1>8 DEF Places
<1>15. Users(u)'
  BY <1>1, <1>2, <1>7 DEF Users, OneFinder
<1> QED
  BY <1>2, <1>6, <1>7, <1>13, <1>14, <1>15 DEF Shape, u

LEMMA RemoveShape ==
  ASSUME NEW q, NEW f, NEW c, Shape(q, f, c), NEW h \in Finders, clh_list_remove_node(h),
         NEW x, x = found[h], Contains(q, x)
  PROVE  /\ x \in Nodes /\ Contains(q, x) /\ held' = held
         /\ Shape(RemoveFirst(q, x), <<x>> \o f, c)'
<1>1. Linked(q, f, c) /\ Places(q, f, c) /\ Users(q)
  BY DEF Shape
<1>2. x # NULL /\ pc = "run" /\ use = "recv_list" /\ Contains(q, x)
  BY <1>1 DEF clh_list_remove_node, Users
<1>3. /\ next \in [Nodes -> Nodes \cup {NULL}] /\ prev \in [Nodes -> Nodes \cup {NULL}]
      /\ IsList(next, prev, head, tail, q) /\ q \in Seq(Nodes) /\ IsInjective(q)
  BY <1>1 DEF Linked, IsList, IsPath
<1>4. PICK i \in 1 .. Len(q) : q[i] = x
  BY <1>2 DEF Contains
<1> DEFINE l2 == [k \in Nodes |-> IF k = x THEN free_nodes
                                 ELSE IF k = prev[x] THEN next[x] ELSE next[k]]
           p2 == [k \in Nodes |-> IF k = x THEN NULL
                                 ELSE IF k = next[x] THEN prev[x] ELSE prev[k]]
           h2 == IF prev[x] = NULL THEN next[x] ELSE head
           t2 == IF next[x] = NULL THEN prev[x] ELSE tail
           u == RemoveAt(q, i)
           g == <<x>> \o f
<1>5. /\ \A y \in Nodes : l2[y] = IF y = x THEN free_nodes
                                 ELSE IF y = prev[x] THEN next[x] ELSE next[y]
      /\ \A y \in Nodes : p2[y] = IF y = x THEN NULL
                                 ELSE IF y = next[x] THEN prev[x] ELSE prev[y]
  OBVIOUS
<1>6. l2 = [k \in Nodes |-> l2[k]] /\ p2 = [k \in Nodes |-> p2[k]]
  OBVIOUS
<1>7. /\ x \in Nodes /\ (next[x] = NULL => tail = x)
      /\ (prev[x] = NULL => head = x)
      /\ IsList(l2, p2, h2, t2, u)
  <2> HIDE DEF l2, p2, u, h2, t2
  <2>1. /\ \A y \in Nodes : y # x => l2[y] = IF y = prev[x] THEN next[x] ELSE next[y]
        /\ x = q[i]
    BY <1>4, <1>5
  <2>2. \A y \in Nodes : p2[y] = IF y = x THEN NULL
                                ELSE IF y = next[x] THEN prev[x] ELSE prev[y]
    BY <1>5
  <2>3. /\ x \in Nodes /\ (next[x] = NULL => tail = x) /\ (prev[x] = NULL => head = x)
        /\ IsList(l2, p2, IF prev[x] = NULL THEN next[x] ELSE head,
                  IF next[x] = NULL THEN prev[x] ELSE tail, RemoveAt(q, i))
    BY <1>3, <1>4, <2>1, <2>2, ListRemove
  <2> QED
    BY <2>3 DEF u, h2, t2
<1>8. /\ next' = l2 /\ prev' = p2 /\ head' = h2 /\ tail' = t2 /\ len' = len - 1
      /\ free_nodes' = x /\ found' = [found EXCEPT ![h] = NULL]
      /\ UNCHANGED <<use, known, held, cur, pc>>
  BY <1>7 DEF clh_list_remove_node, Abort
<1> HIDE DEF l2, p2, h2, t2, u, g
<1>9. RemoveFirst(q, x) = u
  BY <1>3, <1>4, RemoveFirstAt DEF u
<1>10. u \in Seq(Nodes) /\ Len(u) = Len(q) - 1
  BY <1>3, RemoveAtElements DEF u
<1>11. \A y : Contains(u, y) <=> Contains(q, y) /\ y # x
  BY <1>2, <1>3, <1>9, RemoveFirstExactly
<1>12. prev[x] # NULL => Contains(q, prev[x])
  <2>1. AtPlaces(next, prev, head, tail, q, Len(q))
    BY <1>3, ListPlaces
  <2>2. prev[x] = IF i = 1 THEN NULL ELSE q[i - 1]
    BY <1>4, <2>1 DEF AtPlaces
  <2>3. i # 1 => i - 1 \in 1 .. Len(q)
    BY <2>1 DEF AtPlaces
  <2> QED
    BY <2>2, <2>3 DEF Contains
<1>13. free_nodes \in Nodes \cup {NULL}
  <2>1. IsPath(next, free_nodes, f)
    BY <1>1 DEF Linked
  <2>2. free_nodes # NULL => free_nodes \in Nodes
    BY <2>1, PathTail
  <2> QED
    BY <2>2
<1>14. l2 \in [Nodes -> Nodes \cup {NULL}] /\ p2 \in [Nodes -> Nodes \cup {NULL}]
  <2>1. ASSUME NEW y \in Nodes  PROVE l2[y] \in Nodes \cup {NULL} /\ p2[y] \in Nodes \cup {NULL}
    BY <1>3, <1>5, <1>7, <1>13
  <2> QED
    BY <1>6, <2>1
<1>15. /\ \A y \in Nodes : Contains(f, y) => l2[y] = next[y]
       /\ \A y \in Nodes : Contains(c, y) => l2[y] = next[y]
  BY <1>1, <1>2, <1>5, <1>7, <1>12, NullIsNoNode DEF Places
<1>16. IsPath(l2, free_nodes, f) /\ IsPath(l2, cur, c)
  BY <1>1, <1>15, PathKept DEF Linked
<1>17. l2[x] = free_nodes /\ ~Contains(f, x)
  BY <1>1, <1>2, <1>5, <1>7 DEF Places
<1>18. IsPath(l2, x, g) /\ \A y : Contains(g, y) <=> y = x \/ Contains(f, y)
  BY <1>7, <1>16, <1>17, PathCons DEF g
<1>19. Linked(u, g, c)'
  BY <1>1, <1>7, <1>8, <1>10, <1>14, <1>16, <1>18 DEF Linked
<1>20. Places(u, g, c)'
  BY <1>1, <1>2, <1>7, <1>8, <1>11, <1>18 DEF Places
<1>21. Users(u)'
  <2>1. found' \in [Finders -> Nodes \cup {NULL}]
    BY <1>1, <1>8 DEF Users
  <2>2. \A o \in Finders : found'[o] = IF o = h THEN NULL ELSE found[o]
    BY <1>1, <1>8 DEF Users
  <2>3. \A y \in Nodes : ~Contains(u, y) => p2[y] = NULL
    <3>1. AtPlaces(next, prev, head, tail, q, Len(q))
      BY <1>3, ListPlaces
    <3>2. next[x] = IF i = Len(q) THEN NULL ELSE q[i + 1]
      BY <1>4, <3>1 DEF AtPlaces
    <3>3. next[x] # NULL => i + 1 \in 1 .. Len(q) /\ q[i + 1] = next[x] /\ i + 1 # i
      BY <3>1, <3>2 DEF AtPlaces
    <3>4. next[x] # NULL => Contains(q, next[x]) /\ next[x] # x
      BY <1>3, <1>4, <3>3 DEF Contains, IsInjective
    <3>5. \A y \in Nodes : ~Contains(q, y) => prev[y] = NULL
      BY <1>1, <1>2 DEF Users
    <3> QED
      BY <1>5, <1>11, <3>4, <3>5, NullIsNoNode
  <2> QED
    BY <1>1, <1>2, <1>8, <2>1, <2>2, <2>3 DEF Users, OneFinder
<1> QED
  BY <1>2, <1>7, <1>8, <1>9, <1>19, <1>20, <1>21 DEF Shape, g

(* The second removal of a node finds no previous node in it, and another  *)
(* head of the list: the assertion fails.                                  *)
LEMMA SecondRemovalAborts ==
  ASSUME NEW q, NEW f, NEW c, Shape(q, f, c), NEW h \in Finders, clh_list_remove_node(h),
         ~Contains(q, found[h])
  PROVE  Abort /\ Shape(q, f, c)'
<1>1. Linked(q, f, c) /\ Places(q, f, c) /\ Users(q)
  BY DEF Shape
<1>2. PICK x : x = found[h]
  OBVIOUS
<1>3. x \in Nodes /\ use = "recv_list" /\ ~OneFinder
  BY <1>1, <1>2 DEF clh_list_remove_node, Users
<1>4. prev[x] = NULL
  BY <1>1, <1>2, <1>3 DEF Users
<1>5. head # x
  <2>1. IsPath(next, head, q)
    BY <1>1 DEF Linked, IsList
  <2>2. head # NULL => q # <<>> /\ head = Head(q) /\ q \in Seq(Nodes)
    BY <2>1, PathTail DEF IsPath
  <2>3. head # NULL => Contains(q, head)
    <3>1. q # <<>> /\ q \in Seq(Nodes) => 1 \in 1 .. Len(q) /\ Head(q) = q[1]
      BY EmptySeq
    <3> QED
      BY <2>2, <3>1 DEF Contains
  <2> QED
    BY <1>2, <1>3, <2>3, NullIsNoNode
<1>6. Abort
  BY <1>2, <1>4, <1>5 DEF clh_list_remove_node
<1>7. /\ pc' = "abort"
      /\ UNCHANGED <<use, head, tail, len, next, prev, free_nodes, known, held, cur, found>>
  BY <1>6 DEF Abort, linkVars
<1>8. found[h] # NULL
  BY <1>2, <1>3, NullIsNoNode
<1>9. Users(q)'
  BY <1>1, <1>3, <1>7, <1>8 DEF Users, OneFinder
<1>10. Linked(q, f, c)' /\ Places(q, f, c)'
  BY <1>1, <1>7 DEF Linked, Places
<1> QED
  BY <1>6, <1>9, <1>10 DEF Shape

LEMMA TakeAllShape ==
  ASSUME NEW q, NEW f, NEW c, Shape(q, f, c), clh_list_get_all_nodes
  PROVE  /\ c = <<>> /\ q \in Seq(Nodes) /\ held' = held \cup ToSet(q)
         /\ Shape(<<>>, f, q)'
<1>1. Linked(q, f, c) /\ Places(q, f, c) /\ Users(q)
  BY DEF Shape
<1>2. q \in Seq(Nodes) /\ Follow(head) = q
  BY <1>1, ShapeFollows DEF Linked, IsList, IsPath
<1>3. c = <<>>
  <2>1. IsPath(next, cur, c) /\ cur = NULL
    BY <1>1 DEF Linked, clh_list_get_all_nodes
  <2>2. c # <<>> => 1 \in 1 .. Len(c) /\ c[1] \in Nodes
    BY <2>1 DEF IsPath
  <2> QED
    BY <2>1, <2>2, NullIsNoNode DEF IsPath
<1>4. /\ cur' = head /\ head' = NULL /\ tail' = NULL /\ len' = 0 /\ held' = held \cup ToSet(q)
      /\ use = "recv_queue" /\ pc = "run"
      /\ UNCHANGED <<use, next, prev, free_nodes, known, found, pc>>
  BY <1>2 DEF clh_list_get_all_nodes
<1>5. IsList(next, prev, NULL, NULL, <<>>)
  BY DEF IsList, IsPath, IsInjective
<1>6. \A x : ~Contains(<<>>, x)
  BY DEF Contains
<1>7. \A x : x \in ToSet(q) <=> Contains(q, x)
  BY <1>2, MembersContained
<1>8. Linked(<<>>, f, q)'
  BY <1>1, <1>4, <1>5 DEF Linked, IsList
<1>9. Places(<<>>, f, q)'
  <2>1. \A x \in ToSet(q) : x \in known
    BY <1>1, <1>2, <1>7 DEF Places, ToSet
  <2> QED
    BY <1>1, <1>4, <1>6, <1>7, <2>1 DEF Places
<1>10. Users(<<>>)'
  BY <1>1, <1>4 DEF Users, OneFinder
<1> QED
  BY <1>2, <1>3, <1>4, <1>8, <1>9, <1>10 DEF Shape

LEMMA AdvanceShape ==
  ASSUME NEW q, NEW f, NEW c, Shape(q, f, c), Advance
  PROVE  c # <<>> /\ held' = held /\ Shape(q, f, Tail(c))'
<1>1. Linked(q, f, c) /\ Places(q, f, c) /\ Users(q)
  BY DEF Shape
<1>2. IsPath(next, cur, c) /\ cur # NULL /\ cur' = next[cur]
  BY <1>1 DEF Linked, Advance
<1>3. c # <<>> /\ IsPath(next, next[cur], Tail(c))
  BY <1>2, PathTail
<1>4. \A y : Contains(Tail(c), y) => Contains(c, y)
  BY <1>2, <1>3, TailContains DEF IsPath
<1>5. /\ UNCHANGED <<use, head, tail, len, next, prev, free_nodes, known, held, found, pc>>
      /\ use = "recv_queue"
  BY <1>1, <1>2 DEF Advance, linkVars, Users
<1>6. Linked(q, f, Tail(c))'
  BY <1>1, <1>2, <1>3, <1>5 DEF Linked
<1>7. Places(q, f, Tail(c))'
  BY <1>1, <1>4, <1>5 DEF Places
<1>8. Users(q)'
  BY <1>1, <1>5 DEF Users, OneFinder
<1> QED
  BY <1>3, <1>5, <1>6, <1>7, <1>8 DEF Shape

LEMMA ReleaseShape ==
  ASSUME NEW q, NEW f, NEW c, Shape(q, f, c), NEW n \in Nodes, clh_list_release_node(n)
  PROVE  n \in held /\ held' = held \ {n} /\ Shape(q, <<n>> \o f, c)'
<1>1. Linked(q, f, c) /\ Places(q, f, c) /\ Users(q)
  BY DEF Shape
<1>2. Follow(cur) = c /\ c \in Seq(Nodes)
  BY <1>1, ShapeFollows DEF Linked, IsPath
<1>3. n \in held /\ ~Contains(c, n) /\ ~Contains(q, n) /\ ~Contains(f, n)
  BY <1>1, <1>2, MembersContained DEF clh_list_release_node, MayUse, Places
<1>4. /\ prev' = [prev EXCEPT ![n] = NULL] /\ next' = [next EXCEPT ![n] = free_nodes]
      /\ free_nodes' = n /\ held' = held \ {n}
      /\ UNCHANGED <<use, head, tail, len, known, cur, found, pc>>
  BY DEF clh_list_release_node
<1>5. free_nodes \in Nodes \cup {NULL}
  <2>1. IsPath(next, free_nodes, f)
    BY <1>1 DEF Linked
  <2>2. free_nodes # NULL => free_nodes \in Nodes
    BY <2>1, PathTail
  <2> QED
    BY <2>2
<1>6. /\ next' \in [Nodes -> Nodes \cup {NULL}] /\ prev' \in [Nodes -> Nodes \cup {NULL}]
      /\ next'[n] = free_nodes
      /\ \A x \in Nodes : x # n => next'[x] = next[x] /\ prev'[x] = prev[x]
  BY <1>1, <1>4, <1>5 DEF Linked
<1>7. IsList(next', prev', head, tail, q)
  <2>1. IsList(next, prev, head, tail, q)
    BY <1>1 DEF Linked
  <2>2. \A x \in Nodes : Contains(q, x) => next'[x] = next[x] /\ prev'[x] = prev[x]
    BY <1>3, <1>6
  <2> QED
    BY <2>1, <2>2, ListKept
<1>8. IsPath(next', free_nodes, f) /\ IsPath(next', cur, c)
  BY <1>1, <1>3, <1>6, PathKept DEF Linked
<1>9. IsPath(next', n, <<n>> \o f) /\ \A y : Contains(<<n>> \o f, y) <=> y = n \/ Contains(f, y)
  BY <1>3, <1>6, <1>8, PathCons
<1> DEFINE g == <<n>> \o f
<1> HIDE DEF g
<1>10. Linked(q, g, c)'
  BY <1>1, <1>4, <1>6, <1>7, <1>8, <1>9 DEF Linked, g
<1>11. Places(q, g, c)'
  BY <1>1, <1>3, <1>4, <1>9 DEF Places, g
<1>12. Users(q)'
  <2>1. pc # "abort"
    BY DEF clh_list_release_node, MayUse
  <2>2. \A x \in Nodes : prev'[x] = IF x = n THEN NULL ELSE prev[x]
    BY <1>1, <1>4 DEF Linked
  <2> QED
    BY <1>1, <1>4, <2>1, <2>2 DEF Users, OneFinder
<1> QED
  BY <1>3, <1>4, <1>10, <1>11, <1>12 DEF Shape, g
-----------------------------------------------------------------------------
(* The invariant is inductive, and each step is one of Queue's or none.    *)

LEMMA StepInvariant ==
  ASSUME IInv, [Next]_vars
  PROVE  IInv' /\ [Abstract!Next]_Abstract!vars
<1>1. PICK q, f, c : q = Follow(head) /\ f = Follow(free_nodes) /\ c = Follow(cur)
  OBVIOUS
<1>2. Shape(q, f, c)
  BY <1>1 DEF IInv
<1> HIDE <1>1
<1>3. Follow(head) = q /\ Follow(cur) = c
  BY <1>1
<1>4. \A x : x \in ToSet(q) <=> Contains(q, x)
  BY <1>2, MembersContained DEF Shape, Linked, IsList, IsPath
<1> USE DEF Abstract!vars, Abstract!Next
<1>5. ASSUME NEW n \in Nodes, clh_list_new_node(n)
      PROVE  IInv' /\ [Abstract!Next]_Abstract!vars
  <2>1. n \notin held /\ ~Contains(q, n) /\ (Shape(q, f, c)' \/ Shape(q, Tail(f), c)')
    BY <1>2, <1>5, NewShape
  <2>2. IInv' /\ Follow(head)' = q /\ Follow(cur)' = c
    BY <2>1, NextShapeFollows
  <2>3. held' = held \cup {n}
    BY <1>5 DEF clh_list_new_node
  <2>4. Abstract!New(n)
    BY <1>3, <1>4, <2>1, <2>2, <2>3 DEF Abstract!New, ToSet, Abstract!ToSet
  <2> QED
    BY <2>2, <2>4
<1>6. ASSUME NEW n \in Nodes, clh_list_push_node(n)
      PROVE  IInv' /\ [Abstract!Next]_Abstract!vars
  <2>1. n \in held /\ held' = held \ {n} /\ Shape(Append(q, n), f, c)'
    BY <1>2, <1>6, PushShape
  <2>2. IInv' /\ Follow(head)' = Append(q, n) /\ Follow(cur)' = c
    BY <2>1, NextShapeFollows
  <2>3. Abstract!Push(n)
    BY <1>3, <2>1, <2>2 DEF Abstract!Push
  <2> QED
    BY <2>2, <2>3
<1>7. ASSUME NEW n \in Nodes, clh_list_release_node(n)
      PROVE  IInv' /\ [Abstract!Next]_Abstract!vars
  <2>1. n \in held /\ held' = held \ {n} /\ Shape(q, <<n>> \o f, c)'
    BY <1>2, <1>7, ReleaseShape
  <2>2. IInv' /\ Follow(head)' = q /\ Follow(cur)' = c
    BY <2>1, NextShapeFollows
  <2>3. Abstract!Release(n)
    BY <1>3, <2>1, <2>2 DEF Abstract!Release
  <2> QED
    BY <2>2, <2>3
<1>8. ASSUME SeeTail \/ \E n \in Nodes, h \in Finders : message_search(h, n)
      PROVE  IInv' /\ [Abstract!Next]_Abstract!vars
  <2>1. held' = held /\ Shape(q, f, c)'
    BY <1>2, <1>8, LookShape
  <2>2. IInv' /\ Follow(head)' = q /\ Follow(cur)' = c
    BY <2>1, NextShapeFollows
  <2> QED
    BY <1>3, <2>1, <2>2
<1>9. ASSUME clh_list_pop_node
      PROVE  IInv' /\ [Abstract!Next]_Abstract!vars
  <2>1. q # <<>> /\ held' = held \cup {Last(q)} /\ Shape(Front(q), f, c)'
    BY <1>2, <1>9, PopShape
  <2>2. IInv' /\ Follow(head)' = Front(q) /\ Follow(cur)' = c
    BY <2>1, NextShapeFollows
  <2>3. Abstract!Pop
    BY <1>3, <2>1, <2>2 DEF Abstract!Pop, Last, Front, Abstract!Last, Abstract!Front
  <2> QED
    BY <2>2, <2>3
<1>10. ASSUME NEW h \in Finders, clh_list_remove_node(h), Contains(q, found[h])
       PROVE  IInv' /\ [Abstract!Next]_Abstract!vars
  <2>1. PICK x : x = found[h]
    OBVIOUS
  <2>2. /\ x \in Nodes /\ Contains(q, x) /\ held' = held
        /\ Shape(RemoveFirst(q, x), <<x>> \o f, c)'
    BY <1>2, <1>10, <2>1, RemoveShape
  <2>3. IInv' /\ Follow(head)' = RemoveFirst(q, x) /\ Follow(cur)' = c
    BY <2>2, NextShapeFollows
  <2>4. Abstract!RemoveFirst(q, x) = RemoveFirst(q, x) /\ Abstract!Contains(q, x)
    BY <2>2 DEF RemoveFirst, SelectInSeq, RemoveAt, Min, Contains, Abstract!RemoveFirst,
                Abstract!SelectInSeq, Abstract!RemoveAt, Abstract!Min, Abstract!Contains
  <2>5. Abstract!TakeOut(x)
    BY <1>3, <2>2, <2>3, <2>4 DEF Abstract!TakeOut
  <2> QED
    BY <2>2, <2>3, <2>5
<1>11. ASSUME clh_list_get_all_nodes
       PROVE  IInv' /\ [Abstract!Next]_Abstract!vars
  <2>1. c = <<>> /\ held' = held \cup ToSet(q) /\ Shape(<<>>, f, q)'
    BY <1>2, <1>11, TakeAllShape
  <2>2. IInv' /\ Follow(head)' = <<>> /\ Follow(cur)' = q
    BY <2>1, NextShapeFollows
  <2>3. Abstract!TakeAll
    BY <1>3, <2>1, <2>2 DEF Abstract!TakeAll, ToSet, Abstract!ToSet
  <2> QED
    BY <2>2, <2>3
<1>12. ASSUME Advance
       PROVE  IInv' /\ [Abstract!Next]_Abstract!vars
  <2>1. c # <<>> /\ held' = held /\ Shape(q, f, Tail(c))'
    BY <1>2, <1>12, AdvanceShape
  <2>2. IInv' /\ Follow(head)' = q /\ Follow(cur)' = Tail(c)
    BY <2>1, NextShapeFollows
  <2>3. Abstract!Advance
    BY <1>3, <2>1, <2>2 DEF Abstract!Advance
  <2> QED
    BY <2>2, <2>3
<1>13. ASSUME NEW h \in Finders, clh_list_remove_node(h), ~Contains(q, found[h])
       PROVE  IInv' /\ [Abstract!Next]_Abstract!vars
  <2>1. Shape(q, f, c)' /\ held' = held
    BY <1>2, <1>13, SecondRemovalAborts DEF Abort
  <2>2. IInv' /\ Follow(head)' = q /\ Follow(cur)' = c
    BY <2>1, NextShapeFollows
  <2> QED
    BY <1>3, <2>1, <2>2
<1>14. ASSUME UNCHANGED vars
       PROVE  IInv' /\ [Abstract!Next]_Abstract!vars
  <2>1. Linked(q, f, c)' /\ Places(q, f, c)' /\ held' = held
    BY <1>2, <1>14 DEF vars, linkVars, Shape, Linked, Places
  <2>3. Users(q)'
    BY <1>2, <1>14 DEF vars, linkVars, Shape, Users, OneFinder
  <2>4. Shape(q, f, c)'
    BY <2>1, <2>3 DEF Shape
  <2>2. IInv' /\ Follow(head)' = q /\ Follow(cur)' = c
    BY <2>4, NextShapeFollows
  <2> QED
    BY <1>3, <2>1, <2>2
<1> QED
  BY <1>5, <1>6, <1>7, <1>8, <1>9, <1>10, <1>11, <1>12, <1>13, <1>14 DEF Next, Stopped

LEMMA InitInvariant ==
  ASSUME Init
  PROVE  IInv /\ Follow(head) = <<>> /\ Follow(cur) = <<>>
BY InitShape, ShapeFollows

(* The pointers are those of a sequence, a free list and a detached chain  *)
(* in every reachable state.                                               *)
THEOREM ListInvariance == Spec => []IInv
<1>1. Init => IInv
  BY InitInvariant
<1>2. IInv /\ [Next]_vars => IInv'
  BY StepInvariant
<1> QED
  BY <1>1, <1>2, PTL DEF Spec

(* The list reads the same both ways and its ends and length agree with    *)
(* it, whatever the calls of list.c and their order.                       *)
THEOREM ListWellLinked == Spec => []WellLinked
<1>1. IInv => WellLinked
  <2> SUFFICES ASSUME IInv PROVE WellLinked
    OBVIOUS
  <2> DEFINE q == Follow(head)
  <2>1. IsList(next, prev, head, tail, q) /\ len = Len(q)
    BY DEF IInv, Shape, Linked
  <2> HIDE DEF q
  <2>2. /\ tail = IF q = <<>> THEN NULL ELSE Last(q)
        /\ \A i \in 1 .. Len(q) : prev[q[i]] = IF i = 1 THEN NULL ELSE q[i - 1]
    BY <2>1 DEF IsList, Last
  <2> QED
    BY <2>1, <2>2 DEF WellLinked, q
<1> QED
  BY <1>1, ListInvariance, PTL

(* A node malloc returned is in the list, in the free list, or with one    *)
(* user, and in one of them only (clh_list_new_node and what follows).     *)
THEOREM ListNodeInOnePlace == Spec => []NodeInOnePlace
<1>1. IInv => NodeInOnePlace
  <2> SUFFICES ASSUME IInv PROVE NodeInOnePlace
    OBVIOUS
  <2> DEFINE q == Follow(head)
             f == Follow(free_nodes)
             c == Follow(cur)
  <2>1. Linked(q, f, c) /\ Places(q, f, c)
    BY DEF IInv, Shape
  <2> HIDE DEF q, f, c
  <2>2. q \in Seq(Nodes) /\ f \in Seq(Nodes)
    BY <2>1 DEF Linked, IsList, IsPath
  <2>3. /\ \A x : x \in ToSet(q) <=> Contains(q, x)
        /\ \A x : x \in ToSet(f) <=> Contains(f, x)
    BY <2>2, MembersContained
  <2>4. ToSet(q) \subseteq Nodes /\ ToSet(f) \subseteq Nodes
    BY <2>2 DEF ToSet
  <2>5. /\ ToSet(q) \cup ToSet(f) \cup held = known
        /\ ToSet(q) \cap ToSet(f) = {} /\ ToSet(q) \cap held = {} /\ ToSet(f) \cap held = {}
    BY <2>1, <2>3, <2>4 DEF Places
  <2> QED
    BY <2>5 DEF NodeInOnePlace, InUse, Free, q, f
<1> QED
  BY <1>1, ListInvariance, PTL

(* However many threads find and remove the nodes of a recv_list, and push *)
(* and pop those of the queues, an assertion of list.c fails only when a   *)
(* finder removes a node that another finder removed before it.            *)
THEOREM ListOnlySecondRemovalAborts == Spec => []OnlySecondRemovalAborts
<1>1. IInv => OnlySecondRemovalAborts
  <2> SUFFICES ASSUME IInv, pc = "abort" PROVE OnlySecondRemovalAborts
    BY DEF OnlySecondRemovalAborts
  <2> DEFINE q == Follow(head)
  <2>1. Linked(q, Follow(free_nodes), Follow(cur)) /\ Users(q)
    BY DEF IInv, Shape
  <2> HIDE DEF q
  <2>2. \A x : x \in ToSet(q) <=> Contains(q, x)
    BY <2>1, MembersContained DEF Linked, IsList, IsPath
  <2>3. use = "recv_list" /\ \E h \in Finders : found[h] # NULL /\ ~Contains(q, found[h])
    BY <2>1 DEF Users
  <2> QED
    BY <2>2, <2>3 DEF OnlySecondRemovalAborts, InUse, q
<1> QED
  BY <1>1, ListInvariance, PTL

(* A recv_list with one finder, as one whose probes do not remove: what    *)
(* message_search found is still there when it is removed, and no          *)
(* assertion of list.c fails.                                              *)
THEOREM ListAloneNoAssertion ==
  ASSUME \A g, h \in Finders : g = h
  PROVE  Spec => [](pc # "abort")
<1>1. IInv => pc # "abort"
  BY DEF IInv, Shape, Users, OneFinder
<1> QED
  BY <1>1, ListInvariance, PTL

(* Every function of list.c does to the pointers what Queue says it does   *)
(* to a sequence, and nothing else changes the sequence or a chain that    *)
(* clh_list_get_all_nodes took.                                            *)
THEOREM ListImplementsQueue == Spec => ImplementsQueue
<1>1. Init => Abstract!Init
  <2> SUFFICES ASSUME Init PROVE Abstract!Init
    OBVIOUS
  <2>1. held = {}
    BY DEF Init
  <2> QED
    BY <2>1, InitInvariant DEF Abstract!Init
<1>2. IInv /\ [Next]_vars => [Abstract!Next]_Abstract!vars
  BY StepInvariant
<1> QED
  BY <1>1, <1>2, ListInvariance, PTL DEF Spec, ImplementsQueue, Abstract!Spec
=============================================================================
