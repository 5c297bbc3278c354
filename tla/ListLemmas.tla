----------------------------- MODULE ListLemmas -----------------------------
(* What the operations on lists (list.c) do to the elements of the         *)
(* sequence that stands for a list, for sequences over any set.            *)
EXTENDS SequencesExt, SequenceTheorems, FiniteSetTheorems, WellFoundedInduction, TLAPS
-----------------------------------------------------------------------------
(* Pushing a node adds it, at the end.                                     *)
LEMMA AppendContains ==
  ASSUME NEW S, NEW s \in Seq(S), NEW x \in S
  PROVE  /\ Append(s, x) \in Seq(S)
         /\ \A y : Contains(Append(s, x), y) <=> Contains(s, y) \/ y = x
         /\ IsInjective(s) /\ ~Contains(s, x) => IsInjective(Append(s, x))
BY DEF Contains, IsInjective

(* The length of a part of a list.                                         *)
LEMMA LenOfSubSeq ==
  ASSUME NEW S, NEW s \in Seq(S), NEW m \in Int, NEW n \in Int,
         1 <= m, n <= Len(s), m <= n + 1
  PROVE  Len(SubSeq(s, m, n)) = n - m + 1
<1>1. \A i \in m .. n : s[i] \in S
  OBVIOUS
<1> QED
  BY <1>1, SubSeqProperties

(* Popping a node takes the last one.                                      *)
LEMMA FrontContains ==
  ASSUME NEW S, NEW s \in Seq(S), s # <<>>
  PROVE  /\ Front(s) \in Seq(S) /\ Last(s) \in S /\ Contains(s, Last(s))
         /\ \A y : Contains(s, y) <=> Contains(Front(s), y) \/ y = Last(s)
         /\ IsInjective(s) => IsInjective(Front(s)) /\ ~Contains(Front(s), Last(s))
<1>1. Len(s) \in Nat \ {0}
  OBVIOUS
<1>2. Len(Front(s)) = Len(s) - 1
  BY <1>1, LenOfSubSeq DEF Front
<1>3. Front(s) \in Seq(S) /\ \A i \in 1 .. Len(s) - 1 : Front(s)[i] = s[i]
  BY <1>1 DEF Front
<1> QED
  BY <1>1, <1>2, <1>3 DEF Contains, IsInjective, Last

(* Going on to the next node drops the first one.                          *)
LEMMA TailContains ==
  ASSUME NEW S, NEW s \in Seq(S), s # <<>>
  PROVE  /\ Tail(s) \in Seq(S) /\ Head(s) \in S /\ Contains(s, Head(s))
         /\ \A y : Contains(s, y) <=> Contains(Tail(s), y) \/ y = Head(s)
         /\ IsInjective(s) => IsInjective(Tail(s)) /\ ~Contains(Tail(s), Head(s))
<1>1. /\ Len(s) \in Nat \ {0}
      /\ Len(Tail(s)) = Len(s) - 1
      /\ Tail(s) \in Seq(S)
      /\ \A i \in 1 .. Len(s) - 1 : Tail(s)[i] = s[i + 1]
      /\ Head(s) = s[1]
  OBVIOUS
<1> DEFINE t == Tail(s)
           n == Len(s)
<1>2. /\ DOMAIN s = 1 .. n /\ DOMAIN t = 1 .. n - 1 /\ n \in Nat \ {0}
      /\ \A i \in 1 .. n - 1 : i + 1 \in 1 .. n /\ i + 1 # 1 /\ t[i] = s[i + 1]
      /\ \A i \in 2 .. n : i - 1 \in 1 .. n - 1 /\ s[i] = t[i - 1]
  BY <1>1
<1> HIDE DEF n, t
<1>3. \A y : Contains(s, y) <=> Contains(t, y) \/ y = Head(s)
  BY <1>1, <1>2 DEF Contains, n
<1>4. IsInjective(s) => IsInjective(t) /\ ~Contains(t, Head(s))
  <2>1. IsInjective(s) => IsInjective(t)
    <3> SUFFICES ASSUME IsInjective(s), NEW i \in 1 .. n - 1, NEW j \in 1 .. n - 1, t[i] = t[j]
                 PROVE  i = j
      BY <1>2 DEF IsInjective
    <3>1. i + 1 \in 1 .. n /\ j + 1 \in 1 .. n /\ s[i + 1] = s[j + 1]
      BY <1>2
    <3>2. i + 1 = j + 1
      BY <1>2, <3>1 DEF IsInjective
    <3> QED
      BY <1>2, <3>2
  <2>2. IsInjective(s) => \A i \in 1 .. n - 1 : t[i] # s[1]
    BY <1>2 DEF IsInjective
  <2> QED
    BY <1>1, <1>2, <2>1, <2>2 DEF Contains, t, n
<1> QED
  BY <1>1, <1>3, <1>4 DEF t

(* Removing the element at i shifts the later ones.                        *)
LEMMA RemoveAtElements ==
  ASSUME NEW S, NEW s \in Seq(S), NEW i \in 1 .. Len(s)
  PROVE  /\ RemoveAt(s, i) \in Seq(S)
         /\ Len(RemoveAt(s, i)) = Len(s) - 1
         /\ \A j \in 1 .. Len(s) - 1 : RemoveAt(s, i)[j] = IF j < i THEN s[j] ELSE s[j + 1]
<1> DEFINE l == SubSeq(s, 1, i - 1)
           h == SubSeq(s, i + 1, Len(s))
           t == l \o h
<1>1. /\ l \in Seq(S) /\ Len(l) = i - 1
      /\ \A j \in 1 .. i - 1 : l[j] = s[j]
  BY LenOfSubSeq
<1>2. /\ h \in Seq(S) /\ Len(h) = Len(s) - i
      /\ \A j \in 1 .. Len(s) - i : h[j] = s[i + j]
  <2>1. Len(h) = Len(s) - (i + 1) + 1
    BY LenOfSubSeq
  <2>2. h \in Seq(S) /\ \A j \in 1 .. Len(s) - i : h[j] = s[i + j]
    OBVIOUS
  <2> HIDE DEF h
  <2> QED
    BY <2>1, <2>2
<1>3. RemoveAt(s, i) = t
  BY DEF RemoveAt
<1> HIDE DEF l, h
<1>4. /\ t \in Seq(S) /\ Len(t) = Len(l) + Len(h)
      /\ \A j \in 1 .. Len(l) + Len(h) : t[j] = IF j <= Len(l) THEN l[j] ELSE h[j - Len(l)]
  BY <1>1, <1>2, ConcatProperties
<1> HIDE DEF t
<1>5. Len(l) + Len(h) = Len(s) - 1
  BY <1>1, <1>2
<1>6. ASSUME NEW j \in 1 .. Len(s) - 1
      PROVE  t[j] = IF j < i THEN s[j] ELSE s[j + 1]
  <2>1. CASE j < i
    <3>1. t[j] = l[j]
      BY <1>1, <1>4, <1>5, <2>1
    <3> QED
      BY <1>1, <2>1, <3>1
  <2>2. CASE ~(j < i)
    <3>1. t[j] = h[j - Len(l)]
      BY <1>1, <1>4, <1>5, <2>2
    <3>2. j - Len(l) \in 1 .. Len(s) - i /\ i + (j - Len(l)) = j + 1
      BY <1>1, <2>2
    <3>3. h[j - Len(l)] = s[j + 1]
      BY <1>2, <3>2
    <3> QED
      BY <2>2, <3>1, <3>3
  <2> QED
    BY <2>1, <2>2
<1> QED
  BY <1>3, <1>4, <1>5, <1>6

(* Removing the element at i keeps the others.                             *)
LEMMA RemoveAtContains ==
  ASSUME NEW S, NEW s \in Seq(S), NEW i \in 1 .. Len(s)
  PROVE  /\ RemoveAt(s, i) \in Seq(S)
         /\ \A y : Contains(RemoveAt(s, i), y) => Contains(s, y)
         /\ \A y : Contains(s, y) /\ y # s[i] => Contains(RemoveAt(s, i), y)
<1> DEFINE t == RemoveAt(s, i)
<1>1. /\ t \in Seq(S) /\ Len(t) = Len(s) - 1
      /\ \A j \in 1 .. Len(s) - 1 : t[j] = IF j < i THEN s[j] ELSE s[j + 1]
  BY RemoveAtElements
<1> HIDE DEF t
<1>2. ASSUME NEW y, Contains(s, y), y # s[i]
      PROVE  Contains(t, y)
  <2>1. PICK k \in 1 .. Len(s) : s[k] = y
    BY <1>2 DEF Contains
  <2>2. CASE k < i
    <3>1. k \in 1 .. Len(s) - 1 /\ t[k] = y
      BY <1>1, <2>1, <2>2
    <3> QED
      BY <1>1, <3>1 DEF Contains
  <2>3. CASE k > i
    <3>1. k - 1 \in 1 .. Len(s) - 1 /\ ~(k - 1 < i) /\ (k - 1) + 1 = k
      BY <2>1, <2>3
    <3>2. t[k - 1] = y
      BY <1>1, <2>1, <3>1
    <3> QED
      BY <1>1, <3>1, <3>2 DEF Contains
  <2> QED
    BY <1>2, <2>1, <2>2, <2>3
<1>3. ASSUME NEW y, Contains(t, y)
      PROVE  Contains(s, y)
  <2>1. PICK k \in 1 .. Len(s) - 1 : t[k] = y
    BY <1>1, <1>3 DEF Contains
  <2> QED
    BY <1>1, <2>1 DEF Contains
<1> QED
  BY <1>1, <1>2, <1>3 DEF t

(* A nonempty set of natural numbers has a least element.                  *)
LEMMA LeastMember ==
  ASSUME NEW I, I \subseteq Nat, I # {}
  PROVE  \E x \in I : \A y \in I : x <= y
<1> DEFINE R == OpToRel(<, Nat)
<1>1. IsWellFoundedOn(R, Nat)
  BY NatLessThanWellFounded
<1>2. ASSUME NEW x \in Nat, NEW y \in Nat, ~(<<y, x>> \in R)
      PROVE  x <= y
  BY <1>2 DEF OpToRel
<1> HIDE DEF R
<1>3. \E x \in I : \A y \in I : ~(<<y, x>> \in R)
  BY <1>1, WFMin
<1> QED
  BY <1>2, <1>3

(* The least of a set of numbers is one of them.                           *)
LEMMA MinIsMember ==
  ASSUME NEW I, I \subseteq Nat, I # {}
  PROVE  Min(I) \in I
BY LeastMember DEF Min

(* Induction over the numbers, with a set in the place of a property.      *)
LEMMA SetInduction ==
  ASSUME NEW T, 0 \in T, \A k \in Nat : k \in T => k + 1 \in T
  PROVE  Nat \subseteq T
<1> DEFINE I == Nat \ T
<1> SUFFICES ASSUME I # {} PROVE FALSE
  OBVIOUS
<1>1. PICK k \in I : \A j \in I : k <= j
  BY LeastMember
<1>2. k # 0 /\ k - 1 \in Nat /\ ~(k <= k - 1)
  BY <1>1
<1>3. k - 1 \in T
  BY <1>1, <1>2
<1> QED
  BY <1>1, <1>2, <1>3

(* Removing a node, if the list has it, keeps the others.                  *)
LEMMA RemoveFirstContains ==
  ASSUME NEW S, NEW s \in Seq(S), NEW x
  PROVE  /\ RemoveFirst(s, x) \in Seq(S)
         /\ \A y : Contains(RemoveFirst(s, x), y) => Contains(s, y)
<1>1. CASE Contains(s, x)
  <2> DEFINE I == {i \in 1 .. Len(s) : s[i] = x}
  <2>1. I # {} /\ I \subseteq Nat
    BY <1>1 DEF Contains
  <2>2. RemoveFirst(s, x) = RemoveAt(s, Min(I))
    BY <1>1 DEF RemoveFirst, SelectInSeq, Contains
  <2>3. \A k \in I : k \in 1 .. Len(s)
    OBVIOUS
  <2> HIDE DEF I
  <2>4. Min(I) \in 1 .. Len(s)
    BY <2>1, <2>3, MinIsMember
  <2> QED
    BY <2>2, <2>4, RemoveAtContains
<1>2. CASE ~Contains(s, x)
  <2>1. RemoveFirst(s, x) = s
    BY <1>2 DEF RemoveFirst, Contains
  <2> QED
    BY <2>1
<1> QED
  BY <1>1, <1>2

(* Removing the element at i of a list without duplicates leaves none.     *)
LEMMA RemoveAtInjective ==
  ASSUME NEW S, NEW s \in Seq(S), NEW i \in 1 .. Len(s), IsInjective(s)
  PROVE  IsInjective(RemoveAt(s, i)) /\ ~Contains(RemoveAt(s, i), s[i])
<1> DEFINE t == RemoveAt(s, i)
           from(j) == IF j < i THEN j ELSE j + 1
<1>1. /\ t \in Seq(S) /\ Len(t) = Len(s) - 1
      /\ \A j \in 1 .. Len(s) - 1 : t[j] = s[from(j)]
  BY RemoveAtElements
<1> HIDE DEF t
<1>2. \A j \in 1 .. Len(s) - 1 : from(j) \in 1 .. Len(s) /\ from(j) # i
  OBVIOUS
<1>3. \A j, k \in 1 .. Len(s) - 1 : from(j) = from(k) => j = k
  OBVIOUS
<1>4. \A j, k \in 1 .. Len(s) : s[j] = s[k] => j = k
  BY DEF IsInjective
<1> HIDE DEF from
<1>5. IsInjective(t)
  BY <1>1, <1>2, <1>3, <1>4 DEF IsInjective
<1>6. ~Contains(t, s[i])
  BY <1>1, <1>2, <1>4 DEF Contains
<1> QED
  BY <1>5, <1>6 DEF t

(* What two lists hold together.                                           *)
LEMMA ConcatContains ==
  ASSUME NEW S, NEW s \in Seq(S), NEW t \in Seq(S)
  PROVE  /\ s \o t \in Seq(S)
         /\ \A y : Contains(s \o t, y) <=> Contains(s, y) \/ Contains(t, y)
         /\ IsInjective(s) /\ IsInjective(t) /\ (\A y \in S : ~(Contains(s, y) /\ Contains(t, y)))
              => IsInjective(s \o t)
<1> DEFINE u == s \o t
<1>1. /\ u \in Seq(S) /\ Len(u) = Len(s) + Len(t)
      /\ \A i \in 1 .. Len(s) + Len(t) : u[i] = IF i <= Len(s) THEN s[i] ELSE t[i - Len(s)]
  BY ConcatProperties
<1> HIDE DEF u
<1>2. Len(s) \in Nat /\ Len(t) \in Nat
  OBVIOUS
<1>3. \A i \in 1 .. Len(s) : i \in 1 .. Len(u) /\ u[i] = s[i]
  BY <1>1, <1>2
<1>4. ASSUME NEW i \in 1 .. Len(t)  PROVE i + Len(s) \in 1 .. Len(u) /\ u[i + Len(s)] = t[i]
  <2>1. /\ i + Len(s) \in 1 .. Len(s) + Len(t) /\ ~(i + Len(s) <= Len(s))
        /\ (i + Len(s)) - Len(s) = i
    BY <1>2
  <2> QED
    BY <1>1, <2>1
<1>5. \A i \in 1 .. Len(u) : \/ i \in 1 .. Len(s) /\ u[i] = s[i]
                             \/ i - Len(s) \in 1 .. Len(t) /\ u[i] = t[i - Len(s)]
  BY <1>1, <1>2
<1>6. \A y : Contains(u, y) <=> Contains(s, y) \/ Contains(t, y)
  <2>1. \A y : Contains(s, y) => Contains(u, y)
    BY <1>3 DEF Contains
  <2>2. \A y : Contains(t, y) => Contains(u, y)
    BY <1>4 DEF Contains
  <2>3. \A y : Contains(u, y) => Contains(s, y) \/ Contains(t, y)
    BY <1>5 DEF Contains
  <2> QED
    BY <2>1, <2>2, <2>3
<1>7. ASSUME IsInjective(s), IsInjective(t), \A y \in S : ~(Contains(s, y) /\ Contains(t, y)),
             NEW i \in 1 .. Len(u), NEW j \in 1 .. Len(u), u[i] = u[j]
      PROVE  i = j
  <2>1. \A k \in 1 .. Len(s), l \in 1 .. Len(t) : s[k] # t[l]
    BY <1>7 DEF Contains
  <2>2. \/ i \in 1 .. Len(s) /\ j \in 1 .. Len(s) /\ s[i] = s[j]
        \/ /\ i - Len(s) \in 1 .. Len(t) /\ j - Len(s) \in 1 .. Len(t)
           /\ t[i - Len(s)] = t[j - Len(s)]
    BY <1>5, <1>7, <2>1
  <2>3. CASE i \in 1 .. Len(s) /\ j \in 1 .. Len(s) /\ s[i] = s[j]
    BY <2>3, <1>7 DEF IsInjective
  <2>4. CASE /\ i - Len(s) \in 1 .. Len(t) /\ j - Len(s) \in 1 .. Len(t)
             /\ t[i - Len(s)] = t[j - Len(s)]
    <3>1. i - Len(s) = j - Len(s)
      BY <2>4, <1>7 DEF IsInjective
    <3>2. i \in Int /\ j \in Int
      OBVIOUS
    <3> QED
      BY <3>1, <3>2, <1>2
  <2> QED
    BY <2>2, <2>3, <2>4
<1> QED
  BY <1>1, <1>6, <1>7 DEF IsInjective, u

(* Removing a node of a list that has it once takes exactly it.            *)
LEMMA RemoveFirstExactly ==
  ASSUME NEW S, NEW s \in Seq(S), NEW x, Contains(s, x), IsInjective(s)
  PROVE  /\ IsInjective(RemoveFirst(s, x))
         /\ \A y : Contains(RemoveFirst(s, x), y) <=> Contains(s, y) /\ y # x
<1> DEFINE I == {i \in 1 .. Len(s) : s[i] = x}
<1>1. I # {} /\ I \subseteq Nat
  BY DEF Contains
<1>2. RemoveFirst(s, x) = RemoveAt(s, Min(I))
  BY DEF RemoveFirst, SelectInSeq, Contains
<1>3. \A k \in I : k \in 1 .. Len(s) /\ s[k] = x
  OBVIOUS
<1> HIDE DEF I
<1>4. PICK k \in 1 .. Len(s) : k = Min(I) /\ s[k] = x
  BY <1>1, <1>3, MinIsMember
<1> QED
  BY <1>2, <1>4, RemoveAtContains, RemoveAtInjective

(* Where the removed node was.                                             *)
LEMMA RemoveFirstAt ==
  ASSUME NEW S, NEW s \in Seq(S), NEW i \in 1 .. Len(s), IsInjective(s)
  PROVE  RemoveFirst(s, s[i]) = RemoveAt(s, i)
<1> DEFINE I == {j \in 1 .. Len(s) : s[j] = s[i]}
<1>1. Contains(s, s[i])
  BY DEF Contains
<1>2. RemoveFirst(s, s[i]) = RemoveAt(s, Min(I))
  BY <1>1 DEF RemoveFirst, SelectInSeq, Contains
<1>3. I = {i} /\ I \subseteq Nat /\ I # {}
  BY DEF IsInjective
<1> HIDE DEF I
<1>4. Min(I) \in I
  BY <1>3, MinIsMember
<1> QED
  BY <1>2, <1>3, <1>4

(* A function on an interval from 1 is a list.                             *)
LEMMA FunIsSeq ==
  ASSUME NEW S, NEW n \in Nat, NEW f \in [1 .. n -> S]
  PROVE  f \in Seq(S) /\ Len(f) = n
<1>1. f = [i \in 1 .. n |-> f[i]]
  OBVIOUS
<1>2. [i \in 1 .. n |-> f[i]] \in Seq(S)
  OBVIOUS
<1>3. Len([i \in 1 .. n |-> f[i]]) = n
  OBVIOUS
<1> QED
  BY <1>1, <1>2, <1>3

(* A finite set as a list has each of its members once.                    *)
LEMMA SeqOfSet ==
  ASSUME NEW S, IsFiniteSet(S)
  PROVE  /\ SetToSeq(S) \in Seq(S) /\ IsInjective(SetToSeq(S))
         /\ \A x : Contains(SetToSeq(S), x) <=> x \in S
<1> DEFINE n == Cardinality(S)
           f == SetToSeq(S)
<1>1. n \in Nat /\ ExistsBijection(1 .. n, S)
  BY FS_CardinalityType
<1>2. PICK g \in Bijection(1 .. n, S) : TRUE
  BY <1>1 DEF ExistsBijection
<1>3. g \in [1 .. n -> S] /\ IsInjective(g)
  BY <1>2 DEF Bijection, Injection
<1>4. f \in [1 .. n -> S] /\ IsInjective(f)
  BY <1>3 DEF SetToSeq
<1> HIDE DEF f
<1>5. f \in Seq(S) /\ Len(f) = n
  BY <1>1, <1>4, FunIsSeq
<1>6. IsFiniteSet(1 .. n) /\ Cardinality(1 .. n) = n
  BY <1>1, FS_Interval
<1>7. f \in Surjection(1 .. n, S)
  BY <1>4, <1>6, FS_Injection DEF Injection
<1>8. \A x \in S : \E i \in 1 .. n : f[i] = x
  BY <1>7 DEF Surjection
<1> QED
  BY <1>1, <1>4, <1>5, <1>8 DEF Contains, f
-----------------------------------------------------------------------------
(* Induction over lists: what holds of the empty list, and of a list with  *)
(* one element more when it holds of the list, holds of all.               *)
LEMMA ListInduction ==
  ASSUME NEW S, NEW P, P \subseteq Seq(S), <<>> \in P,
         \A s \in P, x \in S : Append(s, x) \in P
  PROVE  P = Seq(S)
<1> DEFINE T == {n \in Nat : \A s \in Seq(S) : Len(s) = n => s \in P}
<1>1. 0 \in T
  <2>1. \A s \in Seq(S) : Len(s) = 0 => s = <<>>
    OBVIOUS
  <2> QED
    BY <2>1
<1>2. ASSUME NEW n \in Nat, n \in T  PROVE n + 1 \in T
  <2> SUFFICES ASSUME NEW s \in Seq(S), Len(s) = n + 1  PROVE s \in P
    OBVIOUS
  <2>1. s # <<>> /\ Len(s) \in Nat
    OBVIOUS
  <2>2. Front(s) \in Seq(S) /\ Last(s) \in S /\ Len(Front(s)) = n /\ s = Append(Front(s), Last(s))
    <3>1. Front(s) \in Seq(S) /\ Last(s) \in S
      BY <2>1, FrontContains
    <3>2. Len(Front(s)) = n
      BY <2>1, LenOfSubSeq DEF Front
    <3>3. \A i \in 1 .. n : Front(s)[i] = s[i]
      BY <2>1 DEF Front
    <3>4. /\ Append(Front(s), Last(s)) \in Seq(S) /\ Len(Append(Front(s), Last(s))) = n + 1
          /\ \A i \in 1 .. n + 1 : Append(Front(s), Last(s))[i] = s[i]
      <4>1. PICK t, x : t = Front(s) /\ x = Last(s)
        OBVIOUS
      <4>2. t \in Seq(S) /\ x \in S /\ Len(t) = n /\ x = s[n + 1] /\ \A i \in 1 .. n : t[i] = s[i]
        BY <3>1, <3>2, <3>3, <4>1 DEF Last
      <4>3. /\ Append(t, x) \in Seq(S) /\ Len(Append(t, x)) = n + 1
            /\ \A i \in 1 .. n : Append(t, x)[i] = t[i]
            /\ Append(t, x)[n + 1] = x
        BY <4>2, AppendProperties
      <4>4. \A i \in 1 .. n + 1 : i = n + 1 \/ i \in 1 .. n
        OBVIOUS
      <4> QED
        BY <4>1, <4>2, <4>3, <4>4
    <3>5. PICK u : u = Append(Front(s), Last(s))
      OBVIOUS
    <3>6. u \in Seq(S) /\ Len(u) = n + 1 /\ \A i \in 1 .. n + 1 : u[i] = s[i]
      BY <3>4, <3>5
    <3>7. u = s
      BY <3>6, SeqEqual, SMTT(30)
    <3> QED
      BY <3>1, <3>2, <3>5, <3>7
  <2> QED
    BY <1>2, <2>2
<1> HIDE DEF T
<1>3. Nat \subseteq T
  BY <1>1, <1>2, SetInduction
<1>4. \A s \in Seq(S) : s \in P
  BY <1>3 DEF T
<1> QED
  BY <1>4

(* Appending to the second of two lists.                                   *)
LEMMA ConcatAppend ==
  ASSUME NEW S, NEW s \in Seq(S), NEW t \in Seq(S), NEW x \in S
  PROVE  s \o Append(t, x) = Append(s \o t, x)
<1> DEFINE u == s \o t
           v == Append(t, x)
           w == s \o v
<1>1. /\ Len(s) \in Nat /\ Len(t) \in Nat
      /\ v \in Seq(S) /\ Len(v) = Len(t) + 1 /\ v[Len(t) + 1] = x
      /\ \A i \in 1 .. Len(t) : v[i] = t[i]
  OBVIOUS
<1>2. /\ u \in Seq(S) /\ Len(u) = Len(s) + Len(t)
      /\ \A i \in 1 .. Len(s) + Len(t) : u[i] = IF i <= Len(s) THEN s[i] ELSE t[i - Len(s)]
  BY ConcatProperties
<1> HIDE DEF v
<1>3. /\ w \in Seq(S) /\ Len(w) = Len(s) + Len(v)
      /\ \A i \in 1 .. Len(s) + Len(v) : w[i] = IF i <= Len(s) THEN s[i] ELSE v[i - Len(s)]
  BY <1>1, ConcatProperties
<1> HIDE DEF u, w
<1>4. /\ Append(u, x) \in Seq(S) /\ Len(Append(u, x)) = Len(u) + 1
      /\ Append(u, x)[Len(u) + 1] = x /\ \A i \in 1 .. Len(u) : Append(u, x)[i] = u[i]
  BY <1>2
<1>5. ASSUME NEW i \in 1 .. Len(w)  PROVE w[i] = Append(u, x)[i]
  <2>1. CASE i = Len(u) + 1
    <3>1. ~(i <= Len(s)) /\ i - Len(s) = Len(t) + 1 /\ i \in 1 .. Len(s) + Len(v)
      BY <1>1, <1>2, <2>1
    <3> QED
      BY <1>1, <1>3, <1>4, <2>1, <3>1
  <2>2. CASE i # Len(u) + 1
    <3>1. i \in 1 .. Len(s) + Len(t) /\ i \in 1 .. Len(s) + Len(v) /\ i \in 1 .. Len(u)
      BY <1>1, <1>2, <1>3, <2>2
    <3>2. ~(i <= Len(s)) => i - Len(s) \in 1 .. Len(t)
      BY <1>1, <3>1
    <3> QED
      BY <1>1, <1>2, <1>3, <1>4, <3>1, <3>2
  <2> QED
    BY <2>1, <2>2
<1>6. Len(w) = Len(Append(u, x))
  BY <1>1, <1>2, <1>3, <1>4
<1>7. w = Append(u, x)
  BY <1>3, <1>4, <1>5, <1>6, SeqEqual
<1> QED
  BY <1>7 DEF u, v, w

(* One list after another, from either end.                                *)
LEMMA ConcatAssoc ==
  ASSUME NEW S, NEW s \in Seq(S), NEW t \in Seq(S)
  PROVE  \A u \in Seq(S) : (s \o t) \o u = s \o (t \o u)
<1> DEFINE P == {u \in Seq(S) : (s \o t) \o u = s \o (t \o u)}
<1>1. s \o t \in Seq(S)
  BY ConcatProperties
<1>2. <<>> \in P
  <2>1. <<>> \in Seq(S) /\ (s \o t) \o <<>> = s \o t /\ t \o <<>> = t
    BY <1>1, ConcatEmptySeq
  <2> QED
    BY <2>1
<1>3. ASSUME NEW u \in P, NEW x \in S  PROVE Append(u, x) \in P
  <2> DEFINE v == Append(u, x)
             w == s \o t
  <2>1. u \in Seq(S) /\ v \in Seq(S) /\ w \in Seq(S) /\ t \o u \in Seq(S)
    BY <1>1, ConcatProperties
  <2>2. w \o v = Append(w \o u, x)
    <3> HIDE DEF w
    <3> QED
      BY <2>1, ConcatAppend
  <2>3. t \o v = Append(t \o u, x)
    BY <2>1, ConcatAppend
  <2>4. s \o Append(t \o u, x) = Append(s \o (t \o u), x)
    <3> DEFINE k == t \o u
    <3>1. k \in Seq(S)
      BY <2>1
    <3> HIDE DEF k
    <3>2. s \o Append(k, x) = Append(s \o k, x)
      BY <3>1, ConcatAppend
    <3> QED
      BY <3>2 DEF k
  <2>5. w \o u = s \o (t \o u)
    OBVIOUS
  <2>6. w \o v = s \o (t \o v)
    BY <2>2, <2>3, <2>4, <2>5
  <2> QED
    BY <2>1, <2>6
<1> HIDE DEF P
<1>4. P = Seq(S)
  <2>1. P \subseteq Seq(S)
    BY DEF P
  <2> QED
    BY <1>2, <1>3, <2>1, ListInduction
<1> QED
  BY <1>4 DEF P

(* Lists that follow one another, from any of them.                        *)
LEMMA Assoc ==
  ASSUME NEW S
  PROVE  \A s, t, u \in Seq(S) : (s \o t) \o u = s \o (t \o u)
BY ConcatAssoc

(* A list is its head and the rest.                                        *)
LEMMA HeadTail ==
  ASSUME NEW S, NEW q \in Seq(S), q # <<>>
  PROVE  \E l \in Seq(S), h \in S, k \in Seq(S) :
           /\ h = Head(q) /\ k = Tail(q) /\ l = Append(<<>>, h) /\ q = l \o k
<1>1. Head(q) \in S /\ Tail(q) \in Seq(S)
  BY TailContains
<1>2. PICK h \in S, k \in Seq(S) : h = Head(q) /\ k = Tail(q)
  BY <1>1
<1>3. PICK l \in Seq(S) : l = Append(<<>>, h)
  <2>1. <<>> \in Seq(S) /\ Append(<<>>, h) \in Seq(S)
    OBVIOUS
  <2> QED
    BY <2>1
<1> DEFINE u == l \o k
<1>4. /\ Len(l) = 1 /\ l[1] = h
  BY <1>3
<1>5. /\ u \in Seq(S) /\ Len(u) = 1 + Len(k)
      /\ \A i \in 1 .. 1 + Len(k) : u[i] = IF i <= 1 THEN l[i] ELSE k[i - 1]
  <2>1. /\ u \in Seq(S) /\ Len(u) = Len(l) + Len(k)
        /\ \A i \in 1 .. Len(l) + Len(k) : u[i] = IF i <= Len(l) THEN l[i] ELSE k[i - Len(l)]
    BY ConcatProperties
  <2> HIDE DEF u
  <2> QED
    BY <1>4, <2>1
<1> HIDE DEF u
<1>6. /\ Len(q) = 1 + Len(k) /\ q[1] = h /\ Len(k) \in Nat
      /\ \A i \in 1 .. Len(k) : k[i] = q[i + 1]
  BY <1>2
<1>7. ASSUME NEW i \in 1 .. 1 + Len(k)  PROVE u[i] = q[i]
  <2>0. PICK n \in Nat : n = Len(k)
    BY <1>6
  <2>1. u[i] = IF i <= 1 THEN l[i] ELSE k[i - 1]
    BY <1>5
  <2>2. CASE i = 1
    <3>1. i <= 1
      BY <2>2
    <3> QED
      BY <1>4, <1>6, <2>1, <2>2, <3>1
  <2>3. CASE i # 1
    <3>1. ~(i <= 1) /\ i - 1 \in 1 .. n /\ (i - 1) + 1 = i
      BY <2>0, <2>3
    <3>2. k[i - 1] = q[i]
      BY <1>6, <2>0, <3>1
    <3> QED
      BY <2>1, <3>1, <3>2
  <2> QED
    BY <2>2, <2>3
<1>8. u = q
  BY <1>5, <1>6, <1>7, SeqEqual
<1> QED
  BY <1>2, <1>3, <1>8 DEF u

(* The line, with the head of the chain in the middle.                     *)
LEMMA SplitHead ==
  ASSUME NEW S, NEW e \in Seq(S), NEW q \in Seq(S), q # <<>>, NEW t \in Seq(S)
  PROVE  /\ Tail(q) \o t \in Seq(S)
         /\ (e \o q) \o t = Append(e, Head(q)) \o (Tail(q) \o t)
<1>1. PICK l \in Seq(S), h \in S, k \in Seq(S) :
        h = Head(q) /\ k = Tail(q) /\ l = Append(<<>>, h) /\ q = l \o k
  BY HeadTail
<1>2. PICK a \in Seq(S) : a = Append(e, h)
  <2>1. Append(e, h) \in Seq(S)
    OBVIOUS
  <2> QED
    BY <2>1
<1>3. e \o l = a
  <2>1. <<>> \in Seq(S) /\ e \o <<>> = e
    BY ConcatEmptySeq
  <2>2. e \o Append(<<>>, h) = Append(e \o <<>>, h)
    BY <2>1, ConcatAppend
  <2> QED
    BY <1>1, <1>2, <2>1, <2>2
<1>4. e \o q = a \o k
  <2>1. (e \o l) \o k = e \o (l \o k)
    BY Assoc, SMTT(30)
  <2> QED
    BY <1>1, <1>3, <2>1
<1>5. (a \o k) \o t = a \o (k \o t)
  BY Assoc, SMTT(30)
<1>6. k \o t \in Seq(S)
  BY ConcatProperties
<1> QED
  BY <1>1, <1>2, <1>4, <1>5, <1>6

(* The line, without the head of the chain.                                *)
LEMMA Split ==
  ASSUME NEW S, NEW e \in Seq(S), NEW q \in Seq(S), q # <<>>, NEW t \in Seq(S)
  PROVE  /\ Head(q) \in S /\ Tail(q) \in Seq(S) /\ Tail(q) \o t \in Seq(S)
         /\ (e \o Tail(q)) \o t = e \o (Tail(q) \o t)
<1>1. PICK h \in S, k \in Seq(S) : h = Head(q) /\ k = Tail(q)
  BY TailContains
<1>2. (e \o k) \o t = e \o (k \o t)
  BY Assoc, SMTT(30)
<1>3. k \o t \in Seq(S)
  BY ConcatProperties
<1> QED
  BY <1>1, <1>2, <1>3

(* An element between two lists.                                           *)
LEMMA Middle ==
  ASSUME NEW S, NEW a \in Seq(S), NEW b \in Seq(S), NEW x \in S
  PROVE  LET s == Append(a, x) \o b IN
         /\ s \in Seq(S) /\ Len(a) + 1 \in 1 .. Len(s) /\ s[Len(a) + 1] = x
         /\ \A j \in 1 .. Len(a) : s[j] = a[j]
         /\ RemoveAt(s, Len(a) + 1) = a \o b
         /\ \A y : Contains(s, y) <=> Contains(a, y) \/ y = x \/ Contains(b, y)
<1>0. PICK s : s = Append(a, x) \o b
  OBVIOUS
<1> DEFINE k == Len(a) + 1
           c == Append(a, x)
           t == a \o b
           r == RemoveAt(s, k)
<1>1. Len(a) \in Nat /\ Len(b) \in Nat /\ k - Len(a) = 1
  OBVIOUS
<1>2. /\ c \in Seq(S) /\ Len(c) = k /\ c[k] = x
      /\ \A j \in 1 .. Len(a) : c[j] = a[j]
      /\ \A y : Contains(c, y) <=> Contains(a, y) \/ y = x
  <2>1. \A y : Contains(c, y) <=> Contains(a, y) \/ y = x
    BY AppendContains
  <2> QED
    BY <2>1
<1> HIDE DEF c
<1>4. /\ s \in Seq(S) /\ Len(s) = k + Len(b)
      /\ \A i \in 1 .. k + Len(b) : s[i] = IF i <= k THEN c[i] ELSE b[i - k]
      /\ \A y : Contains(s, y) <=> Contains(c, y) \/ Contains(b, y)
  <2>1. s = c \o b
    BY <1>0 DEF c
  <2>2. /\ c \o b \in Seq(S) /\ Len(c \o b) = Len(c) + Len(b)
        /\ \A i \in 1 .. Len(c) + Len(b) : (c \o b)[i] = IF i <= Len(c) THEN c[i] ELSE b[i - Len(c)]
    BY <1>2, ConcatProperties
  <2>3. \A y : Contains(c \o b, y) <=> Contains(c, y) \/ Contains(b, y)
    BY <1>2, ConcatContains
  <2> HIDE DEF k
  <2> QED
    BY <1>2, <2>1, <2>2, <2>3
<1>5. /\ t \in Seq(S) /\ Len(t) = Len(a) + Len(b)
      /\ \A i \in 1 .. Len(a) + Len(b) : t[i] = IF i <= Len(a) THEN a[i] ELSE b[i - Len(a)]
  BY ConcatProperties
<1>6. k \in 1 .. Len(s) /\ k \in Nat
  BY <1>1, <1>4
<1>7. /\ r \in Seq(S) /\ Len(r) = Len(s) - 1
      /\ \A j \in 1 .. Len(s) - 1 : r[j] = IF j < k THEN s[j] ELSE s[j + 1]
  BY <1>4, <1>6, RemoveAtElements
<1> HIDE DEF r, t
<1>8. Len(r) = Len(t)
  BY <1>1, <1>4, <1>5, <1>7
<1>9. ASSUME NEW j \in 1 .. Len(r)  PROVE r[j] = t[j]
  <2>1. j \in 1 .. Len(s) - 1 /\ j \in 1 .. Len(a) + Len(b)
    BY <1>5, <1>7, <1>8
  <2>2. CASE j < k
    <3>1. j \in 1 .. Len(a) /\ j \in 1 .. k + Len(b) /\ j <= k
      BY <1>1, <2>1, <2>2
    <3> QED
      <4>1. r[j] = s[j] /\ s[j] = c[j] /\ c[j] = a[j]
        BY <1>2, <1>4, <1>7, <2>1, <2>2, <3>1
      <4>2. t[j] = a[j]
        BY <1>5, <2>1, <3>1
      <4> QED
        BY <4>1, <4>2
  <2>3. CASE ~(j < k)
    <3>1. j + 1 \in 1 .. k + Len(b) /\ ~(j + 1 <= k) /\ (j + 1) - k = j - Len(a) /\ ~(j <= Len(a))
      BY <1>1, <2>1, <2>3
    <3> QED
      BY <1>4, <1>5, <1>7, <2>1, <2>3, <3>1
  <2> QED
    BY <2>2, <2>3
<1>10. r = t
  BY <1>5, <1>7, <1>8, <1>9, SeqEqual
<1>11. s[k] = x /\ \A j \in 1 .. Len(a) : s[j] = a[j]
  <2>1. k \in 1 .. k + Len(b) /\ k <= k /\ \A j \in 1 .. Len(a) : j \in 1 .. k + Len(b) /\ j <= k
    BY <1>1
  <2> QED
    BY <1>2, <1>4, <2>1
<1> QED
  BY <1>0, <1>2, <1>4, <1>6, <1>10, <1>11 DEF r, t

(* Without the element, the two lists follow one another.                  *)
LEMMA MiddleRemoved ==
  ASSUME NEW S, NEW a \in Seq(S), NEW b \in Seq(S), NEW x \in S
  PROVE  RemoveAt(Append(a, x) \o b, Len(a) + 1) = a \o b
<1>1. Append(a, x) \o b \in Seq(S) /\ RemoveAt(Append(a, x) \o b, Len(a) + 1) = a \o b
  BY Middle
<1> QED
  BY <1>1

(* What such a list contains.                                              *)
LEMMA MiddleContains ==
  ASSUME NEW S, NEW a \in Seq(S), NEW b \in Seq(S), NEW x \in S
  PROVE  \A y : Contains(Append(a, x) \o b, y) <=> Contains(a, y) \/ y = x \/ Contains(b, y)
<1>1. /\ Append(a, x) \o b \in Seq(S)
      /\ \A y : Contains(Append(a, x) \o b, y) <=> Contains(a, y) \/ y = x \/ Contains(b, y)
  BY Middle
<1> QED
  BY <1>1

(* A list around one of its elements.                                      *)
LEMMA Around ==
  ASSUME NEW S, NEW q \in Seq(S), NEW i \in 1 .. Len(q)
  PROVE  LET a == SubSeq(q, 1, i - 1)
             b == SubSeq(q, i + 1, Len(q))
         IN  /\ a \in Seq(S) /\ b \in Seq(S) /\ q[i] \in S
             /\ q = Append(a, q[i]) \o b
             /\ RemoveAt(q, i) = a \o b
             /\ \A y : Contains(a, y) => \E j \in 1 .. i - 1 : q[j] = y
<1> DEFINE a == SubSeq(q, 1, i - 1)
           b == SubSeq(q, i + 1, Len(q))
           x == q[i]
           s == Append(a, x) \o b
<1>1. Len(q) \in Nat /\ i \in Nat /\ x \in S /\ i - 1 \in Nat
  OBVIOUS
<1>2. /\ a \in Seq(S) /\ Len(a) = i - 1
      /\ \A j \in 1 .. i - 1 : a[j] = q[j]
  BY LenOfSubSeq
<1>3. /\ b \in Seq(S) /\ Len(b) = Len(q) - i
      /\ \A j \in 1 .. Len(q) - i : b[j] = q[i + j]
  <2>1. Len(b) = Len(q) - (i + 1) + 1
    BY LenOfSubSeq
  <2>2. b \in Seq(S) /\ \A j \in 1 .. Len(q) - i : b[j] = q[i + j]
    OBVIOUS
  <2> HIDE DEF b
  <2> QED
    BY <1>1, <2>1, <2>2
<1>4. RemoveAt(q, i) = a \o b
  BY DEF RemoveAt
<1> HIDE DEF a, b, x
<1>5. /\ Append(a, x) \in Seq(S) /\ Len(Append(a, x)) = i /\ Append(a, x)[i] = x
      /\ \A j \in 1 .. i - 1 : Append(a, x)[j] = a[j]
  BY <1>1, <1>2, SMTT(30)
<1>6. q = s
  <2> DEFINE c == Append(a, x)
  <2>1. c \in Seq(S) /\ Len(c) = i /\ c[i] = x /\ \A j \in 1 .. i - 1 : c[j] = a[j]
    BY <1>5
  <2> HIDE DEF c
  <2>2. /\ c \o b \in Seq(S) /\ Len(c \o b) = Len(c) + Len(b)
        /\ \A j \in 1 .. Len(c) + Len(b) : (c \o b)[j] = IF j <= Len(c) THEN c[j] ELSE b[j - Len(c)]
    BY <1>3, <2>1, ConcatProperties
  <2>3. Len(c) + Len(b) = Len(q)
    BY <1>1, <1>3, <2>1
  <2>4. ASSUME NEW j \in 1 .. Len(q)  PROVE q[j] = (c \o b)[j]
    <3>1. CASE j < i
      <4>1. j \in 1 .. i - 1 /\ j <= Len(c)
        BY <1>1, <2>1, <3>1
      <4> QED
        BY <1>2, <2>1, <2>2, <2>3, <4>1
    <3>2. CASE j = i
      <4>1. j <= Len(c)
        BY <1>1, <2>1, <3>2
      <4> QED
        BY <2>1, <2>2, <2>3, <3>2, <4>1 DEF x
    <3>3. CASE j > i
      <4>1. ~(j <= Len(c)) /\ j - Len(c) \in 1 .. Len(q) - i /\ i + (j - Len(c)) = j
        BY <1>1, <2>1, <3>3
      <4> QED
        BY <1>3, <2>1, <2>2, <2>3, <4>1
    <3> QED
      <4>1. j < i \/ j = i \/ j > i
        OBVIOUS
      <4> QED
        BY <3>1, <3>2, <3>3, <4>1
  <2>5. q = c \o b
    BY <2>2, <2>3, <2>4, SeqEqual
  <2> QED
    BY <2>5 DEF c
<1>7. \A y : Contains(a, y) => \E j \in 1 .. i - 1 : q[j] = y
  BY <1>2 DEF Contains
<1> QED
  BY <1>1, <1>2, <1>3, <1>4, <1>6, <1>7 DEF a, b, x
-----------------------------------------------------------------------------
(* What a function gives for the elements of a set.                        *)
Values(g, S) == {g[y] : y \in S}

(* The list of what a function gives for each element of a list.           *)
Each(s, g) == [i \in DOMAIN s |-> g[s[i]]]

(* Its type.                                                               *)
LEMMA EachType ==
  ASSUME NEW S, NEW g
  PROVE  \A s \in Seq(S) : Each(s, g) \in Seq(Values(g, S))
<1> SUFFICES ASSUME NEW s \in Seq(S) PROVE Each(s, g) \in Seq(Values(g, S))
  OBVIOUS
<1> DEFINE e == Each(s, g)
<1>1. Len(s) \in Nat /\ DOMAIN s = 1 .. Len(s) /\ \A i \in 1 .. Len(s) : s[i] \in S
  OBVIOUS
<1>2. e \in [1 .. Len(s) -> Values(g, S)]
  BY <1>1 DEF Each, Values
<1> HIDE DEF e
<1> QED
  BY <1>1, <1>2, FunIsSeq DEF e

(* The values of a list with one element less.                             *)
LEMMA EachRemoveAt ==
  ASSUME NEW S, NEW g, NEW s \in Seq(S), NEW i \in 1 .. Len(s)
  PROVE  RemoveAt(Each(s, g), i) = Each(RemoveAt(s, i), g)
<1> DEFINE e == Each(s, g)
           t == RemoveAt(s, i)
<1>0. \A q \in Seq(S) :
        /\ Each(q, g) \in Seq(Values(g, S)) /\ Len(Each(q, g)) = Len(q)
        /\ \A j \in 1 .. Len(q) : Each(q, g)[j] = g[q[j]]
  <2>1. \A q \in Seq(S) : Each(q, g) \in Seq(Values(g, S))
    BY EachType, Zenon
  <2>2. \A q \in Seq(S) :
          Len(Each(q, g)) = Len(q) /\ \A j \in 1 .. Len(q) : Each(q, g)[j] = g[q[j]]
    <3> SUFFICES ASSUME NEW q \in Seq(S)
                 PROVE  Len(Each(q, g)) = Len(q) /\ \A j \in 1 .. Len(q) : Each(q, g)[j] = g[q[j]]
      OBVIOUS
    <3>1. Len(q) \in Nat /\ DOMAIN q = 1 .. Len(q)
      OBVIOUS
    <3>2. Each(q, g) = [j \in 1 .. Len(q) |-> g[q[j]]]
      BY <3>1, Zenon DEF Each
    <3> QED
      BY <3>1, <3>2
  <2> QED
    BY <2>1, <2>2, Zenon
<1>1. e \in Seq(Values(g, S)) /\ Len(e) = Len(s) /\ \A j \in 1 .. Len(s) : e[j] = g[s[j]]
  BY <1>0
<1>2. /\ t \in Seq(S) /\ Len(t) = Len(s) - 1
      /\ \A j \in 1 .. Len(s) - 1 : t[j] = IF j < i THEN s[j] ELSE s[j + 1]
  BY RemoveAtElements
<1> HIDE DEF e, t
<1>3. /\ Each(t, g) \in Seq(Values(g, S)) /\ Len(Each(t, g)) = Len(t)
      /\ \A j \in 1 .. Len(t) : Each(t, g)[j] = g[t[j]]
  BY <1>0, <1>2
<1>4. /\ RemoveAt(e, i) \in Seq(Values(g, S)) /\ Len(RemoveAt(e, i)) = Len(s) - 1
      /\ \A j \in 1 .. Len(s) - 1 : RemoveAt(e, i)[j] = IF j < i THEN e[j] ELSE e[j + 1]
  <2>1. /\ RemoveAt(e, i) \in Seq(Values(g, S)) /\ Len(RemoveAt(e, i)) = Len(e) - 1
        /\ \A j \in 1 .. Len(e) - 1 : RemoveAt(e, i)[j] = IF j < i THEN e[j] ELSE e[j + 1]
    BY <1>1, RemoveAtElements
  <2> QED
    BY <1>1, <2>1
<1>5. ASSUME NEW j \in 1 .. Len(s) - 1  PROVE RemoveAt(e, i)[j] = Each(t, g)[j]
  <2>1. PICK n \in Nat : n = Len(s)
    OBVIOUS
  <2>2. j \in 1 .. n /\ j + 1 \in 1 .. n /\ j \in 1 .. Len(t) /\ j \in 1 .. n - 1
    BY <1>2, <2>1
  <2>3. Each(t, g)[j] = g[t[j]]
    BY <1>3, <2>2
  <2>4. CASE j < i
    <3>1. t[j] = s[j] /\ RemoveAt(e, i)[j] = e[j]
      BY <1>2, <1>4, <2>1, <2>2, <2>4
    <3>2. e[j] = g[s[j]]
      BY <1>1, <2>1, <2>2
    <3> QED
      BY <2>3, <3>1, <3>2
  <2>5. CASE ~(j < i)
    <3>1. t[j] = s[j + 1] /\ RemoveAt(e, i)[j] = e[j + 1]
      BY <1>2, <1>4, <2>1, <2>2, <2>5
    <3>2. e[j + 1] = g[s[j + 1]]
      BY <1>1, <2>1, <2>2
    <3> QED
      BY <2>3, <3>1, <3>2
  <2> QED
    BY <2>4, <2>5
<1>6. PICK u, v : u = RemoveAt(e, i) /\ v = Each(t, g)
  OBVIOUS
<1>7. u = v
  <2>1. u \in Seq(Values(g, S)) /\ v \in Seq(Values(g, S)) /\ Len(u) = Len(v)
    BY <1>2, <1>3, <1>4, <1>6
  <2>2. \A j \in 1 .. Len(u) : u[j] = v[j]
    BY <1>4, <1>5, <1>6
  <2> QED
    BY <2>1, <2>2, SeqEqual, SMTT(30)
<1> QED
  BY <1>6, <1>7 DEF e, t

(* The values of a list with one element more.                             *)
LEMMA EachAppend ==
  ASSUME NEW S, NEW g, NEW s \in Seq(S), NEW x \in S
  PROVE  Each(Append(s, x), g) = Append(Each(s, g), g[x])
<1> DEFINE e == Each(s, g)
           t == Append(s, x)
<1>0. \A q \in Seq(S) :
        /\ Each(q, g) \in Seq(Values(g, S)) /\ Len(Each(q, g)) = Len(q)
        /\ \A j \in 1 .. Len(q) : Each(q, g)[j] = g[q[j]]
  <2>1. \A q \in Seq(S) : Each(q, g) \in Seq(Values(g, S))
    BY EachType, Zenon
  <2>2. \A q \in Seq(S) :
          Len(Each(q, g)) = Len(q) /\ \A j \in 1 .. Len(q) : Each(q, g)[j] = g[q[j]]
    <3> SUFFICES ASSUME NEW q \in Seq(S)
                 PROVE  Len(Each(q, g)) = Len(q) /\ \A j \in 1 .. Len(q) : Each(q, g)[j] = g[q[j]]
      OBVIOUS
    <3>1. Len(q) \in Nat /\ DOMAIN q = 1 .. Len(q)
      OBVIOUS
    <3>2. Each(q, g) = [j \in 1 .. Len(q) |-> g[q[j]]]
      BY <3>1, Zenon DEF Each
    <3> QED
      BY <3>1, <3>2
  <2> QED
    BY <2>1, <2>2, Zenon
<1>1. e \in Seq(Values(g, S)) /\ Len(e) = Len(s) /\ \A j \in 1 .. Len(s) : e[j] = g[s[j]]
  BY <1>0
<1>2. /\ t \in Seq(S) /\ Len(t) = Len(s) + 1 /\ t[Len(s) + 1] = x
      /\ \A j \in 1 .. Len(s) : t[j] = s[j]
  OBVIOUS
<1> HIDE DEF e, t
<1>3. /\ Each(t, g) \in Seq(Values(g, S)) /\ Len(Each(t, g)) = Len(t)
      /\ \A j \in 1 .. Len(t) : Each(t, g)[j] = g[t[j]]
  BY <1>0, <1>2
<1>4. Len(s) \in Nat /\ g[x] \in Values(g, S)
  BY DEF Values
<1>5. /\ Append(e, g[x]) \in Seq(Values(g, S)) /\ Len(Append(e, g[x])) = Len(s) + 1
      /\ Append(e, g[x])[Len(s) + 1] = g[x]
      /\ \A j \in 1 .. Len(s) : Append(e, g[x])[j] = e[j]
  BY <1>1, <1>4
<1>6. \A j \in 1 .. Len(s) + 1 : j = Len(s) + 1 \/ j \in 1 .. Len(s)
  BY <1>4
<1>7. \A j \in 1 .. Len(s) + 1 : Each(t, g)[j] = Append(e, g[x])[j]
  BY <1>1, <1>2, <1>3, <1>5, <1>6
<1>8. Each(t, g) = Append(e, g[x])
  BY <1>2, <1>3, <1>5, <1>7, SeqEqual
<1> QED
  BY <1>8 DEF e, t

(* Functions that agree on the elements give the same values.              *)
LEMMA EachSame ==
  ASSUME NEW S, NEW s \in Seq(S), NEW g, NEW h, \A y : Contains(s, y) => g[y] = h[y]
  PROVE  Each(s, g) = Each(s, h)
<1>1. DOMAIN s = 1 .. Len(s)
  OBVIOUS
<1>2. \A i \in DOMAIN s : g[s[i]] = h[s[i]]
  BY <1>1 DEF Contains
<1> QED
  BY <1>2 DEF Each
-----------------------------------------------------------------------------
(* What is before what in a list.                                          *)
Precedes(q, x, y) == \E i, j \in DOMAIN q : i < j /\ q[i] = x /\ q[j] = y

(* Of two elements one is before the other.                                *)
LEMMA PrecedesAfter ==
  ASSUME NEW S, NEW q \in Seq(S)
  PROVE  /\ \A x, y : Precedes(q, x, y) => Contains(q, x) /\ Contains(q, y)
         /\ \A x, y : Contains(q, x) /\ Contains(q, y) => x = y \/ Precedes(q, x, y) \/ Precedes(q, y, x)
<1>1. Len(q) \in Nat /\ DOMAIN q = 1 .. Len(q)
  OBVIOUS
<1>2. \A i, j \in 1 .. Len(q) : i = j \/ i < j \/ j < i
  BY <1>1
<1>3. \A x, y : Precedes(q, x, y) => Contains(q, x) /\ Contains(q, y)
  BY <1>1, Zenon DEF Precedes, Contains
<1>4. ASSUME NEW x, NEW y, Contains(q, x), Contains(q, y)
      PROVE  x = y \/ Precedes(q, x, y) \/ Precedes(q, y, x)
  <2>1. PICK i, j \in 1 .. Len(q) : q[i] = x /\ q[j] = y
    BY <1>1, <1>4 DEF Contains
  <2> QED
    BY <1>1, <1>2, <2>1 DEF Precedes
<1> QED
  BY <1>3, <1>4

(* What is appended comes after all the others.                            *)
LEMMA PrecedesAppended ==
  ASSUME NEW S, NEW q \in Seq(S), NEW z \in S
  PROVE  \A x, y : Precedes(Append(q, z), x, y) => Precedes(q, x, y) \/ (Contains(q, x) /\ y = z)
<1> DEFINE p == Append(q, z)
           n == Len(q)
<1>1. /\ n \in Nat /\ Len(q) = n /\ DOMAIN q = 1 .. n /\ DOMAIN p = 1 .. n + 1 /\ p[n + 1] = z
      /\ \A i \in 1 .. n : p[i] = q[i]
  OBVIOUS
<1> HIDE DEF p, n
<1>2. \A i, j \in 1 .. n + 1 : i < j => i \in 1 .. n /\ (j \in 1 .. n \/ j = n + 1)
  BY <1>1
<1>3. ASSUME NEW x, NEW y, Precedes(p, x, y)
      PROVE  Precedes(q, x, y) \/ (Contains(q, x) /\ y = z)
  <2>1. PICK i, j \in 1 .. n + 1 : i < j /\ p[i] = x /\ p[j] = y
    BY <1>1, <1>3 DEF Precedes
  <2>2. i \in 1 .. n /\ q[i] = x
    BY <1>1, <1>2, <2>1
  <2> QED
    BY <1>1, <1>2, <2>1, <2>2 DEF Precedes, Contains
<1> QED
  BY <1>3 DEF p

(* Taking an element out keeps the order of the others.                    *)
LEMMA PrecedesRemoved ==
  ASSUME NEW S, NEW q \in Seq(S), NEW k \in 1 .. Len(q)
  PROVE  \A x, y : Precedes(RemoveAt(q, k), x, y) => Precedes(q, x, y)
<1> DEFINE p == RemoveAt(q, k)
           n == Len(q)
<1>1. /\ n \in Nat /\ k \in 1 .. n /\ DOMAIN q = 1 .. n /\ n - 1 \in Nat
  OBVIOUS
<1>2. /\ p \in Seq(S) /\ Len(p) = n - 1
      /\ \A i \in 1 .. n - 1 : p[i] = IF i < k THEN q[i] ELSE q[i + 1]
  BY RemoveAtElements
<1> HIDE DEF p, n
<1>3. DOMAIN p = 1 .. n - 1
  BY <1>1, <1>2
<1>4. ASSUME NEW i \in 1 .. n - 1, NEW j \in 1 .. n - 1, i < j
      PROVE  \E a, b \in 1 .. n : a < b /\ q[a] = p[i] /\ q[b] = p[j]
  <2>1. i \in 1 .. n /\ i + 1 \in 1 .. n /\ j \in 1 .. n /\ j + 1 \in 1 .. n /\ i < j + 1 /\ i + 1 < j + 1
    BY <1>1, <1>4
  <2>2. CASE j < k
    <3>1. i < k
      BY <1>1, <1>4, <2>2
    <3> QED
      BY <1>2, <1>4, <2>1, <2>2, <3>1
  <2>3. CASE ~(j < k)
    <3>1. p[j] = q[j + 1]
      BY <1>2, <2>3
    <3>2. CASE i < k
      BY <1>2, <2>1, <3>1, <3>2
    <3>3. CASE ~(i < k)
      BY <1>2, <2>1, <3>1, <3>3
    <3> QED
      BY <3>2, <3>3
  <2> QED
    BY <2>2, <2>3
<1>5. ASSUME NEW x, NEW y, Precedes(p, x, y)  PROVE Precedes(q, x, y)
  <2>1. PICK i, j \in 1 .. n - 1 : i < j /\ p[i] = x /\ p[j] = y
    BY <1>3, <1>5 DEF Precedes
  <2>2. PICK a, b \in 1 .. n : a < b /\ q[a] = p[i] /\ q[b] = p[j]
    BY <1>4, <2>1
  <2> QED
    BY <1>1, <2>1, <2>2 DEF Precedes
<1> QED
  BY <1>5 DEF p

(* So does removing a node by its value (clh_list_remove_node).            *)
LEMMA PrecedesRemovedFirst ==
  ASSUME NEW S, NEW q \in Seq(S), NEW z, Contains(q, z), IsInjective(q)
  PROVE  \A x, y : Precedes(RemoveFirst(q, z), x, y) => Precedes(q, x, y)
<1>1. PICK i \in 1 .. Len(q) : q[i] = z
  BY DEF Contains
<1>2. RemoveFirst(q, z) = RemoveAt(q, i)
  BY <1>1, RemoveFirstAt
<1> QED
  BY <1>2, PrecedesRemoved

(* The head is before the rest.                                            *)
LEMMA PrecedesInTail ==
  ASSUME NEW S, NEW q \in Seq(S), q # <<>>
  PROVE  /\ \A x, y : Precedes(Tail(q), x, y) => Precedes(q, x, y)
         /\ \A y : Contains(Tail(q), y) => Precedes(q, Head(q), y)
<1> DEFINE p == Tail(q)
           n == Len(q)
<1>1. /\ n \in Nat /\ 1 \in 1 .. n /\ DOMAIN q = 1 .. n /\ DOMAIN p = 1 .. n - 1 /\ Head(q) = q[1]
      /\ Len(p) = n - 1
      /\ \A i \in 1 .. n - 1 : p[i] = q[i + 1]
  OBVIOUS
<1> HIDE DEF p, n
<1>2. \A i \in 1 .. n - 1 : i + 1 \in 1 .. n /\ 1 < i + 1
  BY <1>1
<1>3. \A i, j \in 1 .. n - 1 : i < j => i + 1 < j + 1
  BY <1>1
<1>4. \A x, y : Precedes(p, x, y) => Precedes(q, x, y)
  <2> SUFFICES ASSUME NEW x, NEW y, NEW i \in 1 .. n - 1, NEW j \in 1 .. n - 1, i < j,
                      p[i] = x, p[j] = y
               PROVE  Precedes(q, x, y)
    BY <1>1, Zenon DEF Precedes
  <2> QED
    BY <1>1, <1>2, <1>3 DEF Precedes
<1>5. \A y : Contains(p, y) => Precedes(q, Head(q), y)
  <2> SUFFICES ASSUME NEW y, NEW i \in 1 .. n - 1, p[i] = y
               PROVE  Precedes(q, Head(q), y)
    BY <1>1 DEF Contains
  <2> QED
    BY <1>1, <1>2 DEF Precedes
<1> QED
  BY <1>4, <1>5 DEF p

(* What a search gives: the least index of those that pass, or 0.          *)
LEMMA LeastOf ==
  ASSUME NEW n \in Nat, NEW I \in SUBSET (1 .. n), NEW i, i = IF I # {} THEN Min(I) ELSE 0
  PROVE  /\ i # 0 => i \in I
         /\ i = 0 => I = {}
<1>1. I \subseteq Nat
  OBVIOUS
<1>2. I # {} => Min(I) \in I
  BY <1>1, MinIsMember
<1>3. 0 \notin I
  OBVIOUS
<1> QED
  BY <1>2, <1>3

(* The first of a list that a search selects, with index i, or 0: what is  *)
(* before it is not selected.                                              *)
IsFirst(q, I, i) ==
  /\ i = 0 => I = {}
  /\ i # 0 => /\ i \in I
              /\ \A x : Precedes(q, x, q[i]) => \E k \in 1 .. Len(q) : k \notin I /\ q[k] = x

(* The least index of those selected is that of the first.                 *)
LEMMA FirstPassing ==
  ASSUME NEW S, NEW q \in Seq(S), NEW I \in SUBSET (1 .. Len(q)), IsInjective(q)
  PROVE  IsFirst(q, I, IF I # {} THEN Min(I) ELSE 0)
<1> DEFINE i == IF I # {} THEN Min(I) ELSE 0
<1>1. I \subseteq Nat /\ Len(q) \in Nat /\ DOMAIN q = 1 .. Len(q)
  OBVIOUS
<1>2. (i # 0 => i \in I) /\ (i = 0 => I = {})
  BY <1>1, LeastOf
<1>3. ASSUME i # 0, NEW x, Precedes(q, x, q[i])
      PROVE  \E k \in 1 .. Len(q) : k \notin I /\ q[k] = x
  <2>1. \A k \in I : i <= k
    BY <1>1, <1>2, <1>3, LeastMember DEF Min
  <2>2. PICK k \in 1 .. Len(q), j \in 1 .. Len(q) : k < j /\ q[k] = x /\ q[j] = q[i]
    BY <1>1, <1>3 DEF Precedes
  <2>3. i \in 1 .. Len(q) /\ j = i
    BY <1>1, <1>2, <1>3, <2>2 DEF IsInjective
  <2>4. k \notin I
    BY <1>1, <2>1, <2>2, <2>3
  <2> QED
    BY <2>2, <2>4
<1> QED
  BY <1>2, <1>3 DEF IsFirst
=============================================================================
