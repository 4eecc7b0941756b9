--------------------------- MODULE CRBTestsProofs ---------------------------
(***************************************************************************)
(* Proofs about CRBTests: no assertion of the sequential tests fails, for  *)
(* every number of nodes and every order in which they are shuffled.       *)
(***************************************************************************)
EXTENDS CRBTests, CRBLoopProofs

-----------------------------------------------------------------------------
(* The assumptions *)

\* The tests have two trees and two nodes.
LEMMA TreesAndNodes ==
  /\ tree1 \in Tree /\ tree2 \in Tree /\ tree1 # tree2
  /\ apiN \in Node /\ apiM \in Node /\ apiN # apiM
<1>1. ASSUME NEW S, Cardinality(S) >= 2
      PROVE  \E x \in S : \E y \in S \ {x} : TRUE
  <2>1. SUFFICES ASSUME \A x \in S : S \ {x} = {}
                 PROVE  FALSE
    BY <1>1, FS_EmptySet
  <2>2. S = {} \/ \E x : S = {x}
    BY <2>1
  <2>3. Cardinality(S) \in {0, 1}
    BY <2>2, FS_EmptySet, FS_Singleton
  <2> QED
    BY <1>1, <2>3
<1>2. ASSUME NEW S, Cardinality(S) >= 2, NEW a, a = CHOOSE x \in S : TRUE
      PROVE  a \in S /\ \E y \in S \ {a} : TRUE
  <2>1. PICK x \in S, y \in S : x # y
    BY <1>1, <1>2
  <2>2. a \in S
    BY <1>2, <2>1
  <2> QED
    BY <2>1, <2>2
<1>3. tree1 \in Tree /\ \E y \in Tree \ {tree1} : TRUE
  BY <1>2, TwoTrees DEF tree1
<1>4. apiN \in Node /\ \E y \in Node \ {apiN} : TRUE
  BY <1>2, EvenNumberOfNodes DEF apiN
<1>5. tree2 \in Tree \ {tree1} /\ apiM \in Node \ {apiN}
  BY <1>3, <1>4 DEF tree2, apiM
<1> QED
  BY <1>3, <1>4, <1>5

\* There are finitely many nodes.
LEMMA NodesCounted ==
  /\ N \in Nat /\ N >= 2
  /\ \A U \in SUBSET Node : /\ IsFiniteSet(U) /\ Cardinality(U) \in Nat /\ Cardinality(U) <= N
                            /\ Cardinality(U) = N => U = Node
                            /\ Cardinality(U) = 0 => U = {}
<1>1. N \in Nat /\ N >= 2
  BY NodesAreFinite, EvenNumberOfNodes, FS_CardinalityType DEF N
<1>2. ASSUME NEW U \in SUBSET Node
      PROVE  /\ IsFiniteSet(U) /\ Cardinality(U) \in Nat /\ Cardinality(U) <= N
             /\ Cardinality(U) = N => U = Node
             /\ Cardinality(U) = 0 => U = {}
  <2>1. IsFiniteSet(U) /\ Cardinality(U) <= N /\ (Cardinality(U) = N => U = Node)
    BY NodesAreFinite, FS_Subset DEF N
  <2> QED
    BY <2>1, FS_CardinalityType, FS_EmptySet
<1> QED
  BY <1>1, <1>2

-----------------------------------------------------------------------------
(* Sequences of visited nodes *)

\* A set of indices has a least one.
LEMMA Least ==
  ASSUME NEW n \in Nat, NEW S \in SUBSET (1 .. n), S # {}
  PROVE  \E i \in S : \A j \in S : i <= j
<1> DEFINE U == {1 .. j : j \in S}
<1>1. U # {} /\ U \subseteq SUBSET (1 .. n)
  <2>1. \A j \in S : 1 .. j \in SUBSET (1 .. n)
    OBVIOUS
  <2> QED
    BY <2>1
<1>2. IsWellFoundedOn(StrictSubsetOrdering(1 .. n), SUBSET (1 .. n))
  <2>1. IsFiniteSet(1 .. n)
    BY FS_Interval
  <2> QED
    BY <2>1, FS_StrictSubsetOrderingWellFounded, FS_FiniteSubsetsOfFinite
<1> HIDE DEF U
<1>3. \E M \in U : \A L \in U : <<L, M>> \notin StrictSubsetOrdering(1 .. n)
  BY <1>1, <1>2, WFMin
<1> USE DEF U
<1>4. PICK i \in S : \A j \in S : <<1 .. j, 1 .. i>> \notin StrictSubsetOrdering(1 .. n)
  BY <1>3
<1>5. ASSUME NEW j \in S
      PROVE  i <= j
  <2>1. SUFFICES ASSUME j < i
                 PROVE  FALSE
    OBVIOUS
  <2>2. 1 .. j \subseteq 1 .. i /\ 1 .. i \subseteq 1 .. n
    BY <2>1
  <2>3. i \in 1 .. i /\ i \notin 1 .. j
    BY <2>1
  <2>4. <<1 .. j, 1 .. i>> \in StrictSubsetOrdering(1 .. n)
    BY <2>2, <2>3 DEF StrictSubsetOrdering
  <2> QED
    BY <2>4, <1>4
<1> QED
  BY <1>5

\* A sequence without repetitions is as long as the set of its members is large.
LEMMA CountOfSequence ==
  ASSUME NEW q \in Nodes, Distinct(q)
  PROVE  Len(q) \in Nat /\ Len(q) = Cardinality({q[i] : i \in 1 .. Len(q)}) /\ Len(q) <= N
<1> DEFINE T == {q[i] : i \in 1 .. Len(q)}
           f == [i \in 1 .. Len(q) |-> q[i]]
<1>1. Len(q) \in Nat /\ T \in SUBSET Node
  BY DEF Nodes
<1>2. f \in Bijection(1 .. Len(q), T)
  BY DEF Distinct, Bijection, Injection, Surjection, IsInjective
<1> HIDE DEF f
<1>3. IsFiniteSet(1 .. Len(q)) /\ Cardinality(1 .. Len(q)) = Len(q)
  BY <1>1, FS_Interval
<1>4. Cardinality(T) = Len(q)
  BY <1>2, <1>3, FS_Bijection DEF ExistsBijection
<1> QED
  BY <1>1, <1>4, NodesCounted

\* A loop whose next steps through a sequence visits that sequence.
StepsThrough(q, next) == \A i \in 1 .. Len(q) : next[q[i]] = At(q, i + 1)

\* The nodes such a loop is at, one after the other.
LEMMA IthNode ==
  ASSUME NEW q \in Nodes, NEW next, StepsThrough(q, next),
         NEW first, first = At(q, 1), NEW f,
         \A i \in 1 .. N + 1 :
           f[i] = IF i = 1 THEN first ELSE IF f[i - 1] = NULL THEN NULL ELSE next[f[i - 1]]
  PROVE  \A i \in 1 .. N + 1 : f[i] = At(q, i)
<1> DEFINE B == {i \in 1 .. N + 1 : f[i] # At(q, i)}
<1>1. N \in Nat /\ N + 1 \in Nat
  BY NodesCounted
<1>2. SUFFICES ASSUME B # {}
               PROVE  FALSE
  OBVIOUS
<1>3. PICK i \in B : \A j \in B : i <= j
  <2>1. B \in SUBSET (1 .. N + 1)
    OBVIOUS
  <2> HIDE DEF B
  <2> QED
    BY <1>1, <1>2, <2>1, Least
<1>4. f[1] = At(q, 1)
  BY <1>1
<1>5. i # 1 /\ i - 1 \in 1 .. N + 1 /\ i \in 1 .. N + 1 /\ i \in Nat
  BY <1>1, <1>3, <1>4
<1>6. f[i - 1] = At(q, i - 1)
  BY <1>3, <1>5
<1>7. f[i] = IF f[i - 1] = NULL THEN NULL ELSE next[f[i - 1]]
  BY <1>5
<1>8. CASE i - 1 \in 1 .. Len(q)
  <2>1. f[i - 1] = q[i - 1] /\ q[i - 1] \in Node
    BY <1>6, <1>8 DEF At, Nodes
  <2>2. next[q[i - 1]] = At(q, i)
    BY <1>5, <1>8 DEF StepsThrough
  <2>3. f[i] = At(q, i)
    BY <1>7, <2>1, <2>2, DistinctAddresses
  <2> QED
    BY <1>3, <2>3
<1>9. CASE i - 1 \notin 1 .. Len(q)
  <2>1. Len(q) \in Nat
    BY DEF Nodes
  <2>2. i \notin 1 .. Len(q)
    BY <1>5, <1>9, <2>1
  <2>3. f[i] = At(q, i)
    BY <1>6, <1>7, <1>9, <2>2 DEF At
  <2> QED
    BY <1>3, <2>3
<1> QED
  BY <1>8, <1>9

\* So the loop's sequence of nodes is the one it steps through.
LEMMA VisitsAre ==
  ASSUME NEW q \in Nodes, Distinct(q), NEW next, StepsThrough(q, next),
         NEW first, first = At(q, 1)
  PROVE  Visits(first, next) = q
<1> DEFINE Body(f) == [i \in 1 .. N + 1 |->
                         IF i = 1 THEN first
                         ELSE LET n == f[i - 1] IN IF n = NULL THEN NULL ELSE next[n]]
           f == CHOOSE g : g = Body(g)
           g == [i \in 1 .. N + 1 |-> At(q, i)]
<1>1. /\ N \in Nat /\ Len(q) \in Nat /\ Len(q) <= N
      /\ Len(q) + 1 \in Nat /\ N + 1 \in Nat /\ Len(q) <= N + 1
  <2>1. N \in Nat /\ Len(q) \in Nat /\ Len(q) <= N
    BY CountOfSequence, NodesCounted
  <2>2. \A i, j \in Nat : i <= j => i + 1 \in Nat /\ j + 1 \in Nat /\ i <= j + 1
    OBVIOUS
  <2> QED
    BY <2>1, <2>2
<1>2. g = Body(g)
  <2>1. ASSUME NEW i \in 1 .. N + 1
        PROVE  g[i] = Body(g)[i]
    <3>1. CASE i = 1
      BY <3>1
    <3>2. CASE i # 1
      <4>1. i - 1 \in 1 .. N + 1 /\ g[i - 1] = At(q, i - 1) /\ (i - 1) + 1 = i /\ i \in Nat
        BY <1>1, <3>2
      <4>2. CASE i - 1 \in 1 .. Len(q)
        <5>1. g[i - 1] = q[i - 1] /\ q[i - 1] \in Node /\ next[q[i - 1]] = At(q, i)
          BY <4>1, <4>2 DEF At, Nodes, StepsThrough
        <5> QED
          BY <3>2, <5>1, DistinctAddresses
      <4>3. CASE i - 1 \notin 1 .. Len(q)
        <5>1. i \notin 1 .. Len(q)
          BY <1>1, <4>1, <4>3, <3>2
        <5> QED
          BY <3>2, <4>1, <4>3, <5>1 DEF At
      <4> QED
        BY <4>2, <4>3
    <3> QED
      BY <3>1, <3>2
  <2> QED
    BY <2>1
<1>3. f = Body(f)
  <2> HIDE DEF Body, g
  <2> QED
    BY <1>2
<1>4. f = g
  <2> HIDE DEF f
  <2>1. f = [i \in 1 .. N + 1 |-> f[i]]
    BY <1>3
  <2>2. \A i \in 1 .. N + 1 :
          f[i] = IF i = 1 THEN first ELSE IF f[i - 1] = NULL THEN NULL ELSE next[f[i - 1]]
    BY <1>3
  <2>3. \A i \in 1 .. N + 1 : f[i] = At(q, i)
    BY <2>2, IthNode
  <2> QED
    BY <2>1, <2>3
<1>5. Visits(first, next) = SubSeq(f, 1, Cardinality({i \in 1 .. N + 1 : f[i] # NULL}))
  BY DEF Visits
<1> HIDE DEF f
<1>6. {i \in 1 .. N + 1 : f[i] # NULL} = 1 .. Len(q)
  <2>1. \A i \in 1 .. N + 1 : f[i] # NULL <=> i \in 1 .. Len(q)
    BY <1>4, DistinctAddresses DEF At, Nodes
  <2>2. 1 .. Len(q) \subseteq 1 .. N + 1
    BY <1>1
  <2> QED
    BY <2>1, <2>2
<1>7. Cardinality({i \in 1 .. N + 1 : f[i] # NULL}) = Len(q)
  <2>1. \A k \in Nat : Cardinality(1 .. k) = k
    BY FS_Interval
  <2> QED
    BY <1>1, <1>6, <2>1
<1>8. SubSeq(g, 1, Len(q)) = q
  <2>1. SubSeq(g, 1, Len(q)) = [i \in 1 .. Len(q) |-> g[i]]
    BY <1>1
  <2>2. \A i \in 1 .. Len(q) : g[i] = q[i]
    BY <1>1 DEF At
  <2>3. q = [i \in 1 .. Len(q) |-> q[i]]
    BY DEF Nodes
  <2> QED
    BY <2>1, <2>2, <2>3
<1> QED
  BY <1>4, <1>5, <1>7, <1>8

\* The sequence from its end to its start.
Backwards(q) == [i \in 1 .. Len(q) |-> q[Len(q) + 1 - i]]

\* A loop that goes back from the end of a sequence goes through the reverse.
LEMMA GoingBack ==
  ASSUME NEW q \in Nodes, Distinct(q),
         NEW prev1, \A i \in 1 .. Len(q) : prev1[q[i]] = At(q, i - 1)
  PROVE  /\ Backwards(q) \in Nodes /\ Distinct(Backwards(q)) /\ Len(Backwards(q)) = Len(q)
         /\ At(Backwards(q), 1) = At(q, Len(q))
         /\ StepsThrough(Backwards(q), prev1)
<1> DEFINE b == Backwards(q)
           k == Len(q)
<1>1. k \in Nat /\ \A i \in 1 .. k : q[i] \in Node
  BY DEF Nodes
<1>2. \A i \in 1 .. k : k + 1 - i \in 1 .. k /\ b[i] = q[k + 1 - i]
  BY <1>1 DEF Backwards
<1>3. b \in Nodes /\ Len(b) = k
  BY <1>1, <1>2 DEF Backwards, Nodes
<1>4. Distinct(b)
  <2>1. ASSUME NEW i \in 1 .. k, NEW j \in 1 .. k, b[i] = b[j]
        PROVE  i = j
    <3>1. k + 1 - i = k + 1 - j
      <4>1. /\ k + 1 - i \in 1 .. Len(q) /\ k + 1 - j \in 1 .. Len(q)
            /\ q[k + 1 - i] = q[k + 1 - j]
        BY <1>2, <2>1
      <4> HIDE DEF k
      <4> QED
        BY <4>1 DEF Distinct
    <3> QED
      BY <1>1, <3>1
  <2> QED
    BY <1>3, <2>1 DEF Distinct
<1>5. At(b, 1) = At(q, k)
  BY <1>1, <1>2, <1>3 DEF At
<1>6. ASSUME NEW i \in 1 .. k
      PROVE  prev1[b[i]] = At(b, i + 1)
  <2>1. prev1[b[i]] = At(q, k + 1 - i - 1)
    BY <1>2
  <2>2. CASE i = k
    <3>1. k + 1 - i - 1 \notin 1 .. k /\ i + 1 \notin 1 .. k
      BY <1>1, <2>2
    <3> QED
      BY <1>3, <2>1, <3>1 DEF At
  <2>3. CASE i # k
    <3>1. i + 1 \in 1 .. k /\ k + 1 - (i + 1) = k + 1 - i - 1 /\ k + 1 - i - 1 \in 1 .. k
      BY <1>1, <2>3
    <3>2. b[i + 1] = q[k + 1 - i - 1]
      BY <1>2, <3>1
    <3> QED
      BY <1>3, <2>1, <3>1, <3>2 DEF At
  <2> QED
    BY <2>2, <2>3
<1> QED
  BY <1>3, <1>4, <1>5, <1>6 DEF StepsThrough

-----------------------------------------------------------------------------
(* Keys in order *)

Sorted(q) == \A i, j \in 1 .. Len(q) : i < j => KeyOf[q[i]] <= KeyOf[q[j]]

LEMMA SortedParts ==
  ASSUME NEW a \in Nodes, NEW b \in Nodes, Sorted(a), Sorted(b),
         \A x \in Range(a), y \in Range(b) : KeyOf[x] <= KeyOf[y]
  PROVE  Sorted(Join(a, b))
<1> DEFINE q == Join(a, b)
<1>1. Len(a) \in Nat /\ Len(b) \in Nat /\ Len(q) = Len(a) + Len(b)
  BY AtJoin
<1>2. /\ \A i \in 1 .. Len(a) : q[i] = a[i] /\ a[i] \in Range(a)
      /\ \A i \in Len(a) + 1 .. Len(q) : /\ i - Len(a) \in 1 .. Len(b)
                                        /\ q[i] = b[i - Len(a)] /\ b[i - Len(a)] \in Range(b)
  <2>1. \A i \in 1 .. Len(a) : q[i] = a[i]
    BY <1>1 DEF Join, Nodes
  <2>2. \A i \in Len(a) + 1 .. Len(q) : i - Len(a) \in 1 .. Len(b) /\ q[i] = b[i - Len(a)]
    BY <1>1 DEF Join, Nodes
  <2> QED
    BY <2>1, <2>2, RangeFacts
<1> HIDE DEF q
<1>3. ASSUME NEW i \in 1 .. Len(q), NEW j \in 1 .. Len(q), i < j
      PROVE  KeyOf[q[i]] <= KeyOf[q[j]]
  <2>1. CASE j <= Len(a)
    <3>1. i \in 1 .. Len(a) /\ j \in 1 .. Len(a)
      BY <1>1, <1>3, <2>1
    <3> QED
      BY <1>2, <1>3, <3>1 DEF Sorted
  <2>2. CASE i > Len(a)
    <3>1. /\ i \in Len(a) + 1 .. Len(q) /\ j \in Len(a) + 1 .. Len(q)
          /\ i - Len(a) < j - Len(a)
      BY <1>1, <1>3, <2>2
    <3>2. KeyOf[b[i - Len(a)]] <= KeyOf[b[j - Len(a)]]
      BY <1>2, <3>1 DEF Sorted
    <3> QED
      BY <1>2, <3>1, <3>2
  <2>3. CASE i <= Len(a) /\ j > Len(a)
    <3>1. i \in 1 .. Len(a) /\ j \in Len(a) + 1 .. Len(q)
      BY <1>1, <2>3
    <3> QED
      BY <1>2, <3>1
  <2> QED
    BY <1>1, <2>1, <2>2, <2>3
<1> QED
  BY <1>3 DEF Sorted, q

\* The in-order sequences of search trees are sorted.
LEMMA InOrderSorted ==
  ASSUME IInv, NoLoops(link), InKeyOrder(InUse, link)
  PROVE  \A x \in InUse \cup {NULL} : Sorted(InOrder[x])
<1> DEFINE S == {x \in Pointer : x \in InUse \cup {NULL} => Sorted(InOrder[x])}
<1>1. InUseTree /\ Sequenced(InUse, link, InOrder) /\ LoopFree(link)
  BY InUseIsTree, OrdersAreKnown DEF OrdersKnown, InUseTree
<1>2. \A x \in InUse \cup {NULL} : Range(InOrder[x]) = Subtree(link, x)
  BY <1>1, SequencedSpans, RangeIsSubtree
<1>3. PICK R \in Ranges : Ordered(InUse, link, R)
  BY DEF InKeyOrder
<1>4. NULL \in S
  <2>1. InOrder[NULL] = None
    BY <1>1 DEF Sequenced
  <2>2. Sorted(None)
    BY DEF Sorted, None
  <2> QED
    BY <2>1, <2>2 DEF Pointer
<1>5. ASSUME NEW n \in Node, link[n]["left"] \in S, link[n]["right"] \in S
      PROVE  n \in S
  <2>1. SUFFICES ASSUME n \in InUse
                 PROVE  Sorted(InOrder[n])
    BY DistinctAddresses DEF Pointer
  <2> DEFINE l == link[n]["left"]
             r == link[n]["right"]
             a == InOrder[l]
             b == InOrder[r]
  <2>2. l \in InUse \cup {NULL} /\ r \in InUse \cup {NULL} /\ "left" \in Dir /\ "right" \in Dir
    BY <1>1, <2>1 DEF InUseTree, Dir
  <2>3. Sorted(a) /\ Sorted(b) /\ a \in Nodes /\ b \in Nodes
    BY <1>1, <1>5, <2>2 DEF Sequenced
  <2>4. InOrder[n] = Join(a, Join(One(n), b))
    BY <1>1, <2>1 DEF Sequenced
  <2>5. \A y \in Range(a) : KeyOf[y] <= KeyOf[n]
    <3>1. SUFFICES ASSUME NEW y \in Range(a)
                   PROVE  KeyOf[y] <= KeyOf[n]
      OBVIOUS
    <3>2. l # NULL
      BY <1>1, RangeFacts DEF Sequenced
    <3>3. KeyOf[y] \in R[l]
      BY <1>2, <1>3, <2>2, <3>2, BelowInRange
    <3> QED
      BY <1>3, <2>1, <2>2, <3>2, <3>3 DEF Ordered, Admits
  <2>6. \A y \in Range(b) : KeyOf[n] <= KeyOf[y]
    <3>1. SUFFICES ASSUME NEW y \in Range(b)
                   PROVE  KeyOf[n] <= KeyOf[y]
      OBVIOUS
    <3>2. r # NULL
      BY <1>1, RangeFacts DEF Sequenced
    <3>3. KeyOf[y] \in R[r] /\ y \in Node
      BY <1>2, <1>3, <2>2, <3>2, BelowInRange DEF InUse, Owned
    <3>4. KeyOf[y] >= KeyOf[n]
      BY <1>3, <2>1, <2>2, <3>2, <3>3 DEF Ordered, Admits
    <3> QED
      BY <3>3, <3>4, KeysCompare
  <2> HIDE DEF l, r, a, b
  <2>7. One(n) \in Nodes /\ Range(One(n)) = {n} /\ Sorted(One(n))
    <3>1. One(n) \in Nodes /\ Range(One(n)) = {n}
      BY Joins, RangeFacts
    <3>2. Sorted(One(n))
      BY DEF Sorted, One
    <3> QED
      BY <3>1, <3>2
  <2>8. Join(One(n), b) \in Nodes /\ Sorted(Join(One(n), b))
    BY <2>3, <2>6, <2>7, SortedParts, Joins
  <2>9. Range(Join(One(n), b)) = {n} \cup Range(b)
    BY <2>3, <2>7, RangeFacts
  <2>10. \A x \in Range(a), y \in Range(Join(One(n), b)) : KeyOf[x] <= KeyOf[y]
    <3>1. \A x \in Range(a) \cup Range(b) \cup {n} : KeyOf[x] \in Int
      BY <2>3, RangeFacts, KeysCompare
    <3> QED
      BY <2>5, <2>6, <2>9, <3>1
  <2> QED
    BY <2>3, <2>4, <2>8, <2>10, SortedParts
<1> HIDE DEF S
<1>6. Pointer \subseteq S
  BY <1>1, <1>4, <1>5, TreeInduction
<1> QED
  BY <1>1, <1>6 DEF S, InUseTree, Pointer

-----------------------------------------------------------------------------
(* The loops over a tree *)

Members(t) == {n \in InUse : owner[n] = t}

\* From first on with next, and from last back with prev1, a loop visits q, the
\* nodes of t.
LoopsOver(q, t, first, next, last, prev1) ==
  /\ q \in Nodes /\ Distinct(q) /\ {q[i] : i \in 1 .. Len(q)} = Members(t)
  /\ first = At(q, 1) /\ last = At(q, Len(q))
  /\ StepsThrough(q, next)
  /\ \A i \in 1 .. Len(q) : prev1[q[i]] = At(q, i - 1)

LEMMA InOrderLoops ==
  ASSUME IInv, NoLoops(link), Idle, NEW t \in Tree
  PROVE  LoopsOver(InOrder[link[t]["root"]], t, c_rbtree_first(t), NextStep,
                   c_rbtree_last(t), PrevStep)
<1> DEFINE q == InOrder[link[t]["root"]]
<1>1. OrdersKnown /\ InUseTree
  BY OrdersAreKnown, InUseIsTree
<1>2. q \in Nodes /\ Distinct(q)
  <2>1. Orders[t] = q /\ Orders[t] \in Nodes
    BY <1>1 DEF OrdersKnown
  <2> QED
    BY <2>1, OrdersAreDistinct DEF OrdersDistinct
<1>3. {q[i] : i \in 1 .. Len(q)} = Members(t)
  <2>1. Spans(InUse, link, InOrder)
    BY <1>1, SequencedSpans DEF OrdersKnown
  <2>2. Range(q) = Members(t)
    BY <2>1, TreeNodes DEF Members
  <2> QED
    BY <1>2, <2>2, RangeFacts
<1>4. /\ c_rbtree_first(t) = At(q, 1) /\ c_rbtree_last(t) = At(q, Len(q))
      /\ \A i \in 1 .. Len(q) : /\ c_rbnode_next(q[i]) = At(q, i + 1)
                                /\ c_rbnode_prev(q[i]) = At(q, i - 1)
  BY StepsInOrder DEF TraversesInOrder, Traverses
<1>5. \A i \in 1 .. Len(q) : /\ NextStep[q[i]] = c_rbnode_next(q[i])
                            /\ PrevStep[q[i]] = c_rbnode_prev(q[i])
  <2>1. \A i \in 1 .. Len(q) : q[i] \in Node
    BY <1>2 DEF Nodes
  <2> HIDE DEF q
  <2> QED
    BY <2>1 DEF NextStep, PrevStep
<1> HIDE DEF q
<1>6. LoopsOver(q, t, c_rbtree_first(t), NextStep, c_rbtree_last(t), PrevStep)
  BY <1>2, <1>3, <1>4, <1>5 DEF LoopsOver, StepsThrough
<1> QED
  BY <1>6 DEF q

LEMMA PostOrderLoops ==
  ASSUME IInv, NoLoops(link), Idle, NEW t \in Tree
  PROVE  LoopsOver(PostOrder[link[t]["root"]], t, c_rbtree_first_postorder(t), NextPost,
                   c_rbtree_last_postorder(t), PrevPost)
<1> DEFINE q == PostOrder[link[t]["root"]]
<1>1. Spans(InUse, link, PostOrder)
  BY PostOrderSpans
<1>2. q \in Nodes /\ Distinct(q)
  BY PostOrderLayout
<1>3. {q[i] : i \in 1 .. Len(q)} = Members(t)
  <2>1. Range(q) = Members(t)
    BY <1>1, TreeNodes DEF Members
  <2> QED
    BY <1>2, <2>1, RangeFacts
<1>4. /\ c_rbtree_first_postorder(t) = At(q, 1)
      /\ c_rbtree_last_postorder(t) = At(q, Len(q))
      /\ \A i \in 1 .. Len(q) : /\ c_rbnode_next_postorder(q[i]) = At(q, i + 1)
                                /\ c_rbnode_prev_postorder(q[i]) = At(q, i - 1)
  BY StepsInPostOrder DEF TraversesPostOrder, Traverses
<1>5. \A i \in 1 .. Len(q) : /\ NextPost[q[i]] = c_rbnode_next_postorder(q[i])
                            /\ PrevPost[q[i]] = c_rbnode_prev_postorder(q[i])
  <2>1. \A i \in 1 .. Len(q) : q[i] \in Node
    BY <1>2 DEF Nodes
  <2> HIDE DEF q
  <2> QED
    BY <2>1 DEF NextPost, PrevPost
<1> HIDE DEF q
<1>6. LoopsOver(q, t, c_rbtree_first_postorder(t), NextPost,
                c_rbtree_last_postorder(t), PrevPost)
  BY <1>2, <1>3, <1>4, <1>5 DEF LoopsOver, StepsThrough
<1> QED
  BY <1>6 DEF q

\* Such a loop visits each node once, forwards or back.
LEMMA LoopVisits ==
  ASSUME NEW q, NEW t, NEW first, NEW next, NEW last, NEW prev1,
         LoopsOver(q, t, first, next, last, prev1)
  PROVE  /\ Visits(first, next) = q /\ Visits(last, prev1) = Backwards(q)
         /\ Len(q) = Cardinality(Members(t)) /\ Len(q) \in Nat
         /\ ThereAndBack(q, next, prev1)
         /\ Members(t) = Node => VisitsEach(q) /\ VisitsEach(Backwards(q))
<1>1. /\ q \in Nodes /\ Distinct(q) /\ {q[i] : i \in 1 .. Len(q)} = Members(t)
      /\ first = At(q, 1) /\ last = At(q, Len(q)) /\ StepsThrough(q, next)
      /\ \A i \in 1 .. Len(q) : prev1[q[i]] = At(q, i - 1)
  BY DEF LoopsOver
<1>2. Visits(first, next) = q
  BY <1>1, VisitsAre
<1> DEFINE b == Backwards(q)
<1>3. /\ b \in Nodes /\ Distinct(b) /\ Len(b) = Len(q)
      /\ At(b, 1) = last /\ StepsThrough(b, prev1)
  BY <1>1, GoingBack
<1>4. Visits(last, prev1) = b
  <2> HIDE DEF b
  <2> QED
    BY <1>3, VisitsAre
<1>5. Len(q) = Cardinality(Members(t)) /\ Len(q) \in Nat
  BY <1>1, CountOfSequence
<1>6. ThereAndBack(q, next, prev1)
  <2>1. ASSUME NEW i \in 1 .. Len(q), next[q[i]] # NULL
        PROVE  prev1[next[q[i]]] = q[i]
    <3>1. next[q[i]] = At(q, i + 1)
      BY <1>1 DEF StepsThrough
    <3>2. i + 1 \in 1 .. Len(q) /\ next[q[i]] = q[i + 1]
      BY <2>1, <3>1 DEF At
    <3>3. prev1[q[i + 1]] = At(q, (i + 1) - 1)
      BY <1>1, <3>2
    <3>4. (i + 1) - 1 = i
      BY <1>5
    <3> QED
      BY <3>2, <3>3, <3>4 DEF At
  <2> QED
    BY <2>1 DEF ThereAndBack
<1>7. ASSUME Members(t) = Node
      PROVE  VisitsEach(q) /\ VisitsEach(b)
  <2>1. Len(q) = N /\ Len(b) = N
    BY <1>3, <1>5, <1>7 DEF N
  <2> HIDE DEF b
  <2> QED
    BY <1>1, <1>3, <2>1 DEF VisitsEach, Distinct
<1> QED
  BY <1>2, <1>4, <1>5, <1>6, <1>7

\* The in-order loop visits the nodes by ascending key.
LEMMA InOrderAscends ==
  ASSUME IInv, NoLoops(link), Idle, InKeyOrder(InUse, link), NEW t \in Tree
  PROVE  LET q == InOrder[link[t]["root"]]
         IN  /\ Ascending(q)
             /\ \A i \in 1 .. Len(q) - 1 : KeyOf[Backwards(q)[i]] >= KeyOf[Backwards(q)[i + 1]]
<1> DEFINE q == InOrder[link[t]["root"]]
<1>1. q \in Nodes /\ Distinct(q) /\ Len(q) \in Nat
  BY InOrderLoops, LoopVisits DEF LoopsOver
<1>2. Sorted(q)
  <2>1. link[t]["root"] \in InUse \cup {NULL}
    BY InUseIsTree DEF InUseTree
  <2> QED
    BY <2>1, InOrderSorted
<1> HIDE DEF q
<1>3. ASSUME NEW i \in 1 .. Len(q), NEW j \in 1 .. Len(q), i < j
      PROVE  KeyOf[q[i]] < KeyOf[q[j]]
  <2>1. q[i] \in Node /\ q[j] \in Node /\ q[i] # q[j]
    BY <1>1, <1>3 DEF Nodes, Distinct
  <2>2. KeyOf[q[i]] <= KeyOf[q[j]] /\ KeyOf[q[i]] # KeyOf[q[j]]
    BY <1>2, <1>3, <2>1, KeysDistinct DEF Sorted
  <2>3. KeyOf[q[i]] \in Int /\ KeyOf[q[j]] \in Int
    BY <2>1, KeysCompare
  <2> QED
    BY <2>2, <2>3
<1>4. Ascending(q)
  <2>1. \A i \in 1 .. Len(q) - 1 : i \in 1 .. Len(q) /\ i + 1 \in 1 .. Len(q) /\ i < i + 1
    BY <1>1
  <2> QED
    BY <1>3, <2>1 DEF Ascending
<1>5. ASSUME NEW i \in 1 .. Len(q) - 1
      PROVE  KeyOf[Backwards(q)[i]] >= KeyOf[Backwards(q)[i + 1]]
  <2>1. /\ i \in 1 .. Len(q) /\ i + 1 \in 1 .. Len(q)
        /\ Len(q) + 1 - i \in 1 .. Len(q) /\ Len(q) + 1 - (i + 1) \in 1 .. Len(q)
        /\ Len(q) + 1 - (i + 1) < Len(q) + 1 - i
    BY <1>1
  <2>2. /\ Backwards(q)[i] = q[Len(q) + 1 - i]
        /\ Backwards(q)[i + 1] = q[Len(q) + 1 - (i + 1)]
    BY <2>1 DEF Backwards
  <2>3. q[Len(q) + 1 - i] \in Node /\ q[Len(q) + 1 - (i + 1)] \in Node
    BY <1>1, <2>1 DEF Nodes
  <2>4. KeyOf[q[Len(q) + 1 - (i + 1)]] < KeyOf[q[Len(q) + 1 - i]]
    BY <1>3, <2>1
  <2>5. \A x, y \in Int : x < y => y >= x
    OBVIOUS
  <2> QED
    BY <2>2, <2>3, <2>4, <2>5, KeysCompare
<1> QED
  BY <1>4, <1>5 DEF q

-----------------------------------------------------------------------------
(* Parents and children *)

\* Every node of the sequence comes after its children and before its parent.
ChildrenSooner(q) ==
  \A i \in 1 .. Len(q) :
    /\ c_rbnode_parent(pf, q[i]) # NULL =>
         \E j \in 1 .. Len(q) : i < j /\ q[j] = c_rbnode_parent(pf, q[i])
    /\ \A d \in Dir : link[q[i]][d] # NULL =>
         \E j \in 1 .. Len(q) : j < i /\ q[j] = link[q[i]][d]

\* Then test-map.c finds the markers it expects, forwards and back.
LEMMA MarkersFit ==
  ASSUME NEW q \in Nodes, Distinct(q), ChildrenSooner(q)
  PROVE  Family(q, TRUE) /\ Family(Backwards(q), FALSE)
<1> DEFINE k == Len(q)
           b == Backwards(q)
<1>1. k \in Nat /\ \A i \in 1 .. k : q[i] \in Node
  BY DEF Nodes
<1>2. /\ Len(b) = k
      /\ \A i \in 1 .. k : k + 1 - i \in 1 .. k /\ b[i] = q[k + 1 - i]
  BY <1>1 DEF Backwards
<1>3. \A i, j \in 1 .. k : q[i] = q[j] => i = j
  BY DEF Distinct
<1>4. \A i, j \in 1 .. k : Earlier(q, i, q[j]) <=> j < i
  <2>1. ASSUME NEW i \in 1 .. k, NEW j \in 1 .. k
        PROVE  Earlier(q, i, q[j]) <=> j < i
    <3>1. ASSUME NEW l \in 1 .. i - 1, q[l] = q[j]
          PROVE  j < i
      <4>1. l \in 1 .. k /\ l < i
        BY <1>1
      <4> QED
        BY <1>3, <3>1, <4>1
    <3>2. j < i => j \in 1 .. i - 1
      BY <1>1
    <3> QED
      BY <3>1, <3>2 DEF Earlier
  <2> QED
    BY <2>1
<1>5. \A i, j \in 1 .. k : Earlier(b, k + 1 - i, q[j]) <=> i < j
  <2>1. ASSUME NEW i \in 1 .. k, NEW j \in 1 .. k
        PROVE  Earlier(b, k + 1 - i, q[j]) <=> i < j
    <3>1. ASSUME NEW l \in 1 .. (k + 1 - i) - 1, b[l] = q[j]
          PROVE  i < j
      <4>1. l \in 1 .. k /\ i < k + 1 - l /\ k + 1 - l \in 1 .. k
        BY <1>1
      <4>2. k + 1 - l = j
        BY <1>2, <1>3, <3>1, <4>1
      <4> QED
        BY <4>1, <4>2
    <3>2. ASSUME i < j
          PROVE  Earlier(b, k + 1 - i, q[j])
      <4>1. k + 1 - j \in 1 .. (k + 1 - i) - 1 /\ k + 1 - (k + 1 - j) = j
        BY <1>1, <3>2
      <4>2. k + 1 - j \in 1 .. k
        BY <1>1
      <4> QED
        BY <1>2, <4>1, <4>2 DEF Earlier
    <3> QED
      BY <3>1, <3>2 DEF Earlier
  <2> QED
    BY <2>1
<1> HIDE DEF k, b
<1>6. Family(q, TRUE)
  <2>1. ASSUME NEW i \in 1 .. k, c_rbnode_parent(pf, q[i]) # NULL
        PROVE  ~Earlier(q, i, c_rbnode_parent(pf, q[i]))
    <3>1. PICK j \in 1 .. k : i < j /\ q[j] = c_rbnode_parent(pf, q[i])
      BY <2>1 DEF ChildrenSooner, k
    <3>2. ~(j < i)
      BY <1>1, <3>1
    <3> QED
      BY <1>4, <3>1, <3>2
  <2>2. ASSUME NEW i \in 1 .. k, NEW d \in Dir, link[q[i]][d] # NULL
        PROVE  Earlier(q, i, link[q[i]][d])
    <3>1. PICK j \in 1 .. k : j < i /\ q[j] = link[q[i]][d]
      BY <2>2 DEF ChildrenSooner, k
    <3> QED
      BY <1>4, <3>1
  <2> QED
    BY <2>1, <2>2 DEF Family, k
<1>7. Family(b, FALSE)
  <2>1. ASSUME NEW i \in 1 .. k
        PROVE  \E l \in 1 .. k : l = k + 1 - i /\ i = k + 1 - l /\ b[i] = q[l]
    BY <1>1, <1>2
  <2>2. ASSUME NEW i \in 1 .. k, c_rbnode_parent(pf, b[i]) # NULL
        PROVE  Earlier(b, i, c_rbnode_parent(pf, b[i]))
    <3>1. PICK l \in 1 .. k : i = k + 1 - l /\ b[i] = q[l]
      BY <2>1
    <3>2. PICK j \in 1 .. k : l < j /\ q[j] = c_rbnode_parent(pf, q[l])
      BY <2>2, <3>1 DEF ChildrenSooner, k
    <3> QED
      BY <1>5, <3>1, <3>2
  <2>3. ASSUME NEW i \in 1 .. k, NEW d \in Dir, link[b[i]][d] # NULL
        PROVE  ~Earlier(b, i, link[b[i]][d])
    <3>1. PICK l \in 1 .. k : i = k + 1 - l /\ b[i] = q[l]
      BY <2>1
    <3>2. PICK j \in 1 .. k : j < l /\ q[j] = link[q[l]][d]
      BY <2>3, <3>1 DEF ChildrenSooner, k
    <3>3. ~(l < j)
      BY <1>1, <3>2
    <3> QED
      BY <1>5, <3>1, <3>2, <3>3
  <2> QED
    BY <1>2, <2>2, <2>3 DEF Family
<1> QED
  BY <1>6, <1>7 DEF b

\* In post-order they do.
LEMMA PostOrderFamily ==
  ASSUME IInv, NoLoops(link), Idle, NEW t \in Tree
  PROVE  LET q == PostOrder[link[t]["root"]]
         IN  Family(q, TRUE) /\ Family(Backwards(q), FALSE)
<1> DEFINE q == PostOrder[link[t]["root"]]
<1>1. /\ q \in Nodes /\ Distinct(q) /\ Layout(q, t, owner, link, pf, 0)
      /\ {q[i] : i \in 1 .. Len(q)} = Members(t) /\ Len(q) \in Nat
  BY PostOrderLayout, PostOrderLoops, LoopVisits DEF LoopsOver
<1> HIDE DEF q
<1>2. ASSUME NEW i \in 1 .. Len(q), c_rbnode_parent(pf, q[i]) # NULL
      PROVE  \E j \in 1 .. Len(q) : i < j /\ q[j] = c_rbnode_parent(pf, q[i])
  <2>1. PICK lo : PostShape(q, t, link, pf, lo, 0)
    BY <1>1 DEF Layout
  <2>2. i \in 0 + 1 .. Len(q)
    OBVIOUS
  <2>3. Upwards(q, t, link, pf, lo, i)
    BY <2>1, <2>2 DEF PostShape
  <2>4. ~c_rbnode_is_root(pf, q[i]) /\ c_rbnode_parent(pf, q[i]) = pf[q[i]].raw
    BY <1>2 DEF c_rbnode_parent
  <2>5. PICK j \in i + 1 .. Len(q) : pf[q[i]].raw = q[j]
    BY <2>3, <2>4 DEF Upwards
  <2>6. j \in 1 .. Len(q) /\ i < j
    BY <1>1, <2>5
  <2> QED
    BY <2>4, <2>5, <2>6
<1>3. ASSUME NEW i \in 1 .. Len(q), NEW d \in Dir, link[q[i]][d] # NULL
      PROVE  \E j \in 1 .. Len(q) : j < i /\ q[j] = link[q[i]][d]
  <2>1. q[i] \in Members(t) /\ q[i] \in Node /\ q[i] # NULL
    BY <1>1, DistinctAddresses DEF Nodes
  <2>2. q[i] \in InUse /\ owner[q[i]] = t
    BY <2>1 DEF Members
  <2>3. link[q[i]][d] \in Members(t) /\ c_rbnode_parent(pf, link[q[i]][d]) = q[i]
    BY <1>3, <2>2, ChildOf DEF Members
  <2>4. PICK j \in 1 .. Len(q) : q[j] = link[q[i]][d]
    BY <1>1, <2>3
  <2>5. PICK l \in 1 .. Len(q) : j < l /\ q[l] = q[i]
    BY <1>2, <2>1, <2>3, <2>4
  <2>6. l = i
    BY <1>1, <2>5 DEF Distinct
  <2> QED
    BY <2>4, <2>5, <2>6
<1>4. ChildrenSooner(q)
  BY <1>2, <1>3 DEF ChildrenSooner
<1>5. Family(q, TRUE) /\ Family(Backwards(q), FALSE)
  BY <1>1, <1>4, MarkersFit
<1> QED
  BY <1>5 DEF q

-----------------------------------------------------------------------------
(* validate() *)

\* The number of black nodes on the path from the root to a node is what the black
\* height of the node has less than that of the root.
BlacksAbove(n) == BlackHeight[link[owner[n]]["root"]] - BlackHeight[n] + Black(pf, n)

\* A step up leaves one node behind. Without a left child, a node is at the end of
\* a path down.
LEMMA BlacksOnTheWay ==
  ASSUME IInv, NoLoops(link), Idle, NEW n \in InUse
  PROVE  /\ n \in Node /\ owner[n] \in Tree
         /\ BlacksAbove(n) \in Int /\ BlackHeight[n] \in Nat /\ Black(pf, n) \in Nat
         /\ BlackHeight[link[owner[n]]["root"]] \in Nat
         /\ c_rbnode_parent(pf, n) = NULL =>
              BlacksAbove(n) = Black(pf, n) /\ link[owner[n]]["root"] = n
         /\ c_rbnode_parent(pf, n) # NULL =>
              /\ c_rbnode_parent(pf, n) \in InUse /\ owner[c_rbnode_parent(pf, n)] = owner[n]
              /\ BlacksAbove(n) = BlacksAbove(c_rbnode_parent(pf, n)) + Black(pf, n)
              /\ \E d \in Dir : link[c_rbnode_parent(pf, n)][d] = n
         /\ link[n]["left"] = NULL => /\ BlackHeight[n] = Black(pf, n)
                                      /\ BlacksAbove(n) = BlackHeight[link[owner[n]]["root"]]
<1> DEFINE p == c_rbnode_parent(pf, n)
           root == link[owner[n]]["root"]
<1>1. /\ InUse \in SUBSET Node /\ NULL \notin InUse /\ LoopFree(link)
      /\ \A t \in Tree : link[t]["root"] \in InUse \cup {NULL}
  BY InUseIsTree DEF InUseTree
<1>2. BlackHeight[NULL] = 0 /\ \A x \in Pointer : BlackHeight[x] \in Nat
  BY <1>1, BlackHeightFacts
<1>3. \A x \in InUse : Black(pf, x) \in Nat /\ BlackHeight[x] \in Nat
  BY <1>1, <1>2 DEF Black, Pointer
<1>4. n \in Node /\ n # NULL /\ owner[n] \in Tree
  BY <1>1, InUseFacts DEF Owners, InUse, Owned
<1>5. BlackHeight[root] \in Nat
  BY <1>1, <1>2, <1>4 DEF Pointer
<1>6. p = NULL => root = n
  BY ParentOf, DistinctAddresses, <1>1
<1>7. ASSUME p # NULL
      PROVE  /\ p \in InUse /\ owner[p] = owner[n]
             /\ BlackHeight[p] = BlackHeight[n] + Black(pf, p)
             /\ \E d \in Dir : link[p][d] = n
  <2>1. p \in InUse /\ \E d \in Dir : link[p][d] = n
    BY <1>7, ParentOf
  <2> HIDE DEF p
  <2>2. PICK d \in Dir : link[p][d] = n
    BY <2>1
  <2>3. owner[p] = owner[n]
    BY <1>4, <2>1, <2>2, ChildOf
  <2>4. BlackHeight[p] = BlackHeight[n] + Black(pf, p)
    BY <2>1, <2>2, NodesAtRest DEF AtRestAt
  <2> QED
    BY <2>1, <2>3, <2>4
<1>8. ASSUME link[n]["left"] = NULL
      PROVE  BlackHeight[n] = Black(pf, n)
  <2>1. BlackHeight[n] = BlackHeight[NULL] + Black(pf, n)
    BY <1>8, NodesAtRest DEF AtRestAt, Dir
  <2> QED
    BY <1>2, <1>3, <2>1
<1>9. /\ BlacksAbove(n) = BlackHeight[root] - BlackHeight[n] + Black(pf, n)
      /\ p # NULL => BlacksAbove(p) = BlackHeight[root] - BlackHeight[p] + Black(pf, p)
  BY <1>7 DEF BlacksAbove
<1> HIDE DEF p, root
<1>10. p # NULL => BlackHeight[p] \in Nat /\ Black(pf, p) \in Nat
  BY <1>3, <1>7
<1>11. /\ BlacksAbove(n) \in Int
       /\ p = NULL => BlacksAbove(n) = Black(pf, n)
       /\ link[n]["left"] = NULL => BlacksAbove(n) = BlackHeight[root]
  BY <1>3, <1>5, <1>6, <1>8, <1>9
<1>12. p # NULL => BlacksAbove(n) = BlacksAbove(p) + Black(pf, n)
  BY <1>3, <1>5, <1>7, <1>9, <1>10
<1> QED
  BY <1>3, <1>4, <1>5, <1>6, <1>7, <1>8, <1>11, <1>12 DEF p, root

\* The leftmost node below a node is at the end of a path down in its tree.
LEMMA LeftEnds ==
  ASSUME IInv, NoLoops(link), NEW n \in InUse
  PROVE  /\ c_rbnode_leftmost(n) \in InUse /\ owner[c_rbnode_leftmost(n)] = owner[n]
         /\ link[c_rbnode_leftmost(n)]["left"] = NULL
<1> DEFINE Ends(x) == /\ c_rbnode_leftmost(x) \in InUse /\ owner[c_rbnode_leftmost(x)] = owner[x]
                      /\ link[c_rbnode_leftmost(x)]["left"] = NULL
           S == {x \in Pointer : x \in InUse => Ends(x)}
<1>1. InUseTree
  BY InUseIsTree
<1>2. "left" \in Dir
  BY DEF Dir
<1>3. \A x \in Pointer : c_rbnode_leftmost(x) = IF x = NULL \/ link[x]["left"] = NULL THEN x
                                                ELSE c_rbnode_leftmost(link[x]["left"])
  BY <1>1, <1>2, MostFacts DEF c_rbnode_leftmost, InUseTree
<1>4. ASSUME NEW x \in Node, link[x]["left"] \in S, x \in InUse
      PROVE  Ends(x)
  <2>1. x \in Pointer /\ x # NULL
    BY <1>1, <1>4 DEF InUseTree, Pointer
  <2>2. CASE link[x]["left"] = NULL
    BY <1>3, <1>4, <2>1, <2>2
  <2>3. CASE link[x]["left"] # NULL
    <3>1. link[x]["left"] \in InUse /\ owner[link[x]["left"]] = owner[x]
      BY <1>2, <1>4, <2>3, ChildOf
    <3>2. Ends(link[x]["left"])
      BY <1>4, <3>1
    <3>3. c_rbnode_leftmost(x) = c_rbnode_leftmost(link[x]["left"])
      BY <1>3, <2>1, <2>3
    <3> QED
      BY <3>1, <3>2, <3>3
  <2> QED
    BY <2>2, <2>3
<1>5. NULL \in S /\ \A x \in Node : link[x]["left"] \in S /\ link[x]["right"] \in S => x \in S
  <2> HIDE DEF Ends
  <2> QED
    BY <1>1, <1>4 DEF InUseTree, Pointer
<1>6. LoopFree(link) /\ n \in Pointer
  BY <1>1 DEF InUseTree, Pointer
<1> HIDE DEF S, Ends
<1>7. Pointer \subseteq S
  BY <1>5, <1>6, TreeInduction
<1> QED
  BY <1>6, <1>7 DEF S, Ends

\* f sums up what add gives for each node on the way along the left children.
SumsLeft(f, Ends, add) ==
  \A n \in InUse \cup {NULL} : /\ f[n] = IF n \in Ends THEN 0 ELSE add[n] + f[link[n]["left"]]
                               /\ n = NULL => n \in Ends

\* There is only one such sum.
LEMMA LeftSum ==
  ASSUME IInv, NoLoops(link), NEW f, NEW g, NEW Ends, NEW add,
         SumsLeft(f, Ends, add), SumsLeft(g, Ends, add)
  PROVE  \A n \in InUse \cup {NULL} : f[n] = g[n]
<1> DEFINE S == {x \in Pointer : x \in InUse \cup {NULL} => f[x] = g[x]}
<1>1. InUseTree /\ "left" \in Dir
  BY InUseIsTree DEF Dir
<1>2. NULL \in S
  BY DEF Pointer, SumsLeft
<1>3. ASSUME NEW x \in Node, link[x]["left"] \in S
      PROVE  x \in S
  <2>1. x \in Pointer
    BY DEF Pointer
  <2>2. x \in InUse => link[x]["left"] \in InUse \cup {NULL}
    BY <1>1 DEF InUseTree
  <2>3. x \in InUse => f[link[x]["left"]] = g[link[x]["left"]]
    BY <1>3, <2>2
  <2>4. x \in InUse => f[x] = g[x]
    BY <2>3 DEF SumsLeft
  <2>5. x # NULL
    BY DistinctAddresses
  <2> QED
    BY <2>1, <2>4, <2>5
<1>4. LoopFree(link) /\ InUse \cup {NULL} \subseteq Pointer
  BY <1>1 DEF InUseTree, Pointer
<1>5. Pointer \subseteq S
  <2> HIDE DEF S
  <2> QED
    BY <1>2, <1>3, <1>4, TreeInduction
<1> QED
  BY <1>4, <1>5

\* What i_black grows by on the way down from a right child.
LEMMA DownBlacksAre ==
  ASSUME IInv, NoLoops(link), Idle
  PROVE  \A n \in InUse \cup {NULL} : DownBlacks[n] = BlackHeight[n]
<1> DEFINE Body(f) == [n \in InUse \cup {NULL} |->
                         IF n = NULL THEN 0 ELSE Black(pf, n) + f[link[n]["left"]]]
           g   == [n \in InUse \cup {NULL} |-> BlackHeight[n]]
           add == [n \in InUse \cup {NULL} |-> Black(pf, n)]
           Ends == {NULL}
<1>1. DownBlacks = CHOOSE f : f = Body(f)
  BY DEF DownBlacks
<1>2. InUseTree /\ BlackHeight[NULL] = 0 /\ "left" \in Dir
  BY InUseIsTree, BlackHeightFacts DEF InUseTree, Dir
<1>3. g = Body(g)
  <2>1. ASSUME NEW n \in InUse
        PROVE  BlackHeight[n] = Black(pf, n) + g[link[n]["left"]]
    <3>1. BlackHeight[n] = BlackHeight[link[n]["left"]] + Black(pf, n)
      BY <1>2, NodesAtRest DEF AtRestAt
    <3>2. link[n]["left"] \in InUse \cup {NULL}
      BY <1>2 DEF InUseTree
    <3>3. Black(pf, n) \in Nat /\ BlackHeight[link[n]["left"]] \in Nat
      <4>1. LoopFree(link) /\ link[n]["left"] \in Pointer
        BY <1>2, <3>2 DEF InUseTree, Pointer
      <4> QED
        BY <4>1, BlackHeightFacts DEF Black
    <3> QED
      BY <3>1, <3>2, <3>3
  <2>2. \A n \in InUse : n # NULL
    BY <1>2 DEF InUseTree
  <2> QED
    BY <1>2, <2>1, <2>2
<1>4. DownBlacks = Body(DownBlacks)
  <2> HIDE DEF Body, g
  <2> QED
    BY <1>1, <1>3
<1>5. ASSUME NEW n \in InUse \cup {NULL}
      PROVE  /\ DownBlacks[n] = IF n \in Ends THEN 0 ELSE add[n] + DownBlacks[link[n]["left"]]
             /\ g[n] = IF n \in Ends THEN 0 ELSE add[n] + g[link[n]["left"]]
             /\ n = NULL => n \in Ends
  <2>1. DownBlacks[n] = Body(DownBlacks)[n] /\ g[n] = Body(g)[n]
    <3> HIDE DEF g, Body
    <3> QED
      BY <1>3, <1>4
  <2> HIDE DEF g
  <2> QED
    BY <2>1
<1>6. \A n \in InUse \cup {NULL} : g[n] = BlackHeight[n]
  OBVIOUS
<1> HIDE DEF g, add, Body, Ends
<1>7. SumsLeft(DownBlacks, Ends, add) /\ SumsLeft(g, Ends, add)
  BY <1>5 DEF SumsLeft
<1>8. \A n \in InUse \cup {NULL} : DownBlacks[n] = g[n]
  BY <1>7, LeftSum
<1> QED
  BY <1>6, <1>8

\* What it is at the leftmost node: the black nodes above that one.
LEMMA FirstBlacksAre ==
  ASSUME IInv, NoLoops(link), Idle
  PROVE  \A n \in InUse : FirstBlacks[n] = BlackHeight[n] - BlackHeight[c_rbnode_leftmost(n)]
<1> DEFINE Body(f) == [n \in InUse \cup {NULL} |->
                         IF n = NULL \/ link[n]["left"] = NULL THEN 0
                         ELSE Black(pf, n) + f[link[n]["left"]]]
           OnWay(n) == BlackHeight[n] - BlackHeight[c_rbnode_leftmost(n)]
           g    == [n \in InUse \cup {NULL} |-> OnWay(n)]
           add  == [n \in InUse \cup {NULL} |-> Black(pf, n)]
           Ends == {n \in InUse \cup {NULL} : n = NULL \/ link[n]["left"] = NULL}
<1>1. FirstBlacks = CHOOSE f : f = Body(f)
  BY DEF FirstBlacks
<1>2. InUseTree /\ BlackHeight[NULL] = 0 /\ "left" \in Dir /\ NULL \in Pointer
  BY InUseIsTree, BlackHeightFacts DEF InUseTree, Dir, Pointer
<1>3. \A n \in Pointer : c_rbnode_leftmost(n) = IF n = NULL \/ link[n]["left"] = NULL THEN n
                                                ELSE c_rbnode_leftmost(link[n]["left"])
  BY <1>2, MostFacts DEF c_rbnode_leftmost, InUseTree
<1>4. ASSUME NEW n \in InUse
      PROVE  /\ n \in Pointer /\ n # NULL /\ link[n]["left"] \in InUse \cup {NULL}
             /\ BlackHeight[n] \in Nat /\ Black(pf, n) \in Nat
             /\ BlackHeight[c_rbnode_leftmost(n)] \in Nat
             /\ BlackHeight[n] = BlackHeight[link[n]["left"]] + Black(pf, n)
  BY <1>2, LeftEnds, NodesAtRest, BlacksOnTheWay DEF InUseTree, AtRestAt, Pointer
<1>5. g = Body(g)
  <2>1. ASSUME NEW n \in InUse
        PROVE  g[n] = IF link[n]["left"] = NULL THEN 0 ELSE Black(pf, n) + g[link[n]["left"]]
    <3>1. g[n] = OnWay(n)
      OBVIOUS
    <3>2. CASE link[n]["left"] = NULL
      <4>1. c_rbnode_leftmost(n) = n
        BY <1>3, <1>4, <3>2
      <4> QED
        BY <1>4, <3>1, <3>2, <4>1
    <3>3. CASE link[n]["left"] # NULL
      <4>1. link[n]["left"] \in InUse
        BY <1>4, <3>3
      <4>2. c_rbnode_leftmost(n) = c_rbnode_leftmost(link[n]["left"])
        BY <1>3, <1>4, <3>3
      <4>3. g[link[n]["left"]] = OnWay(link[n]["left"])
        BY <4>1
      <4>4. BlackHeight[link[n]["left"]] \in Nat
        BY <1>4, <4>1
      <4> HIDE DEF g
      <4> QED
        BY <1>4, <3>1, <3>3, <4>2, <4>3, <4>4
    <3> QED
      BY <3>2, <3>3
  <2>2. c_rbnode_leftmost(NULL) = NULL
    BY <1>2, <1>3
  <2>3. g[NULL] = 0
    BY <1>2, <2>2
  <2>4. \A n \in InUse : n # NULL
    BY <1>4
  <2> HIDE DEF OnWay
  <2> QED
    BY <2>1, <2>3, <2>4
<1>6. FirstBlacks = Body(FirstBlacks)
  <2> HIDE DEF Body, g
  <2> QED
    BY <1>1, <1>5
<1>7. ASSUME NEW n \in InUse \cup {NULL}
      PROVE  /\ FirstBlacks[n] = IF n \in Ends THEN 0 ELSE add[n] + FirstBlacks[link[n]["left"]]
             /\ g[n] = IF n \in Ends THEN 0 ELSE add[n] + g[link[n]["left"]]
             /\ n = NULL => n \in Ends
  <2>1. FirstBlacks[n] = Body(FirstBlacks)[n] /\ g[n] = Body(g)[n]
    <3> HIDE DEF g, Body
    <3> QED
      BY <1>5, <1>6
  <2> HIDE DEF g
  <2> QED
    BY <2>1
<1>8. \A n \in InUse : g[n] = OnWay(n)
  OBVIOUS
<1> HIDE DEF g, add, Body, Ends
<1>9. SumsLeft(FirstBlacks, Ends, add) /\ SumsLeft(g, Ends, add)
  BY <1>7 DEF SumsLeft
<1>10. \A n \in InUse \cup {NULL} : FirstBlacks[n] = g[n]
  BY <1>9, LeftSum
<1> QED
  BY <1>8, <1>10

\* What it falls by on the way up: the black nodes above the old place and not
\* above the new one, or all but the root when there is none.
LEMMA UpBlacksAre ==
  ASSUME IInv, NoLoops(link), Idle
  PROVE  \A n \in InUse : ClimbFrom("right")[n] # NULL =>
           /\ ClimbFrom("right")[n] \in InUse /\ owner[ClimbFrom("right")[n]] = owner[n]
           /\ UpBlacks[n] = BlacksAbove(n) - BlacksAbove(ClimbFrom("right")[n])
<1> DEFINE P(n) == c_rbnode_parent(pf, n)
           Climb(n) == ClimbFrom("right")[n]
           Root(n) == link[owner[n]]["root"]
           Left(n) == IF Climb(n) = NULL THEN Black(pf, Root(n)) ELSE BlacksAbove(Climb(n))
           Body(f) == [n \in InUse |->
                         IF P(n) = NULL THEN 0
                         ELSE IF n = link[P(n)]["right"] THEN Black(pf, n) + f[P(n)]
                         ELSE Black(pf, link[P(n)]["left"])]
           g == [n \in InUse |-> BlacksAbove(n) - Left(n)]
<1>1. UpBlacks = CHOOSE f : f = Body(f)
  BY DEF UpBlacks
<1>2. ASSUME NEW n \in InUse
      PROVE  /\ n \in Node /\ BlacksAbove(n) \in Int /\ Black(pf, n) \in Int /\ owner[n] \in Tree
             /\ P(n) = NULL => BlacksAbove(n) = Black(pf, n) /\ Root(n) = n
             /\ P(n) # NULL =>
                  /\ P(n) \in InUse /\ owner[P(n)] = owner[n]
                  /\ BlacksAbove(n) = BlacksAbove(P(n)) + Black(pf, n)
                  /\ n # link[P(n)]["right"] => n = link[P(n)]["left"]
                  /\ \E d \in Dir : link[P(n)][d] = n
             /\ Climb(n) = IF P(n) # NULL /\ n = link[P(n)]["right"] THEN Climb(P(n)) ELSE P(n)
  <2>1. Climb(n) = IF P(n) # NULL /\ n = link[P(n)]["right"] THEN Climb(P(n)) ELSE P(n)
    <3>1. "right" \in Dir /\ n \in Node
      BY BlacksOnTheWay DEF Dir
    <3> QED
      BY <3>1, ClimbFacts
  <2>2. (\E d \in Dir : link[P(n)][d] = n) /\ n # link[P(n)]["right"] => n = link[P(n)]["left"]
    BY DEF Dir
  <2> HIDE DEF Climb
  <2> QED
    BY <2>1, <2>2, BlacksOnTheWay
<1> HIDE DEF P, Climb
<1>3. \A n \in InUse : Climb(n) = NULL \/ (Climb(n) \in InUse /\ owner[Climb(n)] = owner[n])
  <2> DEFINE B == {n \in InUse : ~(Climb(n) = NULL \/ (Climb(n) \in InUse /\ owner[Climb(n)] = owner[n]))}
  <2>1. ASSUME NEW n \in B
        PROVE  \E p \in B, d \in Dir : link[p][d] = n
    <3>1. n \in InUse /\ P(n) # NULL
      <4>1. n \in InUse /\ Climb(n) # NULL
        OBVIOUS
      <4> HIDE DEF B
      <4> QED
        BY <1>2, <4>1
    <3>2. P(n) \in B /\ \E d \in Dir : link[P(n)][d] = n
      BY <1>2, <3>1
    <3> QED
      BY <3>2
  <2>2. B \in SUBSET Node
    BY <1>2
  <2> HIDE DEF B
  <2>3. B = {}
    BY <2>1, <2>2, SomeTop
  <2> QED
    BY <2>3 DEF B
<1>4. \A n \in InUse : Left(n) \in Int
  <2>1. ASSUME NEW n \in InUse
        PROVE  Black(pf, Root(n)) \in Int
    BY DEF Black
  <2> QED
    BY <1>2, <1>3, <2>1
<1>5. g = Body(g)
  <2>1. ASSUME NEW n \in InUse
        PROVE  g[n] = IF P(n) = NULL THEN 0
                      ELSE IF n = link[P(n)]["right"] THEN Black(pf, n) + g[P(n)]
                      ELSE Black(pf, link[P(n)]["left"])
    <3>1. g[n] = BlacksAbove(n) - Left(n)
      OBVIOUS
    <3>2. CASE P(n) = NULL
      <4>1. Left(n) = Black(pf, n) /\ BlacksAbove(n) = Black(pf, n)
        BY <1>2, <3>2
      <4> HIDE DEF Left, g
      <4> QED
        BY <1>2, <3>1, <3>2, <4>1
    <3>3. CASE P(n) # NULL /\ n = link[P(n)]["right"]
      <4>1. P(n) \in InUse /\ Left(P(n)) = Left(n)
        BY <1>2, <3>3
      <4>2. g[P(n)] = BlacksAbove(P(n)) - Left(n)
        BY <4>1
      <4>3. /\ Left(n) \in Int /\ BlacksAbove(P(n)) \in Int /\ Black(pf, n) \in Int
            /\ BlacksAbove(n) = BlacksAbove(P(n)) + Black(pf, n)
        BY <1>2, <1>4, <3>3, <4>1
      <4> HIDE DEF Left, g
      <4> QED
        BY <3>1, <3>3, <4>2, <4>3
    <3>4. CASE P(n) # NULL /\ n # link[P(n)]["right"]
      <4>1. /\ link[P(n)]["left"] = n /\ BlacksAbove(P(n)) \in Int /\ Black(pf, n) \in Int
            /\ BlacksAbove(n) = BlacksAbove(P(n)) + Black(pf, n)
        BY <1>2, <3>4
      <4>2. Left(n) = BlacksAbove(P(n))
        BY <1>2, <3>4
      <4> HIDE DEF Left, g
      <4> QED
        BY <3>1, <3>4, <4>1, <4>2
    <3> QED
      BY <3>2, <3>3, <3>4
  <2> HIDE DEF Left
  <2> QED
    BY <2>1
<1>6. UpBlacks = Body(UpBlacks)
  <2> HIDE DEF Body, g
  <2> QED
    BY <1>1, <1>5
<1>7. \A n \in InUse : UpBlacks[n] = g[n]
  <2> DEFINE B == {n \in InUse : UpBlacks[n] # g[n]}
  <2>1. ASSUME NEW n \in B
        PROVE  \E p \in B, d \in Dir : link[p][d] = n
    <3>1. /\ UpBlacks[n] = Body(UpBlacks)[n] /\ g[n] = Body(g)[n]
          /\ n \in InUse /\ UpBlacks[n] # g[n]
      <4> HIDE DEF g, Body
      <4> QED
        BY <1>5, <1>6
    <3> HIDE DEF g
    <3>2. P(n) # NULL /\ UpBlacks[P(n)] # g[P(n)]
      BY <3>1
    <3> QED
      BY <1>2, <3>1, <3>2
  <2>2. B \in SUBSET Node
    BY <1>2
  <2> HIDE DEF B, g
  <2>3. B = {}
    BY <2>1, <2>2, SomeTop
  <2> QED
    BY <2>3 DEF B
<1>8. \A n \in InUse : Climb(n) # NULL => g[n] = BlacksAbove(n) - BlacksAbove(Climb(n))
  OBVIOUS
<1> HIDE DEF g
<1> QED
  BY <1>3, <1>7, <1>8 DEF Climb

\* validate() goes through the tree as c_rbnode_next does.
LEMMA ValidatedIsOrder ==
  ASSUME IInv, NoLoops(link), Idle, NEW t \in Tree
  PROVE  /\ Validated(t) = InOrder[link[t]["root"]]
         /\ Len(Validated(t)) = Cardinality(Members(t))
         /\ {Validated(t)[i] : i \in 1 .. Len(Validated(t))} = Members(t)
         /\ Len(Validated(t)) \in Nat /\ StepsThrough(Validated(t), ValidateNext)
         /\ 1 \in 1 .. Len(Validated(t)) =>
              /\ link[t]["root"] \in InUse /\ owner[link[t]["root"]] = t
              /\ Validated(t)[1] = c_rbnode_leftmost(link[t]["root"])
<1> DEFINE q == InOrder[link[t]["root"]]
<1>1. LoopsOver(q, t, c_rbtree_first(t), NextStep, c_rbtree_last(t), PrevStep)
  BY InOrderLoops
<1> HIDE DEF q
<1>2. /\ q \in Nodes /\ Distinct(q) /\ {q[i] : i \in 1 .. Len(q)} = Members(t)
      /\ c_rbtree_first(t) = At(q, 1) /\ StepsThrough(q, NextStep)
      /\ \A i \in 1 .. Len(q) : PrevStep[q[i]] = At(q, i - 1)
  BY <1>1 DEF LoopsOver
<1>3. \A i \in 1 .. Len(q) : /\ q[i] \in Node /\ q[i] \in InUse /\ q[i] # NULL
                            /\ c_rbnode_is_linked(pf, q[i])
  BY <1>2, CallsAreSafe, DistinctAddresses DEF Members, CallsSafe, Nodes
<1>4. StepsThrough(q, ValidateNext)
  <2>1. ASSUME NEW i \in 1 .. Len(q)
        PROVE  ValidateNext[q[i]] = NextStep[q[i]]
    BY <1>3 DEF ValidateNext, NextStep, c_rbnode_next, Linked
  <2> QED
    BY <1>2, <2>1 DEF StepsThrough
<1>5. Validated(t) = q
  BY <1>2, <1>4, VisitsAre DEF Validated, c_rbtree_first
<1>6. Len(q) = Cardinality(Members(t))
  BY <1>1, LoopVisits
<1>7. ASSUME 1 \in 1 .. Len(q)
      PROVE  /\ link[t]["root"] \in InUse /\ owner[link[t]["root"]] = t
             /\ q[1] = c_rbnode_leftmost(link[t]["root"])
  <2>1. q[1] = c_rbnode_leftmost(link[t]["root"])
    BY <1>2, <1>7 DEF At, c_rbtree_first
  <2>2. ASSUME link[t]["root"] = NULL
        PROVE  FALSE
    <3>1. link \in Memory /\ "left" \in Dir /\ NULL \in Pointer
      BY InUseFacts DEF Dir, Pointer
    <3>2. c_rbnode_leftmost(NULL) = NULL
      BY <3>1, MostFacts DEF c_rbnode_leftmost
    <3> QED
      BY <1>3, <1>7, <2>1, <2>2, <3>2
  <2> QED
    BY <2>1, <2>2, RootHasNone
<1>8. Len(q) \in Nat
  BY <1>2 DEF Nodes
<1> QED
  BY <1>2, <1>4, <1>5, <1>6, <1>7, <1>8 DEF q

\* What i_black is at each node: the black nodes above it, the first one of the
\* order excepted.
LEMMA BlacksCounted ==
  ASSUME IInv, NoLoops(link), Idle, NEW t \in Tree, NEW seq, seq = Validated(t)
  PROVE  \A i \in 1 .. Len(seq) :
           /\ i_black(t, seq)[i] = BlacksAbove(seq[i]) - Black(pf, seq[1])
           /\ n_black(t) = BlackHeight[link[t]["root"]] - Black(pf, seq[1])
<1> DEFINE Body(f) == [i \in 1 .. Len(seq) |->
                         IF i = 1 THEN n_black(t)
                         ELSE IF link[seq[i - 1]]["right"] # NULL
                              THEN f[i - 1] + DownBlacks[link[seq[i - 1]]["right"]]
                              ELSE f[i - 1] - UpBlacks[seq[i - 1]]]
           f == i_black(t, seq)
           Counted(i) == BlacksAbove(seq[i]) - Black(pf, seq[1])
           g == [i \in 1 .. Len(seq) |-> Counted(i)]
<1>1. f = CHOOSE h : h = Body(h)
  BY DEF i_black
<1>2. /\ Len(seq) \in Nat /\ {seq[i] : i \in 1 .. Len(seq)} = Members(t)
      /\ StepsThrough(seq, ValidateNext)
      /\ 1 \in 1 .. Len(seq) => /\ link[t]["root"] \in InUse /\ owner[link[t]["root"]] = t
                                /\ seq[1] = c_rbnode_leftmost(link[t]["root"])
  BY ValidatedIsOrder
<1>3. ASSUME NEW i \in 1 .. Len(seq)
      PROVE  /\ 1 \in 1 .. Len(seq) /\ i \in Int /\ i >= 1
             /\ seq[i] \in InUse /\ seq[i] \in Node /\ owner[seq[i]] = t
             /\ BlacksAbove(seq[i]) \in Int /\ BlackHeight[link[t]["root"]] \in Nat
             /\ link[seq[i]]["left"] = NULL => BlacksAbove(seq[i]) = BlackHeight[link[t]["root"]]
  <2>1. 1 \in 1 .. Len(seq) /\ i \in Int /\ i >= 1
    BY <1>2
  <2>2. seq[i] \in InUse /\ owner[seq[i]] = t
    BY <1>2 DEF Members
  <2> QED
    BY <2>1, <2>2, BlacksOnTheWay
<1>4. ASSUME 1 \in 1 .. Len(seq)
      PROVE  /\ n_black(t) = BlackHeight[link[t]["root"]] - Black(pf, seq[1])
             /\ n_black(t) = Counted(1) /\ Black(pf, seq[1]) \in Nat
  <2>1. seq[1] \in InUse /\ link[seq[1]]["left"] = NULL
    BY <1>2, <1>4, LeftEnds
  <2>2. BlackHeight[seq[1]] = Black(pf, seq[1]) /\ Black(pf, seq[1]) \in Nat
    BY <2>1, BlacksOnTheWay
  <2>3. n_black(t) = BlackHeight[link[t]["root"]] - BlackHeight[seq[1]]
    BY <1>2, <1>4, FirstBlacksAre DEF n_black
  <2> QED
    BY <1>3, <1>4, <2>1, <2>2, <2>3
<1>5. ASSUME NEW i \in 1 .. Len(seq), i # 1
      PROVE  /\ i - 1 \in 1 .. Len(seq)
             /\ g[i] = IF link[seq[i - 1]]["right"] # NULL
                       THEN g[i - 1] + DownBlacks[link[seq[i - 1]]["right"]]
                       ELSE g[i - 1] - UpBlacks[seq[i - 1]]
  <2> DEFINE j == i - 1
             n == seq[j]
             r == link[n]["right"]
  <2>1. j \in 1 .. Len(seq) /\ j + 1 = i
    BY <1>2, <1>5
  <2>2. seq[i] = ValidateNext[n]
    BY <1>2, <2>1 DEF StepsThrough, At
  <2>3. g[i] = Counted(i) /\ g[j] = Counted(j)
    BY <2>1
  <2>4. /\ n \in InUse /\ n \in Node /\ owner[n] = t /\ seq[i] \in InUse /\ seq[i] # NULL
        /\ BlacksAbove(n) \in Int /\ BlacksAbove(seq[i]) \in Int
    BY <1>3, <2>1, DistinctAddresses
  <2>5. Black(pf, seq[1]) \in Nat
    BY <1>3, <1>4
  <2>6. CASE r # NULL
    <3>1. seq[i] = c_rbnode_leftmost(r)
      BY <2>2, <2>4, <2>6 DEF ValidateNext
    <3>2. r \in InUse /\ "right" \in Dir /\ BlackHeight[n] = BlackHeight[r] + Black(pf, n)
      BY <2>4, <2>6, NodesAtRest DEF AtRestAt, Dir
    <3>3. link[seq[i]]["left"] = NULL
      BY <3>1, <3>2, LeftEnds
    <3>4. BlacksAbove(seq[i]) = BlackHeight[link[t]["root"]] /\ BlackHeight[link[t]["root"]] \in Nat
      BY <1>3, <3>3
    <3>5. BlacksAbove(n) = BlackHeight[link[t]["root"]] - BlackHeight[n] + Black(pf, n)
      BY <2>4 DEF BlacksAbove
    <3>6. BlackHeight[r] \in Nat /\ BlackHeight[n] \in Nat /\ Black(pf, n) \in Nat
      BY <2>4, <3>2, BlacksOnTheWay
    <3>7. BlacksAbove(seq[i]) = BlacksAbove(n) + DownBlacks[r]
      <4>1. DownBlacks[r] = BlackHeight[r]
        BY <3>2, DownBlacksAre
      <4> HIDE DEF n, r
      <4> QED
        BY <3>2, <3>4, <3>5, <3>6, <4>1
    <3>8. DownBlacks[r] \in Nat
      BY <3>2, <3>6, DownBlacksAre
    <3>9. Counted(i) = Counted(j) + DownBlacks[r]
      BY <2>4, <2>5, <3>7, <3>8
    <3> HIDE DEF n, r, g, j, Counted
    <3> QED
      BY <2>1, <2>3, <2>6, <3>9 DEF n, r, j
  <2>7. CASE r = NULL
    <3>1. seq[i] = ClimbFrom("right")[n]
      BY <2>2, <2>4, <2>7 DEF ValidateNext
    <3>2. UpBlacks[n] = BlacksAbove(n) - BlacksAbove(seq[i])
      BY <2>4, <3>1, UpBlacksAre
    <3>3. Counted(i) = Counted(j) - UpBlacks[n]
      BY <2>4, <2>5, <3>2
    <3> HIDE DEF n, r, g, j, Counted
    <3> QED
      BY <2>1, <2>3, <2>7, <3>3 DEF n, r, j
  <2> QED
    BY <2>1, <2>6, <2>7
<1>6. g = Body(g)
  <2>1. \A i \in 1 .. Len(seq) : g[i] = Body(g)[i]
    <3>1. 1 \in 1 .. Len(seq) => g[1] = n_black(t)
      BY <1>4
    <3> HIDE DEF g
    <3> QED
      BY <1>5, <3>1
  <2> DEFINE b == Body(g)
  <2>2. b = [i \in 1 .. Len(seq) |-> b[i]]
    OBVIOUS
  <2>3. g = [i \in 1 .. Len(seq) |-> g[i]]
    OBVIOUS
  <2>4. \A i \in 1 .. Len(seq) : g[i] = b[i]
    BY <2>1
  <2> HIDE DEF g, b
  <2>5. g = b
    BY <2>2, <2>3, <2>4
  <2> QED
    BY <2>5 DEF b
<1>7. f = Body(f)
  <2> HIDE DEF Body, g, f
  <2> QED
    BY <1>1, <1>6
<1>8. \A i \in 1 .. Len(seq) : f[i] = g[i]
  <2> DEFINE B == {i \in 1 .. Len(seq) : f[i] # g[i]}
  <2>1. SUFFICES ASSUME B # {}
                 PROVE  FALSE
    OBVIOUS
  <2>2. B \in SUBSET (1 .. Len(seq))
    OBVIOUS
  <2>3. PICK i \in B : \A j \in B : i <= j
    <3> HIDE DEF B
    <3> QED
      BY <1>2, <2>1, <2>2, Least
  <2>4. i \in 1 .. Len(seq) /\ f[i] # g[i]
    OBVIOUS
  <2>5. f[i] = Body(f)[i] /\ g[i] = Body(g)[i]
    <3> HIDE DEF f, g, Body, B
    <3> QED
      BY <1>6, <1>7
  <2>6. i # 1
    <3> HIDE DEF f, g, B
    <3> QED
      BY <2>4, <2>5
  <2>7. i - 1 \in 1 .. Len(seq) /\ i \in Int
    BY <1>3, <1>5, <2>4, <2>6
  <2>8. f[i - 1] = g[i - 1]
    <3>1. ~(i <= i - 1)
      BY <2>7
    <3>2. i - 1 \notin B
      BY <2>3, <3>1
    <3> HIDE DEF f, g
    <3> QED
      BY <2>7, <3>2
  <2> HIDE DEF f, g, B
  <2> QED
    BY <2>4, <2>5, <2>6, <2>8
<1>9. \A i \in 1 .. Len(seq) : g[i] = Counted(i)
  OBVIOUS
<1> HIDE DEF g
<1> QED
  BY <1>3, <1>4, <1>8, <1>9

\* So validate() accepts every tree and counts its nodes.
LEMMA TreesValidate ==
  ASSUME IInv, NoLoops(link), Idle, InKeyOrder(InUse, link), NEW t \in Tree
  PROVE  Validates(t, Cardinality(Members(t)))
<1> DEFINE seq == Validated(t)
<1>1. /\ seq = InOrder[link[t]["root"]] /\ Len(seq) = Cardinality(Members(t))
      /\ {seq[i] : i \in 1 .. Len(seq)} = Members(t)
  BY ValidatedIsOrder
<1>2. Ascending(seq)
  BY <1>1, InOrderAscends
<1> HIDE DEF seq
<1>3. ASSUME NEW x \in InUse, c_rbnode_parent(pf, x) = NULL
      PROVE  c_rbnode_is_black(pf, x)
  <2>1. c_rbnode_is_root(pf, x)
    <3>1. pf[x].raw \in InUse \cup Tree
      BY InUseFacts DEF Sound, Consistent, ParentsKnowChild, Holder, c_rbnode_raw, InUse
    <3>2. pf[x].raw # NULL
      BY <3>1, InUseFacts, DistinctAddresses
    <3> QED
      BY <1>3, <3>2 DEF c_rbnode_parent
  <2>2. RedsBelowBlacks(owner, pf, NULL)
    BY DEF IInv, NoRedRed, Idle
  <2> QED
    BY <2>1, <2>2, InUseFacts DEF RedsBelowBlacks, InUse, c_rbnode_is_red, c_rbnode_is_black
<1>4. ~Empty(t) => c_rbnode_is_black(pf, link[t]["root"])
  BY <1>3, RootHasNone DEF Empty
<1> DEFINE children(i) == {link[seq[i]][d] : d \in Dir} \ {NULL}
<1>5. ASSUME NEW i \in 1 .. Len(seq)
      PROVE  /\ \A c \in children(i) : c_rbnode_parent(pf, c) = seq[i]
             /\ c_rbnode_parent(pf, seq[i]) = NULL => c_rbnode_is_black(pf, seq[i])
             /\ c_rbnode_is_red(pf, seq[i]) => \A c \in children(i) : c_rbnode_is_black(pf, c)
             /\ children(i) = {} => i_black(t, seq)[i] = n_black(t)
  <2>1. seq[i] \in InUse /\ owner[seq[i]] = t
    BY <1>1 DEF Members
  <2>2. AtRestAt(seq[i])
    BY <2>1, NodesAtRest
  <2>3. \A c \in children(i) : c_rbnode_parent(pf, c) = seq[i]
    BY <2>1, ChildOf
  <2>4. c_rbnode_is_red(pf, seq[i]) => \A c \in children(i) : c_rbnode_is_black(pf, c)
    BY <2>2 DEF AtRestAt, RedNode, c_rbnode_is_red, c_rbnode_is_black
  <2>5. ASSUME children(i) = {}
        PROVE  i_black(t, seq)[i] = n_black(t)
    <3>1. link[seq[i]]["left"] = NULL
      BY <2>5 DEF Dir
    <3>2. BlacksAbove(seq[i]) = BlackHeight[link[t]["root"]]
      BY <2>1, <3>1, BlacksOnTheWay
    <3>3. i_black(t, seq)[i] = BlacksAbove(seq[i]) - Black(pf, seq[1])
      BY BlacksCounted DEF seq
    <3>4. n_black(t) = BlackHeight[link[t]["root"]] - Black(pf, seq[1])
      BY BlacksCounted DEF seq
    <3> QED
      BY <3>2, <3>3, <3>4
  <2> QED
    BY <1>3, <2>1, <2>3, <2>4, <2>5
<1>6. LET blacks == i_black(t, seq)
      IN  /\ ~Empty(t) => c_rbnode_is_black(pf, link[t]["root"])
          /\ Len(seq) = Cardinality(Members(t)) /\ Ascending(seq)
          /\ \A i \in 1 .. Len(seq) :
               /\ \A c \in children(i) : c_rbnode_parent(pf, c) = seq[i]
               /\ c_rbnode_parent(pf, seq[i]) = NULL => c_rbnode_is_black(pf, seq[i])
               /\ c_rbnode_is_red(pf, seq[i]) => \A c \in children(i) : c_rbnode_is_black(pf, c)
               /\ children(i) = {} => blacks[i] = n_black(t)
  <2> HIDE DEF children
  <2> QED
    BY <1>1, <1>2, <1>4, <1>5
<1> QED
  BY <1>6 DEF Validates, seq

-----------------------------------------------------------------------------
(* What the other assertions say of a tree at rest *)

\* A tree is empty when it has no nodes.
LEMMA EmptyTrees ==
  ASSUME IInv, NoLoops(link), NEW t \in Tree
  PROVE  Empty(t) <=> Members(t) = {}
<1>1. ASSUME link[t]["root"] # NULL
      PROVE  Members(t) # {}
  BY <1>1, RootHasNone DEF Members
<1>2. ASSUME link[t]["root"] = NULL, NEW n \in Members(t)
      PROVE  FALSE
  <2>1. n \in Node /\ n \in InUse /\ owner[n] = t
    BY <1>2, InUseFacts DEF Members
  <2>2. n \in Subtree(link, NULL)
    BY <1>2, <2>1, BelowRoot
  <2>3. InOrder[NULL] = None /\ Range(InOrder[NULL]) = Subtree(link, NULL)
    <3>1. OrdersKnown
      BY OrdersAreKnown
    <3>2. Sequenced(InUse, link, InOrder)
      BY <3>1 DEF OrdersKnown
    <3>3. Spans(InUse, link, InOrder)
      BY <3>2, SequencedSpans
    <3>4. Range(InOrder[NULL]) = Subtree(link, NULL)
      BY <3>3, RangeIsSubtree
    <3> QED
      BY <3>2, <3>4 DEF Sequenced
  <2> QED
    BY <2>2, <2>3, RangeFacts
<1> QED
  BY <1>1, <1>2 DEF Empty

\* A lookup finds the nodes that are in the tree, a new node finds a slot.
LEMMA SearchesFind ==
  ASSUME IInv, NoLoops(link), InKeyOrder(InUse, link), NEW t \in Tree, NEW n \in Node
  PROVE  /\ n \in Members(t) => c_rbtree_find_node(t, KeyOf[n]) = n
         /\ n \notin Members(t) => /\ c_rbtree_find_node(t, KeyOf[n]) = NULL
                                   /\ c_rbtree_find_slot(t, KeyOf[n]).l # Conflict
<1>1. KeyOf[n] \in Key
  BY DEF Key
<1>2. LookupsCorrect /\ SlotsCorrect
  BY SearchesCorrect
<1>3. KeysIn(t) = {KeyOf[m] : m \in Members(t)}
  BY DEF KeysIn, Members
<1>4. Members(t) \subseteq Node
  BY InUseFacts DEF Members
<1>5. KeyOf[n] \in KeysIn(t) <=> n \in Members(t)
  BY <1>3, <1>4, KeysDistinct
<1>6. ASSUME n \in Members(t)
      PROVE  c_rbtree_find_node(t, KeyOf[n]) = n
  <2> DEFINE m == c_rbtree_find_node(t, KeyOf[n])
  <2>1. m \in InUse /\ KeyOf[m] = KeyOf[n]
    BY <1>1, <1>2, <1>5, <1>6 DEF LookupsCorrect
  <2>2. m \in Node
    BY <2>1, InUseFacts
  <2> HIDE DEF m
  <2>3. m = n
    BY <2>1, <2>2, KeysDistinct
  <2> QED
    BY <2>3 DEF m
<1>7. ASSUME n \notin Members(t)
      PROVE  /\ c_rbtree_find_node(t, KeyOf[n]) = NULL
             /\ c_rbtree_find_slot(t, KeyOf[n]).l # Conflict
  <2>1. c_rbtree_find_node(t, KeyOf[n]) = NULL
    BY <1>1, <1>2, <1>5, <1>7 DEF LookupsCorrect
  <2>2. c_rbtree_find_slot(t, KeyOf[n]).l # Conflict
    BY <1>1, <1>2, <1>5, <1>7 DEF SlotsCorrect
  <2> QED
    BY <2>1, <2>2
<1> QED
  BY <1>6, <1>7

\* The loops of test-map.c and test-posix.c over a tree that has all nodes.
LEMMA LoopsVerify ==
  ASSUME IInv, NoLoops(link), Idle, InKeyOrder(InUse, link), NEW t \in Tree,
         Members(t) = Node
  PROVE  TraversalsVerified(t) /\ LookupsVerified(t)
<1> DEFINE q == InOrder[link[t]["root"]]
           p == PostOrder[link[t]["root"]]
<1>1. /\ Visits(c_rbtree_first(t), NextStep) = q
      /\ Visits(c_rbtree_last(t), PrevStep) = Backwards(q)
      /\ Len(q) = N /\ Len(q) = Cardinality(Members(t))
      /\ VisitsEach(q) /\ VisitsEach(Backwards(q))
      /\ ThereAndBack(q, NextStep, PrevStep)
  BY InOrderLoops, LoopVisits DEF N
<1>2. /\ Visits(c_rbtree_first_postorder(t), NextPost) = p
      /\ Visits(c_rbtree_last_postorder(t), PrevPost) = Backwards(p)
      /\ VisitsEach(p) /\ VisitsEach(Backwards(p))
      /\ ThereAndBack(p, NextPost, PrevPost)
  BY PostOrderLoops, LoopVisits
<1>3. /\ Ascending(q)
      /\ \A i \in 1 .. Len(q) - 1 : KeyOf[Backwards(q)[i]] >= KeyOf[Backwards(q)[i + 1]]
  BY InOrderAscends
<1>4. Family(p, TRUE) /\ Family(Backwards(p), FALSE)
  BY PostOrderFamily
<1>5. \A n \in Node : c_rbtree_find_node(t, KeyOf[n]) = n
  BY SearchesFind
<1> HIDE DEF p, q
<1>6. TraversalsVerified(t)
  BY <1>1, <1>2, <1>3, <1>4 DEF TraversalsVerified
<1>7. LookupsVerified(t)
  BY <1>1, <1>3, <1>5 DEF LookupsVerified
<1> QED
  BY <1>6, <1>7

\* The end of test-api.c.
LEMMA NoneVisited ==
  ASSUME link \in Memory, link[tree1]["root"] = NULL, link[apiN] = NoLinks, ~Linked(apiN)
  PROVE  NothingToVisit
<1>1. apiN \in Node /\ apiN \in Pointer /\ NULL \in Pointer /\ "left" \in Dir /\ "right" \in Dir
  BY TreesAndNodes DEF Pointer, Dir
<1>2. \A d \in Dir : link[apiN][d] = NULL /\ Other(d) \in Dir
  BY DEF NoLinks, Side, Dir, Other
<1>3. \A d \in Dir : c_rbnode_most(d)[NULL] = NULL /\ c_rbnode_most(d)[apiN] = apiN
  BY <1>1, <1>2, MostFacts
<1>4. \A d \in Dir : c_rbnode_deepest(d)[NULL] = NULL /\ c_rbnode_deepest(d)[apiN] = apiN
  BY <1>1, <1>2, DeepestFacts
<1>5. /\ c_rbtree_first(tree1) = NULL /\ c_rbtree_first_postorder(tree1) = NULL
      /\ c_rbtree_last(tree1) = NULL /\ c_rbtree_last_postorder(tree1) = NULL
  BY <1>1, <1>3, <1>4
     DEF c_rbtree_first, c_rbtree_first_postorder, c_rbtree_last, c_rbtree_last_postorder,
         c_rbnode_leftmost, c_rbnode_rightmost, c_rbnode_leftdeepest
<1>6. /\ c_rbnode_next(apiN) = NULL /\ c_rbnode_prev(apiN) = NULL
      /\ c_rbnode_next_postorder(apiN) = NULL /\ c_rbnode_prev_postorder(apiN) = NULL
  BY DEF c_rbnode_next, c_rbnode_prev, c_rbnode_next_postorder, c_rbnode_prev_postorder
<1>7. \A m \in Macro : First(m, tree1) = NULL
  BY <1>5 DEF First
<1> QED
  BY <1>1, <1>3, <1>4, <1>5, <1>6, <1>7
     DEF NothingToVisit, c_rbnode_leftmost, c_rbnode_rightmost, c_rbnode_leftdeepest,
         c_rbnode_rightdeepest

-----------------------------------------------------------------------------
(* The invariant *)

Doing == Script[test][line].do
Times == Script[test][line].times

\* Where a test can be.
PlaceOK ==
  /\ test \in DOMAIN Script /\ line \in Nat \ {0} /\ count \in Nat /\ node \in Pointer
  /\ loop \in {"none", "safe", "unlink"}
  /\ Done => Idle /\ loop = "none" /\ node = NULL
  /\ ~Done => /\ count <= Times
              /\ loop # "none" => Doing = loop /\ count = 1 /\ node = NULL
              /\ node # NULL => count < Times /\ Doing \in {"add", "remove", "drain", "call"}

\* How many nodes are in the tree after c of the iterations of phase p.
SizeAt(p, c) ==
  IF p.do = "add" THEN N - p.times + c
  ELSE IF p.do \in {"remove", "drain"} THEN N - c
  ELSE IF p.do \in {"safe", "unlink"} /\ c # 0 THEN 0
  ELSE N

\* The one tree that has nodes: test_move moves them to the other one.
Holding == IF test = "misc" /\ (line = 3 \/ (line = 2 /\ count = 1)) THEN tree2 ELSE tree1

\* 1 if the call of the current iteration has added or removed its node.
Changed == IF node # NULL /\ (Doing = "add" \/ owner[node] = NULL) THEN 1 ELSE 0

Sized ==
  /\ \A n \in Node : owner[n] \in {NULL, Holding}
  /\ loop = "none" => Cardinality(InUse) = SizeAt(Script[test][line], count + Changed)

\* The loops that take the tree apart: the nodes they have left are out of it.
Emptying ==
  /\ loop # "none" =>
       /\ tree = tree1 /\ {expected[i] : i \in 1 .. Len(expected)} = Node
       /\ \A i \in 1 .. Len(visited) :
            owner[visited[i]] = NULL \/ (loop = "safe" /\ at = "body" /\ i = Len(visited))
  /\ loop = "none" /\ Doing \in {"safe", "unlink"} /\ count = 1 => Len(visited) = N

\* A call of c_rbnode_unlink for node n that is not at its end.
Removing(n) ==
  /\ pc \in {"successor", "rebalance", "rotate", "init"}
  /\ n \in Node /\ call = "unlink" /\ victim = n
  /\ stale \subseteq {n} /\ (owner[n] = NULL <=> pc # "successor")

\* The node of the call in progress.
Worked == IF loop = "safe" THEN iter ELSE node

InCall ==
  /\ Idle => stale = {} /\ (node # NULL => (owner[node] # NULL <=> Doing = "add"))
  /\ pc = "paint" => Doing = "add" /\ node \in InUse /\ stale = {}
  /\ pc \in {"successor", "rebalance", "rotate", "init"} =>
       /\ Doing \in {"remove", "drain", "safe"} /\ Removing(Worked)
       /\ loop = "safe" => at = "body"

\* The state of all tests but test_api.
RunInv == Sized /\ Emptying /\ InCall /\ (loop # "unlink" => InKeyOrder(InUse, link))

\* test_api has one tree with at most two nodes, A and its left child B. This is
\* its state when b of its calls have begun.
Leaf(n) == [s \in Side |-> IF s = "left" THEN n ELSE NULL]

ApiMemory(b) ==
  /\ link \in Memory
  /\ link[tree1]["root"] = IF b \in {0, 9, 10} THEN NULL ELSE apiN
  /\ link[apiN] = IF b \in {2, 5} THEN Leaf(apiM) ELSE NoLinks
  /\ link[apiM] = NoLinks

ApiWords(b) ==
  /\ pf \in Words
  /\ pf[apiN] = IF b \in 1 .. 6
                THEN [raw |-> tree1,
                      flags |-> IF b \in {1, 4} /\ pc = "paint"
                                THEN {C_RBNODE_RED, C_RBNODE_ROOT} ELSE {C_RBNODE_ROOT}]
                ELSE [raw |-> apiN, flags |-> {}]
  /\ pf[apiM] = IF b \in {2, 5, 6, 7} \/ (b = 3 /\ pc = "init")
                THEN [raw |-> apiN, flags |-> {C_RBNODE_RED}]
                ELSE [raw |-> apiM, flags |-> {}]

ApiOwners(b) ==
  /\ owner \in Owners
  /\ owner[apiN] = IF b \in 1 .. 6 THEN tree1 ELSE NULL
  /\ owner[apiM] = IF b \in {2, 5} THEN tree1 ELSE NULL
  /\ \A n \in Node : n # apiN /\ n # apiM => owner[n] = NULL
  /\ stale = IF b \in {6, 7} \/ (b = 3 /\ pc = "init") THEN {apiM} ELSE {}

ApiNode(b) == IF b \in {1, 4, 7, 9, 10} THEN apiN ELSE apiM

ApiCalls(b) ==
  \/ pc = "idle"
  \/ pc = "paint" /\ b \in {1, 2, 4, 5} /\ cur = ApiNode(b)
  \/ pc = "init" /\ b = 3 /\ victim = apiM

ApiState(b) == ApiMemory(b) /\ ApiWords(b) /\ ApiOwners(b) /\ ApiCalls(b)

Begun == count + (IF node = NULL THEN 0 ELSE 1)

ApiInv == loop = "none" /\ ApiState(Begun) /\ (node # NULL => node = ApiNode(Begun))

TestInv ==
  /\ PlaceOK
  /\ test # "api" => IterInv /\ (~Done => RunInv)
  /\ test = "api" /\ ~Done => ApiInv

-----------------------------------------------------------------------------
(* The scripts *)

\* What the phases of script s are.
PhaseOK(s, p) ==
  /\ p.do \in {"add", "remove", "drain", "move", "verify", "safe", "unlink", "call"}
  /\ p.times \in Nat
  /\ p.do \in {"move", "verify", "safe", "unlink"} => p.times = 1
  /\ p.do = "call" <=> s = "api"
  /\ p.do \in {"safe", "unlink"} => s = "map"
  /\ p.do = "verify" => s \in {"map", "posix"}
  /\ p.do \in {"move", "drain"} => s = "misc"
  /\ p.do = "drain" \/ (p.do = "remove" /\ s = "map") => p.times = N
  /\ s = "basic" => p.do \in {"add", "remove"}

\* The first phase begins with an empty tree, each other one with the number of
\* nodes the phase before has left.
Chained(S) ==
  /\ SizeAt(S[1], 0) = 0
  /\ \A l \in 1 .. Len(S) - 1 : SizeAt(S[l], S[l].times) = SizeAt(S[l + 1], 0)

LEMMA PhaseFields == \A w, n : Phase(w, n).do = w /\ Phase(w, n).times = n
BY DEF Phase

\* The numbers of nodes at the beginning and at the end of each kind of phase.
LEMMA PhaseSizes ==
  /\ N \div 2 \in Nat
  /\ SizeAt(AddAll, 0) = 0 /\ SizeAt(AddAll, N) = N
  /\ SizeAt(RemoveAll, 0) = N /\ SizeAt(RemoveAll, N) = 0
  /\ SizeAt(RemoveHalf, 0) = N /\ SizeAt(RemoveHalf, N \div 2) = SizeAt(AddHalf, 0)
  /\ SizeAt(AddHalf, N \div 2) = N
  /\ SizeAt(Phase("drain", N), 0) = N
  /\ \A m \in {"verify", "move", "safe", "unlink"} : \A n : SizeAt(Phase(m, n), 0) = N
  /\ \A m \in {"verify", "move"} : \A n : SizeAt(Phase(m, n), 1) = N
  /\ \A m \in {"safe", "unlink"} : \A n : SizeAt(Phase(m, n), 1) = 0
<1>1. N \in Nat /\ N \div 2 \in Nat
  BY NodesCounted
<1> DEFINE h == N \div 2
<1> HIDE DEF h
<1>2. SizeAt(AddAll, 0) = 0 /\ SizeAt(AddAll, N) = N
  BY <1>1, PhaseFields DEF SizeAt, AddAll
<1>3. SizeAt(RemoveAll, 0) = N /\ SizeAt(RemoveAll, N) = 0
  BY <1>1, PhaseFields DEF SizeAt, RemoveAll
<1>4. /\ SizeAt(RemoveHalf, 0) = N /\ SizeAt(RemoveHalf, h) = SizeAt(AddHalf, 0)
      /\ SizeAt(AddHalf, h) = N
  <2>1. h \in Nat
    BY <1>1 DEF h
  <2>2. /\ RemoveHalf.do = "remove" /\ AddHalf.do = "add"
        /\ RemoveHalf.times = h /\ AddHalf.times = h
    BY PhaseFields DEF RemoveHalf, AddHalf, h
  <2> QED
    BY <1>1, <2>1, <2>2 DEF SizeAt
<1>5. SizeAt(Phase("drain", N), 0) = N
  BY <1>1, PhaseFields DEF SizeAt
<1>6. /\ \A m \in {"verify", "move", "safe", "unlink"} : \A n : SizeAt(Phase(m, n), 0) = N
      /\ \A m \in {"verify", "move"} : \A n : SizeAt(Phase(m, n), 1) = N
      /\ \A m \in {"safe", "unlink"} : \A n : SizeAt(Phase(m, n), 1) = 0
  BY PhaseFields DEF SizeAt
<1> QED
  BY <1>1, <1>2, <1>3, <1>4, <1>5, <1>6 DEF h

LEMMA ScriptFacts ==
  /\ DOMAIN Script = {"basic", "map", "posix", "misc", "api"}
  /\ \A s \in DOMAIN Script :
       /\ Len(Script[s]) \in Nat \ {0}
       /\ \A l \in 1 .. Len(Script[s]) : PhaseOK(s, Script[s][l])
       /\ s # "api" => Chained(Script[s])
  /\ Script["api"] = <<Phase("call", 10)>>
  /\ Script["misc"] = <<AddAll, Phase("move", 1), Phase("drain", N)>>
<1>1. /\ DOMAIN Script = {"basic", "map", "posix", "misc", "api"}
      /\ Script["basic"] = Basic /\ Script["map"] = Map /\ Script["posix"] = Posix
      /\ Script["misc"] = Misc /\ Script["api"] = Api
  BY DEF Script
<1>2. N \in Nat /\ N \div 2 \in Nat
  BY NodesCounted
<1>3. /\ AddAll.do = "add" /\ AddAll.times = N /\ AddHalf.do = "add" /\ AddHalf.times = N \div 2
      /\ RemoveAll.do = "remove" /\ RemoveAll.times = N
      /\ RemoveHalf.do = "remove" /\ RemoveHalf.times = N \div 2
  BY PhaseFields DEF AddAll, AddHalf, RemoveAll, RemoveHalf
<1>4. Verify = Phase("verify", 1) /\ Loop("safe") = Phase("safe", 1) /\ Loop("unlink") = Phase("unlink", 1)
  BY DEF Verify, Loop
<1>5. /\ \A s \in {"basic", "map", "posix", "misc"} : PhaseOK(s, AddAll)
      /\ \A s \in {"basic", "map", "posix"} : PhaseOK(s, RemoveAll)
      /\ PhaseOK("basic", AddHalf) /\ PhaseOK("basic", RemoveHalf)
      /\ \A s \in {"map", "posix"} : PhaseOK(s, Verify)
      /\ PhaseOK("map", Loop("safe")) /\ PhaseOK("map", Loop("unlink"))
      /\ PhaseOK("misc", Phase("move", 1)) /\ PhaseOK("misc", Phase("drain", N))
      /\ PhaseOK("api", Phase("call", 10))
  BY <1>2, <1>3, <1>4, PhaseFields DEF PhaseOK
<1>6. /\ SizeAt(AddAll, AddAll.times) = N /\ SizeAt(AddHalf, AddHalf.times) = N
      /\ SizeAt(RemoveAll, RemoveAll.times) = 0
      /\ SizeAt(RemoveHalf, RemoveHalf.times) = SizeAt(AddHalf, 0)
      /\ SizeAt(AddAll, 0) = 0 /\ SizeAt(RemoveAll, 0) = N /\ SizeAt(RemoveHalf, 0) = N
      /\ SizeAt(Verify, 0) = N /\ SizeAt(Verify, Verify.times) = N
      /\ \A m \in {"safe", "unlink"} : /\ SizeAt(Loop(m), 0) = N
                                      /\ SizeAt(Loop(m), Loop(m).times) = 0
      /\ SizeAt(Phase("move", 1), 0) = N /\ SizeAt(Phase("move", 1), Phase("move", 1).times) = N
      /\ SizeAt(Phase("drain", N), 0) = N
  BY <1>3, PhaseSizes, PhaseFields DEF Verify, Loop
<1>7. /\ Len(Basic) \in Nat \ {0} /\ Chained(Basic)
      /\ \A l \in 1 .. Len(Basic) : PhaseOK("basic", Basic[l])
  <2>1. Len(Basic) = 12
    BY DEF Basic
  <2>2. /\ \A l \in 1 .. 12 : \/ l = 1 \/ l = 2 \/ l = 3 \/ l = 4 \/ l = 5 \/ l = 6
                             \/ l = 7 \/ l = 8 \/ l = 9 \/ l = 10 \/ l = 11 \/ l = 12
        /\ \A l \in 1 .. 11 : \/ l = 1 \/ l = 2 \/ l = 3 \/ l = 4 \/ l = 5 \/ l = 6
                             \/ l = 7 \/ l = 8 \/ l = 9 \/ l = 10 \/ l = 11
    OBVIOUS
  <2>3. /\ Basic[1] = AddAll /\ Basic[2] = RemoveAll /\ Basic[3] = AddAll
        /\ Basic[4] = RemoveHalf /\ Basic[5] = AddHalf /\ Basic[6] = RemoveHalf
        /\ Basic[7] = AddHalf /\ Basic[8] = RemoveHalf /\ Basic[9] = AddHalf
        /\ Basic[10] = RemoveHalf /\ Basic[11] = AddHalf /\ Basic[12] = RemoveAll
    BY DEF Basic
  <2>4. \A l \in 1 .. 11 : SizeAt(Basic[l], Basic[l].times) = SizeAt(Basic[l + 1], 0)
    BY <1>6, <2>2, <2>3
  <2>5. \A l \in 1 .. 12 : PhaseOK("basic", Basic[l])
    BY <1>5, <2>2, <2>3
  <2> QED
    BY <1>6, <2>1, <2>3, <2>4, <2>5 DEF Chained
<1>8. /\ Len(Map) \in Nat \ {0} /\ Chained(Map)
      /\ \A l \in 1 .. Len(Map) : PhaseOK("map", Map[l])
  <2>1. Len(Map) = 11
    BY DEF Map
  <2>2. /\ \A l \in 1 .. 11 : \/ l = 1 \/ l = 2 \/ l = 3 \/ l = 4 \/ l = 5 \/ l = 6
                             \/ l = 7 \/ l = 8 \/ l = 9 \/ l = 10 \/ l = 11
        /\ \A l \in 1 .. 10 : \/ l = 1 \/ l = 2 \/ l = 3 \/ l = 4 \/ l = 5 \/ l = 6
                             \/ l = 7 \/ l = 8 \/ l = 9 \/ l = 10
    OBVIOUS
  <2>3. /\ Map[1] = AddAll /\ Map[2] = Verify /\ Map[3] = RemoveAll
        /\ Map[4] = AddAll /\ Map[5] = Loop("safe") /\ Map[6] = AddAll /\ Map[7] = Loop("safe")
        /\ Map[8] = AddAll /\ Map[9] = Loop("unlink") /\ Map[10] = AddAll
        /\ Map[11] = Loop("unlink")
    BY DEF Map
  <2>4. \A l \in 1 .. 10 : SizeAt(Map[l], Map[l].times) = SizeAt(Map[l + 1], 0)
    BY <1>6, <2>2, <2>3
  <2>5. \A l \in 1 .. 11 : PhaseOK("map", Map[l])
    BY <1>5, <2>2, <2>3
  <2> QED
    BY <1>6, <2>1, <2>3, <2>4, <2>5 DEF Chained
<1>9. /\ Len(Posix) \in Nat \ {0} /\ Chained(Posix)
      /\ \A l \in 1 .. Len(Posix) : PhaseOK("posix", Posix[l])
  <2>1. /\ Len(Posix) = 3
        /\ Posix[1] = AddAll /\ Posix[2] = Verify /\ Posix[3] = RemoveAll
    BY DEF Posix
  <2>2. /\ \A l \in 1 .. 3 : l = 1 \/ l = 2 \/ l = 3
        /\ \A l \in 1 .. 2 : l = 1 \/ l = 2
    OBVIOUS
  <2>3. \A l \in 1 .. 2 : SizeAt(Posix[l], Posix[l].times) = SizeAt(Posix[l + 1], 0)
    BY <1>6, <2>1, <2>2
  <2> QED
    BY <1>5, <1>6, <2>1, <2>2, <2>3 DEF Chained
<1>10. /\ Len(Misc) \in Nat \ {0} /\ Chained(Misc)
       /\ \A l \in 1 .. Len(Misc) : PhaseOK("misc", Misc[l])
  <2>1. /\ Len(Misc) = 3
        /\ Misc[1] = AddAll /\ Misc[2] = Phase("move", 1) /\ Misc[3] = Phase("drain", N)
    BY DEF Misc
  <2>2. /\ \A l \in 1 .. 3 : l = 1 \/ l = 2 \/ l = 3
        /\ \A l \in 1 .. 2 : l = 1 \/ l = 2
    OBVIOUS
  <2>3. \A l \in 1 .. 2 : SizeAt(Misc[l], Misc[l].times) = SizeAt(Misc[l + 1], 0)
    BY <1>6, <2>1, <2>2
  <2> QED
    BY <1>5, <1>6, <2>1, <2>2, <2>3 DEF Chained
<1>11. /\ Len(Api) \in Nat \ {0}
       /\ \A l \in 1 .. Len(Api) : PhaseOK("api", Api[l])
  <2>1. Len(Api) = 1 /\ Api[1] = Phase("call", 10)
    BY DEF Api
  <2>2. \A l \in 1 .. 1 : l = 1
    OBVIOUS
  <2> QED
    BY <1>5, <2>1, <2>2
<1>12. Api = <<Phase("call", 10)>> /\ Misc = <<AddAll, Phase("move", 1), Phase("drain", N)>>
  BY DEF Api, Misc
<1> QED
  BY <1>1, <1>7, <1>8, <1>9, <1>10, <1>11, <1>12

\* The phase a test is in.
LEMMA InPhase ==
  ASSUME PlaceOK, ~Done
  PROVE  /\ line \in 1 .. Len(Script[test]) /\ PhaseOK(test, Script[test][line])
         /\ Doing = Script[test][line].do /\ Times = Script[test][line].times /\ Times \in Nat
         /\ \A w : In(w) <=> Doing = w
         /\ More <=> count < Times
         /\ test = "misc" => /\ line = 1 => Doing = "add"
                             /\ line = 2 => Doing = "move" /\ Times = 1
                             /\ line = 3 => Doing = "drain"
                             /\ line \in 1 .. 3
<1>1. Len(Script[test]) \in Nat \ {0}
  BY ScriptFacts DEF PlaceOK
<1>2. line \in 1 .. Len(Script[test])
  BY <1>1 DEF PlaceOK, Done
<1>3. PhaseOK(test, Script[test][line])
  BY <1>2, ScriptFacts DEF PlaceOK
<1>4. Times \in Nat
  BY <1>3 DEF PhaseOK, Times
<1>5. ASSUME test = "misc"
      PROVE  /\ line = 1 => Doing = "add"
             /\ line = 2 => Doing = "move" /\ Times = 1
             /\ line = 3 => Doing = "drain"
             /\ line \in 1 .. 3
  <2>1. Script[test] = <<AddAll, Phase("move", 1), Phase("drain", N)>>
    BY <1>5, ScriptFacts
  <2>2. /\ Script[test][1] = AddAll /\ Script[test][2] = Phase("move", 1)
        /\ Script[test][3] = Phase("drain", N) /\ Len(Script[test]) = 3
    BY <2>1
  <2> QED
    BY <1>2, <2>2, PhaseFields DEF Doing, Times, AddAll
<1> QED
  BY <1>2, <1>3, <1>4, <1>5 DEF Doing, Times, In, More

-----------------------------------------------------------------------------
(* The steps of the calls *)

\* The caller's view changes in the step that takes node n out.
TakesOut(n) ==
  \/ owner' = owner /\ InUse' = InUse
  \/ n \in InUse /\ owner' = [owner EXCEPT ![n] = NULL] /\ InUse' = InUse \ {n}

LEMMA DetachTakesOut ==
  ASSUME NEW n \in InUse, owner \in Owners, Detach(n)
  PROVE  TakesOut(n) /\ owner'[n] = NULL /\ stale' = stale \cup {n}
<1>1. owner' = [owner EXCEPT ![n] = NULL] /\ stale' = stale \cup {n} /\ n \in Node
  BY DEF Detach, InUse, Owned
<1>2. \A k \in Node : owner'[k] = IF k = n THEN NULL ELSE owner[k]
  BY <1>1 DEF Owners
<1>3. InUse' = InUse \ {n}
  BY <1>1, <1>2 DEF InUse, Owned
<1> QED
  BY <1>1, <1>2, <1>3 DEF TakesOut

\* c_rbnode_unlink begins.
LEMMA RemovalStarts ==
  ASSUME IInv, Idle, stale = {}, NEW n \in InUse, Unlink(n), call' = "unlink"
  PROVE  Removing(n)' /\ TakesOut(n)
<1>1. n \in Node /\ n # NULL /\ owner \in Owners /\ owner[n] # NULL
  BY InUseFacts DEF InUse, Owned
<1>2. ASSUME NEW api \in APICall, UnlinkFull(api, n)
      PROVE  Removing(n)' /\ TakesOut(n)
  <2>1. pc' = "successor" /\ call' = api /\ victim' = n /\ owner' = owner /\ stale' = stale
    BY <1>2 DEF UnlinkFull, caller
  <2>2. InUse' = InUse
    BY <2>1 DEF InUse, Owned
  <2> QED
    BY <1>1, <2>1, <2>2 DEF Removing, TakesOut
<1>3. ASSUME NEW api \in APICall, UnlinkLeaf(api, n) \/ \E d \in Dir : UnlinkOneChild(api, n, d)
      PROVE  Removing(n)' /\ TakesOut(n)
  <2>1. /\ Detach(n)
        /\ \/ \E p : RebalanceFrom(api, n, p)
           \/ Unlinked(api, n)
    BY <1>3 DEF UnlinkLeaf, UnlinkOneChild
  <2>2. TakesOut(n) /\ owner'[n] = NULL /\ stale' = stale \cup {n}
    BY <1>1, <2>1, DetachTakesOut
  <2>3. pc' \in {"rebalance", "init"} /\ victim' = n
    BY <2>1 DEF RebalanceFrom, Unlinked, Return
  <2> QED
    BY <1>1, <2>2, <2>3 DEF Removing
<1> QED
  BY <1>2, <1>3 DEF Unlink

\* It goes on, or it is at its end: then the node is reset.
LEMMA RemovalSteps ==
  ASSUME IInv, NEW n, Removing(n), Step
  PROVE  /\ TakesOut(n)
         /\ \/ Removing(n)'
            \/ Idle' /\ owner' = owner /\ stale' = {} /\ owner[n] = NULL
<1>1. /\ pc \in {"successor", "rebalance", "rotate", "init"}
      /\ n \in Node /\ call = "unlink" /\ victim = n
      /\ stale \subseteq {n} /\ (owner[n] = NULL <=> pc # "successor")
  BY DEF Removing
<1>2. owner' = owner => InUse' = InUse
  BY DEF InUse, Owned
<1>3. ASSUME UNCHANGED <<owner, stale, call, victim>>,
             pc' \in {"rebalance", "rotate", "init"}, pc # "successor"
      PROVE  TakesOut(n) /\ Removing(n)'
  BY <1>1, <1>2, <1>3 DEF TakesOut, Removing
<1>4. ASSUME Unlinked(call, victim)
      PROVE  pc' = "init" /\ call' = call /\ victim' = victim
  BY <1>1, <1>4 DEF Unlinked
<1>5. CASE WalkLeft
  <2>1. UNCHANGED <<owner, stale, call, victim, pc>>
    BY <1>5 DEF WalkLeft, Continue, caller
  <2> QED
    BY <1>1, <1>2, <2>1 DEF TakesOut, Removing
<1>6. CASE SpliceSuccessor
  <2>1. /\ Detach(n) /\ pc = "successor"
        /\ \/ \E p : RebalanceFrom(call, n, p)
           \/ Unlinked(call, n)
    BY <1>1, <1>6 DEF SpliceSuccessor
  <2>2. TakesOut(n) /\ owner'[n] = NULL /\ stale' = stale \cup {n}
    BY <1>1, <2>1, DetachTakesOut, InUseFacts DEF InUse, Owned
  <2>3. pc' \in {"rebalance", "init"} /\ victim' = n /\ call' = call
    BY <1>1, <2>1 DEF RebalanceFrom, Unlinked
  <2> QED
    BY <1>1, <2>2, <2>3 DEF Removing
<1>7. CASE RebalanceEnd
  BY <1>1, <1>3, <1>4, <1>7 DEF RebalanceEnd, caller
<1>8. CASE RebalanceRecolor
  <2>1. /\ pc = "rebalance" /\ UNCHANGED caller
        /\ \/ Unlinked(call, victim)
           \/ \E c : Continue("rebalance", c)
    BY <1>8 DEF RebalanceRecolor
  <2> QED
    BY <1>1, <1>3, <1>4, <2>1 DEF Continue, caller
<1>9. CASE RebalanceFound
  BY <1>1, <1>3, <1>9 DEF RebalanceFound, Continue, caller
<1>10. CASE RotateRedSibling
  BY <1>1, <1>3, <1>10 DEF RotateRedSibling, Continue, caller
<1>11. CASE RotateRecolor
  BY <1>1, <1>3, <1>4, <1>11 DEF RotateRecolor, caller
<1>12. CASE RotateSibling
  BY <1>1, <1>3, <1>4, <1>12 DEF RotateSibling, caller
<1>13. CASE RotateNephew
  BY <1>1, <1>3, <1>4, <1>13 DEF RotateNephew, caller
<1>14. CASE Reinit
  <2>1. pc = "init" /\ pc' = "idle" /\ owner' = owner /\ stale' = stale \ {n}
    BY <1>1, <1>14 DEF Reinit, Return
  <2> QED
    BY <1>1, <1>2, <2>1 DEF TakesOut, Idle
<1>15. ~(PaintRoot \/ PaintDone \/ PaintRecolor \/ PaintRotate \/ PaintRotateTwice)
  BY <1>1 DEF PaintRoot, PaintDone, PaintRecolor, PaintRotate, PaintRotateTwice
<1> QED
  BY <1>5, <1>6, <1>7, <1>8, <1>9, <1>10, <1>11, <1>12, <1>13, <1>14, <1>15 DEF Step

\* The calls of c_rbtree_paint change nothing the caller sees.
LEMMA PaintingSteps ==
  ASSUME pc = "paint", Step
  PROVE  /\ owner' = owner /\ stale' = stale /\ InUse' = InUse
         /\ pc' \in {"paint", "idle"}
<1>1. /\ owner' = owner /\ stale' = stale
      /\ pc' \in {"paint", "idle"}
  BY DEF Step, PaintRoot, PaintDone, PaintRecolor, PaintRotate, PaintRotateTwice, WalkLeft,
         SpliceSuccessor, RebalanceEnd, RebalanceRecolor, RebalanceFound, RotateRedSibling,
         RotateRecolor, RotateSibling, RotateNephew, Reinit, Continue, Return, caller
<1> QED
  BY <1>1 DEF InUse, Owned

-----------------------------------------------------------------------------
(* The phases *)

UnderWay == PlaceOK /\ test # "api" /\ ~Done /\ IterInv /\ RunInv
StaysOK == PlaceOK /\ IterInv /\ RunInv

\* Outside of loops every call of the library keeps what the loops rely on.
LEMMA OutsideKeeps ==
  ASSUME IterInv, loop = "none", UNCHANGED iterator, [Next]_vars
  PROVE  WorldOK /\ WorldOK' /\ IterInv'
<1>1. WorldOK
  BY DEF IterInv, MemoryOK, Tearing, Freeing
<1>2. WorldOK'
  BY <1>1, WorldStays
<1>3. IterTypes' /\ loop' = "none"
  BY DEF IterInv, IterTypes, iterator
<1> QED
  BY <1>1, <1>2, <1>3, LoopOver

LEMMA KeyedStays ==
  ASSUME WorldOK, InKeyOrder(InUse, link), [MapNext]_vars
  PROVE  InKeyOrder(InUse', link')
<1>1. IInv /\ OrderInv
  BY DEF WorldOK, OrderInv
<1> QED
  BY <1>1, MapNextKeepsOrder

\* The sizes at the next iteration.
LEMMA NextSize ==
  ASSUME PlaceOK, ~Done, NEW c \in Nat
  PROVE  /\ SizeAt(Script[test][line], c) \in Int
         /\ Doing = "add" =>
              SizeAt(Script[test][line], c + 1) = SizeAt(Script[test][line], c) + 1
         /\ Doing \in {"remove", "drain"} =>
              SizeAt(Script[test][line], c + 1) = SizeAt(Script[test][line], c) - 1
<1> DEFINE p == Script[test][line]
<1>1. N \in Nat /\ Times \in Nat /\ Doing = p.do /\ Times = p.times
  BY InPhase, NodesCounted
<1> HIDE DEF p
<1>2. /\ SizeAt(p, c) \in Int
      /\ Doing = "add" => SizeAt(p, c + 1) = SizeAt(p, c) + 1
      /\ Doing \in {"remove", "drain"} => SizeAt(p, c + 1) = SizeAt(p, c) - 1
  BY <1>1 DEF SizeAt
<1> QED
  BY <1>2 DEF p

\* The size is right while a node is taken out.
LEMMA SizedRemoval ==
  ASSUME PlaceOK, ~Done, Sized, loop = "none", UNCHANGED <<loop, test, line, count>>,
         owner \in Owners, Doing \in {"remove", "drain"}, NEW n \in Node, node' = n,
         (node = NULL /\ owner[n] # NULL) \/ node = n, TakesOut(n)
  PROVE  Sized'
<1>1. Holding' = Holding /\ Doing' = Doing
  BY DEF Holding, Doing
<1>2. Cardinality(InUse) = SizeAt(Script[test][line], count + Changed) /\ count \in Nat
  BY DEF Sized, PlaceOK
<1>3. n # NULL
  BY DistinctAddresses
<1>4. CASE owner' = owner /\ InUse' = InUse
  <2>1. Changed' = Changed
    BY <1>1, <1>3, <1>4 DEF Changed
  <2> QED
    BY <1>1, <1>2, <1>4, <2>1 DEF Sized
<1>5. CASE n \in InUse /\ owner' = [owner EXCEPT ![n] = NULL] /\ InUse' = InUse \ {n}
  <2>1. owner[n] # NULL /\ owner'[n] = NULL
    BY <1>5 DEF InUse, Owned, Owners
  <2>2. Changed = 0 /\ Changed' = 1
    BY <1>1, <1>3, <2>1 DEF Changed
  <2>3. InUse \in SUBSET Node
    BY DEF InUse, Owned
  <2>4. Cardinality(InUse') = Cardinality(InUse) - 1
    BY <1>5, <2>3, NodesCounted, FS_RemoveElement
  <2>5. Cardinality(InUse) = SizeAt(Script[test][line], count)
    BY <1>2, <2>2
  <2>6. Cardinality(InUse') = SizeAt(Script[test][line], count + 1)
    BY <1>2, <2>4, <2>5, NextSize
  <2>7. \A k \in Node : owner'[k] \in {NULL, Holding}
    BY <1>5 DEF Sized, Owners
  <2> QED
    BY <1>1, <2>2, <2>6, <2>7 DEF Sized
<1> QED
  BY <1>4, <1>5 DEF TakesOut

\* Within a phase only these matter to where the test is.
LEMMA PlaceStays ==
  ASSUME PlaceOK, ~Done, UNCHANGED <<test, line>>, count' \in Nat, count' <= Times,
         node' \in Pointer, loop' \in {"none", "safe", "unlink"},
         loop' # "none" => Doing = loop' /\ count' = 1 /\ node' = NULL,
         node' # NULL => count' < Times /\ Doing \in {"add", "remove", "drain", "call"}
  PROVE  PlaceOK' /\ ~Done' /\ Doing' = Doing /\ Times' = Times
<1>1. (Done' <=> Done) /\ Doing' = Doing /\ Times' = Times
  BY DEF Done, Doing, Times
<1> QED
  BY <1>1 DEF PlaceOK

\* The add phase: the slot is one of the first tree.
LEMMA AddKeeps ==
  ASSUME UnderWay, TestAdd
  PROVE  StaysOK'
<1>1. /\ PlaceOK /\ test # "api" /\ ~Done /\ IterInv
      /\ Sized /\ Emptying /\ InCall
      /\ Idle /\ loop = "none" /\ node = NULL /\ count < Times /\ Doing = "add"
      /\ InKeyOrder(InUse, link)
  BY InPhase DEF UnderWay, RunInv, TestAdd, Ready
<1>2. PICK n \in Node \ InUse : Insert(tree1, n) /\ Begin(n)
  BY DEF TestAdd
<1>3. /\ node' = n /\ n # NULL /\ owner[n] = NULL /\ tree1 \in Tree
      /\ UNCHANGED <<test, line, count, iterator>> /\ loop' = "none"
  BY <1>1, <1>2, TreesAndNodes, DistinctAddresses DEF Begin, InUse, Owned, iterator
<1>4. [MapNext]_vars /\ [Next]_vars
  <2>1. MapNext
    BY <1>2, <1>3 DEF MapNext
  <2> QED
    BY <2>1, MapSteps
<1>5. WorldOK /\ IterInv'
  BY <1>1, <1>3, <1>4, OutsideKeeps
<1>6. InKeyOrder(InUse', link')
  BY <1>1, <1>4, <1>5, KeyedStays
<1>7. IInv /\ NoLoops(link) /\ owner \in Owners
  BY <1>5, InUseFacts DEF WorldOK
<1>8. owner' = [owner EXCEPT ![n] = tree1] /\ stale' = stale \ {n} /\ pc' = "paint"
  <2> DEFINE slot == c_rbtree_find_slot(tree1, KeyOf[n])
  <2>1. KeyOf[n] \in Key /\ KeyOf[n] \notin KeysIn(tree1)
    <3>1. \A m \in InUse : m \in Node /\ m # n
      BY <1>2 DEF InUse, Owned
    <3> QED
      BY <1>2, <3>1, KeysDistinct DEF Key, KeysIn
  <2>2. SlotsCorrect
    BY <1>1, <1>7, SearchesCorrect
  <2>3. slot.l # Conflict /\ Home(owner, slot.p) = tree1
    BY <1>3, <2>1, <2>2 DEF SlotsCorrect
  <2>4. \/ \E u \in Tree : slot = RootSlot(u) /\ AddRoot(u, n)
        \/ \E p \in Node, d \in Dir : slot = [p |-> p, l |-> d] /\ Link(p, d, n)
    BY <1>2 DEF Insert
  <2> HIDE DEF slot
  <2>5. ASSUME NEW u \in Tree, slot = RootSlot(u), AddRoot(u, n)
        PROVE  owner' = [owner EXCEPT ![n] = tree1] /\ stale' = stale \ {n} /\ pc' = "paint"
    <3>1. u = tree1
      BY <2>3, <2>5 DEF RootSlot, Home
    <3> QED
      BY <2>5, <3>1 DEF AddRoot, Continue
  <2>6. ASSUME NEW p \in Node, NEW d \in Dir, slot = [p |-> p, l |-> d], Link(p, d, n)
        PROVE  owner' = [owner EXCEPT ![n] = tree1] /\ stale' = stale \ {n} /\ pc' = "paint"
    <3>1. owner[p] = tree1
      BY <2>3, <2>6, DistinctAddresses DEF Home
    <3> QED
      BY <2>6, <3>1 DEF Link, Continue
  <2> QED
    BY <2>4, <2>5, <2>6
<1>9. PlaceOK' /\ Doing' = "add" /\ Times' = Times
  BY <1>1, <1>3, PlaceStays DEF PlaceOK, Pointer
<1>10. Holding = tree1 /\ Holding' = tree1
  <2>1. test = "misc" => line = 1
    BY <1>1, InPhase
  <2> QED
    BY <1>3, <2>1 DEF Holding
<1>11. InUse' = InUse \cup {n} /\ \A k \in Node : owner'[k] = IF k = n THEN tree1 ELSE owner[k]
  <2>1. \A k \in Node : owner'[k] = IF k = n THEN tree1 ELSE owner[k]
    BY <1>7, <1>8 DEF Owners
  <2> QED
    BY <1>2, <1>3, <2>1, DistinctAddresses DEF InUse, Owned
<1>12. Sized'
  <2>1. Changed = 0 /\ Changed' = 1
    BY <1>1, <1>3, <1>9 DEF Changed
  <2>2. Cardinality(InUse) = SizeAt(Script[test][line], count) /\ count \in Nat
    BY <1>1, <2>1 DEF Sized, PlaceOK
  <2>3. InUse \in SUBSET Node
    BY DEF InUse, Owned
  <2>4. Cardinality(InUse') = Cardinality(InUse) + 1
    BY <1>2, <1>11, <2>3, NodesCounted, FS_AddElement
  <2>5. Cardinality(InUse') = SizeAt(Script[test][line], count + 1)
    BY <1>1, <2>2, <2>4, NextSize
  <2>6. \A k \in Node : owner'[k] \in {NULL, tree1}
    BY <1>1, <1>10, <1>11 DEF Sized
  <2> QED
    BY <1>3, <1>10, <2>1, <2>5, <2>6 DEF Sized
<1>13. Emptying' /\ InCall'
  <2>1. n \in InUse' /\ stale' = {}
    BY <1>1, <1>8, <1>11 DEF InCall
  <2> QED
    BY <1>3, <1>8, <1>9, <2>1 DEF Emptying, InCall, Idle
<1> QED
  BY <1>5, <1>6, <1>9, <1>12, <1>13 DEF StaysOK, RunInv

\* The phases that remove nodes one by one.
LEMMA RemoveKeeps ==
  ASSUME UnderWay, TestRemove \/ TestDrain
  PROVE  StaysOK'
<1>1. /\ PlaceOK /\ test # "api" /\ ~Done /\ IterInv
      /\ Sized /\ Emptying /\ InCall
      /\ Idle /\ loop = "none" /\ node = NULL /\ count < Times /\ Doing \in {"remove", "drain"}
      /\ InKeyOrder(InUse, link) /\ stale = {}
  BY InPhase DEF UnderWay, RunInv, TestRemove, TestDrain, Ready, InCall
<1>2. WorldOK /\ IInv /\ owner \in Owners
  BY <1>1, InUseFacts DEF IterInv, MemoryOK, Tearing, Freeing, WorldOK
<1>3. PICK n \in InUse : Unlink(n) /\ call' = "unlink" /\ Begin(n)
  BY <1>2, RootHasNone, TreesAndNodes DEF TestRemove, TestDrain
<1>4. /\ node' = n /\ n \in Node /\ n # NULL /\ owner[n] # NULL
      /\ UNCHANGED <<test, line, count, iterator>> /\ loop' = "none"
  BY <1>1, <1>3, DistinctAddresses DEF Begin, InUse, Owned, iterator
<1>5. [MapNext]_vars /\ [Next]_vars
  <2>1. MapNext
    BY <1>3, <1>4 DEF MapNext
  <2> QED
    BY <2>1, MapSteps
<1>6. IterInv' /\ InKeyOrder(InUse', link')
  BY <1>1, <1>2, <1>4, <1>5, OutsideKeeps, KeyedStays
<1>7. Removing(n)' /\ TakesOut(n)
  BY <1>1, <1>2, <1>3, RemovalStarts
<1>8. PlaceOK' /\ Doing' = Doing
  BY <1>1, <1>4, PlaceStays DEF PlaceOK, Pointer
<1>9. Sized'
  BY <1>1, <1>2, <1>4, <1>7, SizedRemoval
<1>10. Emptying'
  BY <1>1, <1>4, <1>8 DEF Emptying
<1>11. InCall'
  <2>1. Worked' = n /\ pc' \in {"successor", "rebalance", "rotate", "init"}
    BY <1>4, <1>7 DEF Worked, Removing
  <2>2. Removing(Worked)'
    BY <1>7, <2>1 DEF Removing
  <2> QED
    BY <1>1, <1>4, <1>8, <2>1, <2>2 DEF InCall, Idle
<1> QED
  BY <1>6, <1>8, <1>9, <1>10, <1>11 DEF StaysOK, RunInv

\* The calls of the phases, step by step.
LEMMA CallsKeep ==
  ASSUME UnderWay, loop = "none", Step, UNCHANGED <<iterator, script>>
  PROVE  StaysOK'
<1>1. /\ PlaceOK /\ test # "api" /\ ~Done /\ IterInv
      /\ Sized /\ Emptying /\ InCall /\ InKeyOrder(InUse, link)
  BY DEF UnderWay, RunInv
<1>2. WorldOK /\ IInv /\ owner \in Owners
  BY <1>1, InUseFacts DEF IterInv, MemoryOK, Tearing, Freeing, WorldOK
<1>3. UNCHANGED <<test, line, count, node, iterator>> /\ loop' = "none"
  BY DEF script, iterator
<1>4. [MapNext]_vars /\ [Next]_vars
  <2>1. MapNext
    BY DEF MapNext
  <2> QED
    BY <2>1, MapSteps
<1>5. IterInv' /\ InKeyOrder(InUse', link')
  BY <1>1, <1>2, <1>3, <1>4, OutsideKeeps, KeyedStays
<1>6. PlaceOK' /\ ~Done' /\ Doing' = Doing
  BY <1>1, <1>3, PlaceStays DEF PlaceOK
<1>7. Emptying'
  <2>1. loop' = loop /\ count' = count /\ visited' = visited
    BY <1>3 DEF iterator
  <2> QED
    BY <1>1, <1>3, <1>6, <2>1 DEF Emptying
<1>8. pc \in {"paint", "successor", "rebalance", "rotate", "init"}
  BY DEF Step, PaintRoot, PaintDone, PaintRecolor, PaintRotate, PaintRotateTwice, WalkLeft,
         SpliceSuccessor, RebalanceEnd, RebalanceRecolor, RebalanceFound, RotateRedSibling,
         RotateRecolor, RotateSibling, RotateNephew, Reinit
<1>9. CASE pc = "paint"
  <2>1. /\ owner' = owner /\ stale' = stale /\ InUse' = InUse
        /\ pc' \in {"paint", "idle"}
    BY <1>9, PaintingSteps
  <2>2. Doing = "add" /\ node \in InUse /\ stale = {} /\ owner[node] # NULL
    BY <1>1, <1>9 DEF InCall, InUse, Owned
  <2>3. InCall'
    BY <1>3, <1>6, <2>1, <2>2 DEF InCall, Idle
  <2>4. Changed' = Changed /\ Holding' = Holding
    BY <1>3, <1>6, <2>1 DEF Changed, Holding
  <2>5. Sized'
    BY <1>1, <1>3, <2>1, <2>4 DEF Sized
  <2> QED
    BY <1>5, <1>6, <1>7, <2>3, <2>5 DEF StaysOK, RunInv
<1>10. CASE pc # "paint"
  <2>1. Doing \in {"remove", "drain"} /\ Removing(node)
    <3>1. Doing \in {"remove", "drain", "safe"} /\ Removing(Worked)
      BY <1>1, <1>8, <1>10 DEF InCall
    <3>2. Worked = node /\ node # NULL
      BY <3>1, DistinctAddresses DEF Worked, Removing
    <3> QED
      BY <1>1, <3>1, <3>2 DEF PlaceOK
  <2>2. node \in Node
    BY <2>1 DEF Removing
  <2>3. /\ TakesOut(node)
        /\ \/ Removing(node)'
           \/ Idle' /\ owner' = owner /\ stale' = {} /\ owner[node] = NULL
    <3>1. ASSUME NEW n, n = node, Removing(n)
          PROVE  /\ TakesOut(n)
                 /\ \/ Removing(n)'
                    \/ Idle' /\ owner' = owner /\ stale' = {} /\ owner[n] = NULL
      BY <1>2, <3>1, RemovalSteps
    <3>2. PICK n : n = node
      OBVIOUS
    <3> QED
      BY <1>3, <2>1, <3>1, <3>2 DEF TakesOut, Removing
  <2>4. Sized'
    BY <1>1, <1>2, <1>3, <2>1, <2>2, <2>3, SizedRemoval
  <2>5. InCall'
    <3>1. Worked' = node
      BY <1>3 DEF Worked
    <3>2. Removing(node)' => Removing(Worked)' /\ pc' \in {"successor", "rebalance", "rotate", "init"}
      BY <1>3, <3>1 DEF Removing
    <3> QED
      BY <1>3, <1>6, <2>1, <2>2, <2>3, <3>2, DistinctAddresses DEF InCall, Idle
  <2> QED
    BY <1>5, <1>6, <1>7, <2>4, <2>5 DEF StaysOK, RunInv
<1> QED
  BY <1>9, <1>10

\* A call has returned.
LEMMA NextNodeKeeps ==
  ASSUME UnderWay, NextNode
  PROVE  StaysOK'
<1>1. /\ PlaceOK /\ test # "api" /\ ~Done /\ IterInv
      /\ Sized /\ Emptying /\ InCall
      /\ Idle /\ node # NULL /\ node' = NULL /\ count' = count + 1
      /\ UNCHANGED <<vars, iterator, test, line>>
  BY DEF UnderWay, RunInv, NextNode
<1>2. loop = "none" /\ loop' = "none" /\ InKeyOrder(InUse, link)
  BY <1>1 DEF PlaceOK, UnderWay, RunInv, iterator
<1>3. /\ count \in Nat /\ count < Times /\ Doing \in {"add", "remove", "drain"} /\ Times \in Nat
      /\ node \in Pointer
  <2>1. PhaseOK(test, Script[test][line]) /\ Times \in Nat /\ Doing = Script[test][line].do
    BY <1>1, InPhase
  <2> QED
    BY <1>1, <2>1 DEF PlaceOK, PhaseOK
<1>4. WorldOK /\ IterInv'
  BY <1>1, <1>2, OutsideKeeps
<1>5. PlaceOK' /\ Doing' = Doing
  <2>1. count' \in Nat /\ count' <= Times /\ node' \in Pointer
    BY <1>1, <1>3 DEF Pointer
  <2> QED
    BY <1>1, <1>2, <2>1, PlaceStays
<1>6. /\ owner' = owner /\ link' = link /\ stale' = stale /\ InUse' = InUse /\ pc' = "idle"
      /\ stale = {} /\ (owner[node] # NULL <=> Doing = "add")
  BY <1>1 DEF vars, locals, InUse, Owned, Idle, InCall
<1>7. Sized'
  <2>1. Changed = 1 /\ Changed' = 0
    BY <1>1, <1>6 DEF Changed
  <2>2. Holding' = Holding
    <3>1. test = "misc" => line # 2
      BY <1>1, <1>3, InPhase
    <3> QED
      BY <1>1, <3>1 DEF Holding
  <2>3. Cardinality(InUse) = SizeAt(Script[test][line], count + 1)
    BY <1>1, <1>2, <2>1 DEF Sized
  <2>4. count' + Changed' = count + 1
    BY <1>1, <1>3, <2>1
  <2>5. SizeAt(Script[test][line], count' + Changed') = SizeAt(Script[test][line], count + 1)
    BY <2>4
  <2> QED
    BY <1>1, <1>6, <2>2, <2>3, <2>5 DEF Sized
<1>8. Emptying' /\ InCall'
  BY <1>1, <1>2, <1>3, <1>5, <1>6 DEF Emptying, InCall, Idle
<1> QED
  BY <1>2, <1>4, <1>5, <1>6, <1>7, <1>8 DEF StaysOK, RunInv

\* c_rbtree_move: the other tree has the nodes.
LEMMA MoveKeepsRun ==
  ASSUME UnderWay, TestMove
  PROVE  StaysOK'
<1>1. /\ PlaceOK /\ test # "api" /\ ~Done /\ IterInv
      /\ Sized /\ Emptying /\ InCall /\ InKeyOrder(InUse, link)
      /\ Idle /\ loop = "none" /\ node = NULL /\ count < Times /\ Doing = "move"
      /\ c_rbtree_move(tree2, tree1) /\ count' = 1 /\ UNCHANGED <<iterator, test, line, node>>
  BY InPhase DEF UnderWay, RunInv, TestMove, Ready
<1>2. /\ test = "misc" /\ line = 2 /\ Times = 1 /\ count = 0
  <2>1. PhaseOK(test, Script[test][line]) /\ Doing = Script[test][line].do
    BY <1>1, InPhase
  <2>2. test = "misc"
    BY <1>1, <2>1 DEF PhaseOK
  <2>3. line = 2 /\ Times = 1
    BY <1>1, <2>2, InPhase
  <2> QED
    BY <1>1, <2>2, <2>3 DEF PlaceOK
<1>3. [MapNext]_vars /\ [Next]_vars
  <2>1. Move
    BY <1>1, TreesAndNodes DEF Move
  <2>2. MapNext
    BY <2>1 DEF MapNext
  <2> QED
    BY <2>2, MapSteps
<1>4. WorldOK /\ IterInv' /\ owner \in Owners
  BY <1>1, <1>3, OutsideKeeps, InUseFacts DEF WorldOK
<1>5. InKeyOrder(InUse', link')
  BY <1>1, <1>3, <1>4, KeyedStays
<1>6. PlaceOK' /\ Doing' = Doing /\ loop' = "none" /\ node' = NULL
  <2>1. loop' = "none" /\ node' = NULL /\ node' \in Pointer
    BY <1>1 DEF iterator, PlaceOK
  <2> QED
    BY <1>1, <1>2, <2>1, PlaceStays
<1>7. \A n \in Node : owner'[n] = IF owner[n] = tree1 THEN tree2 ELSE owner[n]
  BY <1>1 DEF c_rbtree_move
<1>8. pc' = "idle" /\ stale' = stale
  BY <1>1 DEF c_rbtree_move, Idle, locals
<1>9. Holding = tree1 /\ Holding' = tree2
  BY <1>1, <1>2 DEF Holding
<1>10. InUse' = InUse /\ \A n \in Node : owner'[n] \in {NULL, tree2}
  <2>1. \A n \in Node : owner[n] \in {NULL, tree1}
    BY <1>1, <1>9 DEF Sized
  <2>2. \A n \in Node : owner'[n] = NULL <=> owner[n] = NULL
    BY <1>7, TreesAndNodes, DistinctAddresses
  <2> QED
    BY <1>7, <2>1, <2>2 DEF InUse, Owned
<1>11. Sized'
  <2>1. Changed = 0 /\ Changed' = 0
    BY <1>1, <1>6 DEF Changed
  <2>2. Cardinality(InUse) = SizeAt(Script[test][line], 0)
    BY <1>1, <1>2, <2>1 DEF Sized
  <2>3. SizeAt(Script[test][line], 0) = SizeAt(Script[test][line], 1)
    BY <1>1 DEF SizeAt, Doing
  <2> QED
    BY <1>1, <1>9, <1>10, <2>1, <2>2, <2>3 DEF Sized
<1>12. Emptying' /\ InCall'
  BY <1>1, <1>6, <1>8 DEF Emptying, InCall, Idle
<1> QED
  BY <1>4, <1>5, <1>6, <1>11, <1>12 DEF StaysOK, RunInv

\* The loops that only read the tree.
LEMMA VerifyKeeps ==
  ASSUME UnderWay, TestVerify
  PROVE  StaysOK'
<1>1. /\ PlaceOK /\ test # "api" /\ ~Done /\ IterInv
      /\ Sized /\ Emptying /\ InCall /\ InKeyOrder(InUse, link)
      /\ Idle /\ loop = "none" /\ node = NULL /\ count < Times /\ Doing = "verify"
      /\ count' = 1 /\ UNCHANGED <<vars, iterator, test, line, node>>
  BY InPhase DEF UnderWay, RunInv, TestVerify, Ready
<1>2. test # "misc" /\ Times = 1 /\ count = 0
  <2>1. PhaseOK(test, Script[test][line]) /\ Doing = Script[test][line].do /\ Times = Script[test][line].times
    BY <1>1, InPhase
  <2> QED
    BY <1>1, <2>1 DEF PhaseOK, PlaceOK
<1>3. IterInv'
  BY <1>1, OutsideKeeps
<1>4. PlaceOK' /\ Doing' = Doing /\ loop' = "none" /\ node' = NULL
  <2>1. loop' = "none" /\ node' = NULL /\ node' \in Pointer
    BY <1>1 DEF iterator, PlaceOK
  <2> QED
    BY <1>1, <1>2, <2>1, PlaceStays
<1>5. /\ owner' = owner /\ link' = link /\ stale' = stale /\ InUse' = InUse /\ pc' = "idle"
  BY <1>1 DEF vars, locals, InUse, Owned, Idle
<1>6. Sized'
  <2>1. Changed = 0 /\ Changed' = 0 /\ Holding' = Holding
    BY <1>1, <1>2, <1>4 DEF Changed, Holding
  <2>2. Cardinality(InUse) = SizeAt(Script[test][line], 0)
    BY <1>1, <1>2, <2>1 DEF Sized
  <2>3. SizeAt(Script[test][line], 0) = SizeAt(Script[test][line], 1)
    BY <1>1 DEF SizeAt, Doing
  <2> QED
    BY <1>1, <1>5, <2>1, <2>2, <2>3 DEF Sized
<1>7. Emptying' /\ InCall'
  BY <1>1, <1>4, <1>5 DEF Emptying, InCall, Idle
<1> QED
  BY <1>1, <1>3, <1>4, <1>5, <1>6, <1>7 DEF StaysOK, RunInv

\* From one phase to the next.
LEMMA NextLineKeeps ==
  ASSUME UnderWay, NextLine
  PROVE  PlaceOK' /\ IterInv' /\ (~Done' => RunInv')
<1>1. /\ PlaceOK /\ test # "api" /\ ~Done /\ IterInv
      /\ Sized /\ Emptying /\ InCall /\ InKeyOrder(InUse, link)
      /\ Idle /\ loop = "none" /\ node = NULL /\ count = Times
      /\ line' = line + 1 /\ count' = 0 /\ UNCHANGED <<vars, iterator, test, node>>
  <2>1. NextLine /\ loop = "none" /\ ~More
    BY DEF NextLine
  <2>2. PlaceOK /\ ~Done
    BY DEF UnderWay
  <2>3. count \in Nat /\ count <= Times
    BY <2>2 DEF PlaceOK
  <2>4. Times \in Nat /\ ~(count < Times)
    BY <2>1, <2>2, InPhase
  <2> QED
    BY <2>1, <2>3, <2>4 DEF UnderWay, RunInv, NextLine
<1>2. loop' = "none" /\ node' = NULL /\ line' \in Nat \ {0}
  BY <1>1 DEF iterator, PlaceOK
<1>3. IterInv'
  BY <1>1, OutsideKeeps
<1>4. /\ owner' = owner /\ link' = link /\ stale' = stale /\ InUse' = InUse /\ pc' = "idle"
  BY <1>1 DEF vars, locals, InUse, Owned, Idle
<1>5. line \in 1 .. Len(Script[test]) /\ (~Done' => line \in 1 .. Len(Script[test]) - 1)
  <2>1. line \in 1 .. Len(Script[test])
    BY <1>1, InPhase
  <2>2. Len(Script[test]) \in Nat
    BY ScriptFacts, <1>1 DEF PlaceOK
  <2> QED
    BY <1>1, <2>1, <2>2 DEF Done
<1>6. PlaceOK'
  <2>1. ~Done' => Times' \in Nat
    <3>1. \A l \in 1 .. Len(Script[test]) : PhaseOK(test, Script[test][l])
      BY <1>1, ScriptFacts DEF PlaceOK
    <3>2. ASSUME ~Done'
          PROVE  Script[test][line'].times \in Nat
      <4>1. line' \in 1 .. Len(Script[test])
        BY <1>1, <1>5, <3>2
      <4> QED
        BY <3>1, <4>1 DEF PhaseOK
    <3> QED
      BY <1>1, <3>2 DEF Times
  <2> QED
    BY <1>1, <1>2, <1>4, <2>1 DEF PlaceOK, Idle
<1>7. ASSUME ~Done'
      PROVE  RunInv'
  <2>1. Changed = 0 /\ Changed' = 0
    BY <1>1, <1>2 DEF Changed
  <2>2. Holding' = Holding
    <3>1. test = "misc" => line \in 1 .. 2 /\ (line = 2 => count = 1)
      <4>1. ASSUME test = "misc"
            PROVE  line \in 1 .. 2 /\ (line = 2 => count = 1)
        <5>1. Len(Script[test]) = 3
          BY <4>1, ScriptFacts
        <5> QED
          BY <1>1, <1>5, <1>7, <4>1, <5>1, InPhase
      <4> QED
        BY <4>1
    <3> QED
      BY <1>1, <3>1 DEF Holding
  <2>3. Cardinality(InUse) = SizeAt(Script[test][line], Script[test][line].times)
    BY <1>1, <2>1 DEF Sized, PlaceOK, Times
  <2>4. SizeAt(Script[test][line], Script[test][line].times) = SizeAt(Script[test][line + 1], 0)
    <3>1. Chained(Script[test])
      BY <1>1, ScriptFacts DEF PlaceOK
    <3> QED
      BY <1>5, <1>7, <3>1 DEF Chained
  <2>5. Sized'
    BY <1>1, <1>4, <2>1, <2>2, <2>3, <2>4 DEF Sized
  <2>6. Emptying' /\ InCall'
    BY <1>1, <1>2, <1>4 DEF Emptying, InCall, Idle
  <2> QED
    BY <1>1, <1>4, <2>5, <2>6 DEF RunInv
<1> QED
  BY <1>3, <1>6, <1>7

-----------------------------------------------------------------------------
(* The loops that take the tree apart *)

LEMMA LoopBegins ==
  ASSUME UnderWay, TestLoop
  PROVE  StaysOK'
<1>1. /\ PlaceOK /\ test # "api" /\ ~Done /\ IterInv
      /\ Sized /\ Emptying /\ InCall /\ InKeyOrder(InUse, link)
      /\ Idle /\ loop = "none" /\ node = NULL /\ count < Times
      /\ count' = 1 /\ UNCHANGED <<test, line, node>>
  BY InPhase DEF UnderWay, RunInv, TestLoop, Ready
<1>2. PICK m \in {"safe", "unlink"} : Doing = m /\ LoopStart(m, tree1)
  BY <1>1, InPhase DEF TestLoop
<1>3. /\ loop' = m /\ at' = "test" /\ tree' = tree1 /\ visited' = <<>>
      /\ expected' = OrderOf(m, tree1) /\ UNCHANGED vars
  BY <1>2 DEF LoopStart
<1>4. test = "map" /\ Times = 1 /\ count = 0
  <2>1. PhaseOK(test, Script[test][line]) /\ Doing = Script[test][line].do /\ Times = Script[test][line].times
    BY <1>1, InPhase
  <2> QED
    BY <1>1, <1>2, <2>1 DEF PhaseOK, PlaceOK
<1>5. WorldOK /\ IInv /\ NoLoops(link) /\ IterInv'
  <2>1. m \in Macro /\ tree1 \in Tree
    BY TreesAndNodes DEF Macro
  <2>2. IterInv'
    BY <1>1, <1>2, <2>1, LoopStartKeeps
  <2> QED
    BY <1>1, <2>2 DEF IterInv, MemoryOK, Tearing, Freeing, WorldOK
<1>6. PlaceOK' /\ Doing' = Doing
  <2>1. node' \in Pointer
    BY <1>1 DEF PlaceOK
  <2> QED
    BY <1>1, <1>2, <1>3, <1>4, <2>1, PlaceStays
<1>7. /\ owner' = owner /\ link' = link /\ stale' = stale /\ InUse' = InUse /\ pc' = "idle"
  BY <1>1, <1>3 DEF vars, locals, InUse, Owned, Idle
<1>8. Members(tree1) = Node
  <2>1. Changed = 0 /\ Holding = tree1
    BY <1>1, <1>4 DEF Changed, Holding
  <2>2. Cardinality(InUse) = N
    BY <1>1, <1>2, <1>4, <2>1 DEF Sized, SizeAt, Doing
  <2>3. InUse = Node
    BY <2>2, NodesCounted DEF InUse, Owned
  <2> QED
    BY <1>1, <2>1, <2>3 DEF Sized, Members, InUse, Owned
<1>9. {expected'[i] : i \in 1 .. Len(expected')} = Node
  <2> DEFINE E == OrderOf(m, tree1)
  <2>1. CASE m = "safe"
    <3>1. LoopsOver(InOrder[link[tree1]["root"]], tree1, c_rbtree_first(tree1), NextStep,
                    c_rbtree_last(tree1), PrevStep)
      BY <1>1, <1>5, InOrderLoops, TreesAndNodes
    <3>2. E = InOrder[link[tree1]["root"]]
      BY <2>1 DEF OrderOf
    <3> HIDE DEF E
    <3> QED
      BY <1>3, <1>8, <3>1, <3>2 DEF LoopsOver, E
  <2>2. CASE m = "unlink"
    <3>1. LoopsOver(PostOrder[link[tree1]["root"]], tree1, c_rbtree_first_postorder(tree1), NextPost,
                    c_rbtree_last_postorder(tree1), PrevPost)
      BY <1>1, <1>5, PostOrderLoops, TreesAndNodes
    <3>2. E = PostOrder[link[tree1]["root"]]
      BY <2>2 DEF OrderOf
    <3> HIDE DEF E
    <3> QED
      BY <1>3, <1>8, <3>1, <3>2 DEF LoopsOver, E
  <2> QED
    BY <2>1, <2>2
<1>10. Emptying'
  <2>1. Len(visited') = 0 /\ loop' # "none"
    BY <1>2, <1>3
  <2> QED
    BY <1>3, <1>9, <2>1 DEF Emptying
<1>11. Sized' /\ InCall'
  <2>1. Holding' = Holding /\ loop' # "none" /\ node' = NULL
    BY <1>1, <1>2, <1>3, <1>4 DEF Holding
  <2> QED
    BY <1>1, <1>6, <1>7, <2>1 DEF Sized, InCall, Idle
<1> QED
  BY <1>1, <1>5, <1>6, <1>7, <1>10, <1>11 DEF StaysOK, RunInv

\* Such a loop is one of test_map.
InTestLoop ==
  /\ PlaceOK /\ test = "map" /\ ~Done /\ IterInv /\ Sized /\ Emptying /\ InCall
  /\ loop \in {"safe", "unlink"} /\ Doing = loop /\ count = 1 /\ Times = 1 /\ node = NULL
  /\ (loop = "safe" => InKeyOrder(InUse, link)) /\ tree = tree1 /\ InLoop
  /\ (\A n \in Node : owner[n] \in {NULL, tree1}) /\ owner \in Owners

LEMMA InALoop ==
  ASSUME UnderWay, loop # "none"
  PROVE  InTestLoop
<1>1. /\ PlaceOK /\ test # "api" /\ ~Done /\ IterInv
      /\ Sized /\ Emptying /\ InCall /\ (loop = "safe" => InKeyOrder(InUse, link))
  BY DEF UnderWay, RunInv
<1>2. loop \in {"safe", "unlink"} /\ Doing = loop /\ count = 1 /\ node = NULL
  BY <1>1 DEF PlaceOK
<1>3. test = "map" /\ Times = 1
  <2>1. PhaseOK(test, Script[test][line]) /\ Doing = Script[test][line].do /\ Times = Script[test][line].times
    BY <1>1, InPhase
  <2> QED
    BY <1>2, <2>1 DEF PhaseOK
<1>4. tree = tree1 /\ InLoop
  BY <1>1, <1>2 DEF Emptying, InLoop, Macro
<1>5. \A n \in Node : owner[n] \in {NULL, tree1}
  BY <1>1, <1>3 DEF Sized, Holding
<1>6. owner \in Owners
  <2>1. CASE Tearing
    BY <1>1, <2>1 DEF IterInv, MemoryOK, TornOK, CutQuiet
  <2>2. CASE ~Tearing
    BY <1>1, <2>2, InUseFacts DEF IterInv, MemoryOK, WorldOK
  <2> QED
    BY <2>1, <2>2
<1> QED
  BY <1>1, <1>2, <1>3, <1>4, <1>5, <1>6 DEF InTestLoop

\* The nodes the loop has been at.
LEMMA LoopNodes ==
  ASSUME InTestLoop
  PROVE  /\ visited \in Nodes /\ expected \in Nodes /\ Len(visited) \in Nat /\ Len(expected) \in Nat
         /\ Len(visited) <= Len(expected) /\ Len(expected) = N
         /\ at # "test" => /\ Len(visited) > 0 /\ iter = visited[Len(visited)]
                           /\ Len(visited) \in 1 .. Len(visited) /\ iter \in Node
<1>1. /\ IterTypes /\ Turn /\ InLoop /\ {expected[i] : i \in 1 .. Len(expected)} = Node
  BY DEF InTestLoop, IterInv, Emptying
<1>2. /\ Len(visited) \in Nat /\ Len(expected) \in Nat /\ Len(visited) <= Len(expected)
      /\ at # "test" => Len(visited) > 0
      /\ visited \in Nodes /\ expected \in Nodes /\ Distinct(expected)
  BY <1>1, TakenFacts DEF IterTypes
<1>3. AtTurn(loop, at, expected, visited, iter, safe)
  BY <1>1 DEF Turn
<1>4. Len(expected) = N
  BY <1>1, <1>2, CountOfSequence DEF N
<1>5. ASSUME at # "test"
      PROVE  /\ Len(visited) \in 1 .. Len(visited) /\ iter = visited[Len(visited)]
             /\ iter \in Node
  <2>1. Len(visited) \in 1 .. Len(visited)
    BY <1>2, <1>5
  <2> QED
    BY <1>2, <1>3, <1>5, <2>1 DEF AtTurn, Nodes
<1> QED
  BY <1>2, <1>4, <1>5

\* The place of a loop that goes on or is over.
LEMMA LoopPlace ==
  ASSUME InTestLoop, UNCHANGED script, loop' \in {loop, "none"}
  PROVE  /\ PlaceOK' /\ ~Done' /\ Doing' = Doing /\ node' = NULL /\ count' = 1
         /\ test' = "map" /\ Holding' = tree1
<1>1. /\ PlaceOK /\ ~Done /\ test = "map" /\ count = 1 /\ node = NULL /\ Times = 1
      /\ UNCHANGED <<test, line, count, node>> /\ loop \in {"safe", "unlink"} /\ Doing = loop
  BY DEF InTestLoop, script
<1>2. PlaceOK' /\ ~Done' /\ Doing' = Doing
  <2>1. node' \in Pointer
    BY <1>1 DEF PlaceOK
  <2> QED
    BY <1>1, <2>1, PlaceStays
<1> QED
  BY <1>1, <1>2 DEF Holding

\* A loop at its end has emptied the tree.
LEMMA LoopEmpties ==
  ASSUME InTestLoop, at = "test", iter = NULL
  PROVE  InUse = {} /\ Len(visited) = N
<1>1. visited = expected /\ Len(visited) = Len(expected)
  BY AllVisited DEF InTestLoop
<1>2. {visited[i] : i \in 1 .. Len(visited)} = Node
  BY <1>1 DEF InTestLoop, Emptying
<1>3. \A i \in 1 .. Len(visited) : owner[visited[i]] = NULL
  BY DEF InTestLoop, Emptying
<1>4. \A n \in Node : owner[n] = NULL
  BY <1>2, <1>3
<1> QED
  BY <1>1, <1>4, LoopNodes DEF InUse, Owned

\* The loop goes on: it enters the body, its body ends, or it steps.
LEMMA LoopTurns ==
  ASSUME InTestLoop, UNCHANGED script, IterInv',
         Idle, UNCHANGED <<loop, tree, expected, stale, locals>>,
         loop = "safe" => UNCHANGED vars,
         \A n \in Node : owner'[n] \in {NULL, owner[n]},
         \A i \in 1 .. Len(visited') :
           owner'[visited'[i]] = NULL \/ (loop = "safe" /\ at' = "body" /\ i = Len(visited'))
  PROVE  StaysOK'
<1>1. PlaceOK' /\ Doing' = Doing /\ node' = NULL /\ Holding' = tree1
  BY LoopPlace
<1>2. /\ loop' = loop /\ loop \in {"safe", "unlink"} /\ tree' = tree1 /\ pc' = "idle" /\ stale' = {}
      /\ {expected'[i] : i \in 1 .. Len(expected')} = Node
  BY DEF InTestLoop, Emptying, InCall, Idle, locals
<1>3. Emptying' /\ InCall'
  BY <1>1, <1>2 DEF Emptying, InCall, Idle
<1>4. Sized'
  BY <1>1, <1>2 DEF Sized, InTestLoop
<1>5. loop' # "unlink" => InKeyOrder(InUse', link')
  BY <1>2 DEF InTestLoop, vars, InUse, Owned
<1> QED
  BY <1>1, <1>3, <1>4, <1>5 DEF StaysOK, RunInv

\* The loop is over.
LEMMA LoopEnds ==
  ASSUME InTestLoop, UNCHANGED script, IterInv', at = "test", iter = NULL,
         Idle, loop' = "none", UNCHANGED <<visited, owner, stale, locals>>
  PROVE  StaysOK'
<1>1. PlaceOK' /\ Doing' = Doing /\ node' = NULL /\ Holding' = tree1 /\ count' = 1
  BY LoopPlace
<1>2. InUse = {} /\ InUse' = {} /\ Len(visited') = N /\ \A n \in Node : owner'[n] \in {NULL, tree1}
  BY LoopEmpties DEF InTestLoop, InUse, Owned
<1>3. pc' = "idle" /\ stale' = {}
  BY DEF InTestLoop, InCall, Idle, locals
<1>4. Emptying' /\ InCall'
  BY <1>1, <1>2, <1>3 DEF Emptying, InCall, Idle
<1>5. Sized'
  <2>1. Changed' = 0
    BY <1>1 DEF Changed
  <2>2. SizeAt(Script[test'][line'], 1) = 0
    <3>1. Script[test'][line'].do \in {"safe", "unlink"}
      BY DEF InTestLoop, Doing, script
    <3> QED
      BY <3>1 DEF SizeAt
  <2>3. Cardinality(InUse') = 0
    BY <1>2, FS_EmptySet
  <2>4. count' + Changed' = 1
    BY <1>1, <2>1
  <2> QED
    BY <1>1, <1>2, <2>2, <2>3, <2>4 DEF Sized
<1>6. InKeyOrder(InUse', link')
  <2>1. \E R : R \in Ranges
    <3>1. [n \in Node |-> Int] \in Ranges
      BY DEF Ranges
    <3> QED
      BY <3>1
  <2> QED
    BY <1>2, <2>1 DEF InKeyOrder, Ordered
<1> QED
  BY <1>1, <1>4, <1>5, <1>6 DEF StaysOK, RunInv

\* The body of the loop takes its node out.
LEMMA LoopTakesOut ==
  ASSUME InTestLoop, loop = "safe", at = "body", UNCHANGED <<iterator, script>>, IterInv',
         [MapNext]_vars, TakesOut(iter), Removing(iter)' \/ (Idle' /\ stale' = {})
  PROVE  StaysOK'
<1>1. PlaceOK' /\ Doing' = Doing /\ node' = NULL /\ Holding' = tree1
  BY LoopPlace DEF iterator
<1>2. /\ loop' = "safe" /\ at' = "body" /\ tree' = tree1 /\ iter' = iter /\ visited' = visited
      /\ {expected'[i] : i \in 1 .. Len(expected')} = Node
      /\ visited \in Nodes /\ owner \in Owners /\ Doing = "safe"
  BY LoopNodes DEF InTestLoop, Emptying, iterator
<1>3. \A n \in Node : owner'[n] \in {NULL, owner[n]}
  BY <1>2 DEF TakesOut, Owners
<1>4. Sized'
  BY <1>1, <1>2, <1>3 DEF Sized, InTestLoop
<1>5. Emptying'
  <2>1. \A i \in 1 .. Len(visited) : visited[i] \in Node
    BY <1>2 DEF Nodes
  <2>2. \A i \in 1 .. Len(visited) : owner[visited[i]] = NULL \/ i = Len(visited)
    BY DEF InTestLoop, Emptying
  <2>3. \A i \in 1 .. Len(visited) : owner'[visited[i]] = NULL \/ i = Len(visited)
    BY <1>3, <2>1, <2>2
  <2> QED
    BY <1>2, <2>3 DEF Emptying
<1>6. InCall'
  <2>1. Worked' = iter
    BY <1>2 DEF Worked
  <2>2. Removing(iter)' => Removing(Worked)' /\ pc' \in {"successor", "rebalance", "rotate", "init"}
    BY <1>2, <2>1 DEF Removing
  <2> QED
    BY <1>1, <1>2, <2>2 DEF InCall, Idle
<1>7. InKeyOrder(InUse', link')
  <2>1. WorldOK /\ InKeyOrder(InUse, link)
    BY DEF InTestLoop, IterInv, MemoryOK, Tearing, Freeing
  <2> QED
    BY <2>1, KeyedStays
<1> QED
  BY <1>1, <1>4, <1>5, <1>6, <1>7 DEF StaysOK, RunInv

LEMMA UnlinksInLoop ==
  ASSUME InTestLoop, UNCHANGED script, IterInv', loop = "safe", BodyUnlinks, call' = "unlink"
  PROVE  StaysOK'
<1>1. at = "body" /\ owner[iter] = tree1 /\ Unlink(iter) /\ UNCHANGED iterator /\ iter \in Node
  BY LoopNodes DEF InTestLoop, BodyUnlinks
<1>2. iter \in InUse
  BY <1>1, TreesAndNodes, DistinctAddresses DEF InUse, Owned
<1>3. Idle /\ stale = {} /\ IInv
  <2>1. Idle
    BY <1>1 DEF Unlink, UnlinkLeaf, UnlinkOneChild, UnlinkFull, Removable
  <2> QED
    BY <2>1 DEF InTestLoop, InCall, IterInv, MemoryOK, Tearing, Freeing, WorldOK
<1>4. Removing(iter)' /\ TakesOut(iter)
  <2>1. ASSUME NEW n \in InUse, n = iter
        PROVE  Removing(n)' /\ TakesOut(n)
    BY <1>1, <1>3, <2>1, RemovalStarts
  <2>2. PICK n \in InUse : n = iter
    BY <1>2
  <2>3. iter' = iter
    BY <1>1 DEF iterator
  <2> QED
    BY <2>1, <2>2, <2>3 DEF Removing
<1>5. [MapNext]_vars
  BY <1>1 DEF MapNext
<1> QED
  BY <1>1, <1>4, <1>5, LoopTakesOut

\* The calls in the loop, step by step.
LEMMA LoopCallsKeep ==
  ASSUME UnderWay, loop # "none", Step, UNCHANGED <<iterator, script>>
  PROVE  StaysOK'
<1>1. InTestLoop
  BY InALoop
<1>2. pc \in {"paint", "successor", "rebalance", "rotate", "init"}
  BY DEF Step, PaintRoot, PaintDone, PaintRecolor, PaintRotate, PaintRotateTwice, WalkLeft,
         SpliceSuccessor, RebalanceEnd, RebalanceRecolor, RebalanceFound, RotateRedSibling,
         RotateRecolor, RotateSibling, RotateNephew, Reinit
<1>3. loop = "safe" /\ at = "body" /\ Removing(iter)
  BY <1>1, <1>2 DEF InTestLoop, InCall, Worked
<1>4. IterInv'
  BY <1>1, <1>3, OwnCallsKeep DEF InTestLoop
<1>5. IInv
  BY <1>1, <1>3 DEF InTestLoop, IterInv, MemoryOK, Tearing, Freeing, WorldOK
<1>6. TakesOut(iter) /\ (Removing(iter)' \/ (Idle' /\ stale' = {}))
  <2>1. ASSUME NEW n, n = iter, Removing(n)
        PROVE  TakesOut(n) /\ (Removing(n)' \/ (Idle' /\ stale' = {}))
    BY <1>5, <2>1, RemovalSteps
  <2>2. PICK n : n = iter
    OBVIOUS
  <2>3. iter' = iter
    BY DEF iterator
  <2> QED
    BY <1>3, <2>1, <2>2, <2>3 DEF Removing, TakesOut
<1>7. [MapNext]_vars
  BY DEF MapNext
<1> QED
  BY <1>1, <1>4, <1>3, <1>6, <1>7, LoopTakesOut

LEMMA LoopStepsKeep ==
  ASSUME UnderWay, TestLoopSteps
  PROVE  StaysOK'
<1>1. InTestLoop /\ UNCHANGED script
  <2>1. loop # "none" /\ UNCHANGED script
    BY DEF TestLoopSteps, LoopTest, LoopTestUnlink, LoopNext, BodyEnds, InLoop, Macro
  <2> QED
    BY <2>1, InALoop
<1>2. IterInv'
  <2>1. OwnSteps
    BY DEF TestLoopSteps, OwnSteps
  <2> QED
    BY <1>1, <2>1, OwnStepsKeep DEF InTestLoop
<1>3. /\ Len(visited) \in Nat /\ visited \in Nodes
      /\ at # "test" => /\ iter = visited[Len(visited)] /\ iter \in Node
                        /\ Len(visited) \in 1 .. Len(visited)
      /\ \A i \in 1 .. Len(visited) :
            owner[visited[i]] = NULL \/ (loop = "safe" /\ at = "body" /\ i = Len(visited))
      /\ \A n \in Node : owner[n] \in {NULL, owner[n]}
      /\ loop \in {"safe", "unlink"} /\ owner \in Owners /\ link \in Memory
  <2>1. link \in Memory
    BY <1>1 DEF InTestLoop, IterInv, MemoryOK, TornOK, CutQuiet, WorldOK, IInv, Sound
  <2> QED
    BY <1>1, <2>1, LoopNodes DEF InTestLoop, Emptying
<1>4. ASSUME Enter, at = "test"
      PROVE  /\ UNCHANGED <<loop, tree, expected>> /\ at' = "body" /\ iter # NULL /\ iter \in Node
             /\ \A i \in 1 .. Len(visited') :
                  visited'[i] = (IF i = Len(visited') THEN iter ELSE visited[i])
                  /\ (i # Len(visited') => i \in 1 .. Len(visited))
             /\ Len(visited') \in 1 .. Len(visited')
  <2>1. /\ UNCHANGED <<loop, tree, expected>> /\ at' = "body" /\ iter # NULL
        /\ visited' = Append(visited, iter) /\ Len(visited') = Len(visited) + 1
    BY <1>3, <1>4 DEF Enter, Nodes
  <2>2. iter \in Node
    <3>1. visited' \in Nodes
      BY <1>2 DEF IterInv, IterTypes
    <3> QED
      BY <1>3, <2>1, <3>1 DEF Nodes
  <2> QED
    BY <1>3, <2>1, <2>2 DEF Nodes
<1>5. CASE LoopTest
  <2>1. Idle /\ loop = "safe" /\ at = "test" /\ UNCHANGED vars /\ (Enter \/ Leave)
    BY <1>3, <1>5 DEF LoopTest
  <2>2. owner' = owner /\ UNCHANGED <<stale, locals>> /\ link' = link
    BY <2>1 DEF vars, locals
  <2>3. CASE Enter
    BY <1>1, <1>2, <1>3, <1>4, <2>1, <2>2, <2>3, LoopTurns
  <2>4. CASE Leave
    BY <1>1, <1>2, <2>1, <2>2, <2>4, LoopEnds DEF Leave
  <2> QED
    BY <2>1, <2>3, <2>4
<1>6. CASE LoopTestUnlink
  <2>1. Idle /\ loop = "unlink" /\ at = "test" /\ UNCHANGED <<stale, locals>>
    BY <1>6 DEF LoopTestUnlink
  <2>2. CASE Enter /\ owner' = [owner EXCEPT ![iter] = NULL]
    <3>1. \A n \in Node : owner'[n] = IF n = iter THEN NULL ELSE owner[n]
      BY <1>3, <2>2 DEF Owners
    <3>2. \A i \in 1 .. Len(visited) : visited[i] \in Node
      BY <1>3 DEF Nodes
    <3>3. \A i \in 1 .. Len(visited') : owner'[visited'[i]] = NULL
      BY <1>3, <1>4, <2>1, <2>2, <3>1, <3>2
    <3> QED
      BY <1>1, <1>2, <1>3, <1>4, <2>1, <2>2, <3>1, <3>3, LoopTurns
  <2>3. CASE Leave /\ owner' = owner
    BY <1>1, <1>2, <2>1, <2>3, LoopEnds DEF Leave
  <2> QED
    BY <1>6, <2>2, <2>3 DEF LoopTestUnlink
<1>7. CASE LoopNext
  <2>1. Idle /\ at = "step" /\ at' = "test" /\ UNCHANGED <<vars, loop, tree, expected, visited>>
    BY <1>7 DEF LoopNext
  <2>2. owner' = owner /\ UNCHANGED <<stale, locals>>
    BY <2>1 DEF vars, locals
  <2>3. \A i \in 1 .. Len(visited') : owner'[visited'[i]] = NULL
    BY <1>3, <2>1, <2>2
  <2> QED
    BY <1>1, <1>2, <1>3, <2>1, <2>2, <2>3, LoopTurns
<1>8. CASE at = "body" /\ (loop = "safe" => owner[iter] = NULL) /\ BodyEnds
  <2>1. Idle /\ at' = "step" /\ UNCHANGED <<vars, loop, tree, expected, visited>>
    BY <1>8 DEF BodyEnds
  <2>2. owner' = owner /\ UNCHANGED <<stale, locals>>
    BY <2>1 DEF vars, locals
  <2>3. \A i \in 1 .. Len(visited') : owner'[visited'[i]] = NULL
    BY <1>3, <1>8, <2>1, <2>2
  <2> QED
    BY <1>1, <1>2, <1>3, <2>1, <2>2, <2>3, LoopTurns
<1>9. CASE loop = "safe" /\ BodyUnlinks /\ call' = "unlink"
  BY <1>1, <1>2, <1>9, UnlinksInLoop
<1> QED
  BY <1>5, <1>6, <1>7, <1>8, <1>9 DEF TestLoopSteps

-----------------------------------------------------------------------------
(* test_api *)

\* The addresses of test_api are different ones.
LEMMA ApiAddresses ==
  /\ apiN \in Node /\ apiM \in Node /\ tree1 \in Tree /\ apiN # apiM /\ apiN # tree1 /\ apiM # tree1
  /\ apiN # NULL /\ apiM # NULL /\ tree1 # NULL /\ apiN \notin Tree /\ apiM \notin Tree
  /\ "left" \in Side /\ "root" \in Side /\ "left" \in Dir /\ "right" \in Dir
BY TreesAndNodes, DistinctAddresses DEF Side, Dir

\* The phase of test_api.
LEMMA ApiPhase ==
  ASSUME PlaceOK, test = "api", ~Done
  PROVE  Doing = "call" /\ Times = 10 /\ count \in 0 .. 10
<1>1. Script[test] = <<Phase("call", 10)>> /\ Len(Script[test]) = 1
  BY ScriptFacts
<1>2. line = 1
  BY <1>1, InPhase
<1>3. Doing = "call" /\ Times = 10
  BY <1>1, <1>2, PhaseFields DEF Doing, Times
<1> QED
  BY <1>3 DEF PlaceOK

\* Call by call, from the state after b calls to that in call b + 1.
LEMMA ApiAddsRoot ==
  ASSUME ApiState(0), Idle, AddRoot(tree1, apiN)
  PROVE  ApiState(1)'
<1>1. /\ link \in Memory /\ pf \in Words /\ owner \in Owners /\ pc = "idle"
      /\ stale = {} /\ pf[apiM] = [raw |-> apiM, flags |-> {}] /\ link[apiM] = NoLinks
      /\ \A n \in Node : owner[n] = NULL
  BY DEF ApiState, ApiMemory, ApiWords, ApiOwners, Idle
<1>2. /\ link' = [link EXCEPT ![apiN] = NoLinks, ![tree1]["root"] = apiN]
      /\ pf' = [pf EXCEPT ![apiN] = [raw |-> tree1, flags |-> {C_RBNODE_RED, C_RBNODE_ROOT}]]
      /\ owner' = [owner EXCEPT ![apiN] = tree1] /\ stale' = stale \ {apiN}
      /\ pc' = "paint" /\ cur' = apiN
  BY <1>1, ApiAddresses DEF AddRoot, Continue, c_rbnode_set_parent_and_flags, c_rbnode_push_root,
     c_rbnode_flags, Words
<1>3. ApiMemory(1)'
  <2>1. link' \in Memory
    BY <1>1, <1>2, ApiAddresses DEF Memory, NoLinks, Pointer
  <2>2. link'[tree1]["root"] = apiN /\ link'[apiN] = NoLinks /\ link'[apiM] = NoLinks
    BY <1>1, <1>2, ApiAddresses DEF Memory
  <2> QED
    BY <2>1, <2>2 DEF ApiMemory
<1>4. ApiWords(1)'
  <2>1. pf' \in Words
    BY <1>1, <1>2, ApiAddresses DEF Words, Word
  <2>2. /\ pf'[apiN] = [raw |-> tree1, flags |-> {C_RBNODE_RED, C_RBNODE_ROOT}]
        /\ pf'[apiM] = [raw |-> apiM, flags |-> {}]
    BY <1>1, <1>2, ApiAddresses DEF Words
  <2> QED
    BY <1>2, <2>1, <2>2 DEF ApiWords
<1>5. ApiOwners(1)'
  <2>1. owner' \in Owners /\ owner'[apiN] = tree1 /\ \A n \in Node : n # apiN => owner'[n] = NULL
    BY <1>1, <1>2, ApiAddresses DEF Owners
  <2> QED
    BY <1>1, <1>2, <2>1, ApiAddresses DEF ApiOwners
<1>6. ApiCalls(1)'
  BY <1>2 DEF ApiCalls, ApiNode
<1> QED
  BY <1>3, <1>4, <1>5, <1>6 DEF ApiState

LEMMA ApiAddsChild ==
  ASSUME NEW b \in {1, 4}, ApiState(b), Idle, Link(apiN, "left", apiM)
  PROVE  ApiState(b + 1)'
<1>1. /\ link \in Memory /\ pf \in Words /\ owner \in Owners /\ pc = "idle"
      /\ stale = {} /\ pf[apiN] = [raw |-> tree1, flags |-> {C_RBNODE_ROOT}]
      /\ link[apiN] = NoLinks /\ link[tree1]["root"] = apiN
      /\ owner[apiN] = tree1 /\ \A n \in Node : n # apiN => owner[n] = NULL
  BY DEF ApiState, ApiMemory, ApiWords, ApiOwners, Idle
<1>2. /\ link' = [link EXCEPT ![apiM] = NoLinks, ![apiN]["left"] = apiM]
      /\ pf' = [pf EXCEPT ![apiM] = [raw |-> apiN, flags |-> {C_RBNODE_RED}]]
      /\ owner' = [owner EXCEPT ![apiM] = tree1] /\ stale' = stale \ {apiM}
      /\ pc' = "paint" /\ cur' = apiM
  BY <1>1 DEF Link, Continue, c_rbnode_set_parent_and_flags
<1>3. b + 1 \in {2, 5}
  OBVIOUS
<1>4. ApiMemory(b + 1)'
  <2>1. link' \in Memory
    BY <1>1, <1>2, ApiAddresses DEF Memory, NoLinks, Pointer
  <2>2. link'[tree1]["root"] = apiN /\ link'[apiM] = NoLinks
    BY <1>1, <1>2, ApiAddresses DEF Memory
  <2>3. link'[apiN] = [NoLinks EXCEPT !["left"] = apiM]
    BY <1>1, <1>2, ApiAddresses DEF Memory
  <2>4. link'[apiN] = Leaf(apiM)
    BY <2>3, ApiAddresses DEF Leaf, NoLinks
  <2> QED
    BY <1>3, <2>1, <2>2, <2>4 DEF ApiMemory
<1>5. ApiWords(b + 1)'
  <2>1. pf' \in Words
    BY <1>1, <1>2, ApiAddresses DEF Words, Word
  <2>2. /\ pf'[apiN] = [raw |-> tree1, flags |-> {C_RBNODE_ROOT}]
        /\ pf'[apiM] = [raw |-> apiN, flags |-> {C_RBNODE_RED}]
    BY <1>1, <1>2, ApiAddresses DEF Words
  <2>3. b + 1 \in 1 .. 6 /\ b + 1 \notin {1, 4} /\ b + 1 \in {2, 5, 6, 7}
    BY <1>3
  <2> QED
    BY <2>1, <2>2, <2>3 DEF ApiWords
<1>6. ApiOwners(b + 1)'
  <2>1. /\ owner' \in Owners /\ owner'[apiN] = tree1 /\ owner'[apiM] = tree1
        /\ \A n \in Node : n # apiN /\ n # apiM => owner'[n] = NULL
    BY <1>1, <1>2, ApiAddresses DEF Owners
  <2> QED
    BY <1>1, <1>2, <1>3, <2>1, ApiAddresses DEF ApiOwners
<1>7. ApiCalls(b + 1)'
  BY <1>2, <1>3 DEF ApiCalls, ApiNode
<1> QED
  BY <1>4, <1>5, <1>6, <1>7 DEF ApiState

LEMMA ApiAddsAgain ==
  ASSUME ApiState(3), Idle, AddRootAgain(tree1, apiN)
  PROVE  ApiState(4)'
<1>1. /\ link \in Memory /\ pf \in Words /\ owner \in Owners /\ pc = "idle"
      /\ stale = {} /\ pf[apiM] = [raw |-> apiM, flags |-> {}] /\ link[apiM] = NoLinks
      /\ link[apiN] = NoLinks /\ link[tree1]["root"] = apiN
      /\ owner[apiN] = tree1 /\ \A n \in Node : n # apiN => owner[n] = NULL
  BY DEF ApiState, ApiMemory, ApiWords, ApiOwners, Idle
<1>2. /\ link' = link /\ owner' = owner /\ stale' = stale
      /\ pf' = [pf EXCEPT ![apiN] = [raw |-> tree1, flags |-> {C_RBNODE_RED, C_RBNODE_ROOT}]]
      /\ pc' = "paint" /\ cur' = apiN
  BY <1>1, ApiAddresses DEF AddRootAgain, Continue, caller, c_rbnode_set_parent_and_flags,
     c_rbnode_push_root, c_rbnode_flags, Words
<1>3. ApiMemory(4)'
  BY <1>1, <1>2 DEF ApiMemory
<1>4. ApiWords(4)'
  <2>1. pf' \in Words
    BY <1>1, <1>2, ApiAddresses DEF Words, Word
  <2>2. /\ pf'[apiN] = [raw |-> tree1, flags |-> {C_RBNODE_RED, C_RBNODE_ROOT}]
        /\ pf'[apiM] = [raw |-> apiM, flags |-> {}]
    BY <1>1, <1>2, ApiAddresses DEF Words
  <2> QED
    BY <1>2, <2>1, <2>2 DEF ApiWords
<1>5. ApiOwners(4)'
  BY <1>1, <1>2, ApiAddresses DEF ApiOwners
<1>6. ApiCalls(4)'
  BY <1>2 DEF ApiCalls, ApiNode
<1> QED
  BY <1>3, <1>4, <1>5, <1>6 DEF ApiState

\* Calls 3 and 6 remove B.
LEMMA ApiRemoves ==
  ASSUME NEW b \in {2, 5}, ApiState(b), Idle,
         \/ b = 2 /\ Unlink(apiM) /\ call' = "unlink"
         \/ b = 5 /\ UnlinkLeaf("unlink_stale", apiM)
  PROVE  ApiState(b + 1)'
<1>1. /\ link \in Memory /\ pf \in Words /\ owner \in Owners /\ pc = "idle"
      /\ stale = {} /\ pf[apiN] = [raw |-> tree1, flags |-> {C_RBNODE_ROOT}]
      /\ pf[apiM] = [raw |-> apiN, flags |-> {C_RBNODE_RED}]
      /\ link[apiN] = Leaf(apiM) /\ link[tree1]["root"] = apiN /\ link[apiM] = NoLinks
      /\ owner[apiN] = tree1 /\ owner[apiM] = tree1
      /\ \A n \in Node : n # apiN /\ n # apiM => owner[n] = NULL
  BY DEF ApiState, ApiMemory, ApiWords, ApiOwners, Idle
<1>2. PICK api : UnlinkLeaf(api, apiM) /\ (b = 2 => call' = "unlink") /\ (b = 5 => api = "unlink_stale")
  <2>1. \A d \in Dir : link[apiM][d] = NULL
    BY <1>1 DEF NoLinks, Dir, Side
  <2>2. \A api : ~UnlinkFull(api, apiM) /\ \A d \in Dir : ~UnlinkOneChild(api, apiM, d)
    BY <2>1, ApiAddresses DEF UnlinkFull, UnlinkOneChild
  <2> QED
    BY <2>2 DEF Unlink
<1>3. ~c_rbnode_is_root(pf, apiM) /\ ~c_rbnode_is_black(pf, apiM)
  BY <1>1, ApiAddresses DEF c_rbnode_is_root, c_rbnode_is_black, C_RBNODE_RED, C_RBNODE_ROOT
<1>4. /\ link' = [link EXCEPT ![apiN]["left"] = NULL] /\ pf' = pf
      /\ owner' = [owner EXCEPT ![apiM] = NULL] /\ stale' = stale \cup {apiM}
      /\ Unlinked(api, apiM)
  <2>1. c_rbnode_pop_root(pf, apiM) = pf
    BY <1>3 DEF c_rbnode_pop_root
  <2>2. SideOf(link, apiN, apiM) = "left"
    BY <1>1, ApiAddresses DEF SideOf, Leaf
  <2>3. PutInPlace(link, pf, apiM, NULL) = [link EXCEPT ![apiN]["left"] = NULL]
    <3>1. pf[apiM].raw = apiN
      BY <1>1
    <3> QED
      BY <1>3, <2>2, <3>1 DEF PutInPlace
  <2> QED
    BY <1>2, <1>3, <2>1, <2>3 DEF UnlinkLeaf, Detach
<1>5. pc' = (IF b = 2 THEN "init" ELSE "idle") /\ (b = 2 => victim' = apiM)
  BY <1>2, <1>4 DEF Unlinked, Return
<1>6. ApiMemory(b + 1)'
  <2>1. link' \in Memory
    BY <1>1, <1>4, ApiAddresses DEF Memory, Pointer
  <2>2. link'[tree1]["root"] = apiN /\ link'[apiM] = NoLinks
    BY <1>1, <1>4, ApiAddresses DEF Memory
  <2>3. link'[apiN] = [Leaf(apiM) EXCEPT !["left"] = NULL]
    BY <1>1, <1>4, ApiAddresses DEF Memory
  <2>4. link'[apiN] = NoLinks
    BY <2>3 DEF Leaf, NoLinks
  <2> QED
    BY <2>1, <2>2, <2>4 DEF ApiMemory
<1>7. ApiWords(b + 1)'
  BY <1>1, <1>4, <1>5 DEF ApiWords
<1>8. ApiOwners(b + 1)'
  <2>1. /\ owner' \in Owners /\ owner'[apiN] = tree1 /\ owner'[apiM] = NULL
        /\ \A n \in Node : n # apiN /\ n # apiM => owner'[n] = NULL
    BY <1>1, <1>4, ApiAddresses DEF Owners
  <2>2. stale' = {apiM}
    BY <1>1, <1>4
  <2> QED
    BY <1>5, <2>1, <2>2 DEF ApiOwners
<1>9. ApiCalls(b + 1)'
  BY <1>5 DEF ApiCalls
<1> QED
  BY <1>6, <1>7, <1>8, <1>9 DEF ApiState

\* Calls 7 to 10 initialise both nodes and the tree, and move the empty tree.
LEMMA ApiInits ==
  ASSUME NEW b \in {6, 7, 8, 9}, ApiState(b), Idle,
         \/ b = 6 /\ InitLinked(apiN)
         \/ b = 7 /\ c_rbnode_init(apiM)
         \/ b = 8 /\ c_rbtree_init(tree1)
         \/ b = 9 /\ UNCHANGED vars
  PROVE  ApiState(b + 1)'
<1>1. /\ link \in Memory /\ pf \in Words /\ owner \in Owners /\ pc = "idle"
      /\ link[apiN] = NoLinks /\ link[apiM] = NoLinks
  BY DEF ApiState, ApiMemory, ApiWords, ApiOwners, Idle
<1>2. CASE b = 6
  <2>1. /\ link[tree1]["root"] = apiN /\ stale = {apiM} /\ owner[apiN] = tree1
        /\ pf[apiM] = [raw |-> apiN, flags |-> {C_RBNODE_RED}]
        /\ \A n \in Node : n # apiN => owner[n] = NULL
    BY <1>2 DEF ApiState, ApiMemory, ApiWords, ApiOwners
  <2>2. /\ link' = [link EXCEPT ![apiN] = NoLinks]
        /\ pf' = [pf EXCEPT ![apiN] = [raw |-> apiN, flags |-> {}]]
        /\ owner' = [owner EXCEPT ![apiN] = NULL] /\ stale' = stale /\ pc' = "idle"
    BY <1>1, <1>2 DEF InitLinked, c_rbnode_set_parent_and_flags, locals
  <2>3. ApiMemory(7)'
    <3>1. link' = link
      BY <1>1, <2>2, ApiAddresses DEF Memory
    <3> QED
      BY <1>1, <2>1, <3>1 DEF ApiMemory
  <2>4. ApiWords(7)'
    <3>1. pf' \in Words
      BY <1>1, <2>2, ApiAddresses DEF Words, Word
    <3>2. /\ pf'[apiN] = [raw |-> apiN, flags |-> {}]
          /\ pf'[apiM] = [raw |-> apiN, flags |-> {C_RBNODE_RED}]
      BY <1>1, <2>1, <2>2, ApiAddresses DEF Words
    <3> QED
      BY <3>1, <3>2 DEF ApiWords
  <2>5. ApiOwners(7)'
    <3>1. owner' \in Owners /\ \A n \in Node : owner'[n] = NULL
      BY <1>1, <2>1, <2>2, ApiAddresses DEF Owners
    <3> QED
      BY <2>1, <2>2, <3>1, ApiAddresses DEF ApiOwners
  <2>6. ApiCalls(7)'
    BY <2>2 DEF ApiCalls
  <2> QED
    BY <1>2, <2>3, <2>4, <2>5, <2>6 DEF ApiState
<1>3. CASE b = 7
  <2>1. /\ link[tree1]["root"] = apiN /\ stale = {apiM}
        /\ pf[apiN] = [raw |-> apiN, flags |-> {}]
        /\ \A n \in Node : owner[n] = NULL
    BY <1>3 DEF ApiState, ApiMemory, ApiWords, ApiOwners
  <2>2. /\ link' = [link EXCEPT ![apiM] = NoLinks]
        /\ pf' = [pf EXCEPT ![apiM] = [raw |-> apiM, flags |-> {}]]
        /\ owner' = owner /\ stale' = stale \ {apiM} /\ pc' = "idle"
    BY <1>1, <1>3 DEF c_rbnode_init, c_rbnode_set_parent_and_flags, locals
  <2>3. ApiMemory(8)'
    <3>1. link' = link
      BY <1>1, <2>2, ApiAddresses DEF Memory
    <3> QED
      BY <1>1, <2>1, <3>1 DEF ApiMemory
  <2>4. ApiWords(8)'
    <3>1. pf' \in Words
      BY <1>1, <2>2, ApiAddresses DEF Words, Word
    <3>2. /\ pf'[apiN] = [raw |-> apiN, flags |-> {}]
          /\ pf'[apiM] = [raw |-> apiM, flags |-> {}]
      BY <1>1, <2>1, <2>2, ApiAddresses DEF Words
    <3> QED
      BY <2>2, <3>1, <3>2 DEF ApiWords
  <2>5. ApiOwners(8)'
    <3>1. stale' = {}
      BY <2>1, <2>2
    <3> QED
      BY <1>1, <2>1, <2>2, <3>1, ApiAddresses DEF ApiOwners
  <2>6. ApiCalls(8)'
    BY <2>2 DEF ApiCalls
  <2> QED
    BY <1>3, <2>3, <2>4, <2>5, <2>6 DEF ApiState
<1>4. CASE b = 8
  <2>1. /\ stale = {} /\ pf[apiN] = [raw |-> apiN, flags |-> {}]
        /\ pf[apiM] = [raw |-> apiM, flags |-> {}]
        /\ \A n \in Node : owner[n] = NULL
    BY <1>4 DEF ApiState, ApiMemory, ApiWords, ApiOwners, Idle
  <2>2. /\ link' = [link EXCEPT ![tree1] = NoLinks] /\ pf' = pf
        /\ owner' = [n \in Node |-> IF owner[n] = tree1 THEN NULL ELSE owner[n]]
        /\ stale' = stale \cup {n \in Node : owner[n] = tree1} /\ pc' = "idle"
    BY <1>1, <1>4 DEF c_rbtree_init, locals
  <2>3. ApiMemory(9)'
    <3>1. link' \in Memory
      BY <1>1, <2>2, ApiAddresses DEF Memory, NoLinks, Pointer
    <3>2. link'[tree1] = NoLinks /\ link'[apiN] = NoLinks /\ link'[apiM] = NoLinks
      BY <1>1, <2>2, ApiAddresses DEF Memory
    <3>3. link'[tree1]["root"] = NULL
      BY <3>2, ApiAddresses DEF NoLinks
    <3> QED
      BY <3>1, <3>2, <3>3 DEF ApiMemory
  <2>4. ApiWords(9)'
    BY <1>1, <2>1, <2>2 DEF ApiWords
  <2>5. ApiOwners(9)'
    <3>1. stale' = {} /\ owner' \in Owners /\ \A n \in Node : owner'[n] = NULL
      BY <2>1, <2>2, ApiAddresses DEF Owners
    <3> QED
      BY <2>2, <3>1, ApiAddresses DEF ApiOwners
  <2>6. ApiCalls(9)'
    BY <2>2 DEF ApiCalls
  <2> QED
    BY <1>4, <2>3, <2>4, <2>5, <2>6 DEF ApiState
<1>5. CASE b = 9
  <2>1. link' = link /\ pf' = pf /\ owner' = owner /\ stale' = stale /\ pc' = "idle"
    BY <1>1, <1>5 DEF vars
  <2>2. /\ link[tree1]["root"] = NULL /\ stale = {} /\ pf[apiN] = [raw |-> apiN, flags |-> {}]
        /\ pf[apiM] = [raw |-> apiM, flags |-> {}]
        /\ \A n \in Node : owner[n] = NULL
    BY <1>5 DEF ApiState, ApiMemory, ApiWords, ApiOwners
  <2>3. ApiMemory(10)' /\ ApiWords(10)'
    BY <1>1, <2>1, <2>2 DEF ApiMemory, ApiWords
  <2>4. ApiOwners(10)' /\ ApiCalls(10)'
    BY <1>1, <2>1, <2>2, ApiAddresses DEF ApiOwners, ApiCalls
  <2> QED
    BY <1>5, <2>3, <2>4 DEF ApiState
<1> QED
  BY <1>2, <1>3, <1>4, <1>5

\* The rest of the calls: the root becomes black, below a black root nothing is to
\* do, and the node that was removed is reset.
LEMMA ApiSteps ==
  ASSUME NEW b \in 0 .. 10, ApiState(b), Step
  PROVE  ApiState(b)'
<1>1. /\ link \in Memory /\ pf \in Words /\ owner \in Owners
      /\ ApiCalls(b)
  BY DEF ApiState, ApiMemory, ApiWords, ApiOwners
<1>2. pc # "idle"
  BY DEF Step, PaintRoot, PaintDone, PaintRecolor, PaintRotate, PaintRotateTwice, WalkLeft,
         SpliceSuccessor, RebalanceEnd, RebalanceRecolor, RebalanceFound, RotateRedSibling,
         RotateRecolor, RotateSibling, RotateNephew, Reinit
<1>3. CASE pc = "paint"
  <2>1. b \in {1, 2, 4, 5} /\ cur = ApiNode(b)
    BY <1>1, <1>3 DEF ApiCalls
  <2>2. PaintRoot \/ PaintDone \/ (pc = "paint" /\ RedParent(cur))
    BY <1>3 DEF Step, PaintRecolor, PaintRotate, PaintRotateTwice, WalkLeft,
         SpliceSuccessor, RebalanceEnd, RebalanceRecolor, RebalanceFound, RotateRedSibling,
         RotateRecolor, RotateSibling, RotateNephew, Reinit
  <2>3. CASE b \in {1, 4}
    <3>1. /\ cur = apiN /\ pf[apiN] = [raw |-> tree1, flags |-> {C_RBNODE_RED, C_RBNODE_ROOT}]
          /\ pf[apiM] = [raw |-> apiM, flags |-> {}]
      BY <1>3, <2>1, <2>3 DEF ApiState, ApiWords, ApiNode
    <3>2. c_rbnode_parent(pf, cur) = NULL
      BY <3>1 DEF c_rbnode_parent, c_rbnode_is_root
    <3>3. PaintRoot
      BY <2>2, <3>2 DEF PaintDone, RedParent, RedNode
    <3>4. /\ pf' = [pf EXCEPT ![apiN] = [raw |-> tree1, flags |-> {C_RBNODE_ROOT}]]
          /\ UNCHANGED <<link, owner, stale>> /\ pc' = "idle"
      <4>1. {C_RBNODE_RED, C_RBNODE_ROOT} \ {C_RBNODE_RED} = {C_RBNODE_ROOT}
        BY DEF C_RBNODE_RED, C_RBNODE_ROOT
      <4>2. /\ pf' = c_rbnode_set_parent_and_flags(pf, cur, pf[cur].raw, pf[cur].flags \ {C_RBNODE_RED})
            /\ UNCHANGED <<link, owner, stale>> /\ pc' = "idle"
        BY <3>3 DEF PaintRoot, Return, caller, c_rbnode_raw, c_rbnode_flags
      <4>3. pf[cur].raw = tree1 /\ pf[cur].flags = {C_RBNODE_RED, C_RBNODE_ROOT}
        BY <3>1
      <4> QED
        BY <3>1, <4>1, <4>2, <4>3 DEF c_rbnode_set_parent_and_flags
    <3>5. pf' \in Words /\ pf'[apiN] = [raw |-> tree1, flags |-> {C_RBNODE_ROOT}] /\ pf'[apiM] = pf[apiM]
      BY <1>1, <3>4, ApiAddresses DEF Words, Word
    <3>6. ApiMemory(b)' /\ ApiWords(b)' /\ ApiOwners(b)' /\ ApiCalls(b)'
      BY <1>3, <2>3, <3>1, <3>4, <3>5 DEF ApiState, ApiMemory, ApiWords, ApiOwners, ApiCalls
    <3> QED
      BY <3>6 DEF ApiState
  <2>4. CASE b \in {2, 5}
    <3>1. /\ cur = apiM /\ pf[apiM] = [raw |-> apiN, flags |-> {C_RBNODE_RED}]
          /\ pf[apiN] = [raw |-> tree1, flags |-> {C_RBNODE_ROOT}]
      BY <1>3, <2>1, <2>4 DEF ApiState, ApiWords, ApiNode
    <3>2. /\ c_rbnode_parent(pf, cur) = apiN /\ ~c_rbnode_is_red(pf, apiN)
      BY <3>1 DEF c_rbnode_parent, c_rbnode_is_root, c_rbnode_is_red, C_RBNODE_RED, C_RBNODE_ROOT
    <3>3. PaintDone
      BY <2>2, <3>2, ApiAddresses DEF PaintRoot, RedParent, RedNode
    <3>4. UNCHANGED <<link, pf, owner, stale>> /\ pc' = "idle"
      BY <3>3 DEF PaintDone, Return, memory, caller
    <3>5. ApiMemory(b)' /\ ApiWords(b)' /\ ApiOwners(b)' /\ ApiCalls(b)'
      BY <1>3, <2>4, <3>1, <3>4 DEF ApiState, ApiMemory, ApiWords, ApiOwners, ApiCalls
    <3> QED
      BY <3>5 DEF ApiState
  <2> QED
    BY <2>1, <2>3, <2>4
<1>4. CASE pc = "init"
  <2>1. b = 3 /\ victim = apiM
    BY <1>1, <1>4 DEF ApiCalls
  <2>2. Reinit
    BY <1>4 DEF Step, PaintRoot, PaintDone, PaintRecolor, PaintRotate, PaintRotateTwice, WalkLeft,
         SpliceSuccessor, RebalanceEnd, RebalanceRecolor, RebalanceFound, RotateRedSibling,
         RotateRecolor, RotateSibling, RotateNephew
  <2>3. /\ link' = [link EXCEPT ![apiM] = NoLinks]
        /\ pf' = [pf EXCEPT ![apiM] = [raw |-> apiM, flags |-> {}]]
        /\ owner' = owner /\ stale' = stale \ {apiM} /\ pc' = "idle"
    BY <2>1, <2>2 DEF Reinit, Return, c_rbnode_set_parent_and_flags
  <2>4. /\ link[tree1]["root"] = apiN /\ link[apiN] = NoLinks /\ link[apiM] = NoLinks /\ stale = {apiM}
        /\ pf[apiN] = [raw |-> tree1, flags |-> {C_RBNODE_ROOT}]
    BY <1>4, <2>1 DEF ApiState, ApiMemory, ApiWords, ApiOwners
  <2>5. ApiMemory(3)'
    <3>1. link' = link
      BY <1>1, <2>3, <2>4, ApiAddresses DEF Memory
    <3> QED
      BY <1>1, <2>4, <3>1 DEF ApiMemory
  <2>6. ApiWords(3)'
    <3>1. /\ pf' \in Words /\ pf'[apiM] = [raw |-> apiM, flags |-> {}]
          /\ pf'[apiN] = [raw |-> tree1, flags |-> {C_RBNODE_ROOT}]
      BY <1>1, <2>3, <2>4, ApiAddresses DEF Words, Word
    <3> QED
      BY <2>3, <3>1 DEF ApiWords
  <2>7. ApiOwners(3)' /\ ApiCalls(3)'
    <3>1. stale' = {}
      BY <2>3, <2>4
    <3> QED
      BY <2>1, <2>3, <3>1 DEF ApiState, ApiOwners, ApiCalls
  <2> QED
    BY <2>1, <2>5, <2>6, <2>7 DEF ApiState
<1> QED
  BY <1>1, <1>2, <1>3, <1>4 DEF ApiCalls

\* A call of test_api begins.
LEMMA ApiCallKeeps ==
  ASSUME NEW b \in 0 .. 9, ApiState(b), Idle, ApiCall(b + 1)
  PROVE  ApiState(b + 1)'
<1>1. CASE b = 0
  <2>1. AddRoot(tree1, apiN)
    BY <1>1 DEF ApiCall
  <2> QED
    BY <1>1, <2>1, ApiAddsRoot
<1>2. CASE b \in {1, 4}
  <2>1. Link(apiN, "left", apiM)
    BY <1>2 DEF ApiCall
  <2> QED
    BY <1>2, <2>1, ApiAddsChild
<1>3. CASE b = 3
  <2>1. AddRootAgain(tree1, apiN)
    BY <1>3 DEF ApiCall
  <2> QED
    BY <1>3, <2>1, ApiAddsAgain
<1>4. CASE b \in {2, 5}
  <2>1. \/ b = 2 /\ Unlink(apiM) /\ call' = "unlink"
        \/ b = 5 /\ UnlinkLeaf("unlink_stale", apiM)
    BY <1>4 DEF ApiCall
  <2> QED
    BY <1>4, <2>1, ApiRemoves
<1>5. CASE b \in {6, 7, 8, 9}
  <2>1. \/ b = 6 /\ InitLinked(apiN)
        \/ b = 7 /\ c_rbnode_init(apiM)
        \/ b = 8 /\ c_rbtree_init(tree1)
        \/ b = 9 /\ UNCHANGED vars
    BY <1>5 DEF ApiCall
  <2> QED
    BY <1>5, <2>1, ApiInits
<1> QED
  BY <1>1, <1>2, <1>3, <1>4, <1>5

LEMMA ApiKeeps ==
  ASSUME PlaceOK, test = "api", ~Done, ApiInv, TestNext
  PROVE  PlaceOK' /\ (~Done' => ApiInv')
<1>1. /\ Doing = "call" /\ Times = 10 /\ count \in 0 .. 10 /\ node \in Pointer
      /\ node # NULL => count < 10
  BY ApiPhase DEF PlaceOK
<1>2. loop = "none" /\ ApiState(Begun) /\ (node # NULL => node = ApiNode(Begun))
  BY DEF ApiInv
<1>3. Begun \in 0 .. 10
  BY <1>1 DEF Begun
<1>4. ~In("add") /\ ~In("remove") /\ ~In("drain") /\ ~In("move") /\ ~In("verify")
      /\ ~In("safe") /\ ~In("unlink")
  BY <1>1, InPhase
<1>5. CASE TestCall
  <2>1. /\ Idle /\ node = NULL /\ count < 10 /\ ApiCall(count + 1)
        /\ node' = ApiNode(count + 1) /\ UNCHANGED <<test, line, count, iterator>>
    BY <1>1, <1>5, InPhase DEF TestCall, Ready, Begin, ApiNode
  <2>2. count \in 0 .. 9 /\ Begun = count
    BY <1>1, <2>1 DEF Begun
  <2>3. ApiState(count + 1)'
    <3>1. ASSUME NEW b \in 0 .. 9, b = count
          PROVE  ApiState(b + 1)'
      BY <1>2, <2>1, <2>2, <3>1, ApiCallKeeps
    <3>2. PICK b \in 0 .. 9 : b = count
      BY <2>2
    <3>3. b + 1 = (count + 1)'
      BY <2>1, <3>2
    <3> QED
      BY <3>1, <3>2, <3>3
  <2>4. node' \in Node /\ node' # NULL /\ loop' = "none"
    BY <1>2, <2>1, ApiAddresses DEF ApiNode, iterator
  <2>5. Begun' = count + 1
    BY <2>1, <2>4 DEF Begun
  <2>6. ApiInv'
    <3>1. (count + 1)' = Begun'
      BY <2>1, <2>5
    <3>2. ApiState(Begun)'
      BY <2>3, <3>1
    <3> QED
      BY <2>1, <2>4, <2>5, <3>2 DEF ApiInv, ApiNode
  <2>7. PlaceOK'
    <3>1. count' \in Nat /\ count' <= Times /\ node' \in Pointer /\ count' < Times
      BY <1>1, <2>1, <2>4 DEF Pointer
    <3> QED
      BY <1>1, <2>1, <2>4, <3>1, PlaceStays
  <2> QED
    BY <2>6, <2>7
<1>6. CASE NextNode
  <2>1. /\ Idle /\ node # NULL /\ node' = NULL /\ count' = count + 1
        /\ UNCHANGED <<vars, iterator, test, line>>
    BY <1>6 DEF NextNode
  <2>2. Begun' = Begun /\ loop' = "none"
    BY <1>1, <1>2, <2>1 DEF Begun, iterator
  <2>3. ApiState(Begun)'
    BY <1>2, <2>1, <2>2 DEF ApiState, ApiMemory, ApiWords, ApiOwners, ApiCalls, ApiNode, vars
  <2>4. PlaceOK'
    <3>1. count' \in Nat /\ count' <= Times /\ node' \in Pointer
      BY <1>1, <2>1 DEF Pointer
    <3> QED
      BY <2>1, <2>2, <3>1, PlaceStays
  <2> QED
    BY <2>1, <2>2, <2>3, <2>4 DEF ApiInv
<1>7. CASE NextLine
  <2>1. /\ Idle /\ node = NULL /\ ~More
        /\ line' = line + 1 /\ count' = 0 /\ UNCHANGED <<vars, iterator, test, node>>
    BY <1>7 DEF NextLine
  <2>2. Done'
    <3>1. Script[test] = <<Phase("call", 10)>> /\ Len(Script[test]) = 1
      BY ScriptFacts
    <3>2. line \in 1 .. Len(Script[test])
      BY InPhase
    <3> QED
      BY <2>1, <3>1, <3>2 DEF Done
  <2>3. PlaceOK'
    <3>1. line' \in Nat \ {0} /\ Idle' /\ loop' = "none"
      BY <1>2, <2>1 DEF PlaceOK, Idle, vars, iterator
    <3> QED
      BY <2>1, <2>2, <3>1 DEF PlaceOK
  <2> QED
    BY <2>2, <2>3
<1>8. CASE Step /\ UNCHANGED <<iterator, script>>
  <2>1. UNCHANGED <<test, line, count, node>> /\ loop' = "none"
    BY <1>2, <1>8 DEF iterator, script
  <2>2. Begun' = Begun
    BY <2>1 DEF Begun
  <2>3. ApiState(Begun)'
    <3>1. ASSUME NEW b \in 0 .. 10, b = Begun
          PROVE  ApiState(b)'
      BY <1>2, <1>8, <3>1, ApiSteps
    <3>2. PICK b \in 0 .. 10 : b = Begun
      BY <1>3
    <3> QED
      BY <2>2, <3>1, <3>2
  <2>4. PlaceOK'
    BY <1>1, <1>2, <2>1, PlaceStays DEF PlaceOK
  <2> QED
    BY <1>2, <2>1, <2>2, <2>3, <2>4 DEF ApiInv, ApiNode
<1>9. ~TestAdd /\ ~TestRemove /\ ~TestDrain /\ ~TestMove /\ ~TestVerify /\ ~TestLoop
  BY <1>4 DEF TestAdd, TestRemove, TestDrain, TestMove, TestVerify, TestLoop
<1>10. ~TestLoopSteps
  BY <1>2 DEF TestLoopSteps, LoopTest, LoopTestUnlink, LoopNext, BodyEnds, InLoop, Macro
<1> QED
  BY <1>5, <1>6, <1>7, <1>8, <1>9, <1>10 DEF TestNext

-----------------------------------------------------------------------------
(* The invariant holds *)

LEMMA TestInitHolds ==
  ASSUME TestInit
  PROVE  TestInv
<1>1. /\ IterInit /\ Init /\ test \in DOMAIN Script /\ line = 1 /\ count = 0 /\ node = NULL /\ loop = "none"
  BY DEF TestInit, IterInit
<1>2. /\ link = [n \in Node \cup Tree |-> NoLinks] /\ pf = [n \in Node |-> [raw |-> n, flags |-> {}]]
      /\ owner = [n \in Node |-> NULL] /\ stale = {} /\ pc = "idle"
  BY <1>1 DEF Init, Idle, locals
<1>3. IterInv
  BY <1>1, IterInitHolds
<1>4. ~Done /\ line \in 1 .. Len(Script[test]) /\ PhaseOK(test, Script[test][line])
      /\ (test # "api" => Chained(Script[test]))
  BY <1>1, ScriptFacts DEF Done
<1>5. PlaceOK
  <2>1. Times \in Nat
    BY <1>4 DEF PhaseOK, Times
  <2> QED
    BY <1>1, <1>4, <2>1 DEF PlaceOK, Pointer
<1>6. InUse = {}
  BY <1>2 DEF InUse, Owned
<1>7. ASSUME test # "api"
      PROVE  RunInv
  <2>1. Sized
    <3>1. SizeAt(Script[test][line], 0) = 0
      BY <1>1, <1>4, <1>7 DEF Chained
    <3>2. Changed = 0 /\ count + Changed = 0
      BY <1>1 DEF Changed
    <3> QED
      BY <1>2, <1>6, <3>1, <3>2, FS_EmptySet DEF Sized
  <2>2. Emptying /\ InCall
    BY <1>1, <1>2 DEF Emptying, InCall, Idle
  <2>3. InKeyOrder(InUse, link)
    <3>1. [n \in Node |-> Int] \in Ranges
      BY DEF Ranges
    <3> QED
      BY <1>6, <3>1 DEF InKeyOrder, Ordered
  <2> QED
    BY <2>1, <2>2, <2>3 DEF RunInv
<1>8. ASSUME test = "api"
      PROVE  ApiInv
  <2>1. Begun = 0
    BY <1>1 DEF Begun
  <2>2. ApiMemory(0)
    <3>1. link \in Memory
      BY <1>2 DEF Memory, NoLinks, Pointer
    <3>2. link[tree1] = NoLinks /\ link[apiN] = NoLinks /\ link[apiM] = NoLinks
      BY <1>2, ApiAddresses
    <3>3. link[tree1]["root"] = NULL
      BY <3>2, ApiAddresses DEF NoLinks
    <3> QED
      BY <3>1, <3>2, <3>3 DEF ApiMemory
  <2>3. ApiWords(0)
    <3>1. pf \in Words
      BY <1>2 DEF Words, Word
    <3> QED
      BY <1>2, <3>1, ApiAddresses DEF ApiWords
  <2>4. ApiOwners(0) /\ ApiCalls(0)
    BY <1>2, ApiAddresses DEF ApiOwners, ApiCalls, Owners
  <2> QED
    BY <1>1, <2>1, <2>2, <2>3, <2>4 DEF ApiInv, ApiState
<1> QED
  BY <1>3, <1>5, <1>7, <1>8 DEF TestInv

\* A test that stays where it is.
LEMMA TestStays ==
  ASSUME TestInv, UNCHANGED tvars
  PROVE  TestInv'
<1>1. UNCHANGED allvars /\ UNCHANGED <<test, line, count, node, loop, at, tree, iter, expected, visited>>
      /\ UNCHANGED <<link, pf, owner, stale, pc, call, victim, cur>>
  BY DEF tvars, allvars, iterator, script, vars
<1>2. IterInv => IterInv'
  BY <1>1, OwnStepsKeep DEF OwnSteps
<1>3. PlaceOK => PlaceOK'
  BY <1>1 DEF PlaceOK, Done, Idle, Times, Doing
<1>4. Done' <=> Done
  BY <1>1 DEF Done
<1>5. InUse' = InUse /\ Doing' = Doing /\ Holding' = Holding
  BY <1>1 DEF InUse, Owned, Doing, Holding
<1>6. RunInv => RunInv'
  <2>1. Sized => Sized'
    <3>1. Changed' = Changed
      BY <1>1, <1>5 DEF Changed
    <3> QED
      BY <1>1, <1>5, <3>1 DEF Sized
  <2>2. Emptying => Emptying'
    BY <1>1, <1>5 DEF Emptying
  <2>3. InCall => InCall'
    <3>1. Worked' = Worked
      BY <1>1 DEF Worked
    <3> QED
      BY <1>1, <1>5, <3>1 DEF InCall, Removing, Idle
  <2> QED
    BY <1>1, <1>5, <2>1, <2>2, <2>3 DEF RunInv
<1>7. ApiInv => ApiInv'
  <2>1. Begun' = Begun
    BY <1>1 DEF Begun
  <2> QED
    BY <1>1, <2>1 DEF ApiInv, ApiState, ApiMemory, ApiWords, ApiOwners, ApiCalls, ApiNode
<1> QED
  BY <1>1, <1>2, <1>3, <1>4, <1>6, <1>7 DEF TestInv

LEMMA TestNextKeeps ==
  ASSUME TestInv, [TestNext \/ TestEnd]_tvars
  PROVE  TestInv'
<1>1. CASE UNCHANGED tvars
  BY <1>1, TestStays
<1>2. CASE TestNext /\ Done
  <2>1. PlaceOK /\ Idle /\ loop = "none" /\ node = NULL
    BY <1>2 DEF TestInv, PlaceOK
  <2>2. ~TestAdd /\ ~TestRemove /\ ~TestDrain /\ ~TestMove /\ ~TestVerify /\ ~TestLoop /\ ~TestCall
        /\ ~NextLine
    BY <1>2 DEF TestAdd, TestRemove, TestDrain, TestMove, TestVerify, TestLoop, TestCall, NextLine,
       Ready, More
  <2>3. ~TestLoopSteps /\ ~NextNode
    BY <2>1 DEF NextNode, TestLoopSteps, LoopTest, LoopTestUnlink, LoopNext, BodyEnds, InLoop, Macro
  <2>4. ~Step
    BY <2>1 DEF Idle, Step, PaintRoot, PaintDone, PaintRecolor, PaintRotate, PaintRotateTwice, WalkLeft,
       SpliceSuccessor, RebalanceEnd, RebalanceRecolor, RebalanceFound, RotateRedSibling,
       RotateRecolor, RotateSibling, RotateNephew, Reinit
  <2> QED
    BY <1>2, <2>2, <2>3, <2>4 DEF TestNext
<1>3. CASE TestNext /\ ~Done /\ test = "api"
  <2>1. test' = test
    BY <1>3 DEF TestNext, TestAdd, TestRemove, TestDrain, TestMove, TestVerify, TestLoop, TestLoopSteps,
       TestCall, NextNode, NextLine, Begin, script
  <2>2. PlaceOK' /\ (~Done' => ApiInv')
    BY <1>3, ApiKeeps DEF TestInv
  <2> QED
    BY <1>3, <2>1, <2>2 DEF TestInv
<1>4. CASE TestNext /\ ~Done /\ test # "api"
  <2>1. UnderWay
    BY <1>4 DEF TestInv, UnderWay
  <2>2. test' = test
    BY <1>4 DEF TestNext, TestAdd, TestRemove, TestDrain, TestMove, TestVerify, TestLoop, TestLoopSteps,
       TestCall, NextNode, NextLine, Begin, script
  <2>3. ~TestCall
    <3>1. PhaseOK(test, Script[test][line]) /\ Doing = Script[test][line].do
      BY <2>1, InPhase DEF UnderWay
    <3>2. ~In("call")
      BY <1>4, <2>1, <3>1, InPhase DEF PhaseOK, UnderWay
    <3> QED
      BY <3>2 DEF TestCall
  <2>4. CASE ~NextLine
    <3>1. StaysOK'
      BY <1>4, <2>1, <2>3, <2>4, AddKeeps, RemoveKeeps, MoveKeepsRun, VerifyKeeps, LoopBegins,
         LoopStepsKeep, NextNodeKeeps, CallsKeep, LoopCallsKeep DEF TestNext
    <3> QED
      BY <1>4, <2>2, <3>1 DEF StaysOK, TestInv
  <2>5. CASE NextLine
    <3>1. PlaceOK' /\ IterInv' /\ (~Done' => RunInv')
      BY <2>1, <2>5, NextLineKeeps
    <3> QED
      BY <1>4, <2>2, <3>1 DEF TestInv
  <2> QED
    BY <2>4, <2>5
<1> QED
  BY <1>1, <1>2, <1>3, <1>4 DEF TestEnd

\* In every state of every test the invariant holds: the nodes in the trees are those
\* the script has added and not yet removed, in the tree it has put them into, and
\* the loops that take a tree apart have emptied it up to where they are.
THEOREM TestInvariance == TestSpec => []TestInv
<1>1. TestInit => TestInv
  BY TestInitHolds
<1>2. TestInv /\ [TestNext \/ TestEnd]_tvars => TestInv'
  BY TestNextKeeps
<1> QED
  BY <1>1, <1>2, PTL DEF TestSpec

-----------------------------------------------------------------------------
(* The assertions *)

\* Between two calls the tree in use has the nodes in use, as many as the script says.
BetweenCalls ==
  /\ PlaceOK /\ ~Done /\ test # "api" /\ Idle /\ loop = "none"
  /\ IInv /\ NoLoops(link) /\ InKeyOrder(InUse, link)
  /\ Holding \in Tree /\ Members(Holding) = InUse
  /\ \A t \in Tree : t # Holding => Members(t) = {}
  /\ Cardinality(InUse) = SizeAt(Script[test][line], count + Changed)
  /\ \A n \in Node : IsLinked(n) <=> n \in InUse
  /\ test # "misc" => Holding = tree1

LEMMA TestAtRest ==
  ASSUME TestInv, ~Done, test # "api", Idle, loop = "none"
  PROVE  BetweenCalls
<1>1. PlaceOK /\ IterInv /\ RunInv
  BY DEF TestInv
<1>2. /\ Sized /\ InCall /\ InKeyOrder(InUse, link) /\ stale = {}
  BY <1>1 DEF RunInv, InCall
<1>3. IInv /\ NoLoops(link)
  BY <1>1 DEF IterInv, MemoryOK, Tearing, Freeing, WorldOK
<1>4. Holding \in Tree /\ (test # "misc" => Holding = tree1)
  BY TreesAndNodes DEF Holding
<1>5. Members(Holding) = InUse /\ \A t \in Tree : t # Holding => Members(t) = {}
  BY <1>2, DistinctAddresses DEF Sized, Members, InUse, Owned
<1>6. \A n \in Node : IsLinked(n) <=> n \in InUse
  <2>1. ASSUME NEW n \in Node
        PROVE  IsLinked(n) <=> n \in InUse
    <3>1. n \in Node \ stale
      BY <1>2
    <3> QED
      BY <1>3, <3>1, FlagTells DEF IsLinked
  <2> QED
    BY <2>1
<1> QED
  BY <1>1, <1>2, <1>3, <1>4, <1>5, <1>6 DEF BetweenCalls, Sized

\* What a lookup finds then.
LEMMA FindsAtRest ==
  ASSUME BetweenCalls, Holding = tree1, NEW n \in Node
  PROVE  /\ n \in InUse => Found(n) = n
         /\ n \notin InUse => /\ Found(n) = NULL
                              /\ c_rbtree_find_slot(tree1, KeyOf[n]).l # Conflict
<1>1. IInv /\ NoLoops(link) /\ InKeyOrder(InUse, link) /\ Members(tree1) = InUse /\ tree1 \in Tree
  BY DEF BetweenCalls
<1> QED
  BY <1>1, SearchesFind DEF Found

\* The assertions before the calls.
LEMMA BeforeCalls ==
  ASSUME TestInv, Ready
  PROVE  BeforeCall
<1>1. PlaceOK /\ ~Done /\ Idle /\ loop = "none" /\ node = NULL /\ count < Times
  BY InPhase DEF TestInv, Ready, More
<1>2. /\ PhaseOK(test, Script[test][line]) /\ Doing = Script[test][line].do
      /\ Times = Script[test][line].times /\ count \in Nat
      /\ \A w : In(w) <=> Doing = w
  BY <1>1, InPhase DEF PlaceOK
<1>3. CASE test = "api"
  <2>1. ASSUME count = 0
        PROVE  Empty(tree1) /\ ~IsLinked(apiN)
    <3>1. ApiState(0)
      BY <1>1, <1>3, <2>1 DEF TestInv, ApiInv, Begun
    <3>2. link[tree1]["root"] = NULL /\ pf[apiN] = [raw |-> apiN, flags |-> {}]
      BY <3>1 DEF ApiState, ApiMemory, ApiWords
    <3> QED
      BY <3>2 DEF Empty, IsLinked, c_rbnode_is_linked, c_rbnode_parent, c_rbnode_is_root
  <2> QED
    BY <1>2, <1>3, <2>1 DEF BeforeCall, PhaseOK
<1>4. CASE test # "api"
  <2>1. BetweenCalls /\ ~In("call")
    BY <1>1, <1>2, <1>4, TestAtRest DEF PhaseOK
  <2>2. Changed = 0 /\ Cardinality(InUse) = SizeAt(Script[test][line], count)
    BY <1>1, <1>2, <2>1 DEF BetweenCalls, Changed
  <2>3. ASSUME Doing = "add"
        PROVE  \A n \in Node \ InUse :
                 /\ c_rbtree_find_slot(tree1, KeyOf[n]).l # Conflict
                 /\ ~IsLinked(n) /\ Found(n) = NULL
    <3>1. Holding = tree1
      BY <1>1, <2>3, InPhase DEF Holding
    <3> QED
      BY <2>1, <3>1, FindsAtRest DEF BetweenCalls
  <2>4. ASSUME Doing = "remove"
        PROVE  Checked => \A n \in InUse : IsLinked(n) /\ Found(n) = n
    <3>1. Checked => Holding = tree1
      BY <2>1 DEF BetweenCalls, Checked
    <3>2. \A n \in InUse : n \in Node
      BY DEF InUse, Owned
    <3> QED
      BY <2>1, <3>1, <3>2, FindsAtRest DEF BetweenCalls
  <2>5. ASSUME Doing = "move"
        PROVE  ~Empty(tree1) /\ Empty(tree2)
    <3>1. test = "misc" /\ line = 2 /\ count = 0
      <4>1. test = "misc"
        BY <1>2, <2>5 DEF PhaseOK
      <4> QED
        BY <1>1, <1>2, <2>5, <4>1, InPhase
    <3>2. Holding = tree1 /\ Cardinality(InUse) = N
      BY <2>2, <2>5, <3>1 DEF Holding, SizeAt, Doing
    <3>3. InUse # {}
      BY <3>2, NodesCounted, FS_EmptySet
    <3> QED
      BY <2>1, <3>2, <3>3, EmptyTrees, TreesAndNodes DEF BetweenCalls
  <2>6. ASSUME Doing = "verify"
        PROVE  TraversalsVerified(tree1) /\ LookupsVerified(tree1)
    <3>1. Holding = tree1
      BY <1>2, <2>1, <2>6 DEF PhaseOK, BetweenCalls
    <3>2. Cardinality(InUse) = N
      BY <2>2, <2>6 DEF SizeAt, Doing
    <3>3. InUse = Node
      BY <3>2, NodesCounted DEF InUse, Owned
    <3> QED
      BY <2>1, <3>1, <3>3, LoopsVerify DEF BetweenCalls
  <2>7. ASSUME test = "basic", line = 1, count = 0
        PROVE  Validates(tree1, 0)
    <3>1. Holding = tree1
      BY <2>1, <2>7 DEF BetweenCalls
    <3>2. Chained(Script[test])
      BY <2>7, ScriptFacts
    <3>3. Cardinality(Members(tree1)) = 0
      BY <2>1, <2>2, <2>7, <3>1, <3>2 DEF Chained, BetweenCalls
    <3>4. Validates(tree1, Cardinality(Members(tree1)))
      BY <2>1, <3>1, TreesValidate DEF BetweenCalls
    <3> QED
      BY <3>3, <3>4
  <2> QED
    BY <1>2, <2>1, <2>3, <2>4, <2>5, <2>6, <2>7 DEF BeforeCall
<1> QED
  BY <1>3, <1>4

\* The assertions of test_api.
LEMMA AfterApiCalls ==
  ASSUME TestInv, Idle, node # NULL, test = "api"
  PROVE  AfterCall
<1>1. PlaceOK /\ ~Done /\ ApiInv /\ pc = "idle"
  BY DEF TestInv, PlaceOK, Idle
<1>2. Doing = "call" /\ count \in 0 .. 9 /\ Begun = count + 1
  BY <1>1, ApiPhase DEF PlaceOK, Begun
<1>3. ApiState(count + 1) /\ node = ApiNode(count + 1)
  BY <1>1, <1>2 DEF ApiInv
<1>4. ~In("add") /\ ~In("remove")
  BY <1>1, <1>2, InPhase
<1>5. ASSUME count + 1 \in {1, 2, 4, 5, 6}
      PROVE  IsLinked(node)
  <2>1. CASE count + 1 \in {1, 4}
    <3>1. node = apiN /\ C_RBNODE_ROOT \in pf[apiN].flags
      BY <1>1, <1>3, <2>1 DEF ApiState, ApiWords, ApiNode
    <3> QED
      BY <3>1, ApiAddresses DEF IsLinked, c_rbnode_is_linked, c_rbnode_parent, c_rbnode_is_root
  <2>2. CASE count + 1 \in {2, 5, 6}
    <3>1. node = apiM /\ pf[apiM] = [raw |-> apiN, flags |-> {C_RBNODE_RED}]
      BY <1>3, <2>2 DEF ApiState, ApiWords, ApiNode
    <3>2. C_RBNODE_ROOT \notin pf[apiM].flags /\ pf[apiM].raw = apiN
      BY <3>1 DEF C_RBNODE_RED, C_RBNODE_ROOT
    <3> QED
      BY <3>1, <3>2, ApiAddresses DEF IsLinked, c_rbnode_is_linked, c_rbnode_parent, c_rbnode_is_root
  <2> QED
    BY <1>5, <2>1, <2>2
<1>6. ASSUME count + 1 \in {3, 7, 8}
      PROVE  ~IsLinked(node)
  <2>1. pf[node] = [raw |-> node, flags |-> {}]
    BY <1>1, <1>3, <1>6 DEF ApiState, ApiWords, ApiNode
  <2> QED
    BY <2>1 DEF IsLinked, c_rbnode_is_linked, c_rbnode_parent, c_rbnode_is_root
<1>7. ASSUME count + 1 \in {9, 10}
      PROVE  Empty(tree1)
  BY <1>3, <1>7 DEF ApiState, ApiMemory, Empty
<1>8. ASSUME count + 1 = 10
      PROVE  NothingToVisit
  <2>1. /\ link \in Memory /\ link[tree1]["root"] = NULL /\ link[apiN] = NoLinks
        /\ pf[apiN] = [raw |-> apiN, flags |-> {}]
    BY <1>3, <1>8 DEF ApiState, ApiMemory, ApiWords
  <2>2. ~Linked(apiN)
    BY <2>1 DEF Linked, c_rbnode_is_linked, c_rbnode_parent, c_rbnode_is_root
  <2> QED
    BY <2>1, <2>2, NoneVisited
<1> QED
  BY <1>4, <1>5, <1>6, <1>7, <1>8 DEF AfterCall, Checked

\* The assertions after the calls.
LEMMA AfterCalls ==
  ASSUME TestInv, Idle, node # NULL, test # "api"
  PROVE  AfterCall
<1>1. PlaceOK /\ ~Done /\ loop = "none" /\ count \in Nat /\ node \in Node
  BY DEF TestInv, PlaceOK, Pointer
<1>2. /\ PhaseOK(test, Script[test][line]) /\ Doing = Script[test][line].do
      /\ Times = Script[test][line].times /\ Times \in Nat
      /\ \A w : In(w) <=> Doing = w
  BY <1>1, InPhase
<1>3. BetweenCalls
  BY <1>1, TestAtRest
<1>4. (owner[node] # NULL <=> Doing = "add") /\ (node \in InUse <=> Doing = "add")
  BY <1>1 DEF TestInv, RunInv, InCall, InUse, Owned
<1>5. Cardinality(InUse) = SizeAt(Script[test][line], count + 1)
  <2>1. Changed = 1
    BY <1>4 DEF Changed
  <2> QED
    BY <1>3, <2>1 DEF BetweenCalls
<1>6. ASSUME test = "basic"
      PROVE  Validates(tree1, Expected)
  <2>1. Holding = tree1 /\ Validates(tree1, Cardinality(InUse))
    <3>1. Holding = tree1
      BY <1>3, <1>6 DEF BetweenCalls
    <3>2. Members(tree1) = InUse
      BY <1>3, <3>1 DEF BetweenCalls
    <3>3. Validates(tree1, Cardinality(Members(tree1)))
      BY <1>3, <3>1, TreesValidate DEF BetweenCalls
    <3> QED
      BY <3>1, <3>2, <3>3
  <2>2. Expected = SizeAt(Script[test][line], count + 1)
    <3>1. Doing \in {"add", "remove"} /\ N \in Nat
      BY <1>2, <1>6, NodesCounted DEF PhaseOK
    <3> QED
      BY <1>1, <1>2, <3>1 DEF Expected, SizeAt
  <2> QED
    BY <1>5, <2>1, <2>2
<1>7. ASSUME Checked
      PROVE  /\ Doing = "add" => IsLinked(node) /\ Found(node) = node
             /\ Doing = "remove" => ~IsLinked(node) /\ Found(node) = NULL
  <2>1. Holding = tree1
    BY <1>3, <1>7 DEF BetweenCalls, Checked
  <2> QED
    BY <1>1, <1>3, <1>4, <2>1, FindsAtRest DEF BetweenCalls
<1>8. ~In("call")
  BY <1>2 DEF PhaseOK
<1> QED
  BY <1>2, <1>6, <1>7, <1>8 DEF AfterCall

\* The assertions after the phases.
LEMMA AfterPhases ==
  ASSUME TestInv, Idle, loop = "none", node = NULL, ~Done, ~More
  PROVE  AfterPhase
<1>1. PlaceOK
  BY DEF TestInv
<1>2. /\ PhaseOK(test, Script[test][line]) /\ Doing = Script[test][line].do
      /\ Times = Script[test][line].times /\ count = Times
      /\ \A w : In(w) <=> Doing = w
  BY <1>1, InPhase DEF PlaceOK
<1>3. CASE test = "api"
  BY <1>2, <1>3 DEF AfterPhase, PhaseOK
<1>4. CASE test # "api"
  <2>1. BetweenCalls
    BY <1>4, TestAtRest
  <2>2. Changed = 0 /\ Cardinality(InUse) = SizeAt(Script[test][line], Times)
    <3>1. Changed = 0 /\ count + Changed = Times
      BY <1>1, <1>2 DEF Changed, PlaceOK
    <3> QED
      BY <2>1, <3>1 DEF BetweenCalls
  <2>3. N \in Nat /\ N - N = 0 /\ (Cardinality(InUse) = 0 => InUse = {})
    BY NodesCounted DEF InUse, Owned
  <2>4. ASSUME InUse = {}
        PROVE  Empty(tree1) /\ Empty(tree2)
    BY <2>1, <2>4, EmptyTrees, TreesAndNodes DEF BetweenCalls, Members
  <2>5. ASSUME test = "map", Doing \in {"remove", "safe", "unlink"}
        PROVE  InUse = {}
    <3>1. SizeAt(Script[test][line], Times) = 0
      BY <1>2, <2>3, <2>5 DEF SizeAt, PhaseOK
    <3> QED
      BY <2>2, <2>3, <3>1
  <2>6. ASSUME Doing \in {"safe", "unlink"}
        PROVE  Len(visited) = N
    <3>1. count = 1
      BY <1>2, <2>6 DEF PhaseOK
    <3> QED
      BY <1>4, <2>6, <3>1 DEF TestInv, RunInv, Emptying
  <2>7. ASSUME Doing = "move"
        PROVE  Empty(tree1) /\ ~Empty(tree2)
    <3>1. test = "misc" /\ line = 2 /\ count = 1
      <4>1. test = "misc"
        BY <1>2, <2>7 DEF PhaseOK
      <4> QED
        BY <1>1, <1>2, <2>7, <4>1, InPhase
    <3>2. Holding = tree2 /\ Cardinality(InUse) = N
      BY <2>2, <1>2, <2>7, <3>1 DEF Holding, SizeAt
    <3>3. InUse # {}
      BY <3>2, NodesCounted, FS_EmptySet
    <3> QED
      BY <2>1, <3>2, <3>3, EmptyTrees, TreesAndNodes DEF BetweenCalls
  <2>8. ASSUME Doing = "drain"
        PROVE  InUse = {}
    <3>1. SizeAt(Script[test][line], Times) = 0
      BY <1>2, <2>3, <2>8 DEF SizeAt, PhaseOK
    <3> QED
      BY <2>2, <2>3, <3>1
  <2> QED
    BY <1>2, <2>4, <2>5, <2>6, <2>7, <2>8 DEF AfterPhase
<1> QED
  BY <1>3, <1>4

\* In the body of c_rbtree_for_each_safe_postorder_unlink the node is unlinked.
LEMMA UnlinkedInBody ==
  ASSUME TestInv, Idle, loop = "unlink", at = "body"
  PROVE  ~IsLinked(iter)
<1>1. UnderWay
  <2>1. PlaceOK /\ ~Done
    BY DEF TestInv, PlaceOK
  <2>2. test # "api"
    BY <2>1 DEF TestInv, ApiInv
  <2> QED
    BY <2>1, <2>2 DEF TestInv, UnderWay
<1>2. InTestLoop
  BY <1>1, InALoop
<1>3. stale = {} /\ IterInv /\ InLoop
  BY <1>2 DEF InTestLoop, InCall
<1>4. iter \in Node /\ owner[iter] = NULL
  <2>1. iter \in Node /\ iter = visited[Len(visited)] /\ Len(visited) \in 1 .. Len(visited)
    BY <1>2, LoopNodes
  <2> QED
    BY <1>2, <2>1 DEF InTestLoop, Emptying
<1>5. Hanging
  <2>1. TornOK /\ tree \in Tree /\ expected \in Nodes /\ Distinct(expected) /\ Taken \in Nat
    BY <1>3, TakenFacts DEF IterInv, MemoryOK, Tearing, IterTypes
  <2>2. Layout(expected, tree, owner, link, pf, Taken)
    BY <1>3 DEF IterInv, PostOrderKept
  <2> QED
    BY <2>1, <2>2, RestHangs
<1> QED
  BY <1>3, <1>4, <1>5 DEF Hanging, IsLinked, InUse, Owned

\* No assertion of the sequential tests fails, for every number of nodes and in
\* whatever order they are shuffled.
THEOREM TestsSucceed == TestSpec => []TestsPass
<1>1. TestInv => TestsPass
  <2> SUFFICES ASSUME TestInv
               PROVE  TestsPass
    OBVIOUS
  <2>1. Ready => BeforeCall
    BY BeforeCalls
  <2>2. Idle /\ node # NULL => AfterCall
    BY AfterApiCalls, AfterCalls
  <2>3. Idle /\ loop = "none" /\ node = NULL /\ ~Done /\ ~More => AfterPhase
    BY AfterPhases
  <2>4. Idle /\ loop = "unlink" /\ at = "body" => ~IsLinked(iter)
    BY UnlinkedInBody
  <2> QED
    BY <2>1, <2>2, <2>3, <2>4 DEF TestsPass
<1> QED
  BY <1>1, TestInvariance, PTL

=============================================================================
