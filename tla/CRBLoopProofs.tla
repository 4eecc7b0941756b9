--------------------------- MODULE CRBLoopProofs ---------------------------
(***************************************************************************)
(* The loop macros, and what their bodies do to the tree of the loop.  A   *)
(* loop that keeps its tree in order, whatever its body removes, follows   *)
(* from what CRBOrderProofs says of the sequences.  A loop that takes the  *)
(* tree apart leaves the states of CRBTree: such a state is seen as one in *)
(* which the tree was already given up with c_rbtree_init.                 *)
(***************************************************************************)
EXTENDS CRBIterate, CRBOrderProofs

-----------------------------------------------------------------------------
(* Without the tree *)

\* What the memory, the owners and the stale nodes are if the tree of the loop
\* is left out.
CutLink(m, t) == [m EXCEPT ![t] = NoLinks]
Rest == {n \in Node : owner[n] = tree}

\* A state in which they are as CRBTree leaves them between removals.
CutQuiet ==
  /\ pc \in {"idle", "paint"} /\ LocalsOK
  /\ pc = "paint" => cur # NULL
  /\ Quiet(DroppedOwners(owner, tree), CutLink(link, tree), pf, stale \cup Rest, Painted)

\* c_rbtree_init in these terms,
LEMMA QuietDropped ==
  ASSUME NEW o, NEW m, NEW w, NEW st, Quiet(o, m, w, st, NULL), NEW t \in Tree
  PROVE  Quiet(DroppedOwners(o, t), CutLink(m, t), w, st \cup {n \in Node : o[n] = t}, NULL)
<1> DEFINE o2 == DroppedOwners(o, t)
           m2 == CutLink(m, t)
<1>1. Sound(o, m, w) /\ RedsBelowBlacks(o, w, NULL) /\ Balanced(o, m, w, NULL, "left")
  BY DEF Quiet
<1>2. Sound(o2, m2, w) /\ RedsBelowBlacks(o2, w, NULL) /\ Balanced(o2, m2, w, NULL, "left")
  BY <1>1, TreeDropped DEF CutLink
<1>3. /\ \A n \in Node : o2[n] = IF o[n] = t THEN NULL ELSE o[n]
      /\ \A n \in Node : m2[n] = m[n]
  BY <1>1, DistinctAddresses DEF DroppedOwners, CutLink, Sound, Memory
<1>4. NoLoops(m2)
  BY <1>3 DEF Quiet, NoLoops
<1>5. \A n \in Node \ (st \cup {k \in Node : o[k] = t}) :
        o2[n] = NULL => w[n].raw = n /\ ~c_rbnode_is_root(w, n) /\ m2[n] = NoLinks
  BY <1>3 DEF Quiet
<1>6. st \cup {k \in Node : o[k] = t} \subseteq {n \in Node : o2[n] = NULL}
  BY <1>3 DEF Quiet
<1> QED
  BY <1>2, <1>4, <1>5, <1>6 DEF Quiet

\* and a node in no tree overwritten with no children and a word v.
LEMMA QuietOverwritten ==
  ASSUME NEW o, NEW m, NEW w, NEW st, NEW q, Quiet(o, m, w, st, q), NEW n \in Node, o[n] = NULL,
         NEW v \in Word, NEW st2, st \ {n} \subseteq st2, st2 \subseteq st \cup {n},
         n \in st2 \/ v = [raw |-> n, flags |-> {}]
  PROVE  Quiet(o, [m EXCEPT ![n] = NoLinks], [w EXCEPT ![n] = v], st2, q)
<1> DEFINE m2 == [m EXCEPT ![n] = NoLinks]
           w2 == [w EXCEPT ![n] = v]
<1>1. /\ Sound(o, m, w) /\ RedsBelowBlacks(o, w, q) /\ Balanced(o, m, w, NULL, "left")
      /\ m \in Memory /\ Shaped(m) /\ w \in [Node -> Word] /\ NoLoops(m)
  BY DEF Quiet, Sound
<1>2. /\ m2 \in Memory /\ w2 \in [Node -> Word]
      /\ m2[n] = NoLinks /\ \A x \in Node \cup Tree : x # n => m2[x] = m[x]
      /\ w2[n] = v /\ \A x \in Node : x # n => w2[x] = w[x]
  BY <1>1 DEF Memory, NoLinks, Pointer
<1>3. /\ \A s \in Side : m2[n][s] = NULL
      /\ Dir \subseteq Side /\ "root" \in Side
  BY <1>2, Sides DEF NoLinks
<1> HIDE DEF m2, w2
<1>4. Shaped(m2)
  BY <1>1, <1>2, <1>3 DEF Shaped
<1>5. n \notin Holder(o) /\ Holder(o) \subseteq Node \cup Tree /\ n \notin Owned(o) /\ Owned(o) \subseteq Node
  BY DistinctAddresses DEF Holder, Owned
<1>6. OthersWritten(o, m, w, m2, w2)
  BY <1>2, <1>4, <1>5 DEF OthersWritten
<1>7. Sound(o, m2, w2) /\ RedsBelowBlacks(o, w2, q) /\ Balanced(o, m2, w2, NULL, "left")
  BY <1>1, <1>6, OthersDoNotMatter
<1>8. NoLoops(m2)
  <2> SUFFICES ASSUME NEW S \in SUBSET Node, S # {}
               PROVE  \E k \in S : \A d \in Dir : m2[k][d] \notin S
    BY DEF NoLoops
  <2>1. PICK k \in S : \A d \in Dir : m[k][d] \notin S
    BY <1>1 DEF NoLoops
  <2>2. NULL \notin S
    BY DistinctAddresses
  <2>3. \A d \in Dir : m2[k][d] \notin S
    BY <1>2, <1>3, <2>1, <2>2
  <2> QED
    BY <2>3
<1>9. st2 \subseteq {k \in Node : o[k] = NULL}
  BY DEF Quiet
<1>10. ASSUME NEW k \in Node \ st2, o[k] = NULL
       PROVE  w2[k].raw = k /\ ~c_rbnode_is_root(w2, k) /\ m2[k] = NoLinks
  <2>1. CASE k = n
    BY <1>2, <1>10, <2>1 DEF c_rbnode_is_root
  <2>2. CASE k # n
    BY <1>2, <1>10, <2>2 DEF Quiet, c_rbnode_is_root
  <2> QED
    BY <2>1, <2>2
<1>11. q # NULL => q \in Owned(o) /\ c_rbnode_is_red(w2, q)
  BY <1>2, <1>5 DEF Quiet, c_rbnode_is_red
<1> QED
  BY <1>7, <1>8, <1>9, <1>10, <1>11 DEF Quiet, m2, w2

-----------------------------------------------------------------------------
(* The rest of a tree in post-order *)

\* The child whose subtree comes first in post-order.
FirstChild(m, n) == IF m[n]["left"] # NULL THEN m[n]["left"] ELSE m[n]["right"]

\* What the fields of the ith node say about the nodes before it, where lo[j] is
\* the place of the first node of the subtree of E[j],
FromBelow(E, m, lo, i) ==
  IF FirstChild(m, E[i]) = NULL
  THEN lo[i] = i
  ELSE \E j \in 1 .. i - 1 : FirstChild(m, E[i]) = E[j] /\ lo[j] = lo[i]

\* and what its word says about those behind it.
Upwards(E, t, m, w, lo, i) ==
  IF c_rbnode_is_root(w, E[i])
  THEN i = Len(E) /\ w[E[i]].raw = t /\ m[t]["root"] = E[i]
  ELSE \E j \in i + 1 .. Len(E) :
         /\ w[E[i]].raw = E[j] /\ E[i] \in {m[E[j]]["left"], m[E[j]]["right"]}
         /\ IF m[E[j]]["left"] = E[i] /\ m[E[j]]["right"] # NULL
            THEN \E r \in i + 1 .. Len(E) : m[E[j]]["right"] = E[r] /\ lo[r] = i + 1
            ELSE j = i + 1

\* E is the post-order of tree t as far as the nodes after the kth tell.
PostShape(E, t, m, w, lo, k) ==
  /\ \A i \in 1 .. Len(E) : lo[i] \in 1 .. i
  /\ \A i \in k + 1 .. Len(E) : FromBelow(E, m, lo, i) /\ Upwards(E, t, m, w, lo, i)

\* Those are the nodes of t, and nothing was done to the tree but to take the
\* nodes before them.
Layout(E, t, o, m, w, k) ==
  /\ \E lo : PostShape(E, t, m, w, lo, k)
  /\ {n \in Node : o[n] = t} = {E[i] : i \in k + 1 .. Len(E)}
  /\ m[t]["root"] = At(E, Len(E))

\* What was there is still there, for the nodes in t.
SameIn(t, o, m, w, m2, w2) ==
  m2[t] = m[t] /\ \A n \in Node : o[n] = t => m2[n] = m[n] /\ w2[n] = w[n]

LEMMA LayoutKept ==
  ASSUME NEW E \in Nodes, NEW t, NEW o, NEW m, NEW w, NEW k \in Nat, Layout(E, t, o, m, w, k),
         NEW o2, NEW m2, NEW w2, NEW k2 \in Nat, k <= k2, SameIn(t, o2, m, w, m2, w2),
         {n \in Node : o2[n] = t} = {E[i] : i \in k2 + 1 .. Len(E)}
  PROVE  Layout(E, t, o2, m2, w2, k2)
<1>1. PICK lo : PostShape(E, t, m, w, lo, k)
  BY DEF Layout
<1>2. Len(E) \in Nat
  BY DEF Nodes
<1>3. ASSUME NEW i \in k2 + 1 .. Len(E)
      PROVE  i \in k + 1 .. Len(E) /\ m2[E[i]] = m[E[i]] /\ w2[E[i]] = w[E[i]]
  <2>1. E[i] \in {n \in Node : o2[n] = t}
    OBVIOUS
  <2> QED
    BY <1>2, <2>1 DEF SameIn
<1>4. ASSUME NEW i \in k2 + 1 .. Len(E)
      PROVE  FromBelow(E, m2, lo, i)
  <2>1. FromBelow(E, m, lo, i) /\ m2[E[i]] = m[E[i]]
    BY <1>1, <1>3 DEF PostShape
  <2> QED
    BY <2>1 DEF FromBelow, FirstChild
<1>5. ASSUME NEW i \in k2 + 1 .. Len(E)
      PROVE  Upwards(E, t, m2, w2, lo, i)
  <2>1. Upwards(E, t, m, w, lo, i) /\ w2[E[i]] = w[E[i]] /\ m2[t] = m[t]
    BY <1>1, <1>3 DEF PostShape, SameIn
  <2>2. \A j \in i + 1 .. Len(E) : m2[E[j]] = m[E[j]]
    BY <1>2, <1>3
  <2> QED
    BY <2>1, <2>2 DEF Upwards, c_rbnode_is_root
<1>6. PostShape(E, t, m2, w2, lo, k2)
  BY <1>1, <1>4, <1>5 DEF PostShape
<1> QED
  BY <1>6 DEF Layout, SameIn

\* From any of these nodes c_rbnode_leftdeepest leads to the first node of the
\* subtree, if that is not taken,
LEMMA DeepestOfRest ==
  ASSUME LoopFree(link), link \in Memory, NEW E \in Nodes, NEW t, NEW lo, NEW k \in Nat,
         PostShape(E, t, link, pf, lo, k), NEW i \in 1 .. Len(E), lo[i] > k
  PROVE  c_rbnode_leftdeepest(E[i]) = E[lo[i]]
<1> DEFINE S == {x \in Pointer : \A j \in 1 .. Len(E) :
                   E[j] = x /\ lo[j] > k => c_rbnode_leftdeepest(x) = E[lo[j]]}
<1>1. /\ Len(E) \in Nat /\ \A j \in 1 .. Len(E) : E[j] \in Node
      /\ \A j \in 1 .. Len(E) : lo[j] \in 1 .. j
  BY DEF Nodes, PostShape
<1>2. \A n \in Pointer :
        c_rbnode_leftdeepest(n) =
          IF n = NULL THEN n
          ELSE IF link[n]["left"] # NULL THEN c_rbnode_leftdeepest(link[n]["left"])
          ELSE IF link[n]["right"] # NULL THEN c_rbnode_leftdeepest(link[n]["right"])
          ELSE n
  BY DeepestFacts DEF c_rbnode_leftdeepest, Dir, Other
<1>3. NULL \in S
  BY <1>1, DistinctAddresses DEF Pointer
<1>4. ASSUME NEW n \in Node, link[n]["left"] \in S, link[n]["right"] \in S
      PROVE  n \in S
  <2> SUFFICES ASSUME NEW j \in 1 .. Len(E), E[j] = n, lo[j] > k
               PROVE  c_rbnode_leftdeepest(n) = E[lo[j]]
    BY DEF Pointer
  <2> n # NULL /\ n \in Pointer
    BY DistinctAddresses DEF Pointer
  <2>1. FromBelow(E, link, lo, j)
    <3>1. j \in k + 1 .. Len(E)
      BY <1>1
    <3> QED
      BY <3>1 DEF PostShape
  <2>2. CASE FirstChild(link, n) = NULL
    BY <1>2, <2>1, <2>2 DEF FromBelow, FirstChild
  <2>3. CASE FirstChild(link, n) # NULL
    <3>1. PICK a \in 1 .. j - 1 : FirstChild(link, n) = E[a] /\ lo[a] = lo[j]
      BY <2>1, <2>3 DEF FromBelow
    <3>2. a \in 1 .. Len(E)
      BY <1>1
    <3>3. FirstChild(link, n) \in S
      BY <1>4 DEF FirstChild
    <3>4. c_rbnode_leftdeepest(FirstChild(link, n)) = E[lo[j]]
      BY <3>1, <3>2, <3>3
    <3>5. c_rbnode_leftdeepest(n) = c_rbnode_leftdeepest(FirstChild(link, n))
      BY <1>2, <2>3 DEF FirstChild
    <3> QED
      BY <3>4, <3>5
  <2> QED
    BY <2>2, <2>3
<1>5. Pointer \subseteq S
  <2> HIDE DEF S
  <2> QED
    BY <1>3, <1>4, TreeInduction
<1>6. E[i] \in S
  BY <1>1, <1>5 DEF Pointer
<1> QED
  BY <1>6

\* and c_rbnode_next_postorder steps from each to the next.
LEMMA NextOfRest ==
  ASSUME LoopFree(link), link \in Memory, NEW E \in Nodes, Distinct(E), NEW t \in Tree,
         NEW lo, NEW k \in Nat,
         PostShape(E, t, link, pf, lo, k), NEW i \in k + 1 .. Len(E)
  PROVE  c_rbnode_is_linked(pf, E[i]) /\ c_rbnode_next_postorder(E[i]) = At(E, i + 1)
<1> DEFINE n == E[i]
           p == c_rbnode_parent(pf, n)
<1>1. Len(E) \in Nat /\ (\A j \in 1 .. Len(E) : E[j] \in Node) /\ i \in 1 .. Len(E)
  BY DEF Nodes
<1>2. n \in Node /\ n # NULL /\ Upwards(E, t, link, pf, lo, i)
  BY <1>1, DistinctAddresses DEF PostShape
<1>3. CASE c_rbnode_is_root(pf, n)
  <2>1. p = NULL /\ i = Len(E)
    BY <1>2, <1>3 DEF Upwards, c_rbnode_parent
  <2>2. c_rbnode_is_linked(pf, n) /\ c_rbnode_next_postorder(n) = NULL
    BY <1>2, <2>1 DEF c_rbnode_is_linked, c_rbnode_next_postorder, Linked
  <2>3. At(E, i + 1) = NULL
    BY <1>1, <2>1 DEF At
  <2> QED
    BY <2>2, <2>3
<1>4. CASE ~c_rbnode_is_root(pf, n)
  <2>1. PICK j \in i + 1 .. Len(E) :
          /\ pf[n].raw = E[j] /\ n \in {link[E[j]]["left"], link[E[j]]["right"]}
          /\ IF link[E[j]]["left"] = n /\ link[E[j]]["right"] # NULL
             THEN \E r \in i + 1 .. Len(E) : link[E[j]]["right"] = E[r] /\ lo[r] = i + 1
             ELSE j = i + 1
    BY <1>2, <1>4 DEF Upwards
  <2>2. j \in 1 .. Len(E) /\ j # i /\ i + 1 \in 1 .. Len(E)
    BY <1>1
  <2>3. p = E[j] /\ p # n /\ p # NULL
    BY <1>1, <1>4, <2>1, <2>2, DistinctAddresses DEF c_rbnode_parent, Distinct
  <2>4. At(E, i + 1) = E[i + 1]
    BY <2>2 DEF At
  <2>5. c_rbnode_is_linked(pf, n) /\ Linked(n)
    BY <1>2, <2>3 DEF c_rbnode_is_linked, Linked
  <2>6. CASE n = link[p]["left"] /\ link[p]["right"] # NULL
    <3>1. PICK r \in i + 1 .. Len(E) : link[p]["right"] = E[r] /\ lo[r] = i + 1
      BY <2>1, <2>3, <2>6
    <3>2. r \in 1 .. Len(E) /\ lo[r] > k
      BY <1>1, <3>1
    <3>3. c_rbnode_leftdeepest(link[p]["right"]) = E[i + 1]
      BY <3>1, <3>2, DeepestOfRest
    <3>4. c_rbnode_next_postorder(n) = c_rbnode_leftdeepest(link[p]["right"])
      BY <2>3, <2>5, <2>6 DEF c_rbnode_next_postorder
    <3> QED
      BY <2>4, <2>5, <3>3, <3>4
  <2>7. CASE ~(n = link[p]["left"] /\ link[p]["right"] # NULL)
    <3>1. p = E[i + 1]
      BY <2>1, <2>3, <2>7
    <3>2. c_rbnode_next_postorder(n) = p
      BY <2>3, <2>5, <2>7 DEF c_rbnode_next_postorder
    <3> QED
      BY <2>4, <2>5, <3>1, <3>2
  <2> QED
    BY <2>6, <2>7
<1> QED
  BY <1>3, <1>4

\* E is the post-order of tree t, and the functions step through it.
Ordering(E, t) ==
  /\ E \in Nodes /\ Distinct(E)
  /\ {n \in Node : owner[n] = t} = {E[i] : i \in 1 .. Len(E)}
  /\ link[t]["root"] = At(E, Len(E))
  /\ \A i \in 1 .. Len(E) : /\ c_rbnode_next_postorder(E[i]) = At(E, i + 1)
                            /\ c_rbnode_prev_postorder(E[i]) = At(E, i - 1)

\* Then the children of a node are before it.
LEMMA StepsOfOrder ==
  ASSUME IInv, NEW t \in Tree, NEW E, Ordering(E, t), NEW i \in 1 .. Len(E)
  PROVE  /\ E[i] \in InUse /\ owner[E[i]] = t
         /\ link[E[i]]["right"] # NULL => i - 1 \in 1 .. Len(E) /\ link[E[i]]["right"] = E[i - 1]
         /\ link[E[i]]["left"] # NULL /\ link[E[i]]["right"] = NULL =>
              i - 1 \in 1 .. Len(E) /\ link[E[i]]["left"] = E[i - 1]
         /\ link[E[i]]["left"] # NULL /\ link[E[i]]["right"] # NULL =>
              \E a \in 1 .. Len(E) : /\ link[E[i]]["left"] = E[a]
                                     /\ c_rbnode_leftdeepest(link[E[i]]["right"]) = At(E, a + 1)
<1> DEFINE n == E[i]
<1>1. Len(E) \in Nat /\ E[i] \in {k \in Node : owner[k] = t}
  BY DEF Ordering, Nodes
<1>2. n \in InUse /\ owner[n] = t
  BY <1>1, DistinctAddresses DEF InUse, Owned
<1>3. At(E, i - 1) = IF link[n]["right"] # NULL THEN link[n]["right"]
                     ELSE IF link[n]["left"] # NULL THEN link[n]["left"]
                     ELSE LeftSiblingFrom[n]
  <2>1. c_rbnode_prev_postorder(n) = PrevPostorderOf[n]
    BY <1>2 DEF PrevPostorderOf
  <2> QED
    BY <1>2, <2>1, PostorderSteps DEF Ordering
<1>4. ASSUME link[n]["left"] # NULL, link[n]["right"] # NULL
      PROVE  \E a \in 1 .. Len(E) : /\ link[n]["left"] = E[a]
                                    /\ c_rbnode_leftdeepest(link[n]["right"]) = At(E, a + 1)
  <2> DEFINE l == link[n]["left"]
  <2>1. l \in InUse /\ c_rbnode_parent(pf, l) = n /\ owner[l] = t /\ n # NULL
    BY <1>2, <1>4, ChildOf, InUseFacts DEF Dir
  <2>2. NextPostorderOf[l] = c_rbnode_leftdeepest(link[n]["right"])
    BY <1>4, <2>1, PostorderSteps
  <2>3. l \in Node
    BY <2>1 DEF InUse, Owned
  <2>4. PICK a \in 1 .. Len(E) : l = E[a]
    BY <2>1, <2>3 DEF Ordering
  <2>5. c_rbnode_next_postorder(l) = NextPostorderOf[l]
    BY <2>1 DEF NextPostorderOf
  <2>6. c_rbnode_next_postorder(E[a]) = At(E, a + 1)
    BY DEF Ordering
  <2> QED
    BY <2>2, <2>4, <2>5, <2>6
<1>5. At(E, i - 1) # NULL => i - 1 \in 1 .. Len(E) /\ At(E, i - 1) = E[i - 1]
  BY DEF At
<1> QED
  BY <1>2, <1>3, <1>4, <1>5

\* The subtree of each node begins at or before it.
LEMMA DeepestBefore ==
  ASSUME IInv, NoLoops(link), NEW t \in Tree, NEW E, Ordering(E, t), NEW i \in 1 .. Len(E)
  PROVE  /\ \E j \in 1 .. i : c_rbnode_leftdeepest(E[i]) = E[j]
         /\ FirstChild(link, E[i]) = NULL => c_rbnode_leftdeepest(E[i]) = E[i]
         /\ FirstChild(link, E[i]) # NULL =>
              /\ c_rbnode_leftdeepest(E[i]) = c_rbnode_leftdeepest(FirstChild(link, E[i]))
              /\ \E j \in 1 .. i - 1 : FirstChild(link, E[i]) = E[j]
<1> DEFINE S == {x \in Pointer : \A k \in 1 .. Len(E) :
                   E[k] = x => \E j \in 1 .. k : c_rbnode_leftdeepest(x) = E[j]}
<1>1. /\ Len(E) \in Nat /\ (\A j \in 1 .. Len(E) : E[j] \in Node) /\ Distinct(E)
      /\ LoopFree(link) /\ link \in Memory /\ NULL \notin Node
  BY FieldsLoopFree, InUseFacts, DistinctAddresses DEF Ordering, Nodes, Sound
<1>2. ASSUME NEW k \in 1 .. Len(E)
      PROVE  c_rbnode_leftdeepest(E[k]) = IF FirstChild(link, E[k]) = NULL THEN E[k]
                                          ELSE c_rbnode_leftdeepest(FirstChild(link, E[k]))
  <2>1. E[k] \in Pointer /\ E[k] # NULL
    BY <1>1 DEF Pointer
  <2> QED
    BY <1>1, <2>1, DeepestFacts DEF c_rbnode_leftdeepest, Dir, Other, FirstChild
<1>3. NULL \in S
  BY <1>1 DEF Pointer
<1>4. ASSUME NEW k \in 1 .. Len(E), FirstChild(link, E[k]) # NULL,
             link[E[k]]["left"] \in S, link[E[k]]["right"] \in S
      PROVE  /\ \E j \in 1 .. k - 1 : FirstChild(link, E[k]) = E[j]
             /\ \E j \in 1 .. k : c_rbnode_leftdeepest(E[k]) = E[j]
  <2>1. c_rbnode_leftdeepest(E[k]) = c_rbnode_leftdeepest(FirstChild(link, E[k]))
    BY <1>2, <1>4
  <2>2. CASE link[E[k]]["right"] = NULL
    <3> HIDE DEF S
    <3>1. link[E[k]]["left"] # NULL /\ FirstChild(link, E[k]) = link[E[k]]["left"]
      BY <1>4, <2>2 DEF FirstChild
    <3>2. k - 1 \in 1 .. Len(E) /\ FirstChild(link, E[k]) = E[k - 1] /\ E[k - 1] \in S
      BY <1>4, <2>2, <3>1, StepsOfOrder
    <3> USE DEF S
    <3>3. \E j \in 1 .. k - 1 : c_rbnode_leftdeepest(E[k - 1]) = E[j]
      BY <3>2
    <3> QED
      BY <2>1, <3>2, <3>3
  <2>3. CASE link[E[k]]["left"] = NULL
    <3>1. link[E[k]]["right"] # NULL /\ FirstChild(link, E[k]) = link[E[k]]["right"]
      BY <1>4, <2>3 DEF FirstChild
    <3>2. k - 1 \in 1 .. Len(E) /\ FirstChild(link, E[k]) = E[k - 1] /\ E[k - 1] \in S
      BY <1>4, <3>1, StepsOfOrder
    <3>3. \E j \in 1 .. k - 1 : c_rbnode_leftdeepest(E[k - 1]) = E[j]
      BY <3>2
    <3> QED
      BY <2>1, <3>2, <3>3
  <2>4. CASE link[E[k]]["left"] # NULL /\ link[E[k]]["right"] # NULL
    <3>1. PICK a \in 1 .. Len(E) :
            /\ link[E[k]]["left"] = E[a]
            /\ c_rbnode_leftdeepest(link[E[k]]["right"]) = At(E, a + 1)
      BY <2>4, StepsOfOrder
    <3>2. k - 1 \in 1 .. Len(E) /\ link[E[k]]["right"] = E[k - 1]
      BY <2>4, StepsOfOrder
    <3>3. PICK b \in 1 .. k - 1 : c_rbnode_leftdeepest(E[k - 1]) = E[b]
      BY <1>4, <3>2
    <3>4. b \in 1 .. Len(E) /\ At(E, a + 1) = E[b] /\ E[b] # NULL
      BY <1>1, <3>1, <3>2, <3>3
    <3>5. a + 1 \in 1 .. Len(E) /\ E[a + 1] = E[b]
      BY <3>4 DEF At
    <3>6. a + 1 = b
      BY <1>1, <3>4, <3>5 DEF Distinct
    <3>7. a \in 1 .. k - 1
      BY <3>6
    <3>8. PICK j \in 1 .. a : c_rbnode_leftdeepest(E[a]) = E[j]
      BY <1>4, <3>1
    <3>9. FirstChild(link, E[k]) = E[a] /\ j \in 1 .. k
      BY <2>4, <3>1, <3>7, <3>8 DEF FirstChild
    <3> QED
      BY <2>1, <3>7, <3>8, <3>9
  <2> QED
    BY <2>2, <2>3, <2>4
<1>5. ASSUME NEW n \in Node, link[n]["left"] \in S, link[n]["right"] \in S
      PROVE  n \in S
  <2> SUFFICES ASSUME NEW k \in 1 .. Len(E), E[k] = n
               PROVE  \E j \in 1 .. k : c_rbnode_leftdeepest(n) = E[j]
    BY DEF Pointer
  <2>1. CASE FirstChild(link, n) = NULL
    BY <1>2, <2>1
  <2>2. CASE FirstChild(link, n) # NULL
    BY <1>4, <1>5, <2>2
  <2> QED
    BY <2>1, <2>2
<1>6. Pointer \subseteq S
  <2> HIDE DEF S
  <2> QED
    BY <1>1, <1>3, <1>5, TreeInduction
<1>7. link[E[i]]["left"] \in Pointer /\ link[E[i]]["right"] \in Pointer /\ E[i] \in Pointer
  BY <1>1 DEF LoopFree, Dir, Pointer
<1>8. \E j \in 1 .. i : c_rbnode_leftdeepest(E[i]) = E[j]
  BY <1>6, <1>7
<1> QED
  BY <1>2, <1>4, <1>6, <1>7, <1>8

\* So the fields have the shape of the order.
LEMMA ShapeOfOrder ==
  ASSUME IInv, NoLoops(link), NEW t \in Tree, NEW E, Ordering(E, t)
  PROVE  Layout(E, t, owner, link, pf, 0)
<1> DEFINE lo == [i \in 1 .. Len(E) |-> CHOOSE j \in 1 .. i : c_rbnode_leftdeepest(E[i]) = E[j]]
<1>1. /\ Len(E) \in Nat /\ (\A j \in 1 .. Len(E) : E[j] \in Node) /\ Distinct(E)
      /\ NULL \notin Node
  BY DistinctAddresses DEF Ordering, Nodes
<1>2. ASSUME NEW i \in 1 .. Len(E)
      PROVE  lo[i] \in 1 .. i /\ lo[i] \in 1 .. Len(E) /\ c_rbnode_leftdeepest(E[i]) = E[lo[i]]
  <2>1. \E j \in 1 .. i : c_rbnode_leftdeepest(E[i]) = E[j]
    BY DeepestBefore
  <2>2. lo[i] \in 1 .. i /\ c_rbnode_leftdeepest(E[i]) = E[lo[i]]
    BY <2>1
  <2> QED
    BY <1>1, <2>2
<1> HIDE DEF lo
<1>3. ASSUME NEW i \in 1 .. Len(E)
      PROVE  FromBelow(E, link, lo, i)
  <2>1. CASE FirstChild(link, E[i]) = NULL
    <3>1. E[lo[i]] = E[i]
      BY <1>2, <2>1, DeepestBefore
    <3> QED
      BY <1>1, <1>2, <2>1, <3>1 DEF FromBelow, Distinct
  <2>2. CASE FirstChild(link, E[i]) # NULL
    <3>1. PICK j \in 1 .. i - 1 : FirstChild(link, E[i]) = E[j]
      BY <2>2, DeepestBefore
    <3>2. c_rbnode_leftdeepest(E[i]) = c_rbnode_leftdeepest(E[j])
      BY <2>2, <3>1, DeepestBefore
    <3>3. j \in 1 .. Len(E)
      BY <1>1
    <3>4. E[lo[i]] = E[lo[j]]
      BY <1>2, <3>2, <3>3
    <3>5. lo[i] = lo[j]
      BY <1>1, <1>2, <3>3, <3>4 DEF Distinct
    <3> QED
      BY <2>2, <3>1, <3>5 DEF FromBelow
  <2> QED
    BY <2>1, <2>2
<1>4. ASSUME NEW i \in 1 .. Len(E)
      PROVE  Upwards(E, t, link, pf, lo, i)
  <2> DEFINE n == E[i]
             p == c_rbnode_parent(pf, n)
  <2>1. n \in InUse /\ owner[n] = t /\ n \in Node /\ n # NULL
    BY <1>1, StepsOfOrder
  <2>2. NextPostorderOf[n] = At(E, i + 1)
    BY <2>1 DEF Ordering, NextPostorderOf
  <2>3. CASE c_rbnode_is_root(pf, n)
    <3>1. link[t]["root"] = n
      BY <2>1, <2>3, ParentOf, DistinctAddresses, InUseFacts DEF c_rbnode_parent
    <3>2. pf[n].raw = t
      <4>1. t \in Holder(owner) /\ "root" \in Side /\ Sound(owner, link, pf)
        BY InUseFacts DEF Holder, Side
      <4> QED
        BY <2>1, <3>1, <4>1 DEF Sound, Consistent, ChildrenKnowParent, c_rbnode_raw
    <3>3. At(E, Len(E)) = n
      BY <3>1 DEF Ordering
    <3>4. Len(E) \in 1 .. Len(E) /\ E[Len(E)] = n
      BY <1>1, <3>3 DEF At
    <3>5. i = Len(E)
      BY <1>1, <3>4 DEF Distinct
    <3> QED
      BY <2>3, <3>1, <3>2, <3>5 DEF Upwards
  <2>4. CASE ~c_rbnode_is_root(pf, n)
    <3>1. p = pf[n].raw
      BY <2>4 DEF c_rbnode_parent
    <3>2. p \in InUse /\ \E d \in Dir : link[p][d] = n
      <4>1. CASE p = NULL
        <5>1. link[t]["root"] = n
          BY <2>1, <4>1, ParentOf, DistinctAddresses, InUseFacts
        <5>2. t \in Holder(owner) /\ "root" \in Side /\ Sound(owner, link, pf)
          BY InUseFacts DEF Holder, Side
        <5>3. c_rbnode_is_root(pf, n)
          BY <2>1, <5>1, <5>2 DEF Sound, Consistent, ChildrenKnowParent
        <5> QED
          BY <2>4, <5>3
      <4>2. CASE p # NULL
        BY <2>1, <4>2, ParentOf
      <4> QED
        BY <4>1, <4>2
    <3>3. owner[p] = t /\ p \in Node /\ p # NULL
      <4>1. PICK d \in Dir : link[p][d] = n
        BY <3>2
      <4>2. owner[link[p][d]] = owner[p]
        BY <2>1, <3>2, <4>1, ChildOf
      <4> QED
        BY <1>1, <2>1, <3>2, <4>1, <4>2 DEF InUse, Owned
    <3>4. PICK j \in 1 .. Len(E) : p = E[j]
      BY <3>3 DEF Ordering
    <3>5. n \in {link[p]["left"], link[p]["right"]}
      BY <3>2 DEF Dir
    <3>6. CASE link[p]["left"] = n /\ link[p]["right"] # NULL
      <4>1. c_rbnode_leftdeepest(link[p]["right"]) = At(E, i + 1)
        BY <2>1, <2>2, <3>3, <3>6, PostorderSteps
      <4>2. j - 1 \in 1 .. Len(E) /\ link[p]["right"] = E[j - 1]
        BY <3>4, <3>6, StepsOfOrder
      <4>3. E[lo[j - 1]] = At(E, i + 1) /\ lo[j - 1] \in 1 .. j - 1 /\ lo[j - 1] \in 1 .. Len(E)
        BY <1>2, <4>1, <4>2
      <4>4. i + 1 \in 1 .. Len(E) /\ E[i + 1] = E[lo[j - 1]]
        BY <1>1, <4>3 DEF At
      <4>5. lo[j - 1] = i + 1
        BY <1>1, <4>3, <4>4 DEF Distinct
      <4>6. j - 1 \in i + 1 .. Len(E) /\ j \in i + 1 .. Len(E)
        BY <1>1, <4>2, <4>3, <4>5
      <4>7. \E r \in i + 1 .. Len(E) : link[p]["right"] = E[r] /\ lo[r] = i + 1
        BY <4>2, <4>5, <4>6
      <4> QED
        BY <2>4, <3>1, <3>4, <3>5, <3>6, <4>6, <4>7 DEF Upwards
    <3>7. CASE ~(link[p]["left"] = n /\ link[p]["right"] # NULL)
      <4>1. p = At(E, i + 1)
        BY <2>1, <2>2, <3>7, PostorderSteps
      <4>2. i + 1 \in 1 .. Len(E) /\ p = E[i + 1]
        BY <3>3, <4>1 DEF At
      <4>3. j = i + 1
        BY <1>1, <3>4, <4>2 DEF Distinct
      <4> QED
        BY <1>1, <2>4, <3>1, <3>4, <3>5, <3>7, <4>3 DEF Upwards
    <3> QED
      BY <3>6, <3>7
  <2> QED
    BY <2>3, <2>4
<1>5. PostShape(E, t, link, pf, lo, 0)
  BY <1>2, <1>3, <1>4 DEF PostShape
<1>6. /\ {n \in Node : owner[n] = t} = {E[i] : i \in 0 + 1 .. Len(E)}
      /\ link[t]["root"] = At(E, Len(E))
  BY DEF Ordering
<1> QED
  BY <1>5, <1>6 DEF Layout

\* A loop in post-order starts with it.
LEMMA PostOrderLayout ==
  ASSUME IInv, NoLoops(link), Idle, NEW t \in Tree
  PROVE  /\ PostOrder[link[t]["root"]] \in Nodes /\ Distinct(PostOrder[link[t]["root"]])
         /\ Layout(PostOrder[link[t]["root"]], t, owner, link, pf, 0)
         /\ c_rbtree_first_postorder(t) = At(PostOrder[link[t]["root"]], 1)
<1> DEFINE E == PostOrder[link[t]["root"]]
<1>1. Traverses(E, c_rbtree_first_postorder, c_rbnode_next_postorder,
                c_rbtree_last_postorder, c_rbnode_prev_postorder, t)
  BY StepsInPostOrder DEF TraversesPostOrder
<1>2. Spans(InUse, link, PostOrder) /\ link[t]["root"] \in InUse \cup {NULL}
  BY PostOrderSpans, InUseIsTree DEF InUseTree
<1>3. Distinct(E)
  BY <1>2, PostOrderSpans
<1>4. E \in Nodes
  BY <1>2 DEF Spans, Pointer, InUse, Owned
<1>5. Range(E) = {n \in InUse : owner[n] = t}
  BY <1>2, TreeNodes
<1>6. {n \in InUse : owner[n] = t} = {n \in Node : owner[n] = t}
  BY DistinctAddresses DEF InUse, Owned
<1>7. Range(E) = {E[i] : i \in 1 .. Len(E)}
  BY <1>4, RangeFacts
<1> HIDE DEF E
<1>8. Ordering(E, t)
  BY <1>1, <1>3, <1>4, <1>5, <1>6, <1>7 DEF Ordering, Traverses, c_rbtree_last_postorder
<1>9. Layout(E, t, owner, link, pf, 0)
  BY <1>8, ShapeOfOrder
<1>10. c_rbtree_first_postorder(t) = At(E, 1)
  BY <1>1 DEF Traverses
<1> QED
  BY <1>3, <1>4, <1>9, <1>10 DEF E

-----------------------------------------------------------------------------
(* The order of the tree while a loop takes nodes out *)

\* Of the nodes of order E those after the kth are still there, in their order,
\* and b of the others are gone.
Remains(O, E, k, b) ==
  /\ b \in 0 .. k /\ Len(O) = Len(E) - b
  /\ \A i \in k + 1 .. Len(E) : O[i - b] = E[i]

LEMMA OneMoreGone ==
  ASSUME NEW E \in Nodes, Distinct(E), NEW k \in 1 .. Len(E),
         NEW O \in Nodes, NEW b, Remains(O, E, k, b),
         NEW O2 \in Nodes, Replaced(One(E[k]), None, O, O2)
  PROVE  Remains(O2, E, k, b + 1)
<1>1. Len(E) \in Nat /\ Len(O) \in Nat /\ b \in Nat /\ b <= k
  BY DEF Nodes, Remains
<1>2. E[k] \in Node
  BY DEF Nodes
<1>3. PICK x, y \in Nodes : O = Join(x, Join(One(E[k]), y)) /\ O2 = Join(x, Join(None, y))
  BY DEF Replaced
<1>4. O2 = Join(x, y)
  BY <1>3, Joins
<1>5. /\ Len(x) \in Nat /\ Len(y) \in Nat /\ Len(One(E[k])) = 1
      /\ One(E[k]) \in Nodes /\ Join(One(E[k]), y) \in Nodes
  <2>1. Len(x) \in Nat /\ Len(y) \in Nat
    BY EndsExist
  <2>2. Len(One(E[k])) = 1 /\ One(E[k]) \in Nodes
    BY <1>2, EndsExist, Joins
  <2> QED
    BY <2>1, <2>2, Joins
<1>6. Len(Join(One(E[k]), y)) = 1 + Len(y)
  <2>1. Len(Join(One(E[k]), y)) = Len(One(E[k])) + Len(y)
    BY <1>5, Halves
  <2> QED
    BY <1>5, <2>1
<1>7. Len(O) = Len(x) + 1 + Len(y) /\ Len(O2) = Len(x) + Len(y)
  <2>1. Len(Join(x, Join(One(E[k]), y))) = Len(x) + Len(Join(One(E[k]), y))
    BY <1>5, AtJoin
  <2>2. Len(Join(x, y)) = Len(x) + Len(y)
    BY <1>5, AtJoin
  <2> QED
    BY <1>3, <1>4, <1>5, <1>6, <2>1, <2>2
<1>8. O[Len(x) + 1] = E[k]
  BY <1>2, <1>3, NodeAt DEF Placed
<1>9. Len(x) + 1 + b <= k
  <2> SUFFICES ASSUME Len(x) + 1 + b > k
               PROVE  FALSE
    BY <1>1, <1>5
  <2>1. Len(x) + 1 + b \in k + 1 .. Len(E) /\ Len(x) + 1 + b - b = Len(x) + 1
    BY <1>1, <1>5, <1>7 DEF Remains
  <2>2. O[Len(x) + 1] = E[Len(x) + 1 + b]
    BY <2>1 DEF Remains
  <2>3. Len(x) + 1 + b \in 1 .. Len(E) /\ Len(x) + 1 + b # k
    BY <1>1, <2>1
  <2> QED
    BY <1>8, <2>2, <2>3 DEF Distinct
<1>10. ASSUME NEW i \in k + 1 .. Len(E)
       PROVE  O2[i - (b + 1)] = E[i]
  <2>1. /\ i - b \in 1 .. Len(O) /\ i - (b + 1) \in 1 .. Len(O2)
        /\ i - b > Len(x) + 1 /\ i - b - Len(x) > 1 /\ i - (b + 1) > Len(x)
        /\ i - b - Len(x) - 1 = i - (b + 1) - Len(x)
        /\ i - b \in Int /\ i - b - Len(x) \in Int /\ i - (b + 1) \in Int
    BY <1>1, <1>5, <1>7, <1>9 DEF Remains
  <2> DEFINE u == One(E[k])
             z == Join(u, y)
             j == i - b
             l == i - b - Len(x)
  <2>2. At(O, j) = At(z, l)
    <3>1. O = Join(x, z) /\ x \in Nodes /\ z \in Nodes /\ j \in Int /\ j > Len(x) /\ l = j - Len(x)
      BY <1>3, <1>5, <2>1
    <3> HIDE DEF z, j, l
    <3> QED
      BY <3>1, AtJoin
  <2>3. At(z, l) = At(y, l - 1)
    <3>1. u \in Nodes /\ Len(u) = 1 /\ l \in Int /\ l > 1
      BY <1>5, <2>1
    <3> HIDE DEF u, j, l
    <3>2. At(Join(u, y), l) = At(y, l - Len(u))
      BY <3>1, AtJoin
    <3> QED
      BY <3>1, <3>2
  <2>4. At(O2, i - (b + 1)) = At(y, i - (b + 1) - Len(x))
    BY <1>4, <1>5, <2>1, AtJoin
  <2>5. At(O2, i - (b + 1)) = At(O, i - b)
    BY <2>1, <2>2, <2>3, <2>4
  <2>6. O2[i - (b + 1)] = O[i - b]
    BY <2>1, <2>5 DEF At
  <2> QED
    BY <2>6 DEF Remains
<1>11. b + 1 \in 0 .. k /\ Len(O2) = Len(E) - (b + 1)
  <2>1. Len(O) = Len(E) - b /\ k \in Nat
    BY DEF Remains
  <2> QED
    BY <1>1, <1>5, <1>7, <1>9, <2>1
<1> QED
  BY <1>10, <1>11 DEF Remains

\* What CRBOrderProofs has about every state of CRBTree.
WorldOK == IInv /\ NoLoops(link) /\ SearchBelow /\ SearchLeft /\ OutsideOK

\* The same where it follows from it.
WorldKnown == OrdersKnown /\ LoopFree(link) /\ InUseTree

LEMMA WorldIsKnown == WorldOK => WorldKnown
BY OrdersAreKnown, InUseIsTree DEF WorldOK, WorldKnown, InUseTree

LEMMA WorldStays ==
  ASSUME WorldOK, [Next]_vars
  PROVE  WorldOK' /\ WorldKnown /\ WorldKnown'
<1>1. IInv /\ NoLoops(link) /\ SearchBelow /\ SearchLeft /\ OutsideOK
  BY DEF WorldOK
<1>2. IInv' /\ NoLoops(link) ' /\ SearchBelow' /\ SearchLeft' /\ OutsideOK'
  BY <1>1, NextKeeps, NextMakesNoLoop, SearchStays, SearchLeftStays, OutsideStays
<1>3. WorldOK'
  BY <1>2 DEF WorldOK
<1>4. WorldOK => WorldKnown
  BY WorldIsKnown
<1>5. (WorldOK => WorldKnown)'
  BY WorldIsKnown, PTL
<1> QED
  BY <1>3, <1>4, <1>5

\* What is done to a node n by the body of an in-order loop over tree t.
DoneTo(t, n) ==
  \/ Unlink(n)
  \/ \E u \in Tree \ {t} : AddRoot(u, n)
  \/ \E p \in Node, d \in Dir : owner[p] # t /\ Link(p, d, n)
  \/ Step /\ (pc = "successor" => victim = n)
  \/ UNCHANGED vars

\* It takes n out of the order of t or leaves the order alone.
LEMMA OrderAfter ==
  ASSUME WorldOK, WorldKnown, WorldKnown', NEW t \in Tree, NEW n \in Node, DoneTo(t, n)
  PROVE  Orders'[t] = Orders[t] \/ Replaced(One(n), None, Orders[t], Orders'[t])
<1>1. /\ IInv /\ NoLoops(link) /\ SearchBelow /\ SearchLeft
      /\ OrdersKnown /\ OrdersKnown' /\ LoopFree(link') /\ InUseTree'
      /\ Sequenced(InUse, link, InOrder) /\ Sequenced(InUse', link', InOrder')
      /\ Orders \in [Tree -> Nodes]
  BY DEF WorldOK, WorldKnown, OrdersKnown, LoopFree
<1>2. ASSUME NEW k, OneReplaced(owner[k], One(k), None, InOrder, link, InOrder', link'), k = n
      PROVE  Orders'[t] = Orders[t] \/ Replaced(One(n), None, Orders[t], Orders'[t])
  <2>1. /\ owner[k] \in Tree /\ Replaced(One(k), None, Orders[owner[k]], Orders'[owner[k]])
        /\ Orders' = [Orders EXCEPT ![owner[k]] = Orders'[owner[k]]]
    BY <1>1, <1>2, OneOrderChanges
  <2> QED
    BY <1>1, <1>2, <2>1
<1>3. CASE Unlink(n)
  <2>1. PICK api \in APICall : \/ UnlinkLeaf(api, n) \/ UnlinkFull(api, n)
                               \/ \E d \in Dir : UnlinkOneChild(api, n, d)
    BY <1>3 DEF Unlink
  <2>2. CASE UnlinkFull(api, n)
    <3>1. link' = link /\ owner' = owner
      BY <2>2 DEF UnlinkFull, memory, caller
    <3> QED
      BY <1>1, <3>1, QuietKeepsOrders
  <2>3. CASE UnlinkLeaf(api, n) \/ \E d \in Dir : UnlinkOneChild(api, n, d)
    <3>1. OneReplaced(owner[n], One(n), None, InOrder, link, InOrder', link')
      BY <1>1, <2>3, UnlinkChanges
    <3> QED
      BY <1>2, <3>1
  <2> QED
    BY <2>1, <2>2, <2>3
<1>4. ASSUME NEW u \in Tree \ {t}, AddRoot(u, n)
      PROVE  Orders'[t] = Orders[t]
  <2>1. InOrder'[link'[t]["root"]] = InOrder[link[t]["root"]]
    BY <1>1, <1>4, AddRootChanges
  <2> QED
    BY <1>1, <2>1 DEF OrdersKnown
<1>5. ASSUME NEW p \in Node, NEW d \in Dir, owner[p] # t, Link(p, d, n)
      PROVE  Orders'[t] = Orders[t]
  <2>1. OneReplaced(owner[p], One(p), Beside(d, n, p), InOrder, link, InOrder', link')
    BY <1>1, <1>5, LinkChanges
  <2>2. InOrder'[link'[t]["root"]] = InOrder[link[t]["root"]]
    BY <1>5, <2>1 DEF OneReplaced
  <2> QED
    BY <1>1, <2>2 DEF OrdersKnown
<1>6. CASE Step /\ (pc = "successor" => victim = n)
  <2>1. CASE \/ PaintRoot \/ PaintDone \/ PaintRecolor \/ WalkLeft
             \/ RebalanceEnd \/ RebalanceRecolor \/ RebalanceFound \/ RotateRecolor
    <3>1. link' = link /\ owner' = owner
      BY <2>1 DEF PaintRoot, PaintDone, PaintRecolor, WalkLeft, RebalanceEnd, RebalanceRecolor,
         RebalanceFound, RotateRecolor, memory, caller
    <3> QED
      BY <1>1, <3>1, QuietKeepsOrders
  <2>2. CASE Rotating
    BY <1>1, <2>2, RotatingKeepsOrders
  <2>3. CASE SpliceSuccessor
    <3>1. OneReplaced(owner[victim], One(victim), None, InOrder, link, InOrder', link')
      BY <1>1, <2>3, SpliceChanges
    <3>2. victim = n
      BY <1>6, <2>3 DEF SpliceSuccessor
    <3> QED
      BY <1>2, <3>1, <3>2
  <2>4. CASE Reinit
    <3>1. victim \in Node /\ victim \notin InUse /\ owner' = owner
          /\ link' = [link EXCEPT ![victim] = NoLinks]
      BY <1>1, <2>4 DEF Reinit, IInv, Initialising, InUse, Owned
    <3> QED
      BY <1>1, <3>1, QuietKeepsOrders
  <2> QED
    BY <1>6, <2>1, <2>2, <2>3, <2>4 DEF Step, Rotating
<1>7. CASE UNCHANGED vars
  <2>1. link' = link /\ owner' = owner
    BY <1>7 DEF vars
  <2> QED
    BY <1>1, <2>1, QuietKeepsOrders
<1> QED
  BY <1>3, <1>4, <1>5, <1>6, <1>7 DEF DoneTo

\* From a node that remains, c_rbnode_next steps to the next one.
LEMMA NextInOrder ==
  ASSUME WorldOK, Idle, NEW t \in Tree, NEW E \in Nodes, NEW k \in Nat, NEW b,
         Remains(Orders[t], E, k, b), NEW i \in k + 1 .. Len(E)
  PROVE  c_rbnode_next(E[i]) = At(E, i + 1) /\ E[i] \in InUse /\ owner[E[i]] = t
<1> DEFINE O == Orders[t]
<1>1. WorldKnown /\ TraversesInOrder /\ OrderComplete
  BY WorldIsKnown, StepsInOrder, OrderIsComplete DEF WorldOK
<1>2. O = InOrder[link[t]["root"]] /\ O \in Nodes
  BY <1>1 DEF WorldKnown, OrdersKnown
<1>3. Traverses(O, c_rbtree_first, c_rbnode_next, c_rbtree_last, c_rbnode_prev, t)
  BY <1>1, <1>2 DEF TraversesInOrder
<1>4. {O[j] : j \in 1 .. Len(O)} = {n \in InUse : owner[n] = t}
  BY <1>1 DEF OrderComplete
<1> HIDE DEF O
<1>5. /\ b \in 0 .. k /\ Len(O) = Len(E) - b /\ Len(E) \in Nat
      /\ \A j \in k + 1 .. Len(E) : O[j - b] = E[j]
  BY DEF Remains, Nodes, O
<1>6. i - b \in 1 .. Len(O) /\ O[i - b] = E[i]
  BY <1>5
<1>7. c_rbnode_next(E[i]) = At(O, i - b + 1)
  BY <1>3, <1>6 DEF Traverses
<1>8. At(O, i - b + 1) = At(E, i + 1)
  <2>1. CASE i < Len(E)
    <3>1. i + 1 \in k + 1 .. Len(E) /\ i + 1 - b = i - b + 1
      BY <1>5, <2>1
    <3>2. O[i - b + 1] = E[i + 1]
      BY <1>5, <3>1
    <3> QED
      BY <1>5, <3>1, <3>2 DEF At
  <2>2. CASE i = Len(E)
    BY <1>5, <2>2 DEF At
  <2> QED
    BY <1>5, <2>1, <2>2
<1> QED
  BY <1>4, <1>6, <1>7, <1>8

-----------------------------------------------------------------------------
(* A loop takes its tree apart *)

\* Everything that is known then but for the rest of the tree.
TornOK ==
  /\ CutQuiet
  /\ link \in Memory /\ Shaped(link) /\ owner \in Owners
  /\ \A n \in stale : owner[n] = NULL

LEMMA WorldTears ==
  ASSUME WorldOK, Idle, tree \in Tree
  PROVE  TornOK
<1>1. IInv /\ NoLoops(link) /\ OutsideOK /\ pc \in {"idle", "paint"} /\ pc # "paint"
  BY DEF WorldOK, Idle
<1>2. QuietState
  BY <1>1, QuietMeans
<1>3. LocalsOK /\ Quiet(owner, link, pf, stale, NULL)
  BY <1>1, <1>2 DEF QuietState, Painted
<1>4. Quiet(DroppedOwners(owner, tree), CutLink(link, tree), pf, stale \cup Rest, NULL)
  BY <1>3, QuietDropped DEF Rest
<1>5. CutQuiet
  BY <1>1, <1>3, <1>4 DEF CutQuiet, Painted
<1>6. link \in Memory /\ Shaped(link) /\ owner \in Owners /\ \A n \in stale : owner[n] = NULL
  BY <1>3 DEF Quiet, Sound
<1> QED
  BY <1>5, <1>6 DEF TornOK

\* m2 is the memory m without the tree of the loop, whose field is still as it is
\* now.
Without(m, m2) ==
  m2 = CutLink(m, tree) /\ m = [x \in Node \cup Tree |-> m[x]] /\ m[tree] = link[tree]

LEMMA PutWithout ==
  ASSUME NEW m, NEW m2, Without(m, m2), tree \in Tree, NEW x \in Node \cup Tree, x # tree
  PROVE  /\ m2[x] = m[x]
         /\ \A s, v : Without([m EXCEPT ![x][s] = v], [m2 EXCEPT ![x][s] = v])
         /\ \A v : Without([m EXCEPT ![x] = v], [m2 EXCEPT ![x] = v])
<1>1. /\ m = [y \in Node \cup Tree |-> m[y]] /\ m[tree] = link[tree]
      /\ m2 = [y \in Node \cup Tree |-> IF y = tree THEN NoLinks ELSE m[y]]
  BY DEF Without, CutLink
<1>2. ASSUME NEW v
      PROVE  Without([m EXCEPT ![x] = v], [m2 EXCEPT ![x] = v])
  <2>1. [m2 EXCEPT ![x] = v] = CutLink([m EXCEPT ![x] = v], tree)
    BY <1>1 DEF CutLink
  <2>2. /\ [m EXCEPT ![x] = v] = [y \in Node \cup Tree |-> [m EXCEPT ![x] = v][y]]
        /\ [m EXCEPT ![x] = v][tree] = link[tree]
    BY <1>1
  <2> QED
    BY <2>1, <2>2 DEF Without
<1>3. m2[x] = m[x]
  BY <1>1
<1>4. ASSUME NEW s, NEW v
      PROVE  Without([m EXCEPT ![x][s] = v], [m2 EXCEPT ![x][s] = v])
  <2> DEFINE u == [m[x] EXCEPT ![s] = v]
  <2>1. [m EXCEPT ![x][s] = v] = [m EXCEPT ![x] = u] /\ [m2 EXCEPT ![x][s] = v] = [m2 EXCEPT ![x] = u]
    BY <1>1, <1>3
  <2>2. Without([m EXCEPT ![x] = u], [m2 EXCEPT ![x] = u])
    BY <1>2
  <2> QED
    BY <2>1, <2>2
<1> QED
  BY <1>2, <1>3, <1>4

LEMMA PutTwiceWithout ==
  ASSUME NEW m, NEW m2, Without(m, m2), tree \in Tree,
         NEW x \in Node \cup Tree, x # tree, NEW y \in Node \cup Tree, y # tree,
         NEW s, NEW v, NEW r, NEW u
  PROVE  /\ Without([m EXCEPT ![x][s] = v, ![y][r] = u], [m2 EXCEPT ![x][s] = v, ![y][r] = u])
         /\ Without([m EXCEPT ![x] = v, ![y][r] = u], [m2 EXCEPT ![x] = v, ![y][r] = u])
<1>1. Without([m EXCEPT ![x][s] = v], [m2 EXCEPT ![x][s] = v])
  BY PutWithout
<1>2. Without([m EXCEPT ![x] = v], [m2 EXCEPT ![x] = v])
  BY PutWithout
<1>3. Without([[m EXCEPT ![x][s] = v] EXCEPT ![y][r] = u], [[m2 EXCEPT ![x][s] = v] EXCEPT ![y][r] = u])
  BY <1>1, PutWithout
<1>4. Without([[m EXCEPT ![x] = v] EXCEPT ![y][r] = u], [[m2 EXCEPT ![x] = v] EXCEPT ![y][r] = u])
  BY <1>2, PutWithout
<1> QED
  BY <1>3, <1>4

LEMMA PutInPlaceWithout ==
  ASSUME NEW m, NEW m2, Without(m, m2), tree \in Tree, NEW w, NEW a, NEW b,
         w[a].raw \in Node \cup Tree, w[a].raw # tree
  PROVE  Without(PutInPlace(m, w, a, b), PutInPlace(m2, w, a, b))
<1> DEFINE x == w[a].raw
           s == IF c_rbnode_is_root(w, a) THEN "root" ELSE SideOf(m, x, a)
<1>1. x \in Node \cup Tree /\ x # tree
  OBVIOUS
<1> HIDE DEF x
<1>2. m2[x] = m[x]
  BY <1>1, PutWithout
<1>3. Without([m EXCEPT ![x][s] = b], [m2 EXCEPT ![x][s] = b])
  <2> HIDE DEF s
  <2> QED
    BY <1>1, PutWithout
<1>4. SideOf(m2, x, a) = SideOf(m, x, a)
  BY <1>2 DEF SideOf
<1>5. PutInPlace(m, w, a, b) = [m EXCEPT ![x][s] = b] /\ PutInPlace(m2, w, a, b) = [m2 EXCEPT ![x][s] = b]
  BY <1>4 DEF PutInPlace, x
<1> QED
  BY <1>3, <1>5

\* A memory that differs in the tree of the loop at most.
LEMMA WithoutNow ==
  ASSUME link \in Memory
  PROVE  Without(link, CutLink(link, tree))
BY DEF Without, Memory

\* A node of the rest is reset, or freed.
Wipes(n, v) ==
  /\ link' = [link EXCEPT ![n] = NoLinks] /\ pf' = [pf EXCEPT ![n] = v]
  /\ owner' = [owner EXCEPT ![n] = NULL]
  /\ \/ stale' = stale /\ v = [raw |-> n, flags |-> {}]
     \/ stale' = stale \cup {n}
  /\ v \in Word

LEMMA WipingKeeps ==
  ASSUME TornOK, Idle, tree \in Tree, tree' = tree, UNCHANGED locals,
         NEW n \in Rest, NEW v, Wipes(n, v)
  PROVE  /\ TornOK' /\ Rest' = Rest \ {n} /\ SameIn(tree, owner', link, pf, link', pf')
<1> DEFINE o == DroppedOwners(owner, tree)
           m == CutLink(link, tree)
           st == stale \cup Rest
           st2 == (stale \cup Rest)'
<1>1. /\ link \in Memory /\ Shaped(link) /\ owner \in Owners /\ (\A k \in stale : owner[k] = NULL)
      /\ LocalsOK /\ pf \in Words /\ Node \cap Tree = {} /\ NULL \notin Node /\ NULL \notin Tree
      /\ Quiet(o, m, pf, st, NULL) /\ Without(link, m) /\ n \in Node /\ owner[n] = tree
      /\ stale \subseteq Node
  BY WithoutNow, DistinctAddresses
     DEF TornOK, CutQuiet, Quiet, Sound, Words, Painted, Idle, Rest
<1>2. DOMAIN owner = Node /\ DOMAIN pf = Node /\ DOMAIN link = Node \cup Tree
  BY <1>1 DEF Owners, Words, Memory
<1>3. Rest' = Rest \ {n}
  BY <1>1, <1>2 DEF Rest, Wipes
<1>4. DroppedOwners(owner', tree) = o /\ o[n] = NULL
  BY <1>1, <1>2 DEF DroppedOwners, Wipes
<1>5. Without(link', [m EXCEPT ![n] = NoLinks])
  <2> HIDE DEF m
  <2>1. n \in Node \cup Tree /\ n # tree
    BY <1>1
  <2> QED
    BY <1>1, <2>1, PutWithout DEF Wipes
<1>6. CutLink(link', tree) = [m EXCEPT ![n] = NoLinks]
  BY <1>5 DEF Without
<1>7. /\ st \ {n} \subseteq st2 /\ st2 \subseteq st \cup {n}
      /\ n \in st2 \/ v = [raw |-> n, flags |-> {}]
  BY <1>3 DEF Wipes
<1>8. Quiet(DroppedOwners(owner', tree'), CutLink(link', tree'), pf', st2, NULL)
  <2> HIDE DEF o, m, st, st2
  <2>1. Quiet(o, [m EXCEPT ![n] = NoLinks], [pf EXCEPT ![n] = v], st2, NULL)
    BY <1>1, <1>4, <1>7, QuietOverwritten DEF Wipes
  <2> QED
    BY <1>4, <1>6, <2>1 DEF Wipes
<1>9. CutQuiet'
  <2>1. pc' = "idle" /\ LocalsOK'
    BY <1>1 DEF locals, LocalsOK, Idle
  <2> QED
    BY <1>8, <2>1 DEF CutQuiet, Painted
<1>10. \A k \in Node \cup Tree : k # n => link'[k] = link[k]
  BY <1>1, <1>2 DEF Wipes
<1>11. link' \in Memory /\ Shaped(link')
  <2>1. link'[n] = NoLinks /\ NoLinks \in [Side -> Pointer] /\ NoLinks["root"] = NULL
    BY <1>1, <1>2 DEF Wipes, NoLinks, Pointer, Side
  <2>2. link' \in Memory
    BY <1>1, <2>1 DEF Wipes, Memory
  <2> QED
    BY <1>1, <1>10, <2>1, <2>2 DEF Shaped
<1>12. SameIn(tree, owner', link, pf, link', pf')
  BY <1>1, <1>2, <1>10 DEF SameIn, Wipes
<1>13. owner' \in Owners /\ \A k \in stale' : owner'[k] = NULL
  BY <1>1, <1>2 DEF Owners, Wipes
<1> QED
  BY <1>3, <1>9, <1>11, <1>12, <1>13 DEF TornOK

\* A step that writes to no node.
LEMMA TornStays ==
  ASSUME TornOK, UNCHANGED vars, tree' = tree
  PROVE  TornOK' /\ Rest' = Rest
<1>1. Rest' = Rest
  BY DEF Rest, vars
<1>2. CutQuiet'
  BY <1>1 DEF TornOK, CutQuiet, vars, LocalsOK, Painted
<1> QED
  BY <1>1, <1>2 DEF TornOK, vars

\* When the tree is given up, the memory is that of CRBTree again.
LEMMA TornEnds ==
  ASSUME TornOK, Idle, UNCHANGED locals, pf' = pf, link' = CutLink(link, tree),
         owner' = DroppedOwners(owner, tree), stale' = stale \cup Rest
  PROVE  WorldOK'
<1>1. LocalsOK /\ Quiet(owner', link', pf', stale', NULL)
  BY DEF TornOK, CutQuiet, Painted, Idle
<1>2. pc' = "idle" /\ LocalsOK'
  BY <1>1 DEF locals, LocalsOK, Idle
<1>3. QuietState'
  BY <1>1, <1>2 DEF QuietState, Painted
<1>4. pc \in {"idle", "paint"} => (QuietState <=> IInv /\ NoLoops(link) /\ OutsideOK)
  BY QuietMeans
<1>5. (pc \in {"idle", "paint"} => (QuietState <=> IInv /\ NoLoops(link) /\ OutsideOK))'
  BY QuietMeans, PTL
<1>6. IInv' /\ NoLoops(link)' /\ OutsideOK'
  BY <1>2, <1>3, <1>5
<1>7. SearchBelow' /\ SearchLeft'
  BY <1>2 DEF SearchBelow, SearchLeft
<1> QED
  BY <1>6, <1>7 DEF WorldOK

\* Throughout, the memory has no loops, nodes outside are reset or stale,
LEMMA TornFacts ==
  ASSUME TornOK, tree \in Tree
  PROVE  LoopFree(link) /\ OutsideOK
<1>1. /\ Quiet(DroppedOwners(owner, tree), CutLink(link, tree), pf, stale \cup Rest, Painted)
      /\ link \in Memory /\ (\A n \in stale : owner[n] = NULL) /\ owner \in Owners
  BY DEF TornOK, CutQuiet
<1>2. \A n \in Node : CutLink(link, tree)[n] = link[n]
  BY <1>1, DistinctAddresses DEF CutLink, Memory
<1>3. NoLoops(CutLink(link, tree))
  BY <1>1 DEF Quiet
<1>4. NoLoops(link)
  BY <1>2, <1>3 DEF NoLoops
<1>5. \A n \in Node, d \in Dir : link[n][d] \in Pointer
  BY <1>1, Sides DEF Memory
<1>6. ASSUME NEW n \in Node, n \notin stale, owner[n] = NULL
      PROVE  link[n] = NoLinks
  <2>1. n \notin stale \cup Rest /\ DroppedOwners(owner, tree)[n] = NULL
    BY <1>6, DistinctAddresses DEF Rest, DroppedOwners
  <2> QED
    BY <1>1, <1>2, <2>1 DEF Quiet
<1>7. OutsideOK
  BY <1>1, <1>6 DEF OutsideOK
<1> QED
  BY <1>4, <1>5, <1>7 DEF LoopFree

\* and the rest of the tree hangs together.
Hanging ==
  /\ ParentsKnowChild(owner, link, pf)
  /\ \A n \in Node \ stale : c_rbnode_is_linked(pf, n) <=> n \in InUse

LEMMA RestHangs ==
  ASSUME TornOK, tree \in Tree, NEW E \in Nodes, Distinct(E), NEW k \in Nat,
         Layout(E, tree, owner, link, pf, k)
  PROVE  Hanging
<1> DEFINE o == DroppedOwners(owner, tree)
           m == CutLink(link, tree)
<1>1. /\ Sound(o, m, pf) /\ Without(link, m) /\ Node \cap Tree = {} /\ NULL \notin Tree /\ NULL \notin Node
      /\ owner \in Owners /\ link \in Memory
      /\ \A n \in Node \ (stale \cup Rest) : o[n] = NULL => pf[n].raw = n /\ ~c_rbnode_is_root(pf, n)
  BY WithoutNow, DistinctAddresses DEF TornOK, CutQuiet, Quiet
<1>2. /\ \A n \in Node : o[n] = IF owner[n] = tree THEN NULL ELSE owner[n]
      /\ m[tree] = NoLinks /\ \A x \in Node \cup Tree : x # tree => m[x] = link[x]
  BY <1>1 DEF DroppedOwners, CutLink, Memory
<1> HIDE DEF o, m
<1>3. PICK lo : PostShape(E, tree, link, pf, lo, k)
  BY DEF Layout
<1>4. ASSUME NEW n \in Owned(owner)
      PROVE  /\ c_rbnode_raw(pf, n) \in Holder(owner) /\ c_rbnode_raw(pf, n) # n
             /\ \E s \in Side : link[c_rbnode_raw(pf, n)][s] = n
             /\ c_rbnode_is_linked(pf, n)
  <2> DEFINE x == pf[n].raw
  <2>1. n \in Node /\ owner[n] # NULL /\ n # NULL
    BY <1>1 DEF Owned
  <2>2. CASE owner[n] # tree
    <3>1. n \in Owned(o)
      BY <1>2, <2>1, <2>2 DEF Owned
    <3>2. x \in Holder(o) /\ x # n /\ \E s \in Side : m[x][s] = n
      BY <1>1, <3>1 DEF Sound, Consistent, ParentsKnowChild, c_rbnode_raw
    <3>3. x # tree
      BY <1>2, <2>1, <3>2 DEF NoLinks
    <3>4. x \in Holder(owner) /\ link[x] = m[x]
      BY <1>1, <1>2, <3>2, <3>3 DEF Holder, Owned
    <3>5. c_rbnode_is_linked(pf, n)
      BY <2>1, <3>2 DEF c_rbnode_is_linked, c_rbnode_parent
    <3> QED
      BY <3>2, <3>4, <3>5 DEF c_rbnode_raw
  <2>3. CASE owner[n] = tree
    <3>1. PICK i \in k + 1 .. Len(E) : n = E[i]
      BY <2>1, <2>3 DEF Layout
    <3>2. Upwards(E, tree, link, pf, lo, i) /\ i \in 1 .. Len(E) /\ Len(E) \in Nat
      BY <1>3, <3>1 DEF PostShape, Nodes
    <3>3. CASE c_rbnode_is_root(pf, n)
      <4>1. x = tree /\ link[tree]["root"] = n
        BY <3>1, <3>2, <3>3 DEF Upwards
      <4> QED
        BY <1>1, <2>1, <3>3, <4>1, Sides DEF Holder, c_rbnode_raw, c_rbnode_is_linked, c_rbnode_parent
    <3>4. CASE ~c_rbnode_is_root(pf, n)
      <4>1. PICK j \in i + 1 .. Len(E) : x = E[j] /\ n \in {link[E[j]]["left"], link[E[j]]["right"]}
        BY <3>1, <3>2, <3>4 DEF Upwards
      <4>2. j \in k + 1 .. Len(E) /\ j \in 1 .. Len(E) /\ j # i
        BY <3>1, <3>2
      <4>3. x \in {y \in Node : owner[y] = tree}
        BY <4>1, <4>2 DEF Layout
      <4>4. x # n
        BY <3>1, <3>2, <4>1, <4>2 DEF Distinct
      <4> QED
        BY <1>1, <3>4, <4>1, <4>3, <4>4, Sides
           DEF Holder, Owned, c_rbnode_raw, c_rbnode_is_linked, c_rbnode_parent, Dir
    <3> QED
      BY <3>3, <3>4
  <2> QED
    BY <2>2, <2>3
<1>5. ASSUME NEW n \in Node \ stale, n \notin InUse
      PROVE  ~c_rbnode_is_linked(pf, n)
  <2>1. owner[n] = NULL /\ n \notin Rest
    BY <1>1, <1>5 DEF InUse, Owned, Rest
  <2>2. pf[n].raw = n /\ ~c_rbnode_is_root(pf, n)
    BY <1>1, <1>2, <2>1
  <2> QED
    BY <2>2 DEF c_rbnode_is_linked, c_rbnode_parent
<1> QED
  BY <1>4, <1>5 DEF Hanging, ParentsKnowChild, InUse

-----------------------------------------------------------------------------
(* The turns of the loops *)

\* The loop that frees its nodes has begun to do so; a loop has left its tree in
\* a state that is none of CRBTree.
Freeing == loop = "safe_postorder" /\ Len(visited) > 0 /\ visited[1] \in stale
Tearing == loop \in {"unlink", "torn"} \/ Freeing

\* So many nodes, from the first on, the loop may have taken out of the tree.
Taken == IF loop \in {"safe", "unlink"} THEN Len(visited)
         ELSE IF ~Freeing THEN 0
         ELSE IF at = "body" /\ iter \notin stale THEN Len(visited) - 1
         ELSE Len(visited)

IterTypes ==
  /\ loop \in Macro \cup {"none", "torn"} /\ at \in {"test", "body", "step"}
  /\ loop # "none" => tree \in Tree
  /\ expected \in Nodes /\ Distinct(expected) /\ visited \in Nodes

\* After k turns _iter and _safe are nodes of the order the loop began with.
AtTurn(m, a, E, v, x, y) ==
  /\ Len(v) <= Len(E) /\ \A i \in 1 .. Len(v) : v[i] = E[i]
  /\ a = "test" => x = At(E, Len(v) + 1) /\ y = Keep(m, At(E, Len(v) + 2))
  /\ a # "test" => Len(v) > 0 /\ x = E[Len(v)] /\ y = Keep(m, At(E, Len(v) + 1))

Turn == InLoop => AtTurn(loop, at, expected, visited, iter, safe)

MemoryOK == /\ Tearing => TornOK
            /\ ~Tearing => WorldOK

\* The loops in order: a call is in progress only in a body that may make one, and
\* the order of the tree is what remains of the one the loop began with.
InOrderKept ==
  loop \in {"each", "safe"} =>
    /\ pc # "idle" => loop = "safe" /\ at = "body"
    /\ pc = "successor" => victim = iter
    /\ \E b : Remains(Orders[tree], expected, Taken, b)

\* The loops in post-order: only c_rbnode_link is called, and the nodes not taken
\* are as they were.
PostOrderKept ==
  loop \in {"postorder", "safe_postorder", "unlink"} =>
    /\ loop # "unlink" => pc = "idle"
    /\ pc \in {"idle", "paint"}
    /\ Layout(expected, tree, owner, link, pf, Taken)
    /\ Freeing => \A i \in 1 .. Taken : expected[i] \in stale

TornKept == loop = "torn" => Idle /\ Hanging

IterInv == IterTypes /\ Turn /\ MemoryOK /\ InOrderKept /\ PostOrderKept /\ TornKept

\* The macros in the two orders.
LEMMA Macros ==
  /\ Macro = {"each", "safe"} \cup {"postorder", "safe_postorder", "unlink"}
  /\ loop \in {"each", "safe"} => ~Tearing
  /\ loop \in {"postorder", "safe_postorder", "unlink"} => loop \notin {"each", "safe"}
BY DEF Macro, Tearing, Freeing

\* The functions of the macro step from one node of E to the next.
Advances(m, E, k) == \A i \in k + 1 .. Len(E) : After(m, E[i]) = At(E, i + 1)

LEMMA AfterNull == \A m : After(m, NULL) = NULL
BY DEF After, c_rbnode_next, c_rbnode_next_postorder, Linked

LEMMA TakenFacts ==
  ASSUME IterTypes, Turn, InLoop
  PROVE  /\ Taken \in Nat /\ Taken <= Len(visited) /\ Len(visited) \in Nat
         /\ Len(expected) \in Nat /\ Len(visited) <= Len(expected)
         /\ at # "test" => Len(visited) > 0
<1>1. /\ Len(visited) \in Nat /\ Len(expected) \in Nat /\ Len(visited) <= Len(expected)
      /\ at # "test" => Len(visited) > 0
  BY DEF IterTypes, Nodes, Turn, AtTurn
<1> QED
  BY <1>1 DEF Taken, Freeing

\* A step that writes to no node.
LEMMA WorldSame ==
  ASSUME WorldOK, UNCHANGED vars
  PROVE  WorldOK' /\ Orders' = Orders
<1>1. WorldOK' /\ WorldKnown /\ WorldKnown'
  BY WorldStays
<1>2. link' = link /\ owner' = owner
  BY DEF vars
<1> QED
  BY <1>1, <1>2, QuietKeepsOrders DEF WorldOK, WorldKnown, OrdersKnown, LoopFree

\* In a loop the nodes not taken are linked, in the tree, and the functions of the
\* macro step through them.
LEMMA LoopAdvances ==
  ASSUME IterInv, InLoop, Idle
  PROVE  /\ Advances(loop, expected, Taken)
         /\ \A i \in Taken + 1 .. Len(expected) :
              /\ owner[expected[i]] = tree /\ c_rbnode_is_linked(pf, expected[i])
              /\ expected[i] \notin stale
<1>1. /\ Taken \in Nat /\ expected \in Nodes /\ Distinct(expected) /\ tree \in Tree
      /\ Len(expected) \in Nat
  BY TakenFacts DEF IterInv, IterTypes, InLoop, Macro
<1>2. CASE loop \in {"each", "safe"}
  <2>1. WorldOK /\ \E b : Remains(Orders[tree], expected, Taken, b)
    BY <1>2, Macros DEF IterInv, MemoryOK, InOrderKept
  <2>2. PICK b : Remains(Orders[tree], expected, Taken, b)
    BY <2>1
  <2>3. ASSUME NEW i \in Taken + 1 .. Len(expected)
        PROVE  /\ c_rbnode_next(expected[i]) = At(expected, i + 1)
               /\ expected[i] \in InUse /\ owner[expected[i]] = tree
    BY <1>1, <2>1, <2>2, NextInOrder
  <2>4. CallsSafe /\ OutsideOK
    BY <2>1, CallsAreSafe DEF WorldOK
  <2>5. \A n \in InUse : c_rbnode_is_linked(pf, n) /\ n \notin stale
    BY <2>4 DEF CallsSafe, OutsideOK, InUse, Owned
  <2> QED
    BY <1>2, <2>3, <2>5 DEF Advances, After
<1>3. CASE loop \in {"postorder", "safe_postorder", "unlink"}
  <2>1. Layout(expected, tree, owner, link, pf, Taken)
    BY <1>3 DEF IterInv, PostOrderKept
  <2>2. LoopFree(link) /\ link \in Memory /\ OutsideOK
    <3>1. CASE Tearing
      BY <1>1, <3>1, TornFacts DEF IterInv, MemoryOK, TornOK
    <3>2. CASE ~Tearing
      BY <3>2, WorldIsKnown DEF IterInv, MemoryOK, WorldOK, WorldKnown, IInv, Sound
    <3> QED
      BY <3>1, <3>2
  <2>3. PICK lo : PostShape(expected, tree, link, pf, lo, Taken)
    BY <2>1 DEF Layout
  <2>4. ASSUME NEW i \in Taken + 1 .. Len(expected)
        PROVE  /\ c_rbnode_is_linked(pf, expected[i])
               /\ c_rbnode_next_postorder(expected[i]) = At(expected, i + 1)
    BY <1>1, <2>2, <2>3, NextOfRest
  <2>5. \A i \in Taken + 1 .. Len(expected) :
          expected[i] \in Node /\ owner[expected[i]] = tree
    BY <2>1 DEF Layout
  <2>6. \A i \in Taken + 1 .. Len(expected) : expected[i] \notin stale
    BY <1>1, <2>2, <2>5, DistinctAddresses DEF OutsideOK
  <2> QED
    BY <1>3, <2>4, <2>5, <2>6 DEF Advances, After
<1> QED
  BY <1>2, <1>3, Macros DEF InLoop

\* So _iter and _safe go on to the next nodes.
LEMMA TurnAdvances ==
  ASSUME IterInv, InLoop, LoopNext
  PROVE  AtTurn(loop', at', expected', visited', iter', safe')
<1> DEFINE k == Len(visited)
<1>1. /\ Taken \in Nat /\ Taken <= k /\ k \in Nat /\ Len(expected) \in Nat /\ k <= Len(expected)
      /\ k > 0 /\ at = "step" /\ Idle
  BY TakenFacts DEF IterInv, LoopNext
<1>2. /\ \A i \in 1 .. k : visited[i] = expected[i]
      /\ iter = expected[k] /\ safe = Keep(loop, At(expected, k + 1))
  BY <1>1 DEF IterInv, Turn, AtTurn
<1>3. Advances(loop, expected, Taken)
  BY <1>1, LoopAdvances
<1>4. iter # NULL
  <2>1. iter \in Node
    BY <1>1, <1>2 DEF IterInv, IterTypes, Nodes
  <2> QED
    BY <2>1, DistinctAddresses
<1> HIDE DEF k
<1>5. CASE loop \in {"each", "postorder"}
  <2>1. Taken = 0
    BY <1>5 DEF Taken, Freeing
  <2>2. After(loop, iter) = At(expected, k + 1)
    BY <1>1, <1>2, <1>3, <2>1 DEF Advances
  <2>3. iter' = After(loop, iter) /\ safe' = NULL
    BY <1>5 DEF LoopNext, Keep
  <2> QED
    BY <1>1, <1>2, <1>5, <2>2, <2>3 DEF LoopNext, AtTurn, Keep, k
<1>6. CASE loop \notin {"each", "postorder"}
  <2>1. iter' = safe /\ safe = At(expected, k + 1) /\ safe' = After(loop, safe)
    BY <1>2, <1>4, <1>6 DEF LoopNext, Keep
  <2>2. After(loop, safe) = At(expected, k + 2)
    <3>1. CASE k < Len(expected)
      <4>1. k + 1 \in Taken + 1 .. Len(expected) /\ k + 1 + 1 = k + 2 /\ k + 1 \in 1 .. Len(expected)
        BY <1>1, <3>1
      <4>2. safe = expected[k + 1]
        BY <2>1, <4>1 DEF At
      <4> QED
        BY <1>3, <4>1, <4>2 DEF Advances
    <3>2. CASE k = Len(expected)
      <4>1. At(expected, k + 1) = NULL /\ At(expected, k + 2) = NULL
        BY <1>1, <3>2 DEF At
      <4> QED
        BY <2>1, <4>1, AfterNull
    <3> QED
      BY <1>1, <3>1, <3>2
  <2> QED
    BY <1>1, <1>2, <1>6, <2>1, <2>2 DEF LoopNext, AtTurn, Keep, k
<1> QED
  BY <1>5, <1>6

\* The condition of a loop holds for the node that comes next.
LEMMA TurnEnters ==
  ASSUME IterTypes, Turn, InLoop, at = "test", Enter
  PROVE  /\ AtTurn(loop', at', expected', visited', iter', safe')
         /\ visited' \in Nodes /\ Len(visited') = Len(visited) + 1
         /\ visited'[1] = IF Len(visited) = 0 THEN iter ELSE visited[1]
         /\ Len(visited) + 1 \in 1 .. Len(expected) /\ iter = expected[Len(visited) + 1]
         /\ iter \in Node
<1> DEFINE k == Len(visited)
<1>1. /\ k \in Nat /\ Len(expected) \in Nat /\ k <= Len(expected)
      /\ visited \in Nodes /\ expected \in Nodes
      /\ \A i \in 1 .. k : visited[i] = expected[i]
      /\ iter = At(expected, k + 1) /\ safe = Keep(loop, At(expected, k + 2))
  BY TakenFacts DEF IterTypes, Turn, AtTurn
<1>2. iter # NULL /\ visited' = Append(visited, iter) /\ at' = "body"
      /\ loop' = loop /\ expected' = expected /\ iter' = iter /\ safe' = safe
  BY DEF Enter
<1>3. k + 1 \in 1 .. Len(expected) /\ iter = expected[k + 1] /\ iter \in Node
  <2>1. k + 1 \in 1 .. Len(expected) /\ iter = expected[k + 1]
    BY <1>1, <1>2 DEF At
  <2> QED
    BY <1>1, <2>1 DEF Nodes
<1>4. /\ visited' \in Nodes /\ Len(visited') = k + 1
      /\ \A i \in 1 .. k : visited'[i] = visited[i]
      /\ visited'[k + 1] = iter
  BY <1>1, <1>2, <1>3 DEF Nodes
<1>5. \A i \in 1 .. k + 1 : visited'[i] = expected[i]
  BY <1>1, <1>3, <1>4
<1>6. safe = Keep(loop, At(expected, k + 1 + 1))
  BY <1>1
<1> HIDE DEF k
<1>7. AtTurn(loop', at', expected', visited', iter', safe')
  BY <1>1, <1>2, <1>3, <1>4, <1>5, <1>6 DEF AtTurn
<1>8. visited'[1] = IF k = 0 THEN iter ELSE visited[1]
  BY <1>1, <1>4
<1> QED
  BY <1>3, <1>4, <1>7, <1>8 DEF k

LEMMA RemainsLater ==
  ASSUME NEW O, NEW E, Len(E) \in Nat, NEW k \in Nat, NEW k2 \in Nat, k <= k2,
         NEW b, Remains(O, E, k, b)
  PROVE  Remains(O, E, k2, b)
BY DEF Remains

\* A step that writes to no node and goes on with the same loop.
LEMMA LoopGoesOn ==
  ASSUME IterInv, UNCHANGED <<vars, loop, tree, expected>>, Idle \/ UNCHANGED <<at, iter>>,
         InLoop => /\ Taken' \in Nat /\ Taken <= Taken' /\ (loop # "safe" => Taken' = Taken)
                   /\ Freeing' = Freeing
  PROVE  MemoryOK' /\ InOrderKept' /\ PostOrderKept' /\ TornKept'
<1>1. /\ link' = link /\ pf' = pf /\ owner' = owner /\ stale' = stale /\ pc' = pc /\ victim' = victim
      /\ loop' = loop /\ tree' = tree /\ expected' = expected
  BY DEF vars
<1>2. (InLoop => (Tearing' <=> Tearing)) /\ (loop \in {"none", "torn"} => (Tearing' <=> Tearing))
  BY <1>1 DEF Tearing, Freeing
<1>3. MemoryOK'
  <2>1. Tearing' <=> Tearing
    BY <1>2 DEF IterInv, IterTypes, InLoop
  <2>2. TornOK => TornOK'
    BY <1>1, TornStays
  <2>3. WorldOK => WorldOK'
    BY WorldSame
  <2> QED
    BY <2>1, <2>2, <2>3 DEF IterInv, MemoryOK
<1>4. InOrderKept'
  <2> SUFFICES ASSUME loop \in {"each", "safe"}
               PROVE  /\ pc # "idle" => loop = "safe" /\ at' = "body"
                      /\ pc = "successor" => victim = iter'
                      /\ \E b : Remains(Orders'[tree], expected, Taken', b)
    BY <1>1 DEF InOrderKept
  <2>1. InLoop /\ ~Tearing
    BY Macros DEF InLoop
  <2>2. /\ pc # "idle" => loop = "safe" /\ at = "body"
        /\ pc = "successor" => victim = iter
        /\ \E b : Remains(Orders[tree], expected, Taken, b)
    BY DEF IterInv, InOrderKept
  <2>3. Orders' = Orders
    BY <2>1, WorldSame DEF IterInv, MemoryOK
  <2>4. PICK b : Remains(Orders[tree], expected, Taken, b)
    BY <2>2
  <2>5. Taken \in Nat /\ Taken' \in Nat /\ Taken <= Taken'
    BY <2>1, TakenFacts DEF IterInv
  <2>6. Remains(Orders'[tree], expected, Taken', b)
    <3>1. Len(expected) \in Nat
      BY <2>1, TakenFacts DEF IterInv
    <3> QED
      BY <2>3, <2>4, <2>5, <3>1, RemainsLater
  <2>7. pc # "idle" => at' = at /\ iter' = iter
    BY DEF Idle
  <2> QED
    BY <2>2, <2>6, <2>7
<1>5. PostOrderKept'
  <2> SUFFICES ASSUME loop \in {"postorder", "safe_postorder", "unlink"}
               PROVE  /\ loop # "unlink" => pc = "idle"
                      /\ pc \in {"idle", "paint"}
                      /\ Layout(expected, tree, owner, link, pf, Taken')
                      /\ Freeing' => \A i \in 1 .. Taken' : expected[i] \in stale
    BY <1>1 DEF PostOrderKept
  <2>1. InLoop
    BY Macros DEF InLoop
  <2>2. Taken' = Taken /\ Freeing' = Freeing
    BY <2>1
  <2> QED
    BY <2>2 DEF IterInv, PostOrderKept
<1>6. TornKept'
  BY <1>1 DEF IterInv, TornKept, Hanging, Idle, InUse
<1> QED
  BY <1>3, <1>4, <1>5, <1>6

\* The steps of the loops that write to no node.
LEMMA LoopTestEnters ==
  ASSUME IterInv, Idle, InLoop, loop # "unlink", at = "test", Enter, UNCHANGED vars
  PROVE  IterInv'
<1>1. /\ AtTurn(loop', at', expected', visited', iter', safe')
      /\ visited' \in Nodes /\ Len(visited') = Len(visited) + 1
      /\ visited'[1] = IF Len(visited) = 0 THEN iter ELSE visited[1]
      /\ Len(visited) + 1 \in 1 .. Len(expected) /\ iter = expected[Len(visited) + 1]
  BY TurnEnters DEF IterInv
<1>2. /\ loop' = loop /\ tree' = tree /\ expected' = expected /\ at' = "body" /\ iter' = iter
      /\ stale' = stale
  BY DEF Enter, vars
<1>3. Taken \in Nat /\ Taken <= Len(visited) /\ Len(visited) \in Nat /\ Len(expected) \in Nat
  BY TakenFacts DEF IterInv
<1>4. iter \notin stale
  BY <1>1, <1>3, LoopAdvances
<1>5. Freeing' <=> Freeing
  BY <1>1, <1>2, <1>3, <1>4 DEF Freeing
<1>6. Taken' \in Nat /\ Taken <= Taken' /\ (loop # "safe" => Taken' = Taken)
  BY <1>1, <1>2, <1>3, <1>4, <1>5 DEF Taken
<1>7. MemoryOK' /\ InOrderKept' /\ PostOrderKept' /\ TornKept'
  <2>1. UNCHANGED <<vars, loop, tree, expected>> /\ Freeing' = Freeing
    BY <1>2, <1>5 DEF Freeing
  <2> QED
    BY <1>6, <2>1, LoopGoesOn
<1>8. IterTypes' /\ Turn'
  BY <1>1, <1>2 DEF IterInv, IterTypes, Turn
<1> QED
  BY <1>7, <1>8 DEF IterInv

LEMMA LoopNextKeeps ==
  ASSUME IterInv, LoopNext
  PROVE  IterInv'
<1>1. /\ Idle /\ InLoop /\ at = "step" /\ at' = "test" /\ loop' = loop /\ tree' = tree
      /\ expected' = expected /\ visited' = visited /\ UNCHANGED vars /\ stale' = stale
  BY DEF LoopNext, vars
<1>2. Freeing' = Freeing /\ Taken' = Taken /\ Taken \in Nat
  <2>1. Freeing' = Freeing
    BY <1>1 DEF Freeing
  <2> QED
    BY <1>1, <2>1, TakenFacts DEF Taken, IterInv
<1>3. MemoryOK' /\ InOrderKept' /\ PostOrderKept' /\ TornKept'
  BY <1>1, <1>2, LoopGoesOn
<1>4. AtTurn(loop', at', expected', visited', iter', safe')
  BY <1>1, TurnAdvances
<1>5. IterTypes' /\ Turn'
  BY <1>1, <1>4 DEF IterInv, IterTypes, Turn
<1> QED
  BY <1>3, <1>5 DEF IterInv

LEMMA BodyEndsKeeps ==
  ASSUME IterInv, BodyEnds
  PROVE  IterInv'
<1>1. /\ Idle /\ InLoop /\ at = "body" /\ at' = "step" /\ loop' = loop /\ tree' = tree
      /\ expected' = expected /\ visited' = visited /\ iter' = iter /\ safe' = safe
      /\ UNCHANGED vars /\ stale' = stale
      /\ loop = "safe_postorder" => (iter \in stale <=> visited[1] \in stale)
  BY DEF BodyEnds, vars
<1>2. Freeing' = Freeing /\ Taken' = Taken /\ Taken \in Nat
  <2>1. Freeing' = Freeing
    BY <1>1 DEF Freeing
  <2>2. Freeing => loop = "safe_postorder" /\ iter \in stale
    BY <1>1 DEF Freeing
  <2> QED
    BY <1>1, <2>1, <2>2, TakenFacts DEF Taken, IterInv
<1>3. MemoryOK' /\ InOrderKept' /\ PostOrderKept' /\ TornKept'
  BY <1>1, <1>2, LoopGoesOn
<1>4. IterTypes' /\ Turn'
  BY <1>1 DEF IterInv, IterTypes, Turn, AtTurn, InLoop
<1> QED
  BY <1>3, <1>4 DEF IterInv

LEMMA NothingKeeps ==
  ASSUME IterInv, UNCHANGED allvars
  PROVE  IterInv'
<1>1. /\ loop' = loop /\ at' = at /\ tree' = tree /\ iter' = iter /\ safe' = safe
      /\ expected' = expected /\ visited' = visited /\ UNCHANGED vars /\ stale' = stale
  BY DEF allvars, iterator, vars
<1>2. Freeing' = Freeing /\ Taken' = Taken
  BY <1>1 DEF Freeing, Taken
<1>3. InLoop => Taken \in Nat /\ Taken <= Taken
  BY TakenFacts DEF IterInv
<1>4. MemoryOK' /\ InOrderKept' /\ PostOrderKept' /\ TornKept'
  BY <1>1, <1>2, <1>3, LoopGoesOn
<1>5. IterTypes' /\ Turn'
  BY <1>1 DEF IterInv, IterTypes, Turn, InLoop
<1> QED
  BY <1>4, <1>5 DEF IterInv

\* A loop that is over.
LEMMA LoopOver ==
  ASSUME IterTypes', loop' = "none", WorldOK'
  PROVE  IterInv'
<1>1. ~InLoop' /\ ~Tearing'
  BY DEF InLoop, Macro, Tearing, Freeing
<1> QED
  BY <1>1 DEF IterInv, Turn, MemoryOK, InOrderKept, PostOrderKept, TornKept

\* A loop that has left its tree torn.
LEMMA LoopTorn ==
  ASSUME IterInv, IterTypes', Idle, InLoop, Tearing, loop' = "torn", tree' = tree, UNCHANGED vars
  PROVE  IterInv'
<1>1. ~InLoop' /\ Tearing' /\ tree \in Tree /\ expected \in Nodes /\ Distinct(expected)
  BY DEF InLoop, Macro, Tearing, IterInv, IterTypes
<1>2. TornOK /\ Taken \in Nat
  BY TakenFacts DEF IterInv, MemoryOK
<1>3. loop \in {"postorder", "safe_postorder", "unlink"}
  BY Macros DEF InLoop
<1>4. Layout(expected, tree, owner, link, pf, Taken)
  BY <1>3 DEF IterInv, PostOrderKept
<1>5. Hanging
  BY <1>1, <1>2, <1>4, RestHangs
<1>6. Hanging' /\ pc' = "idle"
  BY <1>5 DEF Hanging, InUse, vars, Idle
<1>7. TornOK'
  BY <1>2, TornStays
<1> QED
  BY <1>1, <1>6, <1>7 DEF IterInv, Turn, MemoryOK, InOrderKept, PostOrderKept, TornKept, Idle

LEMMA IterInitHolds ==
  ASSUME IterInit
  PROVE  IterInv
<1>1. /\ Init /\ loop = "none" /\ at = "test" /\ expected = <<>> /\ visited = <<>>
      /\ ~InLoop /\ ~Tearing
  BY DEF IterInit, InLoop, Macro, Tearing, Freeing
<1>2. WorldOK
  <2>1. IInv
    BY <1>1, InitHolds
  <2>2. NoLoops(link) /\ SearchBelow /\ SearchLeft /\ OutsideOK
    BY <1>1, DistinctAddresses
       DEF Init, NoLoops, NoLinks, Dir, Side, SearchBelow, SearchLeft, OutsideOK
  <2> QED
    BY <2>1, <2>2 DEF WorldOK
<1>3. IterTypes
  BY <1>1 DEF IterTypes, Distinct, Nodes
<1> QED
  BY <1>1, <1>2, <1>3 DEF IterInv, Turn, MemoryOK, InOrderKept, PostOrderKept, TornKept

\* A loop whose condition fails has gone through all its nodes.
LEMMA AllVisited ==
  ASSUME IterInv, InLoop, at = "test", iter = NULL
  PROVE  visited = expected /\ Len(visited) = Len(expected)
<1>1. /\ Len(visited) \in Nat /\ Len(expected) \in Nat /\ Len(visited) <= Len(expected)
      /\ visited \in Nodes /\ expected \in Nodes
      /\ (\A i \in 1 .. Len(visited) : visited[i] = expected[i])
      /\ At(expected, Len(visited) + 1) = NULL
  BY TakenFacts DEF IterInv, IterTypes, Turn, AtTurn
<1>2. Len(visited) = Len(expected)
  <2> SUFFICES ASSUME Len(visited) + 1 \in 1 .. Len(expected)
               PROVE  FALSE
    BY <1>1
  <2>1. expected[Len(visited) + 1] \in Node
    BY <1>1 DEF Nodes
  <2> QED
    BY <1>1, <2>1, DistinctAddresses DEF At
<1> QED
  BY <1>1, <1>2 DEF Nodes

\* The loops that reset nothing end by their condition or by a break.
LEMMA LoopTestLeaves ==
  ASSUME IterInv, Idle, InLoop, loop # "unlink", at = "test", Leave, UNCHANGED vars
  PROVE  IterInv'
<1>1. /\ iter = NULL /\ UNCHANGED <<at, tree, iter, safe, expected, visited>>
      /\ loop' = IF loop = "safe_postorder" /\ link[tree]["root"] \in stale
                 THEN "torn" ELSE "none"
  BY DEF Leave
<1>2. IterTypes' /\ tree \in Tree
  BY <1>1 DEF IterInv, IterTypes, InLoop, Macro
<1>3. /\ Taken \in Nat /\ Len(visited) \in Nat /\ Len(expected) \in Nat
      /\ Len(visited) <= Len(expected)
  BY TakenFacts DEF IterInv
<1>4. Len(visited) = Len(expected)
  BY <1>1, AllVisited
<1>5. loop = "safe_postorder" => (link[tree]["root"] \in stale <=> Freeing)
  <2> SUFFICES ASSUME loop = "safe_postorder"
               PROVE  link[tree]["root"] \in stale <=> Freeing
    OBVIOUS
  <2>1. /\ Layout(expected, tree, owner, link, pf, Taken)
        /\ Freeing => \A i \in 1 .. Taken : expected[i] \in stale
    BY DEF IterInv, PostOrderKept
  <2>2. link[tree]["root"] = At(expected, Len(expected))
    BY <2>1 DEF Layout
  <2>3. CASE Freeing
    <3>1. Taken = Len(expected) /\ Len(expected) > 0
      BY <1>4, <2>3 DEF Taken, Freeing
    <3>2. Len(expected) \in 1 .. Taken
      BY <1>3, <3>1
    <3>3. expected[Len(expected)] \in stale /\ At(expected, Len(expected)) = expected[Len(expected)]
      BY <2>1, <2>3, <3>1, <3>2 DEF At
    <3> QED
      BY <2>2, <2>3, <3>3
  <2>4. CASE ~Freeing
    <3>1. Taken = 0
      BY <2>4 DEF Taken
    <3>2. \A i \in 1 .. Len(expected) : expected[i] \notin stale
      <4>1. \A i \in Taken + 1 .. Len(expected) : expected[i] \notin stale
        BY LoopAdvances
      <4> QED
        BY <1>3, <3>1, <4>1
    <3>3. NULL \notin stale
      <4>1. WorldOK
        BY <2>4 DEF IterInv, MemoryOK, Tearing
      <4> QED
        BY <4>1, DistinctAddresses DEF WorldOK, IInv, CallerOK
    <3> QED
      BY <2>2, <2>4, <3>2, <3>3 DEF At
  <2> QED
    BY <2>3, <2>4
<1>6. CASE Tearing
  <2>1. Freeing
    BY <1>6 DEF Tearing, InLoop, Macro
  <2>2. loop = "safe_postorder"
    BY <2>1 DEF Freeing
  <2>3. loop' = "torn"
    BY <1>1, <1>5, <2>1, <2>2
  <2> QED
    BY <1>1, <1>2, <1>6, <2>3, LoopTorn
<1>7. CASE ~Tearing
  <2>1. loop' = "none"
    BY <1>1, <1>5, <1>7 DEF Tearing
  <2>2. WorldOK'
    BY <1>7, WorldSame DEF IterInv, MemoryOK
  <2> QED
    BY <1>2, <2>1, <2>2, LoopOver
<1> QED
  BY <1>6, <1>7

LEMMA BodyBreaksKeeps ==
  ASSUME IterInv, BodyBreaks
  PROVE  IterInv'
<1>1. /\ Idle /\ InLoop /\ at = "body" /\ UNCHANGED <<vars, at, tree, iter, safe, expected, visited>>
      /\ loop' = IF loop = "unlink" \/ (loop = "safe_postorder" /\ visited[1] \in stale)
                 THEN "torn" ELSE "none"
  BY DEF BodyBreaks
<1>2. Len(visited) > 0
  BY <1>1, TakenFacts DEF IterInv
<1>3. IterTypes'
  BY <1>1 DEF IterInv, IterTypes, InLoop, Macro
<1>4. CASE Tearing
  <2>1. loop' = "torn"
    BY <1>1, <1>2, <1>4 DEF Tearing, InLoop, Macro, Freeing
  <2> QED
    BY <1>1, <1>3, <1>4, <2>1, LoopTorn
<1>5. CASE ~Tearing
  <2>1. loop' = "none"
    BY <1>1, <1>2, <1>5 DEF Tearing, Freeing
  <2>2. WorldOK'
    BY <1>1, <1>5, WorldSame DEF IterInv, MemoryOK
  <2> QED
    BY <1>3, <2>1, <2>2, LoopOver
<1> QED
  BY <1>4, <1>5

LEMMA TearDownKeeps ==
  ASSUME IterInv, TearDown
  PROVE  IterInv'
<1>1. /\ loop = "torn" /\ loop' = "none" /\ c_rbtree_init(tree)
      /\ UNCHANGED <<at, tree, iter, safe, expected, visited>>
  BY DEF TearDown
<1>2. TornOK
  BY <1>1 DEF IterInv, MemoryOK, Tearing
<1>3. /\ Idle /\ pf' = pf /\ UNCHANGED locals /\ link' = CutLink(link, tree)
      /\ owner' = DroppedOwners(owner, tree) /\ stale' = stale \cup Rest
  BY <1>1 DEF c_rbtree_init, CutLink, DroppedOwners, Rest
<1>4. WorldOK'
  BY <1>2, <1>3, TornEnds
<1>5. IterTypes'
  BY <1>1 DEF IterInv, IterTypes
<1> QED
  BY <1>1, <1>4, <1>5, LoopOver

LEMMA BuildKeeps ==
  ASSUME IterInv, Build
  PROVE  IterInv'
<1>1. loop = "none" /\ UNCHANGED iterator /\ Next
  BY DEF Build, Next
<1>2. WorldOK
  BY <1>1 DEF IterInv, MemoryOK, Tearing, Freeing
<1>3. WorldOK'
  BY <1>1, <1>2, WorldStays
<1>4. IterTypes' /\ loop' = "none"
  BY <1>1 DEF IterInv, IterTypes, iterator
<1> QED
  BY <1>3, <1>4, LoopOver

-----------------------------------------------------------------------------
(* Loops begin *)

\* One in order begins with the order of its tree.
LEMMA InOrderStarts ==
  ASSUME WorldOK, NEW t \in Tree, Idle
  PROVE  /\ Orders[t] = InOrder[link[t]["root"]] /\ Orders[t] \in Nodes /\ Distinct(Orders[t])
         /\ Remains(Orders[t], Orders[t], 0, 0)
         /\ c_rbtree_first(t) = At(Orders[t], 1)
         /\ c_rbnode_next(At(Orders[t], 1)) = At(Orders[t], 2)
<1>1. WorldKnown /\ TraversesInOrder /\ OrdersDistinct
  BY WorldIsKnown, StepsInOrder, OrdersAreDistinct DEF WorldOK
<1>2. /\ Orders[t] = InOrder[link[t]["root"]] /\ Orders[t] \in Nodes /\ Distinct(Orders[t])
      /\ Len(Orders[t]) \in Nat
  BY <1>1 DEF WorldKnown, OrdersKnown, OrdersDistinct, Nodes
<1>3. Remains(Orders[t], Orders[t], 0, 0)
  BY <1>2 DEF Remains
<1>4. Traverses(Orders[t], c_rbtree_first, c_rbnode_next, c_rbtree_last, c_rbnode_prev, t)
  BY <1>1, <1>2 DEF TraversesInOrder
<1>5. c_rbtree_first(t) = At(Orders[t], 1)
  BY <1>4 DEF Traverses
<1>6. c_rbnode_next(At(Orders[t], 1)) = At(Orders[t], 2)
  <2>1. CASE 1 \in 1 .. Len(Orders[t])
    <3>1. c_rbnode_next(Orders[t][1]) = At(Orders[t], 1 + 1)
      BY <2>1, <1>4 DEF Traverses
    <3> QED
      BY <2>1, <3>1 DEF At
  <2>2. CASE 1 \notin 1 .. Len(Orders[t])
    <3>1. At(Orders[t], 1) = NULL /\ At(Orders[t], 2) = NULL
      BY <1>2, <2>2 DEF At
    <3> QED
      BY <3>1 DEF c_rbnode_next, Linked
  <2> QED
    BY <2>1, <2>2
<1> QED
  BY <1>2, <1>3, <1>5, <1>6

\* One in post-order begins with the whole layout.
LEMMA PostOrderStarts ==
  ASSUME WorldOK, NEW t \in Tree, Idle, NEW E, E = PostOrder[link[t]["root"]]
  PROVE  /\ E \in Nodes /\ Distinct(E) /\ Layout(E, t, owner, link, pf, 0)
         /\ c_rbtree_first_postorder(t) = At(E, 1)
         /\ c_rbnode_next_postorder(At(E, 1)) = At(E, 2)
<1>1. /\ E \in Nodes /\ Distinct(E) /\ Layout(E, t, owner, link, pf, 0)
      /\ c_rbtree_first_postorder(t) = At(E, 1)
  BY PostOrderLayout DEF WorldOK
<1>2. LoopFree(link) /\ link \in Memory /\ Len(E) \in Nat
  BY <1>1, WorldIsKnown DEF WorldOK, WorldKnown, IInv, Sound, Nodes
<1>3. PICK lo : PostShape(E, t, link, pf, lo, 0)
  BY <1>1 DEF Layout
<1>4. c_rbnode_next_postorder(At(E, 1)) = At(E, 2)
  <2>1. CASE 1 \in 0 + 1 .. Len(E)
    <3>1. c_rbnode_next_postorder(E[1]) = At(E, 1 + 1)
      BY <1>1, <1>2, <1>3, <2>1, NextOfRest
    <3> QED
      BY <2>1, <3>1 DEF At
  <2>2. CASE 1 \notin 0 + 1 .. Len(E)
    <3>1. At(E, 1) = NULL /\ At(E, 2) = NULL
      BY <1>2, <2>2 DEF At
    <3> QED
      BY <3>1 DEF c_rbnode_next_postorder, Linked
  <2> QED
    BY <2>1, <2>2
<1> QED
  BY <1>1, <1>4

LEMMA LoopStartKeeps ==
  ASSUME IterInv, NEW m \in Macro, NEW t \in Tree, LoopStart(m, t)
  PROVE  IterInv'
<1>1. /\ Idle /\ loop = "none" /\ loop' = m /\ at' = "test" /\ tree' = t
      /\ iter' = First(m, t) /\ safe' = Keep(m, After(m, First(m, t)))
      /\ expected' = OrderOf(m, t) /\ visited' = <<>> /\ UNCHANGED vars
  BY DEF LoopStart
<1>2. WorldOK /\ WorldOK' /\ Orders' = Orders /\ pc' = "idle"
  BY <1>1, WorldSame DEF IterInv, MemoryOK, Tearing, Freeing, Idle, vars
<1>3. /\ Len(visited') = 0 /\ visited' \in Nodes /\ ~Freeing' /\ Taken' = 0
      /\ Tearing' <=> m = "unlink"
  BY <1>1 DEF Nodes, Freeing, Taken, Tearing, Macro
<1>4. /\ expected' \in Nodes /\ Distinct(expected')
      /\ First(m, t) = At(expected', 1) /\ After(m, First(m, t)) = At(expected', 2)
      /\ m \in {"each", "safe"} => Remains(Orders[t], expected', 0, 0)
      /\ m \notin {"each", "safe"} => Layout(expected', t, owner, link, pf, 0)
  <2>1. CASE m \in {"each", "safe"}
    <3>1. expected' = Orders[t]
      BY <1>1, <1>2, <2>1, InOrderStarts DEF OrderOf
    <3> QED
      BY <1>1, <1>2, <2>1, <3>1, InOrderStarts DEF First, After
  <2>2. CASE m \notin {"each", "safe"}
    <3>1. expected' = PostOrder[link[t]["root"]]
      BY <1>1, <2>2 DEF OrderOf
    <3> QED
      BY <1>1, <1>2, <2>2, <3>1, PostOrderStarts DEF First, After
  <2> QED
    BY <2>1, <2>2
<1>5. IterTypes'
  BY <1>1, <1>3, <1>4 DEF IterTypes
<1>6. Turn'
  <2>1. Len(expected') \in Nat
    BY <1>4 DEF Nodes
  <2> QED
    BY <1>1, <1>3, <1>4, <2>1 DEF Turn, AtTurn
<1>7. MemoryOK'
  <2>1. ASSUME m = "unlink"
        PROVE  TornOK'
    <3>1. WorldOK /\ Idle /\ tree \in Tree => TornOK
      BY WorldTears
    <3>2. (WorldOK /\ Idle /\ tree \in Tree => TornOK)'
      BY WorldTears, PTL
    <3>3. Idle' /\ tree' \in Tree
      BY <1>1, <1>2 DEF Idle
    <3> QED
      BY <1>2, <3>2, <3>3
  <2> QED
    BY <1>2, <1>3, <2>1 DEF MemoryOK
<1>8. InOrderKept'
  BY <1>1, <1>2, <1>3, <1>4 DEF InOrderKept
<1>9. PostOrderKept'
  <2>1. link' = link /\ pf' = pf /\ owner' = owner
    BY <1>1 DEF vars
  <2> QED
    BY <1>1, <1>2, <1>3, <1>4, <2>1 DEF PostOrderKept
<1>10. TornKept'
  BY <1>1 DEF TornKept, Macro
<1> QED
  BY <1>5, <1>6, <1>7, <1>8, <1>9, <1>10 DEF IterInv

-----------------------------------------------------------------------------
(* Nodes are taken *)

LEMMA OneTaken ==
  ASSUME NEW E \in Nodes, Distinct(E), NEW k \in Nat, k + 1 \in 1 .. Len(E)
  PROVE  {E[i] : i \in k + 1 .. Len(E)} \ {E[k + 1]} = {E[i] : i \in k + 1 + 1 .. Len(E)}
<1>1. Len(E) \in Nat
  BY DEF Nodes
<1>2. \A i \in k + 1 .. Len(E) : E[i] = E[k + 1] <=> i = k + 1
  <2>1. \A i \in k + 1 .. Len(E) : i \in 1 .. Len(E)
    BY <1>1
  <2> QED
    BY <2>1 DEF Distinct
<1>3. \A i : i \in k + 1 + 1 .. Len(E) <=> i \in k + 1 .. Len(E) /\ i # k + 1
  BY <1>1
<1> QED
  BY <1>2, <1>3

\* The next node of a loop that takes its tree apart is wiped.
LEMMA NextWiped ==
  ASSUME TornOK, Idle, tree \in Tree, tree' = tree, UNCHANGED locals,
         NEW E \in Nodes, Distinct(E), NEW k \in Nat, k + 1 \in 1 .. Len(E),
         Layout(E, tree, owner, link, pf, k), NEW v, Wipes(E[k + 1], v)
  PROVE  TornOK' /\ Layout(E, tree, owner', link', pf', k + 1)
<1>1. Rest = {E[i] : i \in k + 1 .. Len(E)}
  BY DEF Layout, Rest
<1>2. E[k + 1] \in Rest
  <2>1. k + 1 \in k + 1 .. Len(E)
    OBVIOUS
  <2> QED
    BY <1>1, <2>1
<1>3. TornOK' /\ Rest' = Rest \ {E[k + 1]} /\ SameIn(tree, owner', link, pf, link', pf')
  BY <1>2, WipingKeeps
<1>4. {E[i] : i \in k + 1 .. Len(E)} \ {E[k + 1]} = {E[i] : i \in k + 1 + 1 .. Len(E)}
  BY OneTaken
<1>5. {n \in Node : owner'[n] = tree} = {E[i] : i \in k + 1 + 1 .. Len(E)}
  <2>1. Rest' = {n \in Node : owner'[n] = tree}
    BY DEF Rest
  <2> QED
    BY <1>1, <1>3, <1>4, <2>1
<1>6. k + 1 \in Nat /\ k <= k + 1
  OBVIOUS
<1> QED
  BY <1>3, <1>5, <1>6, LayoutKept

LEMMA UnlinkLoopEnters ==
  ASSUME IterInv, LoopTestUnlink, Enter
  PROVE  IterInv'
<1> DEFINE k == Len(visited)
<1>1. /\ Idle /\ loop = "unlink" /\ at = "test" /\ InLoop
      /\ iter # NULL /\ loop' = loop /\ tree' = tree /\ expected' = expected /\ at' = "body"
      /\ UNCHANGED <<stale, locals>>
      /\ link' = [link EXCEPT ![iter] = NoLinks]
      /\ pf' = ResetWord(iter) /\ owner' = [owner EXCEPT ![iter] = NULL]
  BY DEF LoopTestUnlink, Enter, Leave, InLoop, Macro
<1>2. /\ AtTurn(loop', at', expected', visited', iter', safe')
      /\ visited' \in Nodes /\ Len(visited') = k + 1
      /\ k + 1 \in 1 .. Len(expected) /\ iter = expected[k + 1]
      /\ iter \in Node
  BY <1>1, TurnEnters DEF IterInv
<1>3. /\ TornOK /\ tree \in Tree /\ expected \in Nodes /\ Distinct(expected) /\ k \in Nat
      /\ Layout(expected, tree, owner, link, pf, k)
  BY <1>1, TakenFacts
     DEF IterInv, MemoryOK, Tearing, IterTypes, PostOrderKept, Taken
<1>4. Wipes(iter, [raw |-> iter, flags |-> {}])
  BY <1>1, <1>2 DEF Wipes, ResetWord, c_rbnode_set_parent_and_flags, Word
<1> HIDE DEF k
<1>5. TornOK' /\ Layout(expected, tree, owner', link', pf', k + 1)
  BY <1>1, <1>2, <1>3, <1>4, NextWiped
<1>6. IterTypes' /\ Turn'
  BY <1>1, <1>2 DEF IterInv, IterTypes, Turn
<1>7. Taken' = k + 1 /\ ~Freeing' /\ Tearing' /\ pc' = "idle"
  BY <1>1, <1>2 DEF Taken, Freeing, Tearing, Idle, locals
<1>8. MemoryOK' /\ InOrderKept' /\ PostOrderKept' /\ TornKept'
  BY <1>1, <1>5, <1>7 DEF MemoryOK, InOrderKept, PostOrderKept, TornKept
<1> QED
  BY <1>6, <1>8 DEF IterInv

\* When no node is left, the tree is reset.
LEMMA NoneLeft ==
  ASSUME IterInv, loop = "unlink", at = "test", iter = NULL
  PROVE  Rest = {}
<1>1. InLoop
  BY DEF InLoop, Macro
<1>2. Taken = Len(visited) /\ Len(visited) = Len(expected) /\ Len(expected) \in Nat
  BY <1>1, TakenFacts, AllVisited DEF IterInv, Taken
<1>3. Rest = {expected[i] : i \in Taken + 1 .. Len(expected)}
  BY DEF IterInv, PostOrderKept, Layout, Rest
<1>4. Taken + 1 .. Len(expected) = {}
  BY <1>2
<1> QED
  BY <1>3, <1>4

LEMMA UnlinkLoopLeaves ==
  ASSUME IterInv, LoopTestUnlink, Leave
  PROVE  IterInv'
<1>1. /\ Idle /\ loop = "unlink" /\ at = "test" /\ iter = NULL /\ loop' = "none"
      /\ UNCHANGED <<at, tree, iter, safe, expected, visited, pf, owner, stale, locals>>
      /\ link' = [link EXCEPT ![tree]["root"] = NULL]
  BY DistinctAddresses DEF LoopTestUnlink, Enter, Leave
<1>2. TornOK /\ tree \in Tree /\ Rest = {}
  BY <1>1, NoneLeft DEF IterInv, MemoryOK, Tearing, IterTypes
<1>3. link' = CutLink(link, tree)
  <2>1. link \in Memory /\ \A d \in Dir : link[tree][d] = NULL
    BY <1>2 DEF TornOK, Shaped
  <2>2. [link[tree] EXCEPT !["root"] = NULL] = NoLinks
    <3>1. link[tree] \in [Side -> Pointer]
      BY <1>2, <2>1 DEF Memory
    <3> QED
      BY <2>1, <3>1 DEF NoLinks, Dir, Side
  <2> QED
    BY <1>1, <2>1, <2>2 DEF CutLink
<1>4. owner' = DroppedOwners(owner, tree) /\ stale' = stale \cup Rest
  <2>1. \A n \in Node : owner[n] # tree
    BY <1>2 DEF Rest
  <2> QED
    BY <1>1, <1>2, <2>1 DEF DroppedOwners, TornOK, Owners
<1>5. WorldOK'
  BY <1>1, <1>2, <1>3, <1>4, TornEnds
<1>6. IterTypes'
  BY <1>1 DEF IterInv, IterTypes
<1> QED
  BY <1>1, <1>5, <1>6, LoopOver

\* A body of the loop that frees its nodes frees one.
LEMMA BodyFreesKeeps ==
  ASSUME IterInv, BodyFrees
  PROVE  IterInv'
<1> DEFINE k == Len(visited) - 1
<1>1. /\ Idle /\ loop = "safe_postorder" /\ at = "body" /\ owner[iter] = tree /\ InLoop
      /\ \A i \in 1 .. Len(visited) - 1 : visited[i] \in stale
      /\ link' = [link EXCEPT ![iter] = NoLinks]
      /\ pf' = c_rbnode_set_parent_and_flags(pf, iter, NULL, {})
      /\ owner' = [owner EXCEPT ![iter] = NULL] /\ stale' = stale \cup {iter}
      /\ UNCHANGED <<locals, iterator>>
  BY DEF BodyFrees, InLoop, Macro
<1>2. /\ Len(visited) \in Nat /\ Len(expected) \in Nat /\ Len(visited) <= Len(expected)
      /\ Len(visited) > 0 /\ tree \in Tree /\ expected \in Nodes /\ Distinct(expected)
      /\ \A i \in 1 .. Len(visited) : visited[i] = expected[i]
      /\ iter = expected[Len(visited)]
  BY <1>1, TakenFacts DEF IterInv, IterTypes, Turn, AtTurn
<1>3. /\ k \in Nat /\ k + 1 = Len(visited) /\ k + 1 \in 1 .. Len(expected)
      /\ \A i \in 1 .. k + 1 : expected[i] \in stale \/ i = k + 1
  BY <1>1, <1>2
<1>4. iter \in Node /\ tree # NULL
  BY <1>2, DistinctAddresses DEF Nodes
<1>5. TornOK
  <2>1. CASE Tearing
    BY <2>1 DEF IterInv, MemoryOK
  <2>2. CASE ~Tearing
    BY <1>1, <1>2, <2>2, WorldTears DEF IterInv, MemoryOK
  <2> QED
    BY <2>1, <2>2
<1>6. Taken = k
  <2>1. iter \notin stale
    BY <1>1, <1>4, <1>5 DEF TornOK
  <2>2. CASE Freeing
    BY <1>1, <2>1, <2>2 DEF Taken
  <2>3. CASE ~Freeing
    <3>1. visited[1] \notin stale
      BY <1>1, <1>2, <2>3 DEF Freeing
    <3>2. 1 \notin 1 .. Len(visited) - 1
      BY <1>1, <3>1
    <3>3. Len(visited) = 1
      <4>1. \A j \in Nat : j > 0 /\ 1 \notin 1 .. j - 1 => j = 1
        OBVIOUS
      <4>2. Len(visited) \in Nat /\ Len(visited) > 0
        BY <1>2
      <4> QED
        BY <3>2, <4>1, <4>2
    <3> QED
      BY <1>1, <2>3, <3>3 DEF Taken
  <2> QED
    BY <2>2, <2>3
<1>7. Layout(expected, tree, owner, link, pf, k)
  <2>1. Layout(expected, tree, owner, link, pf, Taken)
    BY <1>1, SMTT(20) DEF IterInv, PostOrderKept
  <2> QED
    BY <1>6, <2>1
<1>8. iter = expected[k + 1] /\ Wipes(iter, [raw |-> NULL, flags |-> {}])
  <2>1. [raw |-> NULL, flags |-> {}] \in Word
    BY DEF Word
  <2>2. Wipes(iter, [raw |-> NULL, flags |-> {}])
    BY <1>1, <2>1 DEF Wipes, c_rbnode_set_parent_and_flags
  <2> QED
    BY <1>1, <1>2, <1>3, <2>2
<1>9. /\ tree' = tree /\ loop' = loop /\ at' = at /\ iter' = iter /\ expected' = expected
      /\ visited' = visited /\ safe' = safe /\ UNCHANGED locals
  BY <1>1 DEF iterator
<1> HIDE DEF k
<1>10. TornOK' /\ Layout(expected, tree, owner', link', pf', k + 1)
  BY <1>1, <1>2, <1>3, <1>5, <1>7, <1>8, <1>9, NextWiped
<1>11. \A i \in 1 .. k + 1 : expected[i] \in stale'
  BY <1>1, <1>3, <1>8
<1>12. Freeing' /\ Taken' = k + 1 /\ Tearing' /\ pc' = "idle"
  <2>1. visited[1] \in stale'
    BY <1>2, <1>3, <1>11
  <2>2. Freeing'
    BY <1>1, <1>2, <1>9, <2>1 DEF Freeing
  <2> QED
    BY <1>1, <1>3, <1>9, <2>2 DEF Taken, Tearing, Idle, locals
<1>13. IterTypes' /\ Turn'
  BY <1>9 DEF IterInv, IterTypes, Turn, InLoop
<1>14. MemoryOK' /\ InOrderKept' /\ PostOrderKept' /\ TornKept'
  BY <1>1, <1>9, <1>10, <1>11, <1>12 DEF MemoryOK, InOrderKept, PostOrderKept, TornKept
<1> QED
  BY <1>13, <1>14 DEF IterInv

-----------------------------------------------------------------------------
(* Calls are made in a loop *)

\* In order: what the body does with the current node keeps those after it.
LEMMA InOrderGoesOn ==
  ASSUME IterInv, loop = "safe", at = "body", UNCHANGED iterator, Next, DoneTo(tree, iter),
         pc' = "successor" => victim' = iter
  PROVE  IterInv'
<1> DEFINE k == Len(visited)
<1>1. /\ loop' = loop /\ at' = at /\ tree' = tree /\ iter' = iter /\ safe' = safe
      /\ expected' = expected /\ visited' = visited
  BY DEF iterator
<1>2. /\ InLoop /\ ~Tearing /\ ~Tearing' /\ Taken = k /\ Taken' = k
  BY <1>1 DEF InLoop, Macro, Tearing, Freeing, Taken
<1>3. /\ k \in 1 .. Len(expected) /\ iter = expected[k] /\ expected \in Nodes /\ Distinct(expected)
      /\ tree \in Tree /\ iter \in Node /\ Len(expected) \in Nat /\ k \in Nat
  <2>1. /\ k \in 1 .. Len(expected) /\ iter = expected[k] /\ expected \in Nodes /\ Distinct(expected)
        /\ tree \in Tree /\ Len(expected) \in Nat /\ k \in Nat
    BY <1>2, TakenFacts DEF IterInv, IterTypes, Turn, AtTurn
  <2> QED
    BY <2>1 DEF Nodes
<1> HIDE DEF k
<1>4. WorldOK /\ WorldOK' /\ WorldKnown /\ WorldKnown'
  BY <1>2, WorldStays DEF IterInv, MemoryOK
<1>5. Orders'[tree] = Orders[tree] \/ Replaced(One(iter), None, Orders[tree], Orders'[tree])
  BY <1>3, <1>4, OrderAfter
<1>6. PICK b : Remains(Orders[tree], expected, k, b)
  BY <1>2 DEF IterInv, InOrderKept
<1>7. \E c : Remains(Orders'[tree], expected, k, c)
  <2>1. CASE Orders'[tree] = Orders[tree]
    BY <1>6, <2>1
  <2>2. CASE Replaced(One(iter), None, Orders[tree], Orders'[tree])
    <3>1. Orders[tree] \in Nodes /\ Orders'[tree] \in Nodes
      BY <1>3, <1>4 DEF WorldKnown, OrdersKnown
    <3>2. Remains(Orders'[tree], expected, k, b + 1)
      BY <1>3, <1>6, <2>2, <3>1, OneMoreGone
    <3> QED
      BY <3>2
  <2> QED
    BY <1>5, <2>1, <2>2
<1>8. InOrderKept'
  BY <1>1, <1>2, <1>7 DEF InOrderKept
<1>9. IterTypes' /\ Turn'
  BY <1>1 DEF IterInv, IterTypes, Turn, InLoop
<1>10. MemoryOK' /\ PostOrderKept' /\ TornKept'
  BY <1>1, <1>2, <1>4 DEF MemoryOK, PostOrderKept, TornKept
<1> QED
  BY <1>8, <1>9, <1>10 DEF IterInv

LEMMA BodyUnlinksKeeps ==
  ASSUME IterInv, BodyUnlinks
  PROVE  IterInv'
<1>1. loop = "safe" /\ at = "body" /\ owner[iter] = tree /\ Unlink(iter) /\ UNCHANGED iterator
  BY DEF BodyUnlinks
<1>2. InLoop
  BY <1>1 DEF InLoop, Macro
<1>3. iter \in Node
  <2>1. Len(visited) \in 1 .. Len(expected) /\ iter = expected[Len(visited)] /\ expected \in Nodes
    BY <1>1, <1>2, TakenFacts DEF IterInv, IterTypes, Turn, AtTurn
  <2> QED
    BY <2>1 DEF Nodes
<1>4. Next /\ DoneTo(tree, iter)
  BY <1>1, <1>3 DEF Next, DoneTo
<1>5. pc' = "successor" => victim' = iter
  BY <1>1 DEF Unlink, UnlinkLeaf, UnlinkOneChild, UnlinkFull, Unlinked, Return, RebalanceFrom
<1> QED
  BY <1>1, <1>4, <1>5, InOrderGoesOn

\* The steps of a call in progress on the tree of a loop, or after all loops.
LEMMA OwnCallsKeep ==
  ASSUME IterInv, Step, UNCHANGED iterator, loop # "unlink"
  PROVE  IterInv'
<1>1. pc # "idle" /\ Next
  BY DEF Step, PaintRoot, PaintDone, PaintRecolor, PaintRotate, PaintRotateTwice, WalkLeft,
         SpliceSuccessor, RebalanceEnd, RebalanceRecolor, RebalanceFound, RotateRedSibling,
         RotateRecolor, RotateSibling, RotateNephew, Reinit, Next
<1>2. pc' = "successor" => pc = "successor" /\ victim' = victim
  BY DEF Step, PaintRoot, PaintDone, PaintRecolor, PaintRotate, PaintRotateTwice, WalkLeft,
         SpliceSuccessor, RebalanceEnd, RebalanceRecolor, RebalanceFound, RotateRedSibling,
         RotateRecolor, RotateSibling, RotateNephew, Reinit, Continue, Return, Unlinked, RebalanceFrom
<1>3. CASE loop = "none"
  <2>1. WorldOK
    BY <1>3 DEF IterInv, MemoryOK, Tearing, Freeing
  <2>2. WorldOK'
    BY <1>1, <2>1, WorldStays
  <2>3. IterTypes' /\ loop' = "none"
    BY <1>3 DEF IterInv, IterTypes, iterator
  <2> QED
    BY <2>2, <2>3, LoopOver
<1>4. CASE loop \in {"each", "safe"}
  <2>1. loop = "safe" /\ at = "body" /\ (pc = "successor" => victim = iter)
    BY <1>1, <1>4 DEF IterInv, InOrderKept
  <2>2. DoneTo(tree, iter)
    BY <2>1 DEF DoneTo
  <2> QED
    BY <1>1, <1>2, <2>1, <2>2, InOrderGoesOn
<1>5. loop \notin {"postorder", "safe_postorder"}
  BY <1>1 DEF IterInv, PostOrderKept
<1>6. CASE loop = "torn"
  BY <1>1, <1>6 DEF IterInv, TornKept, Idle
<1> QED
  BY <1>3, <1>4, <1>5, <1>6 DEF IterInv, IterTypes, Macro

\* The steps of a loop and of its body but those of calls in progress, and but
\* calls that put the current node into another tree.
OwnSteps ==
  \/ \E m \in Macro, t \in Tree : LoopStart(m, t)
  \/ LoopTest \/ LoopTestUnlink \/ LoopNext
  \/ BodyEnds \/ BodyUnlinks \/ BodyFrees \/ BodyBreaks
  \/ TearDown \/ Build
  \/ UNCHANGED allvars

LEMMA OwnStepsKeep ==
  ASSUME IterInv, OwnSteps
  PROVE  IterInv'
<1>1. ASSUME NEW m \in Macro, NEW t \in Tree, LoopStart(m, t)
      PROVE  IterInv'
  BY <1>1, LoopStartKeeps
<1>2. CASE LoopTest
  <2>1. Idle /\ InLoop /\ loop # "unlink" /\ at = "test" /\ (Enter \/ Leave) /\ UNCHANGED vars
    BY <1>2 DEF LoopTest
  <2> QED
    BY <2>1, LoopTestEnters, LoopTestLeaves
<1>3. CASE LoopTestUnlink
  <2>1. Enter \/ Leave
    BY <1>3 DEF LoopTestUnlink
  <2> QED
    BY <1>3, <2>1, UnlinkLoopEnters, UnlinkLoopLeaves
<1>4. CASE LoopNext
  BY <1>4, LoopNextKeeps
<1>5. CASE BodyEnds
  BY <1>5, BodyEndsKeeps
<1>6. CASE BodyUnlinks
  BY <1>6, BodyUnlinksKeeps
<1>7. CASE BodyFrees
  BY <1>7, BodyFreesKeeps
<1>8. CASE BodyBreaks
  BY <1>8, BodyBreaksKeeps
<1>9. CASE TearDown
  BY <1>9, TearDownKeeps
<1>10. CASE Build
  BY <1>10, BuildKeeps
<1>11. CASE UNCHANGED allvars
  BY <1>11, NothingKeeps
<1> QED
  BY <1>1, <1>2, <1>3, <1>4, <1>5, <1>6, <1>7, <1>8, <1>9, <1>10, <1>11 DEF OwnSteps
=============================================================================
