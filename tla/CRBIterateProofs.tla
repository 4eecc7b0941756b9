-------------------------- MODULE CRBIterateProofs --------------------------
(***************************************************************************)
(* The loop macros visit what they promise.  CRBLoopProofs has what they   *)
(* and their bodies do to the tree of the loop.  Here are the calls on     *)
(* other trees while a loop takes its tree apart, as if the tree had been  *)
(* given up: the lemmas about CRBTree hold for the other trees, and the    *)
(* rest of the tree is nodes that no call writes to.                       *)
(***************************************************************************)
EXTENDS CRBLoopProofs

-----------------------------------------------------------------------------
(* The other trees while a loop takes its tree apart *)

\* The state after a call of c_rbtree_init on the tree of the loop.
Cut == INSTANCE CRBMapProofs WITH
  link  <- CutLink(link, tree),
  owner <- DroppedOwners(owner, tree),
  stale <- stale \cup Rest

\* A memory is right for the instance if it is right.
LEMMA SameQuiet ==
  ASSUME NEW o, NEW m, NEW w, NEW st, NEW q
  PROVE  Cut!Quiet(o, m, w, st, q) <=> Quiet(o, m, w, st, q)
<1>1. Cut!Sound(o, m, w) <=> Sound(o, m, w)
  BY DEF Sound, Cut!Sound, Memory, Cut!Memory, Side, Cut!Side, Pointer, Cut!Pointer,
         Shaped, Cut!Shaped, Dir, Cut!Dir, Word, Cut!Word, Owners, Cut!Owners,
         C_RBNODE_RED, Cut!C_RBNODE_RED, C_RBNODE_ROOT, Cut!C_RBNODE_ROOT,
         Consistent, Cut!Consistent, ChildrenKnowParent, Cut!ChildrenKnowParent,
         ParentsKnowChild, Cut!ParentsKnowChild, Holder, Cut!Holder, Owned, Cut!Owned,
         Home, Cut!Home, c_rbnode_raw, Cut!c_rbnode_raw, c_rbnode_is_root, Cut!c_rbnode_is_root
<1>2. Cut!RedsBelowBlacks(o, w, q) <=> RedsBelowBlacks(o, w, q)
  BY DEF RedsBelowBlacks, Cut!RedsBelowBlacks, Owned, Cut!Owned,
         c_rbnode_is_red, Cut!c_rbnode_is_red, c_rbnode_is_black, Cut!c_rbnode_is_black,
         c_rbnode_is_root, Cut!c_rbnode_is_root, c_rbnode_raw, Cut!c_rbnode_raw,
         C_RBNODE_RED, Cut!C_RBNODE_RED, C_RBNODE_ROOT, Cut!C_RBNODE_ROOT
<1>3. Cut!Balanced(o, m, w, NULL, "left") <=> Balanced(o, m, w, NULL, "left")
  BY DEF Balanced, Cut!Balanced, Heights, Cut!Heights, HeightsAgree, Cut!HeightsAgree,
         Owned, Cut!Owned, Dir, Cut!Dir, HeightOf, Cut!HeightOf, Black, Cut!Black,
         c_rbnode_is_black, Cut!c_rbnode_is_black, C_RBNODE_RED, Cut!C_RBNODE_RED
<1>4. Cut!NoLoops(m) <=> NoLoops(m)
  BY DEF NoLoops, Cut!NoLoops, Dir, Cut!Dir
<1>5. /\ Cut!NoLinks = NoLinks /\ Cut!Owned(o) = Owned(o)
      /\ \A n : Cut!c_rbnode_is_root(w, n) <=> c_rbnode_is_root(w, n)
      /\ Cut!c_rbnode_is_red(w, q) <=> c_rbnode_is_red(w, q)
  BY DEF NoLinks, Cut!NoLinks, Side, Cut!Side, Owned, Cut!Owned,
         c_rbnode_is_root, Cut!c_rbnode_is_root, c_rbnode_is_red, Cut!c_rbnode_is_red,
         C_RBNODE_RED, Cut!C_RBNODE_RED, C_RBNODE_ROOT, Cut!C_RBNODE_ROOT
<1> QED
  BY <1>1, <1>2, <1>3, <1>4, <1>5 DEF Quiet, Cut!Quiet

\* So is a state.
LEMMA CutQuietMeans == CutQuiet <=> Cut!QuietState
<1>1. (Cut!LocalsOK <=> LocalsOK) /\ Cut!Painted = Painted
  BY DEF LocalsOK, Cut!LocalsOK, Pointer, Cut!Pointer, Painted, Cut!Painted
<1> QED
  BY <1>1, SameQuiet DEF CutQuiet, Cut!QuietState

\* Its steps keep it, and the nodes outside of the other trees too.
LEMMA CutSteps ==
  ASSUME CutQuiet, [Cut!Next]_(Cut!vars), pc' \in {"idle", "paint"}
  PROVE  CutQuiet' /\ Cut!FreeNodesKept
<1>1. Cut!QuietState
  BY CutQuietMeans
<1>2. /\ Cut!Quiet(DroppedOwners(owner', tree'), CutLink(link', tree'), pf', stale' \cup Rest',
                   IF pc' = "paint" THEN cur' ELSE NULL)
      /\ (Cut!LocalsOK)' /\ (pc' = "paint" => cur' # NULL)
      /\ Cut!FreeNodesKept
  BY <1>1, Cut!QuietSteps, DistinctAddresses, RemovalsAreCalls, KeysAreIntegers, NodesAreFinite,
     StoreOrderIsBoolean, BoundOverlapIsBoolean, MaxOverlapIsNatural
     DEF APICall, Cut!APICall, IsFiniteSet, Cut!IsFiniteSet
<1>3. Quiet(DroppedOwners(owner', tree'), CutLink(link', tree'), pf', stale' \cup Rest',
            IF pc' = "paint" THEN cur' ELSE NULL)
  BY <1>2, SameQuiet
<1>4. LocalsOK'
  BY <1>2 DEF LocalsOK, Cut!LocalsOK, Pointer, Cut!Pointer
<1> QED
  BY <1>2, <1>3, <1>4 DEF CutQuiet, Painted

\* The operators of the instance that read no field are those of CRBTree.
LEMMA SameOperators ==
  /\ \A w, n : Cut!c_rbnode_parent(w, n) = c_rbnode_parent(w, n)
  /\ \A w, n : Cut!c_rbnode_raw(w, n) = c_rbnode_raw(w, n)
  /\ \A w, n : Cut!c_rbnode_flags(w, n) = c_rbnode_flags(w, n)
  /\ \A w, n : Cut!c_rbnode_is_black(w, n) <=> c_rbnode_is_black(w, n)
  /\ \A w, n, p, f : Cut!c_rbnode_set_parent_and_flags(w, n, p, f)
                       = c_rbnode_set_parent_and_flags(w, n, p, f)
  /\ \A w, x, p, c : Cut!Reparent(w, x, p, c) = Reparent(w, x, p, c)
  /\ \A w, n, t : Cut!c_rbnode_push_root(w, n, t) = c_rbnode_push_root(w, n, t)
  /\ \A w, x : Cut!RedNode(w, x) <=> RedNode(w, x)
  /\ \A d : Cut!Other(d) = Other(d)
  /\ \A m, p, n : Cut!SideOf(m, p, n) = SideOf(m, p, n)
  /\ Cut!C_RBNODE_RED = C_RBNODE_RED /\ Cut!NoLinks = NoLinks /\ Cut!Dir = Dir
  /\ Cut!Idle <=> Idle
BY DEF Cut!c_rbnode_parent, c_rbnode_parent, Cut!c_rbnode_raw, c_rbnode_raw, Cut!c_rbnode_flags,
       c_rbnode_flags, Cut!c_rbnode_is_black, c_rbnode_is_black,
       Cut!c_rbnode_set_parent_and_flags, c_rbnode_set_parent_and_flags, Cut!Reparent, Reparent,
       Cut!c_rbnode_push_root, c_rbnode_push_root, Cut!RedNode, RedNode, Cut!c_rbnode_is_red,
       c_rbnode_is_red, Cut!Other, Other, Cut!SideOf, SideOf, Cut!C_RBNODE_RED, C_RBNODE_RED,
       Cut!C_RBNODE_ROOT, C_RBNODE_ROOT, Cut!NoLinks, NoLinks, Cut!Side, Side, Cut!Dir, Dir,
       Cut!Idle, Idle, Cut!c_rbnode_is_root, c_rbnode_is_root

LEMMA SameSurgery ==
  /\ \A m, w, a, b : Cut!PutInPlace(m, w, a, b) = PutInPlace(m, w, a, b)
  /\ \A m, w, p, g, d : Cut!RotateGrandparentWord(m, w, p, g, d) = RotateGrandparentWord(m, w, p, g, d)
  /\ \A m, p, g, d : Cut!RotateGrandparentLink(m, p, g, d) = RotateGrandparentLink(m, p, g, d)
<1>1. \A m, w, a, b : Cut!PutInPlace(m, w, a, b) = PutInPlace(m, w, a, b)
  BY DEF PutInPlace, Cut!PutInPlace, SideOf, Cut!SideOf, c_rbnode_is_root, Cut!c_rbnode_is_root,
         C_RBNODE_ROOT, Cut!C_RBNODE_ROOT
<1>2. \A w, n : Cut!RootOf(w, n) = RootOf(w, n) /\ Cut!c_rbnode_pop_root(w, n) = c_rbnode_pop_root(w, n)
  BY DEF RootOf, Cut!RootOf, c_rbnode_pop_root, Cut!c_rbnode_pop_root, c_rbnode_is_root,
         Cut!c_rbnode_is_root, c_rbnode_raw, Cut!c_rbnode_raw, c_rbnode_flags, Cut!c_rbnode_flags,
         c_rbnode_set_parent_and_flags, Cut!c_rbnode_set_parent_and_flags,
         C_RBNODE_ROOT, Cut!C_RBNODE_ROOT
<1>3. \A m, w, p, g, d : Cut!RotateGrandparentWord(m, w, p, g, d) = RotateGrandparentWord(m, w, p, g, d)
  <2>1. SUFFICES ASSUME NEW m, NEW w, NEW p, NEW g, NEW d
                 PROVE  Cut!RotateGrandparentWord(m, w, p, g, d) = RotateGrandparentWord(m, w, p, g, d)
    OBVIOUS
  <2> DEFINE t  == RootOf(w, g)
             gg == c_rbnode_parent(w, g)
             w1 == c_rbnode_pop_root(w, g)
             w2 == Reparent(w1, m[p][Other(d)], g, {C_RBNODE_RED})
             w3 == Reparent(w2, p, gg, {C_RBNODE_RED})
             w4 == c_rbnode_set_parent_and_flags(w3, g, p, c_rbnode_flags(w3, g) \cup {C_RBNODE_RED})
  <2>2. Cut!RootOf(w, g) = t /\ Cut!c_rbnode_parent(w, g) = gg /\ Cut!c_rbnode_pop_root(w, g) = w1
    BY <1>2, SameOperators
  <2>3. Cut!Reparent(w1, m[p][Cut!Other(d)], g, {Cut!C_RBNODE_RED}) = w2
    BY SameOperators
  <2>4. Cut!Reparent(w2, p, gg, {Cut!C_RBNODE_RED}) = w3
    BY SameOperators
  <2>5. Cut!c_rbnode_set_parent_and_flags(w3, g, p, Cut!c_rbnode_flags(w3, g) \cup {Cut!C_RBNODE_RED}) = w4
    BY SameOperators
  <2>6. Cut!c_rbnode_push_root(w4, p, t) = c_rbnode_push_root(w4, p, t)
    BY SameOperators
  <2>7. RotateGrandparentWord(m, w, p, g, d) = c_rbnode_push_root(w4, p, t)
    BY DEF RotateGrandparentWord
  <2> HIDE DEF t, gg, w1, w2, w3, w4
  <2> QED
    BY <2>2, <2>3, <2>4, <2>5, <2>6, <2>7 DEF Cut!RotateGrandparentWord
<1>4. \A m, p, g, d : Cut!RotateGrandparentLink(m, p, g, d) = RotateGrandparentLink(m, p, g, d)
  <2>1. SUFFICES ASSUME NEW m, NEW p, NEW g, NEW d
                 PROVE  Cut!RotateGrandparentLink(m, p, g, d) = RotateGrandparentLink(m, p, g, d)
    OBVIOUS
  <2>2. Cut!Other(d) = Other(d)
    BY SameOperators
  <2> DEFINE m1 == [m EXCEPT ![g][d] = m[p][Other(d)], ![p][Other(d)] = g]
  <2>3. Cut!RotateGrandparentLink(m, p, g, d) = Cut!PutInPlace(m1, pf, g, p)
    BY <2>2, Zenon DEF Cut!RotateGrandparentLink
  <2>4. RotateGrandparentLink(m, p, g, d) = PutInPlace(m1, pf, g, p)
    BY Zenon DEF RotateGrandparentLink
  <2> HIDE DEF m1
  <2> QED
    BY <1>1, <2>3, <2>4
<1> QED
  BY <1>1, <1>3, <1>4

\* A body that links a node elsewhere does to the other trees what it does.
LEMMA ElsewhereIsCut ==
  ASSUME TornOK, tree \in Tree, tree' = tree, NEW n \in Node,
         \/ \E t \in Tree \ {tree} : AddRoot(t, n)
         \/ \E p \in Node, d \in Dir : owner[p] # tree /\ Link(p, d, n)
  PROVE  /\ Cut!Next /\ pc' = "paint" /\ Without(link', CutLink(link', tree))
         /\ Rest' = Rest /\ SameIn(tree, owner', link, pf, link', pf')
         /\ owner' \in Owners /\ \A k \in stale' : owner'[k] = NULL
<1> DEFINE m == CutLink(link, tree)
           o == DroppedOwners(owner, tree)
<1>1. /\ link \in Memory /\ owner \in Owners /\ pf \in Words /\ (\A k \in stale : owner[k] = NULL)
      /\ Without(link, m) /\ Node \cap Tree = {} /\ NULL \notin Tree /\ NULL \notin Node
      /\ stale \subseteq Node
  BY WithoutNow, DistinctAddresses DEF TornOK, CutQuiet, Quiet, Sound, Words
<1>2. /\ DOMAIN owner = Node /\ DOMAIN pf = Node /\ DOMAIN link = Node \cup Tree
      /\ o = [k \in Node |-> IF owner[k] = tree THEN NULL ELSE owner[k]]
  BY <1>1 DEF Owners, Words, Memory, DroppedOwners
<1> HIDE DEF m, o
<1>3. ASSUME NEW t \in Tree \ {tree}, AddRoot(t, n)
      PROVE  /\ Cut!AddRoot(t, n) /\ pc' = "paint" /\ Without(link', CutLink(link', tree))
             /\ Rest' = Rest /\ SameIn(tree, owner', link, pf, link', pf')
             /\ owner' \in Owners /\ \A k \in stale' : owner'[k] = NULL
  <2>1. /\ Idle /\ owner[n] = NULL /\ link[t]["root"] = NULL
        /\ link' = [link EXCEPT ![n] = NoLinks, ![t]["root"] = n]
        /\ pf' = c_rbnode_push_root(c_rbnode_set_parent_and_flags(pf, n, NULL, {C_RBNODE_RED}), n, t)
        /\ owner' = [owner EXCEPT ![n] = t] /\ stale' = stale \ {n} /\ prev' = NULL
        /\ pc' = "paint" /\ cur' = n /\ UNCHANGED <<call, victim>>
    BY <1>3 DEF AddRoot, Continue
  <2>2. Without(link', [m EXCEPT ![n] = NoLinks, ![t]["root"] = n])
    <3>1. n \in Node \cup Tree /\ n # tree /\ t \in Node \cup Tree /\ t # tree
      BY <1>1
    <3>2. Without(link, m)
      BY <1>1
    <3>3. Without([link EXCEPT ![n] = NoLinks, ![t]["root"] = n],
                  [m EXCEPT ![n] = NoLinks, ![t]["root"] = n])
      BY <3>1, <3>2, PutTwiceWithout
    <3>4. link' = [link EXCEPT ![n] = NoLinks, ![t]["root"] = n]
      BY <2>1
    <3> QED
      BY <3>3, <3>4, Zenon
  <2>3. CutLink(link', tree) = [m EXCEPT ![n] = NoLinks, ![t]["root"] = n]
    BY <2>2 DEF Without
  <2>4. m[t] = link[t]
    BY <1>1, PutWithout
  <2>5. /\ Rest' = Rest /\ n \notin Rest
        /\ DroppedOwners(owner', tree) = [o EXCEPT ![n] = t] /\ o[n] = NULL
    BY <1>1, <1>2, <2>1 DEF Rest, DroppedOwners
  <2>6. (stale \cup Rest)' = (stale \cup Rest) \ {n}
    BY <2>1, <2>5
  <2>7. Cut!AddRoot(t, n)
    BY <2>1, <2>3, <2>4, <2>5, <2>6, SameOperators DEF Cut!AddRoot, Cut!Continue, m, o
  <2>8. \A k \in Node : k # n => link'[k] = link[k] /\ pf'[k] = pf[k]
    BY <1>1, <1>2, <2>1 DEF c_rbnode_push_root, c_rbnode_set_parent_and_flags
  <2>9. SameIn(tree, owner', link, pf, link', pf')
    BY <1>1, <1>2, <2>1, <2>8 DEF SameIn
  <2>10. owner' \in Owners /\ \A k \in stale' : owner'[k] = NULL
    BY <1>1, <1>2, <2>1 DEF Owners
  <2> QED
    BY <2>1, <2>2, <2>3, <2>5, <2>7, <2>9, <2>10
<1>4. ASSUME NEW p \in Node, NEW d \in Dir, owner[p] # tree, Link(p, d, n)
      PROVE  /\ Cut!Link(p, d, n) /\ pc' = "paint" /\ Without(link', CutLink(link', tree))
             /\ Rest' = Rest /\ SameIn(tree, owner', link, pf, link', pf')
             /\ owner' \in Owners /\ \A k \in stale' : owner'[k] = NULL
  <2>1. /\ Idle /\ owner[n] = NULL /\ owner[p] # NULL /\ link[p][d] = NULL
        /\ link' = [link EXCEPT ![n] = NoLinks, ![p][d] = n]
        /\ pf' = c_rbnode_set_parent_and_flags(pf, n, p, {C_RBNODE_RED})
        /\ owner' = [owner EXCEPT ![n] = owner[p]] /\ stale' = stale \ {n} /\ prev' = NULL
        /\ pc' = "paint" /\ cur' = n /\ UNCHANGED <<call, victim>>
    BY <1>4 DEF Link, Continue
  <2>2. Without(link', [m EXCEPT ![n] = NoLinks, ![p][d] = n])
    <3>1. n \in Node \cup Tree /\ n # tree /\ p \in Node \cup Tree /\ p # tree
      BY <1>1
    <3>2. Without(link, m)
      BY <1>1
    <3>3. Without([link EXCEPT ![n] = NoLinks, ![p][d] = n], [m EXCEPT ![n] = NoLinks, ![p][d] = n])
      BY <3>1, <3>2, PutTwiceWithout
    <3>4. link' = [link EXCEPT ![n] = NoLinks, ![p][d] = n]
      BY <2>1
    <3> QED
      BY <3>3, <3>4, Zenon
  <2>3. CutLink(link', tree) = [m EXCEPT ![n] = NoLinks, ![p][d] = n]
    BY <2>2 DEF Without
  <2>4. m[p] = link[p]
    BY <1>1, PutWithout
  <2>5. /\ Rest' = Rest /\ n \notin Rest /\ o[p] = owner[p]
        /\ DroppedOwners(owner', tree) = [o EXCEPT ![n] = owner[p]] /\ o[n] = NULL
    BY <1>1, <1>2, <1>4, <2>1 DEF Rest, DroppedOwners
  <2>6. (stale \cup Rest)' = (stale \cup Rest) \ {n}
    BY <2>1, <2>5
  <2>7. Cut!Link(p, d, n)
    BY <2>1, <2>3, <2>4, <2>5, <2>6, SameOperators DEF Cut!Link, Cut!Continue, m, o
  <2>8. /\ \A k \in Node : k # n => pf'[k] = pf[k]
        /\ \A k \in Node : k # n /\ k # p => link'[k] = link[k]
        /\ link'[tree] = link[tree]
    BY <1>1, <1>2, <2>1 DEF c_rbnode_set_parent_and_flags
  <2>9. SameIn(tree, owner', link, pf, link', pf')
    BY <1>1, <1>2, <1>4, <2>1, <2>8 DEF SameIn
  <2>10. owner' \in Owners /\ \A k \in stale' : owner'[k] = NULL
    BY <1>1, <1>2, <2>1 DEF Owners
  <2> QED
    BY <2>1, <2>2, <2>3, <2>5, <2>7, <2>9, <2>10
<1> QED
  BY <1>3, <1>4, SameOperators DEF Cut!Next

\* The nodes c_rbtree_paint_path looks at are not in the tree of the loop, nor is
\* its root.
LEMMA PaintedElsewhere ==
  ASSUME TornOK, tree \in Tree, pc = "paint"
  PROVE  LET p == c_rbnode_parent(pf, cur)
             g == c_rbnode_parent(pf, p)
             m == CutLink(link, tree)
         IN  /\ cur \in Node /\ m[cur] = link[cur]
             /\ p # NULL => p \in Node /\ m[p] = link[p]
             /\ RedNode(pf, p) =>
                  /\ g \in Node /\ m[g] = link[g]
                  /\ pf[g].raw \in Node \cup Tree /\ pf[g].raw # tree
<1> DEFINE p == c_rbnode_parent(pf, cur)
           g == c_rbnode_parent(pf, p)
           m == CutLink(link, tree)
           o == DroppedOwners(owner, tree)
<1>1. /\ Sound(o, m, pf) /\ RedsBelowBlacks(o, pf, cur) /\ cur \in Owned(o) /\ cur # NULL
      /\ Without(link, m)
  BY WithoutNow DEF TornOK, CutQuiet, Quiet, Painted
<1>2. m[tree] = NoLinks /\ \A x \in Node : m[x] = link[x]
  BY <1>1, DistinctAddresses DEF TornOK, Memory, CutLink
<1> HIDE DEF m, o
<1>3. cur \in Node
  BY <1>1 DEF Owned
<1>4. ASSUME p # NULL
      PROVE  p \in Owned(o) /\ p \in Node /\ p # cur
  BY <1>1, <1>4, ParentFacts DEF c_rbnode_parent
<1>5. ASSUME RedNode(pf, p)
      PROVE  /\ g \in Node /\ pf[g].raw \in Node \cup Tree /\ pf[g].raw # tree
  <2>1. p \in Owned(o) /\ p # cur /\ c_rbnode_is_red(pf, p)
    BY <1>4, <1>5 DEF RedNode
  <2>2. ~c_rbnode_is_root(pf, p)
    BY <1>1, <2>1 DEF RedsBelowBlacks
  <2>3. g = pf[p].raw /\ g \in Owned(o) /\ g \in Node
    BY <1>1, <2>1, <2>2, ParentFacts DEF c_rbnode_parent
  <2>4. CASE c_rbnode_is_root(pf, g)
    <3>1. pf[g].raw \in Tree /\ m[pf[g].raw]["root"] = g /\ g # NULL
      BY <1>1, <2>3, <2>4, ParentFacts
    <3>2. NoLinks["root"] = NULL
      BY DEF NoLinks, Side
    <3> QED
      BY <1>2, <2>3, <3>1, <3>2
  <2>5. CASE ~c_rbnode_is_root(pf, g)
    BY <1>1, <2>3, <2>5, ParentFacts, DistinctAddresses
  <2> QED
    BY <2>3, <2>4, <2>5
<1> QED
  BY <1>2, <1>3, <1>4, <1>5 DEF m

\* A step of the call that links it does to the other trees what it does.
LEMMA PaintIsCut ==
  ASSUME TornOK, tree \in Tree, tree' = tree, pc = "paint", Step
  PROVE  /\ Cut!Next /\ pc' \in {"idle", "paint"} /\ Without(link', CutLink(link', tree))
         /\ owner' = owner /\ stale' = stale
<1> DEFINE p == c_rbnode_parent(pf, cur)
           g == c_rbnode_parent(pf, p)
           u == Uncle(cur)
           d == SideOf(link, g, p)
           m == CutLink(link, tree)
<1>1. /\ cur \in Node /\ m[cur] = link[cur]
      /\ p # NULL => p \in Node /\ m[p] = link[p]
      /\ RedNode(pf, p) => /\ g \in Node /\ m[g] = link[g]
                           /\ pf[g].raw \in Node \cup Tree /\ pf[g].raw # tree
  BY PaintedElsewhere
<1>2. Without(link, m) /\ Node \cap Tree = {} /\ NULL \notin Node
  BY WithoutNow, DistinctAddresses DEF TornOK
<1>3. /\ Cut!Grandparent(cur) = g /\ Grandparent(cur) = g
      /\ Cut!RedParent(cur) <=> RedNode(pf, p)
      /\ RedParent(cur) <=> RedNode(pf, p)
  BY SameOperators DEF Cut!Grandparent, Grandparent, Cut!RedParent, RedParent
<1>4. RedNode(pf, p) => /\ p \in Node /\ Cut!Uncle(cur) = u /\ SideOf(m, g, p) = d
                        /\ u = link[g][Other(d)]
  <2>1. SUFFICES ASSUME RedNode(pf, p)
                 PROVE  p \in Node /\ Cut!Uncle(cur) = u /\ SideOf(m, g, p) = d /\ u = link[g][Other(d)]
    OBVIOUS
  <2>2. p \in Node /\ m[g] = link[g]
    BY <1>1, <2>1 DEF RedNode
  <2>3. SideOf(m, g, p) = d
    BY <2>2 DEF SideOf
  <2>4. u = link[g][Other(d)] /\ Cut!Uncle(cur) = m[g][Other(SideOf(m, g, p))]
    BY <1>3, SameOperators DEF Uncle, Cut!Uncle
  <2> QED
    BY <2>2, <2>3, <2>4
<1> HIDE DEF p, g, u, d, m
<1>5. CASE PaintRoot
  <2>1. /\ c_rbnode_parent(pf, cur) = NULL /\ Return /\ UNCHANGED <<link, owner, stale>>
        /\ pf' = c_rbnode_set_parent_and_flags(pf, cur, c_rbnode_raw(pf, cur),
                                   c_rbnode_flags(pf, cur) \ {C_RBNODE_RED})
    BY <1>5 DEF PaintRoot, caller
  <2>2. Cut!PaintRoot
    BY <2>1, SameOperators DEF Cut!PaintRoot, Cut!Return, Return, Cut!caller, Rest
  <2>3. pc' = "idle" /\ link' = link
    BY <2>1 DEF Return
  <2> QED
    BY <1>2, <2>1, <2>2, <2>3 DEF Cut!Next, Cut!Step, m
<1>6. CASE PaintDone
  <2>1. /\ c_rbnode_parent(pf, cur) # NULL /\ c_rbnode_is_black(pf, c_rbnode_parent(pf, cur))
        /\ Return /\ UNCHANGED <<link, pf, owner, stale>>
    BY <1>6 DEF PaintDone, caller, memory
  <2>2. Cut!PaintDone
    BY <2>1, SameOperators DEF Cut!PaintDone, Cut!Return, Return, Cut!caller, Cut!memory, Rest
  <2>3. pc' = "idle" /\ link' = link
    BY <2>1 DEF Return
  <2> QED
    BY <1>2, <2>1, <2>2, <2>3 DEF Cut!Next, Cut!Step, m
<1>7. CASE PaintRecolor
  <2> DEFINE w1 == Reparent(pf, p, g, {C_RBNODE_RED})
             w2 == Reparent(w1, u, g, {C_RBNODE_RED})
  <2>1. /\ RedNode(pf, p) /\ RedNode(pf, u) /\ UNCHANGED <<link, owner, stale, prev, call, victim>>
        /\ pc' = "paint" /\ cur' = g
        /\ pf' = c_rbnode_set_parent_and_flags(w2, g, c_rbnode_raw(w2, g),
                               c_rbnode_flags(w2, g) \cup {C_RBNODE_RED})
    BY <1>3, <1>7 DEF PaintRecolor, caller, Continue, p, u
  <2>2. Cut!Grandparent(cur) = g /\ Cut!RedParent(cur) /\ Cut!Uncle(cur) = u /\ Cut!c_rbnode_parent(pf, cur) = p
    BY <1>3, <1>4, <2>1, SameOperators DEF p
  <2>3. Cut!PaintRecolor
    BY <2>1, <2>2, SameOperators DEF Cut!PaintRecolor, Cut!Continue, Cut!caller, Rest
  <2> QED
    BY <1>2, <2>1, <2>3 DEF Cut!Next, Cut!Step, m
<1>8. CASE PaintRotate
  <2>1. /\ RedNode(pf, p) /\ ~RedNode(pf, u) /\ UNCHANGED <<owner, stale>> /\ Return
        /\ cur # link[p][Other(d)]
        /\ link' = RotateGrandparentLink(link, p, g, d)
        /\ pf' = RotateGrandparentWord(link, pf, p, g, d)
    BY <1>3, <1>8 DEF PaintRotate, caller, p, u, d
  <2>2. p \in Node /\ g \in Node /\ p # tree /\ g # tree /\ m[p] = link[p] /\ m[g] = link[g]
    BY <1>1, <1>2, <1>4, <2>1
  <2>3. Without(link', RotateGrandparentLink(m, p, g, d))
    <3> DEFINE m1 == [link EXCEPT ![g][d] = link[p][Other(d)], ![p][Other(d)] = g]
               m2 == [m EXCEPT ![g][d] = link[p][Other(d)], ![p][Other(d)] = g]
    <3>1. Without(m1, m2)
      BY <1>2, <2>2, PutTwiceWithout
    <3>2. link' = PutInPlace(m1, pf, g, p) /\ RotateGrandparentLink(m, p, g, d) = PutInPlace(m2, pf, g, p)
      BY <2>1, <2>2 DEF RotateGrandparentLink
    <3> HIDE DEF m1, m2
    <3> QED
      BY <1>1, <2>1, <3>1, <3>2, PutInPlaceWithout
  <2>4. CutLink(link', tree) = RotateGrandparentLink(m, p, g, d)
    BY <2>3 DEF Without
  <2>5. RotateGrandparentWord(m, pf, p, g, d) = RotateGrandparentWord(link, pf, p, g, d)
    BY <2>2 DEF RotateGrandparentWord
  <2>6. /\ Cut!Grandparent(cur) = g /\ Cut!RedParent(cur) /\ Cut!Uncle(cur) = u
        /\ Cut!c_rbnode_parent(pf, cur) = p /\ Cut!SideOf(m, g, p) = d
    BY <1>3, <1>4, <2>1, SameOperators DEF p
  <2>7. Cut!PaintRotate
    BY <2>1, <2>2, <2>4, <2>5, <2>6, SameOperators, SameSurgery
       DEF Cut!PaintRotate, Cut!Return, Return, Cut!caller, Rest, m
  <2> QED
    BY <2>1, <2>3, <2>4, <2>7 DEF Cut!Next, Cut!Step, Return
<1>9. CASE PaintRotateTwice
  <2> DEFINE x == link[cur][d]
             m1 == [link EXCEPT ![p][Other(d)] = x, ![cur][d] = p]
             n1 == [m EXCEPT ![p][Other(d)] = x, ![cur][d] = p]
             w1 == Reparent(Reparent(pf, x, p, {}), p, cur, {})
  <2>1. /\ RedNode(pf, p) /\ ~RedNode(pf, u) /\ UNCHANGED <<owner, stale>> /\ Return
        /\ cur = link[p][Other(d)]
        /\ link' = RotateGrandparentLink(m1, cur, g, d)
        /\ pf' = RotateGrandparentWord(m1, w1, cur, g, d)
    BY <1>3, <1>9 DEF PaintRotateTwice, caller, p, u, d
  <2>2. /\ p \in Node /\ g \in Node /\ p # tree /\ g # tree /\ m[p] = link[p] /\ m[g] = link[g]
        /\ cur \in Node /\ cur # tree /\ m[cur] = link[cur]
    BY <1>1, <1>2, <1>4, <2>1
  <2>3. Without(m1, n1)
    <3> HIDE DEF x
    <3> QED
      BY <1>2, <2>2, PutTwiceWithout
  <2> HIDE DEF m1, n1, x, w1
  <2>4. n1[cur] = m1[cur]
    BY <2>2, <2>3, PutWithout
  <2>5. Without(link', RotateGrandparentLink(n1, cur, g, d))
    <3> DEFINE m2 == [m1 EXCEPT ![g][d] = m1[cur][Other(d)], ![cur][Other(d)] = g]
               n2 == [n1 EXCEPT ![g][d] = m1[cur][Other(d)], ![cur][Other(d)] = g]
    <3>1. Without(m2, n2)
      BY <2>2, <2>3, PutTwiceWithout
    <3>2. link' = PutInPlace(m2, pf, g, cur) /\ RotateGrandparentLink(n1, cur, g, d) = PutInPlace(n2, pf, g, cur)
      BY <2>1, <2>4 DEF RotateGrandparentLink
    <3> HIDE DEF m2, n2
    <3> QED
      BY <1>1, <2>1, <3>1, <3>2, PutInPlaceWithout
  <2>6. CutLink(link', tree) = RotateGrandparentLink(n1, cur, g, d)
    BY <2>5 DEF Without
  <2>7. RotateGrandparentWord(n1, w1, cur, g, d) = RotateGrandparentWord(m1, w1, cur, g, d)
    BY <2>4 DEF RotateGrandparentWord
  <2>8. /\ Cut!Grandparent(cur) = g /\ Cut!RedParent(cur) /\ Cut!Uncle(cur) = u
        /\ Cut!c_rbnode_parent(pf, cur) = p /\ Cut!SideOf(m, g, p) = d
    BY <1>3, <1>4, <2>1, SameOperators DEF p
  <2>9. Cut!PaintRotateTwice
    <3>1. m[cur][d] = x /\ m[p] = link[p]
      BY <2>2 DEF x
    <3> QED
      BY <2>1, <2>6, <2>7, <2>8, <3>1, SameOperators, SameSurgery
         DEF Cut!PaintRotateTwice, Cut!Return, Return, Cut!caller, Rest, m, n1, w1
  <2> QED
    BY <2>1, <2>5, <2>6, <2>9 DEF Cut!Next, Cut!Step, Return
<1> QED
  BY <1>5, <1>6, <1>7, <1>8, <1>9
     DEF Step, WalkLeft, SpliceSuccessor, RebalanceEnd, RebalanceRecolor, RebalanceFound,
         RotateRedSibling, RotateRecolor, RotateSibling, RotateNephew, Reinit

\* What is done to nodes outside of the tree that a loop takes apart.
DoneElsewhere ==
  \/ \E n \in Node : \/ \E t \in Tree \ {tree} : AddRoot(t, n)
                     \/ \E p \in Node, d \in Dir : owner[p] # tree /\ Link(p, d, n)
  \/ pc = "paint" /\ Step

\* It leaves the rest of that tree alone.
LEMMA ElsewhereKeeps ==
  ASSUME TornOK, tree \in Tree, tree' = tree, DoneElsewhere
  PROVE  /\ TornOK' /\ pc' \in {"idle", "paint"}
         /\ Rest' = Rest /\ SameIn(tree, owner', link, pf, link', pf')
<1> DEFINE m == CutLink(link, tree)
<1>1. /\ link \in Memory /\ Shaped(link) /\ owner \in Owners /\ (\A k \in stale : owner[k] = NULL)
      /\ CutQuiet /\ Without(link, m) /\ Node \cap Tree = {}
  BY WithoutNow, DistinctAddresses DEF TornOK
<1>2. /\ Cut!Next /\ pc' \in {"idle", "paint"} /\ Without(link', CutLink(link', tree))
      /\ Rest' = Rest /\ owner' \in Owners /\ \A k \in stale' : owner'[k] = NULL
  <2>1. CASE pc = "paint" /\ Step
    <3>1. /\ Cut!Next /\ pc' \in {"idle", "paint"} /\ Without(link', CutLink(link', tree))
          /\ owner' = owner /\ stale' = stale
      BY <2>1, PaintIsCut
    <3> QED
      BY <1>1, <3>1 DEF Rest
  <2>2. CASE ~(pc = "paint" /\ Step)
    BY <2>2, ElsewhereIsCut DEF DoneElsewhere
  <2> QED
    BY <2>1, <2>2
<1>3. CutQuiet' /\ Cut!FreeNodesKept
  BY <1>1, <1>2, CutSteps
<1>4. CutLink(link', tree) \in Memory /\ Shaped(CutLink(link', tree))
  BY <1>3 DEF CutQuiet, Quiet, Sound
<1>5. link' \in Memory /\ Shaped(link')
  <2>1. /\ link' = [x \in Node \cup Tree |-> link'[x]] /\ link'[tree] = link[tree]
        /\ \A x \in Node \cup Tree : x # tree => CutLink(link', tree)[x] = link'[x]
    BY <1>2, PutWithout DEF Without
  <2>2. \A x \in Node \cup Tree : link'[x] \in [Side -> Pointer]
    BY <1>1, <1>4, <2>1 DEF Memory
  <2>3. link' \in Memory
    BY <2>1, <2>2 DEF Memory
  <2>4. Shaped(link')
    BY <1>1, <1>4, <2>1 DEF Shaped
  <2> QED
    BY <2>3, <2>4
<1>6. SameIn(tree, owner', link, pf, link', pf')
  <2>1. ASSUME NEW n \in Node, owner'[n] = tree
        PROVE  link'[n] = link[n] /\ pf'[n] = pf[n]
    <3>1. n \in Rest /\ n \in Rest'
      BY <1>2, <2>1 DEF Rest
    <3>2. DroppedOwners(owner, tree)[n] = NULL /\ DroppedOwners(owner', tree)[n] = NULL
      BY <2>1, <3>1 DEF DroppedOwners, Rest
    <3>3. Cut!FreeNodeKept(n)
      BY <1>3, <3>2 DEF Cut!FreeNodesKept, Cut!InUse, Cut!Owned
    <3>4. CutLink(link', tree)[n] = CutLink(link, tree)[n] /\ pf'[n] = pf[n]
      BY <3>1, <3>2, <3>3 DEF Cut!FreeNodeKept
    <3>5. CutLink(link, tree)[n] = link[n] /\ CutLink(link', tree)[n] = link'[n]
      BY <1>1, <1>2, <2>1, PutWithout
    <3> QED
      BY <3>4, <3>5
  <2>2. link'[tree] = link[tree]
    BY <1>2 DEF Without
  <2> QED
    BY <2>1, <2>2 DEF SameIn
<1> QED
  BY <1>2, <1>3, <1>5, <1>6 DEF TornOK

\* In post-order, where the nodes are reset: the others are left alone.
LEMMA ElsewhereGoesOn ==
  ASSUME IterInv, loop = "unlink", UNCHANGED iterator, DoneElsewhere
  PROVE  IterInv'
<1>1. /\ loop' = loop /\ at' = at /\ tree' = tree /\ iter' = iter /\ safe' = safe
      /\ expected' = expected /\ visited' = visited
  BY DEF iterator
<1>2. /\ InLoop /\ Tearing /\ Tearing' /\ ~Freeing' /\ Taken = Len(visited) /\ Taken' = Taken
  BY <1>1 DEF InLoop, Macro, Tearing, Freeing, Taken
<1>3. TornOK /\ tree \in Tree /\ expected \in Nodes /\ Taken \in Nat
  BY <1>2, TakenFacts DEF IterInv, MemoryOK, IterTypes
<1>4. /\ TornOK' /\ pc' \in {"idle", "paint"} /\ Rest' = Rest
      /\ SameIn(tree, owner', link, pf, link', pf')
  BY <1>1, <1>3, ElsewhereKeeps
<1>5. Layout(expected, tree, owner', link', pf', Taken)
  <2>1. Layout(expected, tree, owner, link, pf, Taken)
    BY DEF IterInv, PostOrderKept
  <2>2. Rest = {expected[i] : i \in Taken + 1 .. Len(expected)}
    BY <2>1 DEF Layout, Rest
  <2>3. Rest' = {n \in Node : owner'[n] = tree}
    BY <1>1 DEF Rest
  <2>4. {n \in Node : owner'[n] = tree} = {expected[i] : i \in Taken + 1 .. Len(expected)}
    BY <1>4, <2>2, <2>3
  <2>5. Taken <= Taken
    BY <1>3
  <2> QED
    BY <1>3, <1>4, <2>1, <2>4, <2>5, LayoutKept
<1>6. IterTypes' /\ Turn'
  BY <1>1 DEF IterInv, IterTypes, Turn, InLoop
<1>7. MemoryOK' /\ InOrderKept' /\ PostOrderKept' /\ TornKept'
  BY <1>1, <1>2, <1>4, <1>5 DEF MemoryOK, InOrderKept, PostOrderKept, TornKept
<1> QED
  BY <1>6, <1>7 DEF IterInv

LEMMA BodyRelinksKeeps ==
  ASSUME IterInv, BodyRelinks
  PROVE  IterInv'
<1>1. /\ loop \in {"safe", "unlink"} /\ at = "body" /\ UNCHANGED iterator
      /\ \/ \E t \in Tree \ {tree} : AddRoot(t, iter)
         \/ \E p \in Node, d \in Dir : owner[p] # tree /\ Link(p, d, iter)
  BY DEF BodyRelinks
<1>2. InLoop
  BY <1>1 DEF InLoop, Macro
<1>3. iter \in Node
  <2>1. Len(visited) \in 1 .. Len(expected) /\ iter = expected[Len(visited)] /\ expected \in Nodes
    BY <1>1, <1>2, TakenFacts DEF IterInv, IterTypes, Turn, AtTurn
  <2> QED
    BY <2>1 DEF Nodes
<1>4. Next /\ DoneTo(tree, iter) /\ DoneElsewhere
  <2>1. Next
    BY <1>1, <1>3 DEF Next
  <2>2. DoneTo(tree, iter)
    BY <1>1 DEF DoneTo
  <2>3. DoneElsewhere
    BY <1>1, <1>3 DEF DoneElsewhere
  <2> QED
    BY <2>1, <2>2, <2>3
<1>5. pc' # "successor"
  BY <1>1 DEF AddRoot, Link, Continue
<1> QED
  BY <1>1, <1>4, <1>5, InOrderGoesOn, ElsewhereGoesOn

\* The steps of a call in progress.
LEMMA StepsKeep ==
  ASSUME IterInv, Step, UNCHANGED iterator
  PROVE  IterInv'
<1>1. CASE loop = "unlink"
  <2>1. pc # "idle" /\ Next
    BY DEF Step, PaintRoot, PaintDone, PaintRecolor, PaintRotate, PaintRotateTwice, WalkLeft,
           SpliceSuccessor, RebalanceEnd, RebalanceRecolor, RebalanceFound, RotateRedSibling,
           RotateRecolor, RotateSibling, RotateNephew, Reinit, Next
  <2>2. pc = "paint"
    BY <1>1, <2>1 DEF IterInv, PostOrderKept
  <2>3. DoneElsewhere
    BY <2>2 DEF DoneElsewhere
  <2> QED
    BY <1>1, <2>3, ElsewhereGoesOn
<1> QED
  BY <1>1, OwnCallsKeep

-----------------------------------------------------------------------------
(* The invariant *)

LEMMA IterNextKeeps ==
  ASSUME IterInv, [IterNext]_allvars
  PROVE  IterInv'
<1>1. OwnSteps \/ BodyRelinks \/ (Step /\ UNCHANGED iterator)
  BY DEF IterNext, OwnSteps
<1> QED
  BY <1>1, OwnStepsKeep, BodyRelinksKeeps, StepsKeep

\* Whatever the bodies do, the order a loop began with, what is left of its tree
\* and the place of the loop in it belong together.
THEOREM LoopInvariance == IterSpec => []IterInv
<1>1. IterInit => IterInv
  BY IterInitHolds
<1>2. IterInv /\ [IterNext]_allvars => IterInv'
  BY IterNextKeeps
<1> QED
  BY <1>1, <1>2, PTL DEF IterSpec

-----------------------------------------------------------------------------
(* What the loops guarantee *)

\* In every turn of every loop the body has run for the first nodes of the order
\* the loop began with, and _iter and _safe are the ones that come next, whatever
\* the body has unlinked, linked elsewhere or freed.
THEOREM LoopsVisitInOrder == IterSpec => []VisitsInOrder
<1>1. IterInv => VisitsInOrder
  <2> SUFFICES ASSUME IterInv, InLoop
               PROVE  /\ visited = SubSeq(expected, 1, Len(visited))
                      /\ at = "test" => iter = At(expected, Len(visited) + 1)
                      /\ at # "test" => safe = Keep(loop, At(expected, Len(visited) + 1))
    BY DEF VisitsInOrder
  <2>1. AtTurn(loop, at, expected, visited, iter, safe) /\ visited \in Nodes /\ expected \in Nodes
    BY DEF IterInv, Turn, IterTypes
  <2>2. visited = SubSeq(expected, 1, Len(visited))
    BY <2>1 DEF AtTurn, Nodes
  <2> QED
    BY <2>1, <2>2 DEF AtTurn
<1> QED
  BY <1>1, LoopInvariance, PTL

\* A loop that is not broken out of has visited every node when it ends.
THEOREM LoopsVisitAll == IterSpec => VisitsAll
<1>1. IterInv /\ [IterNext]_allvars => [InLoop /\ ~InLoop' /\ at = "test" => visited = expected]_allvars
  <2> SUFFICES ASSUME IterInv, IterNext, InLoop, ~InLoop', at = "test"
               PROVE  visited = expected
    OBVIOUS
  <2>1. loop \in Macro /\ loop' # loop /\ loop # "none" /\ loop # "torn"
    BY DEF InLoop, Macro
  <2>2. iter = NULL
    BY <2>1 DEF IterNext, LoopStart, LoopTest, LoopTestUnlink, Enter, Leave, LoopNext, BodyEnds,
       BodyUnlinks, BodyRelinks, BodyFrees, BodyBreaks, TearDown, Build, iterator
  <2> QED
    BY <2>2, AllVisited
<1> QED
  BY <1>1, LoopInvariance, PTL DEF IterSpec, VisitsAll

\* The node the next turn goes to is linked in the tree of the loop whenever the
\* body has finished a call.
THEOREM NextNodeStaysLinked == IterSpec => []SafeStaysLinked
<1>1. IterInv => SafeStaysLinked
  <2> SUFFICES ASSUME IterInv, InLoop, Idle, safe # NULL
               PROVE  owner[safe] = tree /\ c_rbnode_is_linked(pf, safe)
    BY DEF SafeStaysLinked
  <2>1. /\ Taken \in Nat /\ Taken <= Len(visited) /\ Len(visited) \in Nat /\ Len(expected) \in Nat
        /\ AtTurn(loop, at, expected, visited, iter, safe)
    BY TakenFacts DEF IterInv, Turn
  <2>2. \E j \in Len(visited) + 1 .. Len(visited) + 2 : safe = At(expected, j)
    <3>1. \E j \in Len(visited) + 1 .. Len(visited) + 2 : safe = Keep(loop, At(expected, j))
      BY <2>1 DEF AtTurn
    <3> QED
      BY <3>1 DEF Keep
  <2>3. PICK j \in Len(visited) + 1 .. Len(visited) + 2 : safe = At(expected, j)
    BY <2>2
  <2>4. j \in 1 .. Len(expected) /\ safe = expected[j]
    BY <2>3 DEF At
  <2>5. j \in Taken + 1 .. Len(expected)
    BY <2>1, <2>3, <2>4
  <2> QED
    BY <2>4, <2>5, LoopAdvances
<1> QED
  BY <1>1, LoopInvariance, PTL

\* That the rest hangs together is a part of the invariant.
LEMMA RestKept ==
  ASSUME IterInv
  PROVE  RestHangsTogether
<1> SUFFICES ASSUME Idle, loop \in {"unlink", "torn"}
             PROVE  Hanging
  BY DEF RestHangsTogether, Hanging
<1>1. CASE loop = "unlink"
  <2>1. TornOK /\ tree \in Tree /\ expected \in Nodes /\ Distinct(expected) /\ Taken \in Nat
    BY <1>1, TakenFacts DEF IterInv, MemoryOK, Tearing, IterTypes, InLoop, Macro
  <2>2. Layout(expected, tree, owner, link, pf, Taken)
    BY <1>1 DEF IterInv, PostOrderKept
  <2> QED
    BY <2>1, <2>2, RestHangs
<1>2. CASE loop = "torn"
  BY <1>2 DEF IterInv, TornKept
<1> QED
  BY <1>1, <1>2

\* What a loop that takes its tree apart has not visited yet hangs together, also
\* after a break out of it.
THEOREM RestStaysTogether == IterSpec => []RestHangsTogether
<1>1. IterInv => RestHangsTogether
  BY RestKept
<1> QED
  BY <1>1, LoopInvariance, PTL

\* c_rbtree_for_each_safe_postorder_unlink ends with an empty tree and with nodes
\* that are as after c_rbnode_unlink, fields and word, though it never rebalances
\* the tree.
THEOREM UnlinkLoopEmptiesTree == IterSpec => UnlinkLoopLeavesNothing
<1> DEFINE Emptied == loop = "unlink" /\ loop' = "none" =>
             /\ link'[tree]["root"] = NULL
             /\ \A n \in Node :
                  /\ owner'[n] # tree
                  /\ owner'[n] = NULL /\ n \notin stale =>
                       link'[n] = NoLinks /\ ~c_rbnode_is_linked(pf', n)
<1>1. IterInv /\ [IterNext]_allvars => [Emptied]_allvars
  <2> SUFFICES ASSUME IterInv, IterNext, loop = "unlink", loop' = "none"
               PROVE  /\ link'[tree]["root"] = NULL
                      /\ \A n \in Node :
                           /\ owner'[n] # tree
                           /\ owner'[n] = NULL /\ n \notin stale =>
                                link'[n] = NoLinks /\ ~c_rbnode_is_linked(pf', n)
    OBVIOUS
  <2>1. LoopTestUnlink /\ Leave
    BY DEF IterNext, LoopStart, LoopTest, LoopTestUnlink, Enter, Leave, LoopNext, BodyEnds,
       BodyUnlinks, BodyRelinks, BodyFrees, BodyBreaks, TearDown, Build, iterator
  <2>2. /\ at = "test" /\ iter = NULL /\ owner' = owner /\ pf' = pf /\ Idle
        /\ link' = [link EXCEPT ![tree]["root"] = NULL]
    BY <2>1, DistinctAddresses DEF LoopTestUnlink, Enter, Leave
  <2>3. TornOK /\ tree \in Tree /\ Rest = {} /\ link \in Memory
    BY <2>2, NoneLeft DEF IterInv, MemoryOK, Tearing, IterTypes, TornOK
  <2>4. OutsideOK
    BY <2>3, TornFacts
  <2>5. link'[tree]["root"] = NULL /\ \A n \in Node : link'[n] = link[n]
    BY <2>2, <2>3, DistinctAddresses, Sides DEF Memory
  <2>6. \A n \in Node : owner[n] # tree
    BY <2>3 DEF Rest
  <2>7. \A n \in Node \ stale : owner[n] = NULL => ~c_rbnode_is_linked(pf, n)
    BY <2>2, RestKept DEF RestHangsTogether, InUse, Owned
  <2> QED
    BY <2>2, <2>4, <2>5, <2>6, <2>7 DEF OutsideOK
<1> QED
  BY <1>1, LoopInvariance, PTL DEF IterSpec, UnlinkLoopLeavesNothing
=============================================================================
