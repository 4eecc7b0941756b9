----------------------------- MODULE CRBTreeInv -----------------------------
(***************************************************************************)
(* What the functions of CRBTree guarantee: the pointers of a tree agree   *)
(* with each other, the colors obey the red-black rules, every assertion   *)
(* and every unchecked dereference of the source is safe, and each call    *)
(* returns.                                                                *)
(***************************************************************************)
EXTENDS CRBTree

\* The nodes in some tree, by the owners o the caller knows; the objects whose
\* pointer fields matter; the tree such an object belongs to.
Owned(o)  == {n \in Node : o[n] # NULL}
Holder(o)  == Owned(o) \cup Tree
Home(o, x) == IF x \in Tree THEN x ELSE o[x]

InUse == Owned(owner)

-----------------------------------------------------------------------------
(* Pointers *)

\* A child field and the parent word of the child agree: same tree, the word
\* names the field's object, the root flag tells a tree head from a node, and
\* no object holds the same node twice.
ChildrenKnowParent(o, m, w) ==
  \A x \in Holder(o), s \in Side :
    m[x][s] # NULL =>
      /\ o[m[x][s]] = Home(o, x)
      /\ c_rbnode_raw(w, m[x][s]) = x
      /\ s = "root" <=> c_rbnode_is_root(w, m[x][s])
      /\ s = "root" <=> x \in Tree
      /\ \A e \in Side : m[x][e] = m[x][s] => e = s

\* Every node in a tree is held by the object its parent word names.
ParentsKnowChild(o, m, w) ==
  \A n \in Owned(o) :
    /\ c_rbnode_raw(w, n) \in Holder(o)
    /\ c_rbnode_raw(w, n) # n
    /\ \E s \in Side : m[c_rbnode_raw(w, n)][s] = n

Consistent(o, m, w) == ChildrenKnowParent(o, m, w) /\ ParentsKnowChild(o, m, w)

\* The pointers of all trees are consistent after every step of every function:
\* no rotation, splice, pop_root or push_root loses a node, a subtree or a tree
\* head, and none leaves a stale parent word behind.
Linkage == Consistent(owner, link, pf)

\* No path along the child fields of memory m comes back to a node: every set of
\* nodes has one without a child in the set.
NoLoops(m) ==
  \A S \in SUBSET Node :
    S # {} => \E n \in S : \A d \in Dir : m[n][d] \notin S

-----------------------------------------------------------------------------
(* Colors and heights *)

\* A red node has a black parent, but for the node q.
RedsBelowBlacks(o, w, q) ==
  \A n \in Owned(o) :
    c_rbnode_is_red(w, n) =>
      \/ n = q
      \/ ~c_rbnode_is_root(w, n) /\ c_rbnode_is_black(w, c_rbnode_raw(w, n))

\* Only the node that c_rbtree_paint_path is about to fix may be a red root or
\* have a red parent.
NoRedRed == RedsBelowBlacks(owner, pf, IF pc = "paint" THEN cur ELSE NULL)

HeightOf(h, x) == IF x = NULL THEN 0 ELSE h[x]
Black(w, n) == IF c_rbnode_is_black(w, n) THEN 1 ELSE 0

\* h gives the number of black nodes on the paths from each node down, where
\* one that is missing on side e of node q counts as present.
HeightsAgree(o, m, w, h, q, e) ==
  \A n \in Owned(o), d \in Dir :
    h[n] = HeightOf(h, m[n][d]) + (IF n = q /\ d = e THEN 1 ELSE 0) + Black(w, n)

\* During the removal of a black node, the paths on one side of cur lack one
\* black node.
Hole == IF pc \in {"rebalance", "rotate"} THEN cur ELSE NULL

LargerOf(i, j) == IF i >= j THEN i ELSE j

\* The number of black nodes on the blackest path from x down.
BlackHeight[x \in Pointer] ==
  IF x = NULL
  THEN 0
  ELSE LargerOf(BlackHeight[link[x]["left"]], BlackHeight[link[x]["right"]])
         + Black(pf, x)

\* All paths from a node down to a NULL have the same number of black nodes, at
\* every step, with the one exception that c_rbnode_rebalance is repairing.
\* With NoRedRed this is what keeps the tree balanced.
BlackBalanced ==
  HeightsAgree(owner, link, pf, [n \in Node |-> IF n \in InUse THEN BlackHeight[n] ELSE 0],
               Hole, HoleSide)

Depth[x \in Pointer] ==
  IF x = NULL
  THEN 0
  ELSE LargerOf(Depth[link[x]["left"]], Depth[link[x]["right"]]) + 1

\* The runtimes the comments of c-rbtree.c promise (O(log(n)) in the worst case
\* for every walk down or up): between calls no path of a tree with n nodes is
\* longer than 2 log2(n + 1).
LogarithmicHeight ==
  Idle => \A t \in Tree :
            LET n == Cardinality({m \in InUse : owner[m] = t})
            IN  2 ^ Depth[link[t]["root"]] <= (n + 1) * (n + 1)

-----------------------------------------------------------------------------
(* Assertions and dereferences *)

\* c_rbtree_paint_path and c_rbtree_paint_terminal: a red parent has a parent,
\* and when the uncle is not red the grandparent is black.
PaintSafe ==
  pc = "paint" =>
    /\ cur \in InUse /\ c_rbnode_is_red(pf, cur)
    /\ RedParent(cur) =>
         /\ Grandparent(cur) \in InUse
         /\ c_rbnode_is_black(pf, Grandparent(cur))

\* c_rbnode_unlink_stale: the successor search never leaves the right subtree
\* of the node to remove.
SuccessorSafe ==
  pc = "successor" =>
    /\ victim \in InUse /\ cur \in InUse
    /\ cur \notin {victim, link[victim]["left"]}
    /\ \A d \in Dir : link[victim][d] # NULL

\* c_rbnode_rebalance_path and c_rbnode_rebalance_terminal dereference the
\* sibling unchecked, and with a red sibling also its children; when only
\* recoloring is left to do after a rotation, the parent is red.
RebalanceSafe ==
  pc \in {"rebalance", "rotate"} /\ cur # NULL =>
    /\ cur \in InUse /\ prev = link[cur][HoleSide]
    /\ Sibling # NULL
    /\ c_rbnode_is_red(pf, Sibling) =>
         \A d \in Dir : /\ link[Sibling][d] # NULL
                        /\ c_rbnode_is_black(pf, link[Sibling][d])
    /\ pc = "rotate" /\ ~MustRotate => c_rbnode_is_red(pf, cur)

\* c_rbnode_unlink_stale asserts that its argument is linked; c_rbtree_move
\* that the root node knows the tree it is the root of.
CallsSafe ==
  /\ \A n \in InUse : c_rbnode_is_linked(pf, n)
  /\ \A t \in Tree : link[t]["root"] # NULL => RootOf(pf, link[t]["root"]) = t

\* No assertion of the source fails and no NULL pointer is dereferenced, in any
\* order of calls.
AssertionsHold == PaintSafe /\ SuccessorSafe /\ RebalanceSafe /\ CallsSafe

\* Between calls c_rbnode_is_linked tells a node in a tree from one that was
\* initialised or removed with c_rbnode_unlink; it must not be asked about a
\* node removed with c_rbnode_unlink_stale.
LinkedFlag ==
  Idle => \A n \in Node \ stale : c_rbnode_is_linked(pf, n) <=> n \in InUse

-----------------------------------------------------------------------------
(* Steps *)

\* A node is only ever written to by a call on its own tree, or while it is in
\* no tree: a call on one tree disturbs no node of another tree, whatever garbage
\* the pointers of a node that is linked anew hold.
ForeignTreesUntouched ==
  [][\A n \in InUse :
       <<link[n], pf[n]>>' # <<link[n], pf[n]>> =>
         \/ \E m \in Node : owner[m] # owner'[m] /\ owner[n] \in {owner[m], owner'[m]}
         \/ cur \in InUse /\ owner[cur] = owner[n]]_vars

\* Every call returns: the loops of c_rbtree_paint_path, c_rbnode_leftmost and
\* c_rbnode_rebalance_path end.
CallsReturn == pc # "idle" ~> pc = "idle"
=============================================================================
