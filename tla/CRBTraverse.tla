---------------------------- MODULE CRBTraverse ----------------------------
(***************************************************************************)
(* The traversal helpers of c-rbtree.c: pure functions of the memory that  *)
(* step through a tree in order and in post-order.                         *)
(***************************************************************************)
EXTENDS CRBOrder

-----------------------------------------------------------------------------
(* Ends of a subtree *)

\* c_rbnode_leftmost, c_rbnode_rightmost: follow the fields of one side.
c_rbnode_most(d) ==
  LET most[n \in Pointer] ==
        IF n = NULL \/ link[n][d] = NULL THEN n ELSE most[link[n][d]]
  IN  most

c_rbnode_leftmost(n)  == c_rbnode_most("left")[n]
c_rbnode_rightmost(n) == c_rbnode_most("right")[n]

\* c_rbnode_leftdeepest, c_rbnode_rightdeepest: down to a leaf, on side d where
\* there is a choice.
c_rbnode_deepest(d) ==
  LET deepest[n \in Pointer] ==
        IF n = NULL THEN n
        ELSE IF link[n][d] # NULL THEN deepest[link[n][d]]
        ELSE IF link[n][Other(d)] # NULL THEN deepest[link[n][Other(d)]]
        ELSE n
  IN  deepest

\* Faulty: does not turn right where there is no left child.
LeftmostOnly(n) == c_rbnode_leftmost(n)

c_rbnode_leftdeepest(n)  == c_rbnode_deepest("left")[n]
c_rbnode_rightdeepest(n) == c_rbnode_deepest("right")[n]

\* Faulty: only tests for NULL.
NotNull(n) == n # NULL

\* c_rbnode_is_linked as the functions below call it, on a node or on NULL.
Linked(n) == n # NULL /\ c_rbnode_is_linked(pf, n)

-----------------------------------------------------------------------------
(* In order *)

\* The loop of c_rbnode_next and c_rbnode_prev: up while n is the child on d.
ClimbFrom(d) ==
  LET climb[n \in Node] ==
        LET p == c_rbnode_parent(pf, n)
        IN  IF p # NULL /\ n = link[p][d] THEN climb[p] ELSE p
  IN  climb

\* Faulty: the successor is the right child itself.
NextIsRightChild(n) ==
  IF ~Linked(n) THEN NULL
  ELSE IF link[n]["right"] # NULL THEN link[n]["right"]
  ELSE ClimbFrom("right")[n]

c_rbnode_next(n) ==
  IF ~Linked(n) THEN NULL
  ELSE IF link[n]["right"] # NULL THEN c_rbnode_leftmost(link[n]["right"])
  ELSE ClimbFrom("right")[n]

c_rbnode_prev(n) ==
  IF ~Linked(n) THEN NULL
  ELSE IF link[n]["left"] # NULL THEN c_rbnode_rightmost(link[n]["left"])
  ELSE ClimbFrom("left")[n]

c_rbtree_first(t) == c_rbnode_leftmost(link[t]["root"])
c_rbtree_last(t)  == c_rbnode_rightmost(link[t]["root"])

-----------------------------------------------------------------------------
(* Post-order *)

c_rbnode_next_postorder(n) ==
  LET p == c_rbnode_parent(pf, n)
  IN  IF ~Linked(n) THEN NULL
      ELSE IF p # NULL /\ n = link[p]["left"] /\ link[p]["right"] # NULL
      THEN c_rbnode_leftdeepest(link[p]["right"])
      ELSE p

\* The loop of c_rbnode_prev_postorder: up to a left sibling. It starts at a node
\* that is in a tree.
LeftSiblingFrom[n \in InUse] ==
  LET p == c_rbnode_parent(pf, n)
  IN  IF p = NULL THEN NULL
      ELSE IF link[p]["left"] # NULL /\ n # link[p]["left"] THEN link[p]["left"]
      ELSE LeftSiblingFrom[p]

\* Faulty: prefers the left child.
PrevPostorderLeft(n) ==
  IF ~Linked(n) THEN NULL
  ELSE IF link[n]["left"] # NULL THEN link[n]["left"]
  ELSE IF link[n]["right"] # NULL THEN link[n]["right"]
  ELSE LeftSiblingFrom[n]

c_rbnode_prev_postorder(n) ==
  IF ~Linked(n) THEN NULL
  ELSE IF link[n]["right"] # NULL THEN link[n]["right"]
  ELSE IF link[n]["left"] # NULL THEN link[n]["left"]
  ELSE LeftSiblingFrom[n]

\* Faulty: starts at the root.
FirstIsRoot(t) == link[t]["root"]

c_rbtree_first_postorder(t) == c_rbnode_leftdeepest(link[t]["root"])
c_rbtree_last_postorder(t)  == link[t]["root"]

-----------------------------------------------------------------------------
(* Properties *)

\* Left subtree, right subtree, node.
PostOrder[x \in Pointer] ==
  IF x = NULL
  THEN <<>>
  ELSE PostOrder[link[x]["left"]] \o PostOrder[link[x]["right"]] \o <<x>>

At(seq, i) == IF i \in 1 .. Len(seq) THEN seq[i] ELSE NULL

\* first and last are the ends of seq, next and prev step through it.
Traverses(seq, First(_), Next1(_), Last(_), Prev1(_), t) ==
  /\ First(t) = At(seq, 1)
  /\ Last(t) = At(seq, Len(seq))
  /\ \A i \in 1 .. Len(seq) : /\ Next1(seq[i]) = At(seq, i + 1)
                              /\ Prev1(seq[i]) = At(seq, i - 1)

\* Between calls c_rbtree_first and c_rbnode_next visit a tree in its linear
\* order, c_rbtree_last and c_rbnode_prev in the reverse order.
TraversesInOrder ==
  Idle => \A t \in Tree :
            Traverses(InOrder[link[t]["root"]], c_rbtree_first, c_rbnode_next,
                      c_rbtree_last, c_rbnode_prev, t)

\* The same for post-order: children before their parent, and the guarantee
\* n == c_rbnode_prev_postorder(c_rbnode_next_postorder(n)) of the comments.
TraversesPostOrder ==
  Idle => \A t \in Tree :
            Traverses(PostOrder[link[t]["root"]],
                      c_rbtree_first_postorder, c_rbnode_next_postorder,
                      c_rbtree_last_postorder, c_rbnode_prev_postorder, t)

\* The right-deepest node is the first leaf of the mirrored post-order: the
\* last node of the pre-order without a child on either side.
PreOrder[x \in Pointer] ==
  IF x = NULL
  THEN <<>>
  ELSE <<x>> \o PreOrder[link[x]["left"]] \o PreOrder[link[x]["right"]]

\* From any node the deepest functions reach the two ends of its subtree in
\* post-order and in pre-order, the most functions its ends in order.
SubtreeEnds ==
  Idle => \A n \in InUse :
            /\ c_rbnode_leftmost(n) = At(InOrder[n], 1)
            /\ c_rbnode_rightmost(n) = At(InOrder[n], Len(InOrder[n]))
            /\ c_rbnode_leftdeepest(n) = At(PostOrder[n], 1)
            /\ c_rbnode_rightdeepest(n) = At(PreOrder[n], Len(PreOrder[n]))

\* On NULL and on a node that was initialised or removed with c_rbnode_unlink,
\* every step function returns NULL, as the comments of c_rbnode_init promise.
StepsFromUnlinked ==
  Idle => \A n \in (Node \ (InUse \cup stale)) \cup {NULL} :
            /\ c_rbnode_next(n) = NULL /\ c_rbnode_next_postorder(n) = NULL
            /\ c_rbnode_prev(n) = NULL /\ c_rbnode_prev_postorder(n) = NULL
=============================================================================
