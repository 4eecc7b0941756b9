----------------------------- MODULE CRBIterate -----------------------------
(***************************************************************************)
(* The loop macros of c-rbtree.h, with the bodies they allow.  The safe    *)
(* ones keep the next node in _safe while the body works on _iter: it may  *)
(* take the current node out of the tree, put it into another one, or,     *)
(* where the loop goes in post-order, free it.  The entry variants of the  *)
(* macros differ in the type of _iter and in a test for NULL that the node *)
(* variants leave to c_rbnode_next; they are the same steps here.          *)
(***************************************************************************)
EXTENDS CRBTraverse

\* c_rbtree_for_each, _safe, _postorder, _safe_postorder and
\* _safe_postorder_unlink.
Macro == {"each", "safe", "postorder", "safe_postorder", "unlink"}

VARIABLES
  loop,    \* the loop in progress, "none" if there is none, "torn" after one
           \* that left nodes behind that are freed or reset
  at,      \* inside the loop: "test" before its condition, "body", "step"
  tree,    \* the arguments of the macro
  iter,
  safe,
  expected, \* ghost: the order of the tree when the loop began
  visited   \* ghost: the nodes the body was run for, in order

iterator == <<loop, at, tree, iter, safe, expected, visited>>
allvars == <<vars, iterator>>

IterInit ==
  /\ Init
  /\ loop = "none" /\ at = "test" /\ tree = NULL /\ iter = NULL /\ safe = NULL
  /\ expected = <<>> /\ visited = <<>>

InLoop == loop \in Macro

\* The nodes in the order the loop visits them, and the macros' first and next.
OrderOf(m, t) == IF m \in {"each", "safe"} THEN InOrder[link[t]["root"]]
                                           ELSE PostOrder[link[t]["root"]]
First(m, t) == IF m \in {"each", "safe"} THEN c_rbtree_first(t)
                                         ELSE c_rbtree_first_postorder(t)

\* Faulty: every loop goes on in order.
AfterInOrder(m, n) == c_rbnode_next(n)

After(m, n) == IF m \in {"each", "safe"} THEN c_rbnode_next(n)
                                         ELSE c_rbnode_next_postorder(n)

\* The loops without _safe leave it NULL.
Keep(m, n) == IF m \in {"each", "postorder"} THEN NULL ELSE n

LoopStart(m, t) ==
  /\ Idle /\ loop = "none"
  /\ loop' = m /\ at' = "test" /\ tree' = t
  /\ iter' = First(m, t)
  /\ safe' = Keep(m, After(m, First(m, t)))
  /\ expected' = OrderOf(m, t) /\ visited' = <<>>
  /\ UNCHANGED vars

\* The condition of the loops: the body runs for a node, NULL ends the loop.
Enter == /\ iter # NULL
         /\ at' = "body" /\ visited' = Append(visited, iter)
         /\ UNCHANGED <<loop, tree, iter, safe, expected>>

\* A loop whose body frees the nodes leaves the tree to c_rbtree_init.
Leave == /\ iter = NULL
         /\ loop' = IF loop = "safe_postorder" /\ link[tree]["root"] \in stale
                    THEN "torn" ELSE "none"
         /\ UNCHANGED <<at, tree, iter, safe, expected, visited>>

LoopTest ==
  /\ Idle /\ InLoop /\ loop # "unlink" /\ at = "test"
  /\ Enter \/ Leave
  /\ UNCHANGED vars

\* Faulty: clears the word.
ResetToZero(n) == c_rbnode_set_parent_and_flags(pf, n, NULL, {})

\* The word of *_iter = C_RBNODE_INIT(*_iter).
ResetWord(n) == c_rbnode_set_parent_and_flags(pf, n, n, {})

\* The condition of c_rbtree_for_each_safe_postorder_unlink: it resets the node,
\* and at the end the tree, without rebalancing.
LoopTestUnlink ==
  /\ Idle /\ loop = "unlink" /\ at = "test"
  /\ \/ /\ Enter
        /\ link' = [link EXCEPT ![iter] = NoLinks]
        /\ pf' = ResetWord(iter)
        /\ owner' = [owner EXCEPT ![iter] = NULL]
     \/ /\ Leave
        /\ link' = [link EXCEPT ![tree]["root"] = NULL]
        /\ UNCHANGED <<pf, owner>>
  /\ UNCHANGED <<stale, locals>>

\* Faulty: asks the node the body has worked on for the next one.
LoopNextOfIter ==
  /\ Idle /\ InLoop /\ at = "step"
  /\ iter' = After(loop, iter)
  /\ safe' = Keep(loop, After(loop, After(loop, iter)))
  /\ at' = "test"
  /\ UNCHANGED <<vars, loop, tree, expected, visited>>

\* The step of the loop, after the body has run to its end.
LoopNext ==
  /\ Idle /\ InLoop /\ at = "step"
  /\ iter' = IF Keep(loop, iter) = NULL THEN After(loop, iter) ELSE safe
  /\ safe' = Keep(loop, After(loop, safe))
  /\ at' = "test"
  /\ UNCHANGED <<vars, loop, tree, expected, visited>>

-----------------------------------------------------------------------------
(* Bodies *)

\* A body that is done with its node. One that frees nodes frees all of them.
BodyEnds ==
  /\ Idle /\ InLoop /\ at = "body"
  /\ loop = "safe_postorder" => (iter \in stale <=> visited[1] \in stale)
  /\ at' = "step"
  /\ UNCHANGED <<vars, loop, tree, iter, safe, expected, visited>>

\* The in-order loop may unlink the current node, no other.
BodyUnlinks ==
  /\ loop = "safe" /\ at = "body" /\ owner[iter] = tree
  /\ Unlink(iter)
  /\ UNCHANGED iterator

\* A node that is out of the tree may go to another one.
BodyRelinks ==
  /\ loop \in {"safe", "unlink"} /\ at = "body" /\ iter # NULL
  /\ \/ \E t \in Tree \ {tree} : AddRoot(t, iter)
     \/ \E p \in Node, d \in Dir : owner[p] # tree /\ Link(p, d, iter)
  /\ UNCHANGED iterator

\* The post-order loop may free the current node: its memory is overwritten and
\* the tree is not touched.
BodyFrees ==
  /\ Idle /\ loop = "safe_postorder" /\ at = "body" /\ owner[iter] = tree
  /\ \A i \in 1 .. Len(visited) - 1 : visited[i] \in stale
  /\ "unlink_stale" \in Removals
  /\ link' = [link EXCEPT ![iter] = NoLinks]
  /\ pf' = c_rbnode_set_parent_and_flags(pf, iter, NULL, {})
  /\ owner' = [owner EXCEPT ![iter] = NULL]
  /\ stale' = stale \cup {iter}
  /\ UNCHANGED <<locals, iterator>>

\* Breaking out of a loop, also of the one that "you must never break out of".
BodyBreaks ==
  /\ Idle /\ InLoop /\ at = "body"
  /\ loop' = IF loop = "unlink" \/ (loop = "safe_postorder" /\ visited[1] \in stale)
             THEN "torn" ELSE "none"
  /\ UNCHANGED <<vars, at, tree, iter, safe, expected, visited>>

\* All that can be done with the tree then.
TearDown ==
  /\ loop = "torn" /\ loop' = "none"
  /\ c_rbtree_init(tree)
  /\ UNCHANGED <<at, tree, iter, safe, expected, visited>>

\* Outside of loops the trees are built up.
Build ==
  /\ loop = "none"
  /\ \E n \in Node : \/ \E t \in Tree : AddRoot(t, n)
                     \/ \E p \in Node, d \in Dir : Link(p, d, n)
  /\ UNCHANGED iterator

IterNext == \/ \E m \in Macro, t \in Tree : LoopStart(m, t)
            \/ LoopTest \/ LoopTestUnlink \/ LoopNext
            \/ BodyEnds \/ BodyUnlinks \/ BodyRelinks \/ BodyFrees \/ BodyBreaks
            \/ TearDown \/ Build
            \/ Step /\ UNCHANGED iterator

IterSpec == IterInit /\ [][IterNext]_allvars

-----------------------------------------------------------------------------
(* Properties *)

\* A loop visits the nodes that were in the tree when it began, in order and
\* none of them twice, whichever of them its body takes out and however the
\* tree is rebalanced meanwhile. _safe is the node after _iter at every turn.
VisitsInOrder ==
  InLoop =>
    /\ visited = SubSeq(expected, 1, Len(visited))
    /\ at = "test" => iter = At(expected, Len(visited) + 1)
    /\ at # "test" => safe = Keep(loop, At(expected, Len(visited) + 1))

\* A loop that ends by its condition has visited every node.
VisitsAll ==
  [][InLoop /\ ~InLoop' /\ at = "test" => visited = expected]_allvars

\* The node of the next turn is still in the tree: the body of the in-order
\* loop removes only the current node, and the post-order loops never step to
\* a node that is already reset or freed.
SafeStaysLinked ==
  InLoop /\ Idle /\ safe # NULL =>
    owner[safe] = tree /\ c_rbnode_is_linked(pf, safe)

\* While c_rbtree_for_each_safe_postorder_unlink resets the nodes below them,
\* and after a break out of it, the nodes not yet visited hang together by their
\* parent words up to the tree, and c_rbnode_is_linked tells them from those
\* that were reset, wherever the body has put these. Only child fields dangle:
\* what a break leaves can be given up node by node, but not walked down.
RestHangsTogether ==
  Idle /\ loop \in {"unlink", "torn"} =>
    /\ ParentsKnowChild(owner, link, pf)
    /\ \A n \in Node \ stale : c_rbnode_is_linked(pf, n) <=> n \in InUse

\* After c_rbtree_for_each_safe_postorder_unlink the tree is empty, no node is
\* in it and those not put elsewhere are as after c_rbnode_unlink.
UnlinkLoopLeavesNothing ==
  [][loop = "unlink" /\ loop' = "none" =>
       /\ link'[tree]["root"] = NULL
       /\ \A n \in Node :
            /\ owner'[n] # tree
            /\ owner'[n] = NULL /\ n \notin stale =>
                 link'[n] = NoLinks /\ ~c_rbnode_is_linked(pf', n)]_allvars
=============================================================================
