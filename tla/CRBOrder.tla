------------------------------ MODULE CRBOrder ------------------------------
(***************************************************************************)
(* The trees of CRBTree implement the linear orders of LinearOrder: the    *)
(* order of a tree is its in-order sequence, and it changes in the one     *)
(* step of a call that stores the new node or takes the old one out; all   *)
(* rotations and recolorings leave it alone.                               *)
(***************************************************************************)
EXTENDS CRBTreeInv, Sequences

InOrder[x \in Pointer] ==
  IF x = NULL
  THEN <<>>
  ELSE InOrder[link[x]["left"]] \o <<x>> \o InOrder[link[x]["right"]]

\* The sequence of the nodes of each tree.
Orders == [t \in Tree |-> InOrder[link[t]["root"]]]

LO == INSTANCE LinearOrder WITH order <- Orders

\* Every call changes the linear order of its tree as documented, and what it does
\* before and after that step, rebalancing included, never reorders nodes. That no
\* rotation drops one, which would pass for a removal, is OrderComplete.
ImplementsLinearOrder == LO!Spec

\* The order has the nodes the caller put into the tree, no others, even while
\* the tree is being rebalanced.
OrderComplete ==
  \A t \in Tree :
    {Orders[t][i] : i \in 1 .. Len(Orders[t])} = {n \in InUse : owner[n] = t}

-----------------------------------------------------------------------------
(* Where a link puts the node *)

Index(t, n) == CHOOSE i \in 1 .. Len(Orders[t]) : Orders[t][i] = n

\* Linking n in the left field of p makes it the node directly before p, in the
\* right field the node directly after p.
LinkedNextToParent ==
  [][\A p, n \in Node, d \in Dir :
       Link(p, d, n) =>
         Index(owner[p], n)' =
           Index(owner[p], p)' + (IF d = "left" THEN -1 ELSE 1)]_vars
=============================================================================
