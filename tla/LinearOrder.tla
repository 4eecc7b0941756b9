---------------------------- MODULE LinearOrder ----------------------------
(***************************************************************************)
(* What c-rbtree promises, without trees: "An RB-Tree always defines a     *)
(* linear order of its elements" (c_rbnode_next).  Each CRBTree object is  *)
(* a sequence of distinct nodes.  A node is put directly before or after   *)
(* another one, a node is taken out, or a whole sequence changes its       *)
(* object or is given up; nothing else ever changes an order.              *)
(***************************************************************************)
EXTENDS Sequences, SequencesExt

CONSTANTS Node, Tree

VARIABLE order    \* order[t]: the nodes of t from first to last

Member(n) == \E t \in Tree : Contains(order[t], n)

Init == order = [t \in Tree |-> <<>>]

InsertFirst(t, n) ==
  /\ ~Member(n) /\ order[t] = <<>>
  /\ order' = [order EXCEPT ![t] = <<n>>]

\* n is put into the gap on one side of the i-th node of t.
InsertNextTo(t, i, n) ==
  /\ ~Member(n)
  /\ \/ order' = [order EXCEPT ![t] = InsertAt(@, i, n)]
     \/ order' = [order EXCEPT ![t] = InsertAt(@, i + 1, n)]

TakeOut(t, n) ==
  \E i \in 1 .. Len(order[t]) :
    /\ order[t][i] = n
    /\ order' = [order EXCEPT ![t] = RemoveAt(@, i)]

Move(to, from) ==
  /\ order[to] = <<>> /\ order[from] # <<>>
  /\ order' = [order EXCEPT ![to] = order[from], ![from] = <<>>]

Clear(t) ==
  /\ order[t] # <<>>
  /\ order' = [order EXCEPT ![t] = <<>>]

Next == \E t \in Tree :
          \/ \E n \in Node :
               \/ InsertFirst(t, n)
               \/ \E i \in 1 .. Len(order[t]) : InsertNextTo(t, i, n)
               \/ TakeOut(t, n)
          \/ \E from \in Tree : Move(t, from)
          \/ Clear(t)

Spec == Init /\ [][Next]_order
=============================================================================
