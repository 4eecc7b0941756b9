------------------------------- MODULE MCTree -------------------------------
(* CRBTraverse, and so CRBOrder and CRBTreeInv, on trees whose nodes are      *)
(* linked at arbitrary positions, for model checking.                         *)
EXTENDS CRBTraverse, TLC

\* Nodes and trees are interchangeable: no function compares addresses.
Symmetry == Permutations(Node) \cup Permutations(Tree)
=============================================================================
