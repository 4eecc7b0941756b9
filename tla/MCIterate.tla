----------------------------- MODULE MCIterate -----------------------------
(* CRBIterate on small trees, for model checking. *)
EXTENDS CRBIterate, TLC

Symmetry == Permutations(Node) \cup Permutations(Tree)
=============================================================================
