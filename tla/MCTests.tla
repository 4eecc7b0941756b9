----------------------------- MODULE MCTests -----------------------------
(* CRBTests on nodes 1 .. Nodes, ordered by their numbers, for model       *)
(* checking.                                                               *)
EXTENDS CRBTests

CONSTANT Nodes    \* the number of nodes

MCNode  == 1 .. Nodes
MCKeyOf == [n \in MCNode |-> n]
=============================================================================
