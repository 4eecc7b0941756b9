---------------------------- MODULE MCParallel ----------------------------
(* CRBParallel on nodes 1 .. N, for model checking.  compare() subtracts   *)
(* the key from the node: the order is that of descending addresses.       *)
EXTENDS CRBParallel

CONSTANT N    \* the number of nodes

MCNode  == 1 .. N
MCKeyOf == [n \in MCNode |-> -n]
=============================================================================
