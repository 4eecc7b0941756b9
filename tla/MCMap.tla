------------------------------- MODULE MCMap -------------------------------
(* CRBMap on nodes 1 .. N, of which two share a key, for model checking. *)
EXTENDS CRBMap

CONSTANT N    \* the number of nodes

MCNode  == 1 .. N
MCKeyOf == [n \in MCNode |-> n % (N - 1)]
=============================================================================
