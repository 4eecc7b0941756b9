----------------------------- MODULE MCLockless -----------------------------
(* CRBLockless on nodes 1 .. N with distinct keys, for model checking. *)
EXTENDS CRBLockless

CONSTANT N    \* the number of nodes

MCNode  == 1 .. N
MCKeyOf == [n \in MCNode |-> n]
=============================================================================
