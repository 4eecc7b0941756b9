------------------------------ MODULE MCWord ------------------------------
(* CRBWord with objects at adjacent addresses, for model checking. *)
EXTENDS CRBWord

CONSTANTS n1, n2, n3, t1, t2

MCNode == {n1, n2, n3}
MCTree == {t1, t2}

\* Objects as close together as their alignment allows, in 8 bits, the first
\* node near the beginning and the last tree at the end of them.
MCAddress ==
  [x \in {n1, n2, n3, t1, t2, NULL} |->
     CASE x = n1 -> 8 [] x = n2 -> 12 [] x = n3 -> 128
       [] x = t1 -> 16 [] x = t2 -> 252 [] OTHER -> 0]
===========================================================================
