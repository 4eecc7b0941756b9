---------------------------- MODULE CRBNode ----------------------------
(***************************************************************************)
(* The word __parent_and_flags of a node: a pointer to its parent, or to   *)
(* the tree it is the root of, with two flags in its low bits.  Here it is *)
(* a record of pointer and flag set; CRBWord shows that the integers of    *)
(* the source behave like these records.                                   *)
(***************************************************************************)
CONSTANTS Node,      \* the CRBNode objects the caller embeds in its own
          Tree,      \* the CRBTree objects
          NULL       \* the null pointer

ASSUME DistinctAddresses ==
         Node \cap Tree = {} /\ NULL \notin Node /\ NULL \notin Tree

C_RBNODE_RED  == "red"
C_RBNODE_ROOT == "root"

Word == [raw : Node \cup Tree \cup {NULL},
         flags : SUBSET {C_RBNODE_RED, C_RBNODE_ROOT}]

c_rbnode_raw(w, n)      == w[n].raw
c_rbnode_flags(w, n)    == w[n].flags
c_rbnode_is_red(w, n)   == C_RBNODE_RED \in w[n].flags
c_rbnode_is_black(w, n) == C_RBNODE_RED \notin w[n].flags
c_rbnode_is_root(w, n)  == C_RBNODE_ROOT \in w[n].flags

c_rbnode_parent(w, n) == IF c_rbnode_is_root(w, n) THEN NULL ELSE w[n].raw

c_rbnode_is_linked(w, n) == c_rbnode_parent(w, n) # n

\* The test  x && c_rbnode_is_red(x)  the source applies to nephews and uncles.
RedNode(w, x) == x # NULL /\ c_rbnode_is_red(w, x)

c_rbnode_set_parent_and_flags(w, n, p, f) ==
  [w EXCEPT ![n] = [raw |-> p, flags |-> f]]

\* The same under the guard  if (x)  of a rotation's inner child; clear is the
\* set of flags it masks out.
Reparent(w, x, p, clear) ==
  IF x = NULL
  THEN w
  ELSE c_rbnode_set_parent_and_flags(w, x, p, c_rbnode_flags(w, x) \ clear)

\* c_rbnode_pop_root returns the tree head n is the root of, NULL if it is not
\* a root, and clears the head and the flag in n.
RootOf(w, n) == IF c_rbnode_is_root(w, n) THEN c_rbnode_raw(w, n) ELSE NULL

\* Faulty: the flag stays in the word of the old root.
PopRootKeepsFlag(w, n) == w

c_rbnode_pop_root(w, n) ==
  IF c_rbnode_is_root(w, n)
  THEN c_rbnode_set_parent_and_flags(w, n, NULL,
                                     c_rbnode_flags(w, n) \ {C_RBNODE_ROOT})
  ELSE w

\* The word of the new root n; PutInPlace does the store to t->root.
c_rbnode_push_root(w, n, t) ==
  IF t = NULL
  THEN w
  ELSE c_rbnode_set_parent_and_flags(w, n, t,
                                     c_rbnode_flags(w, n) \cup {C_RBNODE_ROOT})
=========================================================================
