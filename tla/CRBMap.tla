------------------------------- MODULE CRBMap -------------------------------
(***************************************************************************)
(* Trees used the way c-rbtree.h's search helpers are meant to be used:    *)
(* each node has a key, c_rbtree_find_slot chooses the place for a new     *)
(* node and c_rbtree_find_node looks nodes up.                             *)
(***************************************************************************)
EXTENDS CRBTreeInv

CONSTANT KeyOf     \* the key of each node, which is what f compares

ASSUME KeysAreIntegers == KeyOf \in [Node -> Int]
ASSUME NodesAreFinite == IsFiniteSet(Node)

Key == {KeyOf[n] : n \in Node}
-----------------------------------------------------------------------------
(* Search *)

\* c_rbtree_find_node for key k, from node i on.
FindFrom(k) ==
  LET find[i \in Pointer] ==
        IF i = NULL THEN NULL
        ELSE IF k < KeyOf[i] THEN find[link[i]["left"]]
        ELSE IF k > KeyOf[i] THEN find[link[i]["right"]]
        ELSE i
  IN  find

c_rbtree_find_node(t, k) == FindFrom(k)[link[t]["root"]]

\* A slot is a pointer field: its object is *p or, for the root slot, the tree.
Slot == [p : Node \cup Tree, l : Side]

Target(slot) == link[slot.p][slot.l]

Conflict == "conflict"

\* c_rbtree_find_slot for key k, from a slot on. A conflict returns no slot, and
\* the node with that key in *p.
SlotFrom(k) ==
  LET find[z \in Slot] ==
        IF Target(z) = NULL THEN z
        ELSE IF k < KeyOf[Target(z)] THEN find[[p |-> Target(z), l |-> "left"]]
        ELSE IF k > KeyOf[Target(z)] THEN find[[p |-> Target(z), l |-> "right"]]
        ELSE [p |-> Target(z), l |-> Conflict]
  IN  find

RootSlot(t) == [p |-> t, l |-> "root"]

c_rbtree_find_slot(t, k) == SlotFrom(k)[RootSlot(t)]

\* The insertion c_rbtree_find_slot documents: find the slot, and on success add
\* the node there.
Insert(t, n) ==
  LET slot == c_rbtree_find_slot(t, KeyOf[n])
  IN  /\ Idle /\ owner[n] = NULL
      /\ \/ \E u \in Tree : slot = RootSlot(u) /\ AddRoot(u, n)
         \/ \E p \in Node, d \in Dir : slot = [p |-> p, l |-> d] /\ Link(p, d, n)

\* The empty slots for key k from a slot on, for a caller who allows duplicates
\* and turns either way at a node with the same key.
DuplicateSlots(k) ==
  LET find[z \in Slot] ==
        IF Target(z) = NULL THEN {z}
        ELSE (IF k <= KeyOf[Target(z)] THEN find[[p |-> Target(z), l |-> "left"]] ELSE {})
             \cup (IF k >= KeyOf[Target(z)] THEN find[[p |-> Target(z), l |-> "right"]] ELSE {})
  IN  find

\* c_rbtree_find_slot refuses duplicates; a caller who wants them searches the
\* tree by itself.
InsertDuplicate(t, n) ==
  LET slots == DuplicateSlots(KeyOf[n])[RootSlot(t)]
  IN  /\ Idle /\ owner[n] = NULL
      /\ KeyOf[n] \in {KeyOf[m] : m \in Node \ {n}}
      /\ \E p \in Node, d \in Dir : [p |-> p, l |-> d] \in slots /\ Link(p, d, n)

MapNext == \/ \E n \in Node : (\E t \in Tree : Insert(t, n) \/ InsertDuplicate(t, n))
                           \/ Unlink(n)
           \/ Move
           \/ Step

MapSpec == Init /\ [][MapNext]_vars

FairMapSpec == MapSpec /\ WF_vars(Step)

-----------------------------------------------------------------------------
(* Properties *)

KeysIn(t) == {KeyOf[n] : n \in {m \in InUse : owner[m] = t}}

\* c_rbtree_find_node finds exactly the keys that were inserted and not removed
\* since, in their own tree: between calls, and also between any two rotations
\* or recolorings inside a call.
LookupsCorrect ==
  \A t \in Tree, k \in Key :
    LET n == c_rbtree_find_node(t, k)
    IN  IF k \in KeysIn(t)
        THEN n \in InUse /\ owner[n] = t /\ KeyOf[n] = k
        ELSE n = NULL

\* c_rbtree_find_slot refuses exactly the keys that are present, naming the node
\* in the way, and otherwise returns an empty slot of its tree: the check for a
\* conflict and the check for a place are one search.
SlotsCorrect ==
  \A t \in Tree, k \in Key :
    LET slot == c_rbtree_find_slot(t, k)
    IN  IF k \in KeysIn(t)
        THEN slot.l = Conflict /\ KeyOf[slot.p] = k /\ owner[slot.p] = t
        ELSE /\ slot.l # Conflict /\ Home(owner, slot.p) = t
             /\ Target(slot) = NULL
=============================================================================
