---------------------------- MODULE CRBTreeProofs ----------------------------
(***************************************************************************)
(* The pointers, the colors and the heights of the trees of CRBTree are    *)
(* right after every step of every call, whatever the number of nodes and  *)
(* trees, and the assertions and unchecked dereferences of c-rbtree.c are  *)
(* safe.                                                                   *)
(*                                                                         *)
(* The first half says what the functions of c-rbtree.c do to a tree, one  *)
(* piece of surgery at a time: the rotations, the recolorings, a node that *)
(* enters a tree or leaves it, the splicing of a successor, a tree that    *)
(* moves; and that the sequences of writes to __parent_and_flags in the    *)
(* source add up to them.  Its lemmas are stated for any memory m, any     *)
(* words w and any heights h, so that a rotation which is half of a longer *)
(* function can be looked at on its own.  The second half is about the     *)
(* states of CRBTree.                                                      *)
(***************************************************************************)
EXTENDS CRBTreeInv, TLAPS

-----------------------------------------------------------------------------
(* Memories *)


Memory == [Node \cup Tree -> [Side -> Pointer]]

\* The fields an object does not have stay NULL.
Shaped(m) == /\ \A n \in Node : m[n]["root"] = NULL
             /\ \A t \in Tree, d \in Dir : m[t][d] = NULL

Owners == [Node -> Tree \cup {NULL}]

\* Everything the pointers of a memory must satisfy.
Sound(o, m, w) ==
  m \in Memory /\ Shaped(m) /\ w \in [Node -> Word] /\ o \in Owners /\ Consistent(o, m, w)

\* m with v stored in field s of x.
Put(m, x, s, v) == [m EXCEPT ![x][s] = v]

\* The two directions are the fields of a node other than root, each the mirror
\* image of the other.
LEMMA Sides ==
  /\ Dir \subseteq Side
  /\ \A d \in Dir : Other(d) \in Dir /\ Other(d) # d /\ Other(Other(d)) = d
  /\ \A d \in Dir : d # "root"
  /\ "root" \in Side
  /\ \A d, e \in Dir : e = d \/ e = Other(d)
BY DEF Dir, Side, Other

\* Writing the field that holds n.
LEMMA PutInPlaceAt ==
  ASSUME NEW o, NEW m, NEW w, Consistent(o, m, w),
         NEW m1 \in Memory, NEW n \in Owned(o), NEW new,
         m1[w[n].raw] = m[w[n].raw]
  PROVE  \E s \in Side : /\ m[w[n].raw][s] = n
                         /\ s = "root" <=> w[n].raw \in Tree
                         /\ w[n].raw \in Holder(o)
                         /\ PutInPlace(m1, w, n, new) = Put(m1, w[n].raw, s, new)
<1> DEFINE x == w[n].raw
<1>1. x \in Holder(o) /\ \E s \in Side : m[x][s] = n
  BY DEF Consistent, ParentsKnowChild, c_rbnode_raw
<1>2. PICK s \in Side : m[x][s] = n
  BY <1>1
<1>3. n # NULL
  BY DistinctAddresses DEF Owned
<1>4. /\ s = "root" <=> c_rbnode_is_root(w, n)
      /\ s = "root" <=> x \in Tree
      /\ \A e \in Side : m[x][e] = n => e = s
  BY <1>1, <1>2, <1>3 DEF Consistent, ChildrenKnowParent
<1>5. PutInPlace(m1, w, n, new) = Put(m1, x, s, new)
  BY <1>2, <1>4 DEF PutInPlace, SideOf, Side, Put
<1> QED
  BY <1>1, <1>2, <1>4, <1>5

\* s, the child of p on side e, is rotated above p: what becomes of the fields.
RotatedLinks(m, w, m2, p, e, s) ==
  m2 = PutInPlace([m EXCEPT ![p][e] = m[s][Other(e)], ![s][Other(e)] = p], w, p, s)

\* What becomes of the words, but for the colors.
RotatedWords(m, w, w2, p, e, s) ==
  /\ w2 \in [Node -> Word]
  /\ \A n \in Node :
       /\ w2[n].raw = IF n = s THEN w[p].raw
                      ELSE IF n = p THEN s
                      ELSE IF n = m[s][Other(e)] THEN p
                      ELSE w[n].raw
       /\ c_rbnode_is_root(w2, n) <=>
            IF n = s THEN c_rbnode_is_root(w, p) ELSE n # p /\ c_rbnode_is_root(w, n)

\* The same fields one by one; g is the object that holds p.
RotatedFields(m, m2, g, t, p, e, s) ==
  \A a \in Node \cup Tree, b \in Side :
        m2[a][b] = IF a = g /\ b = t THEN s
                   ELSE IF a = p /\ b = e THEN m[s][Other(e)]
                   ELSE IF a = s /\ b = Other(e) THEN p
                   ELSE m[a][b]

Rotated(m, w, m2, p, e, s) ==
  \E t \in Side : m[w[p].raw][t] = p /\ RotatedFields(m, m2, w[p].raw, t, p, e, s)

\* What is to be rotated: a node p, and on its side e a node s, in no loop.
Rotatable(o, m, w, p, e, s) ==
  /\ p \in Owned(o) /\ e \in Dir /\ s \in Node
  /\ m[p][e] = s
  /\ w[p].raw # s

\* A rotation keeps the pointers consistent.
LEMMA RotationConsistent ==
  ASSUME NEW o, NEW m, NEW w, Sound(o, m, w),
         NEW m2, NEW w2, NEW p, NEW e, NEW s,
         Rotatable(o, m, w, p, e, s),
         RotatedLinks(m, w, m2, p, e, s),
         RotatedWords(m, w, w2, p, e, s)
  PROVE  Sound(o, m2, w2) /\ Rotated(m, w, m2, p, e, s)
<1>0. m \in Memory /\ Shaped(m) /\ w \in [Node -> Word] /\ o \in Owners /\ Consistent(o, m, w)
  BY DEF Sound
<1> DEFINE x == m[s][Other(e)]
           g == w[p].raw
           m1 == [m EXCEPT ![p][e] = x, ![s][Other(e)] = p]
<1>1. /\ p \in Owned(o) /\ p \in Node /\ e \in Dir /\ e \in Side /\ Other(e) \in Side
      /\ Other(e) # e /\ e # "root" /\ Other(e) # "root" /\ Other(e) \in Dir
      /\ m[p][e] = s /\ s \in Node /\ s # NULL
  BY Sides, DistinctAddresses DEF Rotatable, Owned
<1>2. /\ o[s] = o[p] /\ w[s].raw = p /\ ~c_rbnode_is_root(w, s)
      /\ \A b \in Side : m[p][b] = s => b = e
      /\ s \in Owned(o) /\ o[p] # NULL
  BY <1>0, <1>1, DistinctAddresses DEF Consistent, ChildrenKnowParent, Holder, Owned, Home, c_rbnode_raw
<1>3. s # p /\ g # p /\ g # s /\ g \in Holder(o)
  BY <1>0, <1>1, <1>2 DEF Rotatable, Consistent, ParentsKnowChild, c_rbnode_raw
<1>4. x # p /\ x # s /\ (x # NULL => x \in Owned(o) /\ w[x].raw = s /\ o[x] = o[p] /\ ~c_rbnode_is_root(w, x)
           /\ \A b \in Side : m[s][b] = x => b = Other(e))
  <2>1. x # NULL => w[x].raw = s /\ o[x] = o[p] /\ ~c_rbnode_is_root(w, x)
           /\ \A b \in Side : m[s][b] = x => b = Other(e)
    BY <1>0, <1>1, <1>2, DistinctAddresses DEF Consistent, ChildrenKnowParent, Holder, Owned, Home, c_rbnode_raw
  <2>2. x \in Pointer
    BY <1>0, <1>1 DEF Memory
  <2>3. p # NULL /\ w[s].raw = p
    BY <1>2, <1>1, DistinctAddresses DEF Owned
  <2>4. x # p /\ x # s
    BY <1>1, <1>3, <2>1, <2>3
  <2>5. x # NULL => x \in Owned(o)
    BY <1>2, <2>1, <2>2 DEF Owned, Pointer
  <2> QED
    BY <2>1, <2>4, <2>5
<1>5. m1 \in Memory /\ m1[g] = m[g]
  <2>1. x \in Pointer /\ p \in Pointer
    BY <1>0, <1>1 DEF Memory, Pointer
  <2>2. g \in Node \cup Tree /\ p \in Node \cup Tree /\ s \in Node \cup Tree
    BY <1>1, <1>3 DEF Holder, Owned
  <2> HIDE DEF x, g
  <2>3. m1 \in Memory
    BY <1>0, <2>1, <2>2, <1>1 DEF Memory
  <2>4. m1[g] = m[g]
    BY <1>0, <2>2, <1>1, <1>3 DEF Memory
  <2> QED
    BY <2>3, <2>4
<1>6. PICK t \in Side : /\ m[g][t] = p
                        /\ t = "root" <=> g \in Tree
                        /\ m2 = Put(m1, g, t, s)
  <2>1. m2 = PutInPlace(m1, w, p, s)
    BY DEF RotatedLinks
  <2>2. m1[w[p].raw] = m[w[p].raw] /\ m1 \in Memory /\ p \in Owned(o)
    BY <1>1, <1>5
  <2> HIDE DEF m1
  <2>3. \E t \in Side : /\ m[w[p].raw][t] = p
                        /\ t = "root" <=> w[p].raw \in Tree
                        /\ w[p].raw \in Holder(o)
                        /\ PutInPlace(m1, w, p, s) = Put(m1, w[p].raw, t, s)
    BY <1>0, <2>2, PutInPlaceAt
  <2> QED
    BY <2>1, <2>3
<1>7. m2 \in Memory
  BY <1>0, <1>1, <1>5, <1>6 DEF Memory, Pointer, Put
<1>8. \A a \in Node \cup Tree, b \in Side :
        m2[a][b] = IF a = g /\ b = t THEN s
                   ELSE IF a = p /\ b = e THEN x
                   ELSE IF a = s /\ b = Other(e) THEN p
                   ELSE m[a][b]
  BY <1>0, <1>1, <1>3, <1>5, <1>6 DEF Memory, Owned, Put
<1>9. \A n \in Node :
       /\ w2[n].raw = IF n = s THEN g ELSE IF n = p THEN s ELSE IF n = x THEN p ELSE w[n].raw
       /\ c_rbnode_is_root(w2, n) <=>
            IF n = s THEN c_rbnode_is_root(w, p) ELSE n # p /\ c_rbnode_is_root(w, n)
  BY DEF RotatedWords
<1>9a. Home(o, g) = o[p] /\ (t = "root" <=> c_rbnode_is_root(w, p)) 
       /\ (\A b \in Side : m[g][b] = p => b = t) /\ g \in Node \cup Tree
  BY <1>0, <1>1, <1>3, <1>6, DistinctAddresses DEF Consistent, ChildrenKnowParent, c_rbnode_raw, Owned, Holder
<1>9b. \A f \in Side : /\ m[g][f] # s /\ m[s][f] # p
                       /\ x # NULL => m[p][f] # x
  BY <1>0, <1>1, <1>2, <1>3, <1>4, DistinctAddresses
     DEF Consistent, ChildrenKnowParent, c_rbnode_raw, Owned, Holder
<1>10. ChildrenKnowParent(o, m2, w2)
  <2> SUFFICES ASSUME NEW a \in Holder(o), NEW b \in Side, m2[a][b] # NULL
               PROVE  /\ o[m2[a][b]] = Home(o, a)
                      /\ w2[m2[a][b]].raw = a
                      /\ b = "root" <=> c_rbnode_is_root(w2, m2[a][b])
                      /\ b = "root" <=> a \in Tree
                      /\ \A f \in Side : m2[a][f] = m2[a][b] => f = b
    BY DEF ChildrenKnowParent, c_rbnode_raw
  <2>0. a \in Node \cup Tree /\ (a \in Tree => a \notin Node)
    BY DistinctAddresses DEF Holder, Owned
  <2>a. m[a][b] # NULL =>
         /\ o[m[a][b]] = Home(o, a)
         /\ w[m[a][b]].raw = a
         /\ b = "root" <=> c_rbnode_is_root(w, m[a][b])
         /\ b = "root" <=> a \in Tree
         /\ \A f \in Side : m[a][f] = m[a][b] => f = b
    BY <1>0 DEF Consistent, ChildrenKnowParent, c_rbnode_raw
  <2>b. \A f \in Side : m[a][f] \in Pointer
    BY <1>0, <2>0 DEF Memory
  <2> HIDE DEF m1, x, g
  <2>1. CASE a = g /\ b = t
    BY <2>1, <2>0, <1>1, <1>2, <1>3, <1>6, <1>8, <1>9, <1>9a, <1>9b
  <2>2. CASE a = p /\ b = e
    BY <2>2, <2>0, <1>1, <1>2, <1>3, <1>4, <1>8, <1>9, <1>9b DEF Home, Owned
  <2>3. CASE a = s /\ b = Other(e)
    BY <2>3, <2>0, <1>1, <1>2, <1>3, <1>4, <1>8, <1>9, <1>9b DEF Home, Owned
  <2>4. CASE ~(a = g /\ b = t) /\ ~(a = p /\ b = e) /\ ~(a = s /\ b = Other(e))
    <3>1. m2[a][b] = m[a][b] /\ m[a][b] # NULL /\ m[a][b] \in Node
      BY <2>4, <2>0, <2>b, <1>8 DEF Pointer
    <3>2. m[a][b] # s /\ m[a][b] # p /\ m[a][b] # x
      BY <3>1, <2>4, <2>a, <1>1, <1>2, <1>3, <1>4, <1>6, <1>9a DEF g
    <3>3. \A f \in Side : m2[a][f] = m[a][b] => m[a][f] = m[a][b]
      BY <3>1, <3>2, <2>0, <1>8
    <3> QED
      BY <3>1, <3>2, <3>3, <2>a, <1>9
  <2> QED
    BY <2>1, <2>2, <2>3, <2>4
<1>11. ParentsKnowChild(o, m2, w2)
  <2> SUFFICES ASSUME NEW n \in Owned(o)
               PROVE  /\ w2[n].raw \in Holder(o) /\ w2[n].raw # n
                      /\ \E f \in Side : m2[w2[n].raw][f] = n
    BY DEF ParentsKnowChild, c_rbnode_raw
  <2>0. n \in Node /\ p \in Holder(o) /\ s \in Holder(o) /\ Holder(o) \subseteq Node \cup Tree
    BY <1>1, <1>2 DEF Owned, Holder
  <2>1. /\ w[n].raw \in Holder(o) /\ w[n].raw # n
        /\ \E f \in Side : m[w[n].raw][f] = n
    BY <1>0 DEF Consistent, ParentsKnowChild, c_rbnode_raw
  <2> HIDE DEF m1, x, g
  <2>2. CASE n = s
    BY <2>2, <2>0, <1>1, <1>2, <1>3, <1>6, <1>8, <1>9
  <2>3. CASE n = p
    BY <2>3, <2>0, <1>1, <1>2, <1>3, <1>6, <1>8, <1>9
  <2>4. CASE n = x
    BY <2>4, <2>0, <1>1, <1>2, <1>3, <1>4, <1>6, <1>8, <1>9
  <2>5. CASE n # s /\ n # p /\ n # x
    BY <2>5, <2>0, <2>1, <1>1, <1>2, <1>3, <1>4, <1>6, <1>8, <1>9 DEF x, g
  <2> QED
    BY <2>2, <2>3, <2>4, <2>5
<1>12. Shaped(m2)
  <2>1. t = "root" <=> g \in Tree
    BY <1>6
  <2>2. p \in Node /\ s \in Node /\ g \in Node \cup Tree
    BY <1>1, <1>9a
  <2> HIDE DEF g, x
  <2> QED
    BY <1>0, <1>1, <1>8, <2>1, <2>2, Sides, DistinctAddresses DEF Shaped, Dir, Side
<1>13. RotatedFields(m, m2, g, t, p, e, s) /\ m[g][t] = p
  BY <1>6, <1>8 DEF RotatedFields
<1>14. Sound(o, m2, w2)
  BY <1>0, <1>7, <1>10, <1>11, <1>12 DEF Sound, Consistent, RotatedWords
<1> QED
  BY <1>13, <1>14 DEF Rotated

-----------------------------------------------------------------------------
(* What a consistent memory says of the neighbours of a node *)

\* A child of n: its word names n, it is no root, in the same tree, and not the
\* other child.
LEMMA ChildFacts ==
  ASSUME NEW o, NEW m, NEW w, Sound(o, m, w),
         NEW n \in Owned(o), NEW d \in Dir, m[n][d] # NULL
  PROVE  /\ m[n][d] \in Owned(o) /\ m[n][d] \in Node /\ m[n][d] # n
         /\ w[m[n][d]].raw = n /\ ~c_rbnode_is_root(w, m[n][d])
         /\ o[m[n][d]] = o[n]
         /\ m[n][d] # m[n][Other(d)]
<1>0. m \in Memory /\ Consistent(o, m, w)
  BY DEF Sound
<1>1. n \in Node /\ o[n] # NULL /\ n \in Holder(o) /\ n \notin Tree /\ d \in Side /\ d # "root"
      /\ Other(d) \in Side /\ Other(d) # d
  BY Sides, DistinctAddresses DEF Owned, Holder
<1>2. /\ o[m[n][d]] = o[n] /\ w[m[n][d]].raw = n /\ ~c_rbnode_is_root(w, m[n][d])
      /\ \A e \in Side : m[n][e] = m[n][d] => e = d
  BY <1>0, <1>1 DEF Consistent, ChildrenKnowParent, Home, c_rbnode_raw
<1>3. m[n][d] \in Owned(o) /\ m[n][d] \in Node
  BY <1>0, <1>1, <1>2 DEF Memory, Pointer, Owned
<1>4. m[n][d] # n
  BY <1>0, <1>2, <1>3 DEF Consistent, ParentsKnowChild, c_rbnode_raw
<1> QED
  BY <1>1, <1>2, <1>3, <1>4

\* The word of a node in a tree names the tree it is the root of, or the node
\* it is a child of.
LEMMA ParentFacts ==
  ASSUME NEW o, NEW m, NEW w, Sound(o, m, w), NEW n \in Owned(o)
  PROVE  /\ n \in Node /\ n # NULL /\ w[n].raw # n
         /\ c_rbnode_is_root(w, n) => w[n].raw \in Tree /\ m[w[n].raw]["root"] = n
                                      /\ o[n] = w[n].raw
         /\ ~c_rbnode_is_root(w, n) =>
              /\ w[n].raw \in Owned(o) /\ w[n].raw \in Node
              /\ o[w[n].raw] = o[n]
              /\ \E d \in Dir : m[w[n].raw][d] = n
<1>0. m \in Memory /\ Consistent(o, m, w)
  BY DEF Sound
<1>1. n \in Node /\ n # NULL
  BY DistinctAddresses DEF Owned
<1>2. PICK s \in Side : m[w[n].raw][s] = n
  BY <1>0 DEF Consistent, ParentsKnowChild, c_rbnode_raw
<1>3. w[n].raw \in Holder(o) /\ w[n].raw # n
  BY <1>0 DEF Consistent, ParentsKnowChild, c_rbnode_raw
<1>4. /\ s = "root" <=> c_rbnode_is_root(w, n)
      /\ s = "root" <=> w[n].raw \in Tree
      /\ o[n] = Home(o, w[n].raw)
  BY <1>0, <1>1, <1>2, <1>3 DEF Consistent, ChildrenKnowParent
<1>5. s = "root" \/ s \in Dir
  BY DEF Side, Dir
<1>6. w[n].raw \notin Tree => w[n].raw \in Owned(o) /\ w[n].raw \in Node
  BY <1>3 DEF Holder, Owned
<1> QED
  BY <1>1, <1>2, <1>3, <1>4, <1>5, <1>6 DEF Home

\* Among siblings, the only nodes whose parent word names n are its children.
LEMMA OnlyChildren ==
  ASSUME NEW o, NEW m, NEW w, Sound(o, m, w), NEW n \in Owned(o), NEW d \in Dir,
         NEW k \in Owned(o), w[k].raw = n
  PROVE  k = m[n][d] \/ k = m[n][Other(d)]
<1>1. ~c_rbnode_is_root(w, k)
  BY ParentFacts, DistinctAddresses DEF Owned
<1>2. PICK e \in Dir : m[n][e] = k
  BY <1>1, ParentFacts
<1> QED
  BY <1>2, Sides

-----------------------------------------------------------------------------
(* Heights *)

Heights == [Node -> Nat]

\* The height below a field, NULL or not, is a number.
LEMMA HeightOfIsNat ==
  ASSUME NEW h \in Heights, NEW x \in Pointer
  PROVE  HeightOf(h, x) \in Nat
BY DEF Heights, Pointer, HeightOf

\* The equations of HeightsAgree at a node n that has no hole on side d.
LEMMA HeightBelow ==
  ASSUME NEW o, NEW m, NEW w, Sound(o, m, w), NEW h \in Heights, NEW q, NEW e,
         HeightsAgree(o, m, w, h, q, e), NEW n \in Owned(o), NEW d \in Dir
  PROVE  /\ h[n] \in Nat /\ HeightOf(h, m[n][d]) \in Nat
         /\ h[n] = HeightOf(h, m[n][d]) + (IF n = q /\ d = e THEN 1 ELSE 0)
                     + (IF c_rbnode_is_red(w, n) THEN 0 ELSE 1)
<1>1. n \in Node /\ m[n][d] \in Pointer
  BY Sides DEF Sound, Memory, Owned
<1>2. h[n] \in Nat /\ HeightOf(h, m[n][d]) \in Nat
  BY <1>1, HeightOfIsNat DEF Heights
<1>3. Black(w, n) = IF c_rbnode_is_red(w, n) THEN 0 ELSE 1
  BY DEF Black, c_rbnode_is_red, c_rbnode_is_black
<1> QED
  BY <1>2, <1>3 DEF HeightsAgree

\* The equations of HeightsAgree at the node n.
AgreeAt(m, w, h, q, e, n) ==
  \A d \in Dir : h[n] = HeightOf(h, m[n][d]) + (IF n = q /\ d = e THEN 1 ELSE 0) + Black(w, n)

\* Nodes other than f, s and p keep height and color, and the hole if any.
Undisturbed(o, w, w2, h, h2, q, a, q2, a2, f, s, p) ==
  \A n \in Owned(o) : n # f /\ n # s /\ n # p =>
     /\ h2[n] = h[n]
     /\ c_rbnode_is_red(w2, n) <=> c_rbnode_is_red(w, n)
     /\ \A d \in Dir : (n = q /\ d = a) <=> (n = q2 /\ d = a2)

\* After a rotation only the heights of the two nodes that moved, and of a
\* child f of the upper one, need to be looked at.
LEMMA RotationHeights ==
  ASSUME NEW o, NEW m, NEW w, Sound(o, m, w),
         NEW m2, NEW w2, NEW p, NEW e, NEW s,
         Rotatable(o, m, w, p, e, s),
         Rotated(m, w, m2, p, e, s),
         NEW h \in Heights, NEW h2 \in Heights, NEW q, NEW a, NEW q2, NEW a2,
         HeightsAgree(o, m, w, h, q, a),
         NEW f, f # NULL => (f \in Owned(o) /\ w[f].raw = s /\ AgreeAt(m2, w2, h2, q2, a2, f)),
         h2[s] = h[p],
         Undisturbed(o, w, w2, h, h2, q, a, q2, a2, f, s, p),
         AgreeAt(m2, w2, h2, q2, a2, s), AgreeAt(m2, w2, h2, q2, a2, p)
  PROVE  HeightsAgree(o, m2, w2, h2, q2, a2)
<1> SUFFICES ASSUME NEW n \in Owned(o), NEW d \in Dir, n # f /\ n # s /\ n # p
             PROVE  h2[n] = HeightOf(h2, m2[n][d]) + (IF n = q2 /\ d = a2 THEN 1 ELSE 0) + Black(w2, n)
  BY DistinctAddresses DEF HeightsAgree, AgreeAt, Owned
<1>1. h2[n] = HeightOf(h, m[n][d]) + (IF n = q2 /\ d = a2 THEN 1 ELSE 0) + Black(w2, n)
  BY DEF HeightsAgree, Undisturbed, Black, c_rbnode_is_red, c_rbnode_is_black
<1>2. /\ p \in Owned(o) /\ p \in Node /\ e \in Dir /\ m[p][e] = s /\ s \in Node /\ p # NULL /\ s # NULL
      /\ w[p].raw # s /\ n \in Node /\ d \in Side
  BY Sides, DistinctAddresses DEF Rotatable, Owned
<1>3. w[s].raw = p
  BY <1>2, ChildFacts
<1>t. PICK t \in Side : m[w[p].raw][t] = p /\ RotatedFields(m, m2, w[p].raw, t, p, e, s)
  BY DEF Rotated
<1>4. m2[n][d] = IF n = w[p].raw /\ d = t THEN s ELSE m[n][d]
  BY <1>2, <1>t DEF RotatedFields
<1>5. CASE n = w[p].raw /\ d = t
  BY <1>1, <1>2, <1>t, <1>4, <1>5 DEF HeightOf
<1>6. CASE ~(n = w[p].raw /\ d = t)
  <2>1. CASE m[n][d] = NULL
    BY <1>1, <1>4, <1>6, <2>1 DEF HeightOf
  <2>2. CASE m[n][d] # NULL
    <3>1. m[n][d] \in Owned(o) /\ w[m[n][d]].raw = n
      BY <2>2, ChildFacts
    <3>2. m[n][d] # p
      <4>1. ASSUME m[n][d] = p PROVE FALSE
        <5>1. w[p].raw = n /\ m[n][t] = p
          BY <1>t, <3>1, <4>1
        <5>2. Consistent(o, m, w) /\ n \in Holder(o)
          BY DEF Sound, Holder
        <5>3. t = d
          BY <5>1, <5>2, <4>1, <1>2 DEF Consistent, ChildrenKnowParent
        <5> QED
          BY <5>1, <5>3, <1>6
      <4> QED
        BY <4>1
    <3>3. m[n][d] # f /\ m[n][d] # s /\ m[n][d] # p
      BY <3>1, <3>2, <1>3, <2>2
    <3>4. h2[m[n][d]] = h[m[n][d]]
      BY <3>1, <3>3 DEF Undisturbed
    <3> QED
      BY <3>4, <2>2, <1>1, <1>4, <1>6 DEF HeightOf
  <2> QED
    BY <2>1, <2>2
<1> QED
  BY <1>5, <1>6

-----------------------------------------------------------------------------
(* Paths down *)

\* A set of nodes that no child field leads out of.
Closed(m, C) == \A n \in C, d \in Dir : m[n][d] \in Node => m[n][d] \in C

\* x and the nodes below it.
Subtree(m, x) ==
  {y \in Node : x \in Node /\ \A C \in SUBSET Node : Closed(m, C) /\ x \in C => y \in C}

\* A subtree is the least closed set with its top.
LEMMA SubtreeFacts ==
  ASSUME NEW m, NEW x
  PROVE  /\ Closed(m, Subtree(m, x)) /\ Subtree(m, x) \in SUBSET Node
         /\ x \in Node => x \in Subtree(m, x)
         /\ x \notin Node => Subtree(m, x) = {}
         /\ \A C \in SUBSET Node : Closed(m, C) /\ x \in C => Subtree(m, x) \subseteq C
BY DEF Subtree, Closed

\* The subtrees of the nodes in a subtree are parts of it.
LEMMA SubtreeWithin ==
  ASSUME NEW m, NEW x, NEW y \in Subtree(m, x)
  PROVE  Subtree(m, y) \subseteq Subtree(m, x)
BY SubtreeFacts

\* A subtree is its top and the subtrees of the two children.
LEMMA SubtreeParts ==
  ASSUME NEW m, NEW x \in Node, NEW y \in Subtree(m, x), y # x
  PROVE  \E d \in Dir : y \in Subtree(m, m[x][d])
<1> DEFINE C == {x} \cup {z \in Node : \E d \in Dir : z \in Subtree(m, m[x][d])}
<1>1. Closed(m, C)
  <2> SUFFICES ASSUME NEW n \in C, NEW d \in Dir, m[n][d] \in Node
               PROVE  m[n][d] \in C
    BY DEF Closed
  <2>1. CASE n = x
    BY <2>1, SubtreeFacts
  <2>2. CASE n # x
    <3>1. PICK e \in Dir : n \in Subtree(m, m[x][e])
      BY <2>2
    <3>2. m[n][d] \in Subtree(m, m[x][e])
      BY <3>1, SubtreeFacts DEF Closed
    <3> QED
      BY <3>2
  <2> QED
    BY <2>1, <2>2
<1>2. C \in SUBSET Node /\ x \in C
  OBVIOUS
<1>3. y \in C
  <2> HIDE DEF C
  <2> QED
    BY <1>1, <1>2, SubtreeFacts
<1> QED
  BY <1>3

\* Without loops no node is below itself.
LEMMA NotBelowItself ==
  ASSUME NEW m, NoLoops(m), NEW p \in Node, NEW d \in Dir
  PROVE  p \notin Subtree(m, m[p][d])
<1> SUFFICES ASSUME p \in Subtree(m, m[p][d])
             PROVE  FALSE
  OBVIOUS
<1> DEFINE S == {y \in Node : p \in Subtree(m, y)}
<1>1. ASSUME NEW y \in S
      PROVE  \E e \in Dir : m[y][e] \in S
  <2>1. CASE y = p
    <3>1. m[p][d] \in Node
      BY SubtreeFacts
    <3> QED
      BY <2>1, <3>1
  <2>2. CASE y # p
    <3>1. PICK e \in Dir : p \in Subtree(m, m[y][e])
      BY <1>1, <2>2, SubtreeParts
    <3>2. m[y][e] \in Node
      BY <3>1, SubtreeFacts
    <3> QED
      BY <3>1, <3>2
  <2> QED
    BY <2>1, <2>2
<1>2. p \in S /\ S \in SUBSET Node
  BY SubtreeFacts
<1> HIDE DEF S
<1> QED
  BY <1>1, <1>2 DEF NoLoops

\* A node of a subtree other than its top has a parent in the subtree.
LEMMA ParentInSubtree ==
  ASSUME NEW m, NEW x, NEW y \in Subtree(m, x), y # x
  PROVE  \E z \in Subtree(m, x), d \in Dir : m[z][d] = y
<1> SUFFICES ASSUME \A z \in Subtree(m, x), d \in Dir : m[z][d] # y
             PROVE  FALSE
  OBVIOUS
<1> DEFINE C == Subtree(m, x) \ {y}
<1>1. Closed(m, C) /\ C \in SUBSET Node
  BY SubtreeFacts DEF Closed
<1>2. x \in C
  BY SubtreeFacts
<1> QED
  BY <1>1, <1>2, SubtreeFacts

\* What a single store changes.
LEMMA PutFacts ==
  ASSUME NEW m \in Memory, NEW x \in Node \cup Tree, NEW s \in Side, NEW v \in Pointer
  PROVE  /\ Put(m, x, s, v) \in Memory
         /\ \A n \in Node \cup Tree, d \in Side :
              Put(m, x, s, v)[n][d] = IF n = x /\ d = s THEN v ELSE m[n][d]
BY DEF Memory, Put

\* A store makes no loop if what is stored is in a closed set without the object
\* that is written to.
LEMMA PutMakesNoLoop ==
  ASSUME NEW m \in Memory, NoLoops(m),
         NEW x \in Node \cup Tree, NEW s \in Side, NEW v \in Pointer,
         \/ x \in Tree
         \/ v = NULL
         \/ \E C \in SUBSET Node : Closed(m, C) /\ v \in C /\ x \notin C
  PROVE  NoLoops(Put(m, x, s, v))
<1> DEFINE m2 == Put(m, x, s, v)
<1> SUFFICES ASSUME NEW S \in SUBSET Node, S # {},
                    \A n \in S : \E d \in Dir : m2[n][d] \in S
             PROVE  FALSE
  BY DEF NoLoops
<1>1. \A n \in Node, d \in Dir : m2[n][d] = IF n = x /\ d = s THEN v ELSE m[n][d]
  BY PutFacts, Sides
<1> HIDE DEF m2
<1>2. PICK n \in S : \A d \in Dir : m[n][d] \notin S
  BY DEF NoLoops
<1>3. n = x /\ v \in S
  BY <1>1, <1>2
<1>4. PICK C \in SUBSET Node : Closed(m, C) /\ v \in C /\ x \notin C
  BY <1>3, DistinctAddresses
<1>5. S \cap C # {} /\ S \cap C \in SUBSET Node
  BY <1>3, <1>4
<1>6. PICK k \in S \cap C : \A d \in Dir : m[k][d] \notin S \cap C
  BY <1>5 DEF NoLoops
<1>7. PICK d \in Dir : m2[k][d] \in S
  BY <1>6
<1>8. m2[k][d] = m[k][d]
  BY <1>1, <1>4, <1>6
<1> QED
  BY <1>4, <1>6, <1>7, <1>8 DEF Closed

\* The last store of a removal or a rotation: something that was below p takes
\* its place.
LEMMA InPlaceMakesNoLoop ==
  ASSUME NEW m, NEW p, NEW g \in Node \cup Tree, NEW t \in Side, g \notin Subtree(m, p),
         NEW m2 \in Memory, NoLoops(m2), Closed(m2, Subtree(m, p)),
         NEW v \in Subtree(m, p) \cup {NULL}
  PROVE  NoLoops(Put(m2, g, t, v))
<1>1. v \in Pointer /\ Subtree(m, p) \in SUBSET Node
  BY SubtreeFacts DEF Pointer
<1> QED
  BY <1>1, PutMakesNoLoop

\* s is the child of p on side e and of nothing else in the closed set U.
Held(m, U, p, e, s) ==
  /\ U \in SUBSET Node /\ Closed(m, U)
  /\ p \in U /\ s \in U /\ e \in Dir /\ m[p][e] = s
  /\ \A n \in U, d \in Dir : m[n][d] = s => n = p /\ d = e

HalfOpened(m, p, e, s) == Put(m, p, e, m[s][Other(e)])
Opened(m, p, e, s)     == Put(HalfOpened(m, p, e, s), s, Other(e), p)

OpenedFields(m, m2, p, e, s) ==
  \A n \in Node \cup Tree, d \in Side :
    m2[n][d] = IF n = p /\ d = e THEN m[s][Other(e)]
               ELSE IF n = s /\ d = Other(e) THEN p
               ELSE m[n][d]

\* The first two stores of a rotation: what is below s goes to p, then p goes
\* below s. No field but that of p held s, and now none does.
LEMMA RotationOpens ==
  ASSUME NEW m \in Memory, NoLoops(m), NEW U, NEW p, NEW e, NEW s, Held(m, U, p, e, s)
  PROVE  /\ HalfOpened(m, p, e, s) \in Memory /\ Opened(m, p, e, s) \in Memory
         /\ NoLoops(HalfOpened(m, p, e, s)) /\ NoLoops(Opened(m, p, e, s))
         /\ Closed(Opened(m, p, e, s), U \ {s})
         /\ Closed(Opened(m, p, e, s), Subtree(m, p)) /\ s \in Subtree(m, p)
         /\ p # s /\ m[s][Other(e)] \in U \cup {NULL}
         /\ OpenedFields(m, Opened(m, p, e, s), p, e, s)
<1> DEFINE m1 == HalfOpened(m, p, e, s)
           m2 == Opened(m, p, e, s)
<1> USE DEF Held
<1> DEFINE c == m[s][Other(e)]
<1>00. m1 = Put(m, p, e, c) /\ m2 = Put(m1, s, Other(e), p)
  BY DEF HalfOpened, Opened
<1> HIDE DEF m1, m2
<1>0. Other(e) \in Dir /\ Other(e) \in Side /\ e \in Side /\ Dir \subseteq Side
  BY Sides
<1>1. p \in Node /\ s \in Node /\ c \in Pointer /\ p \in Pointer
  BY <1>0 DEF Memory, Pointer
<1>2. c \in Node => c \in U /\ c \in Subtree(m, s)
  BY <1>0, <1>1, SubtreeFacts DEF Closed
<1>3. p \notin Subtree(m, s) /\ s \in Subtree(m, s)
  BY <1>1, NotBelowItself, SubtreeFacts
<1>4. p # s /\ s \in Subtree(m, p)
  <2>1. s \in Subtree(m, p)
    BY <1>1, SubtreeFacts DEF Closed
  <2> QED
    BY <2>1, <1>3
<1>5. m1 \in Memory /\ NoLoops(m1)
  <2>1. c = NULL \/ \E C \in SUBSET Node : Closed(m, C) /\ c \in C /\ p \notin C
    BY <1>1, <1>2, <1>3, SubtreeFacts DEF Pointer
  <2> HIDE DEF c
  <2>2. m1 = Put(m, p, e, c)
    BY <1>00
  <2> QED
    BY <2>1, <2>2, <1>0, <1>1, PutFacts, PutMakesNoLoop
<1>6. \A n \in Node \cup Tree, d \in Side : m1[n][d] = IF n = p /\ d = e THEN c ELSE m[n][d]
  <2>1. p \in Node \cup Tree /\ m1 = Put(m, p, e, c)
    BY <1>1, <1>00
  <2> HIDE DEF c
  <2> QED
    BY <2>1, <1>0, <1>1 DEF Put, Memory
<1>7. c # s
  BY <1>0, <1>4
<1>8. Closed(m1, U \ {s})
  <2> HIDE DEF c
  <2> SUFFICES ASSUME NEW n \in U \ {s}, NEW d \in Dir, m1[n][d] \in Node
               PROVE  m1[n][d] \in U \ {s}
    BY DEF Closed
  <2>1. CASE n = p /\ d = e
    BY <2>1, <1>0, <1>1, <1>2, <1>6, <1>7
  <2>2. CASE ~(n = p /\ d = e)
    <3>1. m1[n][d] = m[n][d]
      BY <2>2, <1>0, <1>6
    <3> QED
      BY <2>2, <3>1 DEF Closed
  <2> QED
    BY <2>1, <2>2
<1>9. m2 \in Memory /\ NoLoops(m2)
  <2>1. \E C \in SUBSET Node : Closed(m1, C) /\ p \in C /\ s \notin C
    BY <1>4, <1>8
  <2> QED
    BY <2>1, <1>00, <1>0, <1>1, <1>5, PutFacts, PutMakesNoLoop
<1>10. \A n \in Node \cup Tree, d \in Side :
         m2[n][d] = IF n = s /\ d = Other(e) THEN p ELSE m1[n][d]
  <2>1. s \in Node \cup Tree
    BY <1>1
  <2> QED
    BY <2>1, <1>00, <1>0, <1>1, <1>5 DEF Put, Memory
<1>11. \A n \in Node \cup Tree, d \in Side :
         m2[n][d] = IF n = p /\ d = e THEN c ELSE IF n = s /\ d = Other(e) THEN p ELSE m[n][d]
  BY <1>4, <1>6, <1>10
<1> HIDE DEF c
<1>12. Closed(m2, U \ {s})
  BY <1>0, <1>8, <1>10 DEF Closed
<1>13. Closed(m2, Subtree(m, p))
  <2>1. c \in Node => c \in Subtree(m, p)
    BY <1>2, <1>4, SubtreeWithin
  <2>2. p \in Subtree(m, p) /\ Closed(m, Subtree(m, p)) /\ Subtree(m, p) \in SUBSET Node
    BY <1>1, SubtreeFacts
  <2>3. ASSUME NEW n \in Subtree(m, p), NEW d \in Dir, m2[n][d] \in Node
        PROVE  m2[n][d] \in Subtree(m, p)
    BY <2>1, <2>2, <2>3, <1>0, <1>11 DEF Closed
  <2> QED
    BY <2>3 DEF Closed
<1> QED
  BY <1>1, <1>2, <1>4, <1>5, <1>9, <1>11, <1>12, <1>13 DEF Pointer, OpenedFields, c, m1, m2


-----------------------------------------------------------------------------
(***************************************************************************)
(* The rotations of c_rbtree_paint_terminal and                            *)
(* c_rbnode_rebalance_terminal, one at a time: each keeps the pointers     *)
(* consistent, no red node ends up below a red one, and the heights agree  *)
(* again.                                                                  *)
(***************************************************************************)

\* The nodes of R are red in w2, those of B black, all others as in w.
Repainted(w, w2, B, R) ==
  \A k \in Node : c_rbnode_is_red(w2, k) <=> k \in R \/ (k \notin B /\ c_rbnode_is_red(w, k))

\* Heights that fit, whatever they are.
Balanced(o, m, w, q, e) == \E h \in Heights : HeightsAgree(o, m, w, h, q, e)

\* p, a red child of a black g on side d, is rotated above g and the two switch
\* colors; the outer grandchild n was red too, the uncle was not.
LEMMA PaintRotation ==
  ASSUME NEW o, NEW m, NEW w, Sound(o, m, w), NEW e0, Balanced(o, m, w, NULL, e0),
         NEW n \in Owned(o), NEW p \in Owned(o), NEW g \in Owned(o), NEW d \in Dir,
         m[g][d] = p, m[p][d] = n,
         c_rbnode_is_red(w, n), c_rbnode_is_red(w, p), ~c_rbnode_is_red(w, g),
         m[g][Other(d)] # NULL => ~c_rbnode_is_red(w, m[g][Other(d)]),
         RedsBelowBlacks(o, w, n),
         NEW m2, NEW w2,
         RotatedLinks(m, w, m2, g, d, p), RotatedWords(m, w, w2, g, d, p),
         Repainted(w, w2, {p, m[p][Other(d)]}, {g})
  PROVE  /\ Sound(o, m2, w2)
         /\ RedsBelowBlacks(o, w2, NULL)
         /\ \A e2 : Balanced(o, m2, w2, NULL, e2)
<1> DEFINE x == m[p][Other(d)]
           u == m[g][Other(d)]
<1>1. /\ n \in Node /\ p \in Node /\ g \in Node /\ Other(d) \in Dir /\ Other(Other(d)) = d
      /\ n # NULL /\ p # NULL /\ g # NULL /\ Other(d) # d /\ d \in Side /\ Other(d) \in Side
  BY Sides, DistinctAddresses DEF Owned
<1>2. /\ w[n].raw = p /\ w[p].raw = g /\ p # n /\ p # g /\ n # g /\ n # x /\ p # u
      /\ ~c_rbnode_is_root(w, n) /\ ~c_rbnode_is_root(w, p)
  BY <1>1, ChildFacts
<1>3. x # NULL => x \in Owned(o) /\ w[x].raw = p /\ ~c_rbnode_is_root(w, x) /\ x # p
  BY <1>1, <1>2, ChildFacts
<1>4. u # NULL => u \in Owned(o) /\ w[u].raw = g /\ u # p /\ u # g /\ u # n
  BY <1>1, <1>2, ChildFacts
<1>5. x # NULL => ~c_rbnode_is_red(w, x)
  BY <1>2, <1>3 DEF RedsBelowBlacks, c_rbnode_is_red, c_rbnode_is_black, c_rbnode_raw
<1>6. PICK h \in Heights : HeightsAgree(o, m, w, h, NULL, e0)
  BY DEF Balanced
<1>7. /\ h[p] \in Nat /\ h[g] = h[p] + 1 /\ h[n] = h[p]
      /\ HeightOf(h, x) = h[p] /\ HeightOf(h, u) = h[p]
  BY <1>1, <1>6, HeightBelow DEF HeightOf
<1>8. w[g].raw # p
  <2> SUFFICES ASSUME w[g].raw = p PROVE FALSE
    OBVIOUS
  <2>1. g = m[p][d] \/ g = m[p][Other(d)]
    BY OnlyChildren
  <2> QED
    BY <2>1, <1>1, <1>2, <1>7 DEF HeightOf
<1>8a. x # g
  BY <1>1, <1>3, <1>8
<1>9. Rotatable(o, m, w, g, d, p)
  BY <1>1, <1>8 DEF Rotatable
<1>10. Sound(o, m2, w2)
  BY <1>9, RotationConsistent
<1>10a. Rotated(m, w, m2, g, d, p)
  BY <1>9, RotationConsistent
<1>11. PICK t \in Side : m[w[g].raw][t] = g /\ RotatedFields(m, m2, w[g].raw, t, g, d, p)
  BY <1>10a DEF Rotated
<1>12. /\ m2[p][d] = n /\ m2[p][Other(d)] = g
       /\ m2[g][d] = x /\ m2[g][Other(d)] = u
  <2>1. w[g].raw # g
    BY ParentFacts
  <2> QED
    BY <2>1, <1>1, <1>2, <1>8, <1>11 DEF RotatedFields
<1> HIDE DEF x, u
<1>13. \A k \in Node :
         /\ w2[k].raw = IF k = p THEN w[g].raw ELSE IF k = g THEN p ELSE IF k = x THEN g ELSE w[k].raw
         /\ c_rbnode_is_root(w2, k) <=>
              IF k = p THEN c_rbnode_is_root(w, g) ELSE k # g /\ c_rbnode_is_root(w, k)
         /\ c_rbnode_is_red(w2, k) <=> k = g \/ (k # p /\ k # x /\ c_rbnode_is_red(w, k))
  BY DEF RotatedWords, Repainted, x
<1>14. RedsBelowBlacks(o, w2, NULL)
  <2> SUFFICES ASSUME NEW k \in Owned(o), c_rbnode_is_red(w2, k)
               PROVE  ~c_rbnode_is_root(w2, k) /\ ~c_rbnode_is_red(w2, w2[k].raw)
    BY DEF RedsBelowBlacks, c_rbnode_is_red, c_rbnode_is_black, c_rbnode_raw
  <2>1. k \in Node
    BY DEF Owned
  <2>2. CASE k = g
    BY <2>2, <1>1, <1>2, <1>13
  <2>3. CASE k = n
    BY <2>3, <1>1, <1>2, <1>13
  <2>4. CASE k # g /\ k # n
    <3>1. k # p /\ k # x /\ c_rbnode_is_red(w, k)
      BY <2>1, <2>4, <1>13
    <3>2. ~c_rbnode_is_root(w, k) /\ ~c_rbnode_is_red(w, w[k].raw)
      BY <3>1, <2>4 DEF RedsBelowBlacks, c_rbnode_is_red, c_rbnode_is_black, c_rbnode_raw
    <3>3. w[k].raw # g
      <4> SUFFICES ASSUME w[k].raw = g PROVE FALSE
        OBVIOUS
      <4>1. k = p \/ k = u
        BY OnlyChildren DEF u
      <4> QED
        BY <4>1, <3>1, <1>1, <2>1, DistinctAddresses DEF u
    <3>4. w[k].raw \in Node
      BY <3>2, ParentFacts
    <3> QED
      BY <2>1, <2>4, <3>1, <3>2, <3>3, <3>4, <1>13
  <2> QED
    BY <2>2, <2>3, <2>4
<1> DEFINE h2 == [h EXCEPT ![p] = h[g], ![g] = h[p]]
<1>15. /\ h2 \in Heights /\ h2[p] = h[p] + 1 /\ h2[g] = h[p]
       /\ \A k \in Pointer : k # p /\ k # g => HeightOf(h2, k) = HeightOf(h, k)
       /\ \A k \in Node : k # p /\ k # g => h2[k] = h[k]
  BY <1>1, <1>2, <1>7 DEF Heights, HeightOf, Pointer
<1> HIDE DEF h2
<1>16. ASSUME NEW e2 PROVE HeightsAgree(o, m2, w2, h2, NULL, e2)
  <2>1. Undisturbed(o, w, w2, h, h2, NULL, e0, NULL, e2, NULL, p, g)
    BY <1>5, <1>13, <1>15, DistinctAddresses DEF Owned, Undisturbed
  <2>2. x \in Pointer /\ u \in Pointer
    BY <1>3, <1>4 DEF Owned, Pointer
  <2>3. HeightOf(h2, n) = h[p] /\ HeightOf(h2, x) = h[p] /\ HeightOf(h2, u) = h[p] /\ HeightOf(h2, g) = h[p]
    BY <1>1, <1>2, <1>3, <1>8a, <1>4, <1>7, <1>15, <2>2, DistinctAddresses DEF HeightOf, Pointer
  <2>4. Black(w2, p) = 1 /\ Black(w2, g) = 0
    BY <1>1, <1>2, <1>13 DEF Black, c_rbnode_is_red, c_rbnode_is_black
  <2>5. ASSUME NEW k, k = p \/ k = g PROVE AgreeAt(m2, w2, h2, NULL, e2, k)
    <3> SUFFICES ASSUME NEW b \in Dir PROVE h2[k] = HeightOf(h2, m2[k][b]) + 0 + Black(w2, k)
      BY <2>5, <1>1 DEF AgreeAt
    <3>1. b = d \/ b = Other(d)
      BY Sides
    <3> QED
      BY <3>1, <2>3, <2>4, <2>5, <1>7, <1>12, <1>15
  <2>7. h2[p] = h[g]
    BY <1>7, <1>15
  <2> QED
    <3>1. h \in Heights /\ h2 \in Heights /\ HeightsAgree(o, m, w, h, NULL, e0)
      BY <1>6, <1>15
    <3>2. AgreeAt(m2, w2, h2, NULL, e2, p) /\ AgreeAt(m2, w2, h2, NULL, e2, g)
      BY <2>5
    <3> QED
    BY <3>1, <1>9, <1>10a, <3>2, <2>1, <2>7, RotationHeights
<1> QED
  BY <1>10, <1>14, <1>15, <1>16 DEF Balanced

\* The first rotation of the inner case: a red n below a red p below a black g,
\* on the side of p that p is not on. n is rotated above p; no color changes.
LEMMA InnerPaintRotation ==
  ASSUME NEW o, NEW m, NEW w, Sound(o, m, w), NEW e0, Balanced(o, m, w, NULL, e0),
         NEW n \in Owned(o), NEW p \in Owned(o), NEW g \in Owned(o), NEW d \in Dir,
         m[g][d] = p, m[p][Other(d)] = n,
         c_rbnode_is_red(w, n), c_rbnode_is_red(w, p), ~c_rbnode_is_red(w, g),
         RedsBelowBlacks(o, w, n),
         NEW m2, NEW w2,
         RotatedLinks(m, w, m2, p, Other(d), n), RotatedWords(m, w, w2, p, Other(d), n),
         Repainted(w, w2, {}, {})
  PROVE  /\ Sound(o, m2, w2)
         /\ RedsBelowBlacks(o, w2, p)
         /\ Balanced(o, m2, w2, NULL, e0)
         /\ m2[g][d] = n /\ m2[n][d] = p /\ m2[g][Other(d)] = m[g][Other(d)]
<1> DEFINE x == m[n][d]
<1>1. /\ n \in Node /\ p \in Node /\ g \in Node /\ Other(d) \in Dir /\ Other(Other(d)) = d
      /\ n # NULL /\ p # NULL /\ g # NULL /\ Other(d) # d /\ d \in Side /\ Other(d) \in Side
  BY Sides, DistinctAddresses DEF Owned
<1>2. /\ w[n].raw = p /\ w[p].raw = g /\ p # n /\ p # g /\ n # g
      /\ ~c_rbnode_is_root(w, n) /\ ~c_rbnode_is_root(w, p)
  BY <1>1, ChildFacts
<1>3. x # NULL => x \in Owned(o) /\ w[x].raw = n /\ ~c_rbnode_is_root(w, x) /\ x # n /\ x # p
  BY <1>1, <1>2, ChildFacts
<1>4. x # NULL => ~c_rbnode_is_red(w, x)
  BY <1>2, <1>3 DEF RedsBelowBlacks, c_rbnode_is_red, c_rbnode_is_black, c_rbnode_raw
<1>5. PICK h \in Heights : HeightsAgree(o, m, w, h, NULL, e0)
  BY DEF Balanced
<1>6. h[p] \in Nat /\ h[n] = h[p] /\ HeightOf(h, m[p][d]) = h[p]
      /\ HeightOf(h, x) = h[p] /\ HeightOf(h, m[n][Other(d)]) = h[p]
  BY <1>1, <1>5, HeightBelow DEF HeightOf
<1>7. Rotatable(o, m, w, p, Other(d), n)
  BY <1>1, <1>2 DEF Rotatable
<1>8. Sound(o, m2, w2) /\ Rotated(m, w, m2, p, Other(d), n)
  BY <1>7, RotationConsistent
<1>9. PICK t \in Side : m[w[p].raw][t] = p /\ RotatedFields(m, m2, w[p].raw, t, p, Other(d), n)
  BY <1>8 DEF Rotated
<1>10. t = d
  <2>1. Consistent(o, m, w) /\ g \in Holder(o)
    BY DEF Sound, Holder
  <2> QED
    BY <2>1, <1>1, <1>2, <1>9 DEF Consistent, ChildrenKnowParent
<1>11. /\ m2[g][d] = n /\ m2[g][Other(d)] = m[g][Other(d)]
       /\ m2[n][d] = p /\ m2[n][Other(d)] = m[n][Other(d)]
       /\ m2[p][d] = m[p][d] /\ m2[p][Other(d)] = x
  BY <1>1, <1>2, <1>9, <1>10 DEF RotatedFields
<1> HIDE DEF x
<1>12. \A k \in Node :
         /\ w2[k].raw = IF k = n THEN g ELSE IF k = p THEN n ELSE IF k = x THEN p ELSE w[k].raw
         /\ c_rbnode_is_root(w2, k) <=>
              IF k = n THEN c_rbnode_is_root(w, p) ELSE k # p /\ c_rbnode_is_root(w, k)
         /\ c_rbnode_is_red(w2, k) <=> c_rbnode_is_red(w, k)
  BY <1>1, <1>2 DEF RotatedWords, Repainted, x
<1>13. RedsBelowBlacks(o, w2, p)
  <2> SUFFICES ASSUME NEW k \in Owned(o), c_rbnode_is_red(w2, k), k # p
               PROVE  ~c_rbnode_is_root(w2, k) /\ ~c_rbnode_is_red(w2, w2[k].raw)
    BY DEF RedsBelowBlacks, c_rbnode_is_red, c_rbnode_is_black, c_rbnode_raw
  <2>1. k \in Node /\ c_rbnode_is_red(w, k)
    BY <1>12 DEF Owned
  <2>2. CASE k = n
    BY <2>2, <1>1, <1>2, <1>12
  <2>3. CASE k # n
    <3>1. ~c_rbnode_is_root(w, k) /\ ~c_rbnode_is_red(w, w[k].raw)
      BY <2>1, <2>3 DEF RedsBelowBlacks, c_rbnode_is_red, c_rbnode_is_black, c_rbnode_raw
    <3>2. w[k].raw \in Node
      BY <3>1, ParentFacts
    <3>3. k # x
      BY <2>1, <1>4, DistinctAddresses
    <3> QED
      BY <2>1, <2>3, <3>1, <3>2, <3>3, <1>12
  <2> QED
    BY <2>2, <2>3
<1>14. HeightsAgree(o, m2, w2, h, NULL, e0)
  <2>1. Undisturbed(o, w, w2, h, h, NULL, e0, NULL, e0, NULL, n, p)
    BY <1>12 DEF Owned, Undisturbed
  <2>2. Black(w2, p) = 0 /\ Black(w2, n) = 0
    BY <1>1, <1>12 DEF Black, c_rbnode_is_red, c_rbnode_is_black
  <2>3. HeightOf(h, p) = h[p]
    BY <1>1 DEF HeightOf
  <2>4. ASSUME NEW k, k = n \/ k = p PROVE AgreeAt(m2, w2, h, NULL, e0, k)
    <3> SUFFICES ASSUME NEW b \in Dir PROVE h[k] = HeightOf(h, m2[k][b]) + 0 + Black(w2, k)
      BY <2>4, <1>1 DEF AgreeAt
    <3>1. b = d \/ b = Other(d)
      BY Sides
    <3> QED
      BY <3>1, <2>2, <2>3, <2>4, <1>6, <1>11
  <2>5. AgreeAt(m2, w2, h, NULL, e0, n) /\ AgreeAt(m2, w2, h, NULL, e0, p)
    BY <2>4
  <2> QED
    BY <1>5, <1>6, <1>7, <1>8, <2>1, <2>5, RotationHeights
<1> QED
  BY <1>5, <1>8, <1>11, <1>13, <1>14 DEF Balanced

-----------------------------------------------------------------------------
(* Removal *)

\* Case 6: s, the black sibling on the side Other(d) of p, is rotated above p
\* and takes its color, p and the far child f of s turn black. The paths on
\* side d of p gain the black node they lacked.
LEMMA SiblingRotation ==
  ASSUME NEW o, NEW m, NEW w, Sound(o, m, w),
         NEW p \in Owned(o), NEW s \in Owned(o), NEW f \in Owned(o), NEW d \in Dir,
         Balanced(o, m, w, p, d),
         m[p][Other(d)] = s, m[s][Other(d)] = f,
         ~c_rbnode_is_red(w, s), c_rbnode_is_red(w, f),
         RedsBelowBlacks(o, w, NULL),
         NEW m2, NEW w2,
         RotatedLinks(m, w, m2, p, Other(d), s), RotatedWords(m, w, w2, p, Other(d), s),
         Repainted(w, w2, {p, s, f}, {k \in {s} : c_rbnode_is_red(w, p)})
  PROVE  /\ Sound(o, m2, w2)
         /\ RedsBelowBlacks(o, w2, NULL)
         /\ \A e2 : Balanced(o, m2, w2, NULL, e2)
<1> DEFINE x == m[s][d]
           v == m[p][d]
<1>1. /\ s \in Node /\ p \in Node /\ f \in Node /\ Other(d) \in Dir /\ Other(Other(d)) = d
      /\ s # NULL /\ p # NULL /\ f # NULL /\ Other(d) # d /\ d \in Side /\ Other(d) \in Side
  BY Sides, DistinctAddresses DEF Owned
<1>2. /\ w[s].raw = p /\ w[f].raw = s /\ p # s /\ s # f /\ p # f /\ f # x /\ s # v
      /\ ~c_rbnode_is_root(w, s) /\ ~c_rbnode_is_root(w, f)
  <2>1. /\ w[s].raw = p /\ w[f].raw = s /\ p # s /\ s # f /\ f # x /\ s # v
        /\ ~c_rbnode_is_root(w, s) /\ ~c_rbnode_is_root(w, f)
    BY <1>1, ChildFacts
  <2>2. PICK h \in Heights : HeightsAgree(o, m, w, h, p, d)
    BY DEF Balanced
  <2>3. h[s] \in Nat /\ h[f] \in Nat /\ h[s] = h[f] + 1
    BY <1>1, <2>1, <2>2, HeightBelow DEF HeightOf
  <2>4. h[p] \in Nat /\ (h[p] = h[s] \/ h[p] = h[s] + 1)
    BY <1>1, <2>2, HeightBelow DEF HeightOf
  <2> QED
    BY <2>1, <2>3, <2>4
<1>3. x # NULL => x \in Owned(o) /\ w[x].raw = s /\ ~c_rbnode_is_root(w, x) /\ x # s
  BY <1>1, <1>2, ChildFacts
<1>4. v # NULL => v \in Owned(o) /\ w[v].raw = p /\ v # p
  BY <1>1, <1>2, ChildFacts
<1>5. PICK h \in Heights : HeightsAgree(o, m, w, h, p, d)
  BY DEF Balanced
<1>6. /\ HeightOf(h, v) \in Nat /\ h[s] = HeightOf(h, v) + 1
      /\ h[p] = HeightOf(h, v) + 1 + (IF c_rbnode_is_red(w, p) THEN 0 ELSE 1)
      /\ HeightOf(h, x) = HeightOf(h, v) /\ h[f] = HeightOf(h, v)
      /\ \A b \in Dir : HeightOf(h, m[f][b]) = h[f]
  <2>1. \A n \in Owned(o), b \in Dir :
          /\ h[n] \in Nat /\ HeightOf(h, m[n][b]) \in Nat
          /\ h[n] = HeightOf(h, m[n][b]) + (IF n = p /\ b = d THEN 1 ELSE 0)
                     + (IF c_rbnode_is_red(w, n) THEN 0 ELSE 1)
    BY <1>5, HeightBelow
  <2>2. HeightOf(h, s) = h[s] /\ HeightOf(h, f) = h[f]
    BY <1>1 DEF HeightOf
  <2>3. h[s] = HeightOf(h, x) + 1 /\ h[s] = h[f] + 1 /\ h[f] \in Nat /\ HeightOf(h, x) \in Nat
    BY <2>1, <2>2, <1>1, <1>2
  <2>4. \A b \in Dir : HeightOf(h, m[f][b]) = h[f]
    BY <2>1, <1>2
  <2>5. /\ HeightOf(h, v) \in Nat /\ h[s] \in Nat
        /\ h[p] = HeightOf(h, v) + 1 + (IF c_rbnode_is_red(w, p) THEN 0 ELSE 1)
        /\ h[p] = h[s] + (IF c_rbnode_is_red(w, p) THEN 0 ELSE 1)
    BY <2>1, <2>2, <1>1
  <2>6. h[s] = HeightOf(h, v) + 1
    BY <2>5
  <2> QED
    BY <2>3, <2>4, <2>5, <2>6
<1>7. w[p].raw # s
  <2> SUFFICES ASSUME w[p].raw = s PROVE FALSE
    OBVIOUS
  <2>1. p = m[s][d] \/ p = m[s][Other(d)]
    BY OnlyChildren
  <2> QED
    BY <2>1, <1>1, <1>2, <1>6 DEF HeightOf
<1>8. x # p
  BY <1>1, <1>3, <1>7
<1>9. Rotatable(o, m, w, p, Other(d), s)
  BY <1>1, <1>7 DEF Rotatable
<1>10. Sound(o, m2, w2) /\ Rotated(m, w, m2, p, Other(d), s)
  BY <1>9, RotationConsistent
<1>11. PICK t \in Side : m[w[p].raw][t] = p /\ RotatedFields(m, m2, w[p].raw, t, p, Other(d), s)
  BY <1>10 DEF Rotated
<1>12. w[p].raw # p /\ w[p].raw # f
  <2>1. w[p].raw # p
    BY ParentFacts
  <2>2. ASSUME w[p].raw = f PROVE FALSE
    <3>1. p = m[f][d] \/ p = m[f][Other(d)]
      BY <2>2, OnlyChildren
    <3> QED
      BY <3>1, <1>1, <1>6 DEF HeightOf
  <2> QED
    BY <2>1, <2>2
<1>13. /\ m2[s][d] = p /\ m2[s][Other(d)] = f /\ m2[p][d] = v /\ m2[p][Other(d)] = x
       /\ \A b \in Dir : m2[f][b] = m[f][b]
  BY <1>1, <1>2, <1>7, <1>11, <1>12, Sides DEF RotatedFields
<1> HIDE DEF x, v
<1>14. \A k \in Node :
         /\ w2[k].raw = IF k = s THEN w[p].raw ELSE IF k = p THEN s ELSE IF k = x THEN p ELSE w[k].raw
         /\ c_rbnode_is_root(w2, k) <=>
              IF k = s THEN c_rbnode_is_root(w, p) ELSE k # p /\ c_rbnode_is_root(w, k)
         /\ c_rbnode_is_red(w2, k) <=>
              IF k = s THEN c_rbnode_is_red(w, p) ELSE k # p /\ k # f /\ c_rbnode_is_red(w, k)
  BY <1>1, <1>2 DEF RotatedWords, Repainted, x
<1>15. RedsBelowBlacks(o, w2, NULL)
  <2> SUFFICES ASSUME NEW k \in Owned(o), c_rbnode_is_red(w2, k)
               PROVE  ~c_rbnode_is_root(w2, k) /\ ~c_rbnode_is_red(w2, w2[k].raw)
    BY DEF RedsBelowBlacks, c_rbnode_is_red, c_rbnode_is_black, c_rbnode_raw
  <2>0. k \in Node /\ k # NULL
    BY DistinctAddresses DEF Owned
  <2>1. \A j \in Owned(o) : c_rbnode_is_red(w, j) =>
           /\ ~c_rbnode_is_root(w, j) /\ ~c_rbnode_is_red(w, w[j].raw) /\ w[j].raw \in Node
    BY ParentFacts, DistinctAddresses
       DEF RedsBelowBlacks, Owned, c_rbnode_is_red, c_rbnode_is_black, c_rbnode_raw
  <2>2. CASE k = s
    BY <2>1, <2>2, <1>1, <1>7, <1>14
  <2>3. CASE k = x
    BY <2>0, <2>1, <2>3, <1>1, <1>2, <1>3, <1>8, <1>14
  <2>4. CASE k # s /\ k # x
    <3>1. k # p /\ k # f /\ c_rbnode_is_red(w, k)
      BY <2>0, <2>4, <1>14
    <3>2. w[k].raw # s
      BY <3>1, <2>4, OnlyChildren DEF x
    <3> QED
      BY <2>0, <2>1, <2>4, <3>1, <3>2, <1>14
  <2> QED
    BY <2>2, <2>3, <2>4
<1> DEFINE h2 == [h EXCEPT ![s] = h[p], ![p] = HeightOf(h, v) + 1, ![f] = h[f] + 1]
<1>16. /\ h2 \in Heights /\ h2[s] = h[p] /\ h2[p] = HeightOf(h, v) + 1 /\ h2[f] = HeightOf(h, v) + 1
       /\ \A k \in Pointer : k # p /\ k # s /\ k # f => HeightOf(h2, k) = HeightOf(h, k)
       /\ \A k \in Node : k # p /\ k # s /\ k # f => h2[k] = h[k]
  BY <1>1, <1>2, <1>6 DEF Heights, HeightOf, Pointer
<1> HIDE DEF h2
<1>17. ASSUME NEW e2 PROVE HeightsAgree(o, m2, w2, h2, NULL, e2)
  <2>1. Undisturbed(o, w, w2, h, h2, p, d, NULL, e2, f, s, p)
    BY <1>14, <1>16, DistinctAddresses DEF Owned, Undisturbed
  <2>2. x \in Pointer /\ v \in Pointer /\ \A b \in Dir : m[f][b] \in Pointer
    BY <1>1, <1>3, <1>4, Sides DEF Owned, Pointer, Sound, Memory
  <2>3. \A b \in Dir : m[f][b] # f /\ m[f][b] # s /\ m[f][b] # p
    <3>1. \A b \in Dir : m[f][b] # NULL => w[m[f][b]].raw = f /\ m[f][b] # f
      BY ChildFacts
    <3> QED
      BY <3>1, <1>1, <1>2, <1>12
  <2>4. v # f
    BY <1>1, <1>2, <1>4
  <2>5. /\ HeightOf(h2, v) = HeightOf(h, v) /\ HeightOf(h2, x) = HeightOf(h, v)
        /\ HeightOf(h2, p) = HeightOf(h, v) + 1 /\ HeightOf(h2, f) = HeightOf(h, v) + 1
    BY <1>1, <1>2, <1>3, <1>4, <1>6, <1>8, <1>16, <2>2, <2>4 DEF HeightOf
  <2>6. \A b \in Dir : HeightOf(h2, m[f][b]) = HeightOf(h, v)
    BY <1>6, <1>16, <2>2, <2>3
  <2>7. Black(w2, p) = 1 /\ Black(w2, f) = 1
        /\ Black(w2, s) = IF c_rbnode_is_red(w, p) THEN 0 ELSE 1
    BY <1>1, <1>2, <1>14 DEF Black, c_rbnode_is_red, c_rbnode_is_black
  <2>8. ASSUME NEW k, k = s \/ k = p \/ k = f PROVE AgreeAt(m2, w2, h2, NULL, e2, k)
    <3> SUFFICES ASSUME NEW b \in Dir PROVE h2[k] = HeightOf(h2, m2[k][b]) + 0 + Black(w2, k)
      BY <2>8, <1>1 DEF AgreeAt
    <3>1. b = d \/ b = Other(d)
      BY Sides
    <3>2. CASE k = s
      BY <3>1, <3>2, <2>5, <2>7, <1>6, <1>13, <1>16
    <3>3. CASE k = p
      BY <3>1, <3>3, <2>5, <2>7, <1>6, <1>13, <1>16
    <3>4. CASE k = f
      BY <3>4, <2>6, <2>7, <1>6, <1>13, <1>16
    <3> QED
      BY <2>8, <3>2, <3>3, <3>4
  <2>9. /\ AgreeAt(m2, w2, h2, NULL, e2, s) /\ AgreeAt(m2, w2, h2, NULL, e2, p)
        /\ AgreeAt(m2, w2, h2, NULL, e2, f)
    BY <2>8
  <2>10. f \in Owned(o) /\ w[f].raw = s /\ h2[s] = h[p]
    BY <1>2, <1>16
  <2> QED
    BY <1>5, <1>9, <1>10, <1>16, <2>1, <2>9, <2>10, RotationHeights
<1> QED
  BY <1>10, <1>15, <1>16, <1>17 DEF Balanced

\* Case 2: s, the red sibling on the side Other(d) of a black p, is rotated
\* above p and the two switch colors. The paths on side d of p still lack a
\* black node, but the sibling is now x, black.
LEMMA RedSiblingRotation ==
  ASSUME NEW o, NEW m, NEW w, Sound(o, m, w),
         NEW p \in Owned(o), NEW s \in Owned(o), NEW d \in Dir,
         Balanced(o, m, w, p, d),
         m[p][Other(d)] = s, c_rbnode_is_red(w, s),
         m[p][d] # NULL => ~c_rbnode_is_red(w, m[p][d]),
         RedsBelowBlacks(o, w, NULL),
         NEW m2, NEW w2,
         RotatedLinks(m, w, m2, p, Other(d), s), RotatedWords(m, w, w2, p, Other(d), s),
         Repainted(w, w2, {s, m[s][d]}, {p})
  PROVE  /\ Sound(o, m2, w2)
         /\ RedsBelowBlacks(o, w2, NULL)
         /\ Balanced(o, m2, w2, p, d)
         /\ m2[p][d] = m[p][d] /\ m2[p][Other(d)] = m[s][d]
         /\ m[s][d] # NULL /\ m[s][d] # m[p][d]
         /\ ~c_rbnode_is_red(w2, m[s][d]) /\ c_rbnode_is_red(w2, p)
<1> DEFINE x == m[s][d]
           y == m[s][Other(d)]
           v == m[p][d]
<1>1. /\ s \in Node /\ p \in Node /\ Other(d) \in Dir /\ Other(Other(d)) = d
      /\ s # NULL /\ p # NULL /\ Other(d) # d /\ d \in Side /\ Other(d) \in Side
  BY Sides, DistinctAddresses DEF Owned
<1>2. w[s].raw = p /\ p # s /\ s # v /\ ~c_rbnode_is_root(w, s) /\ ~c_rbnode_is_red(w, p)
  <2>1. w[s].raw = p /\ p # s /\ s # v /\ ~c_rbnode_is_root(w, s)
    BY <1>1, ChildFacts
  <2> QED
    BY <2>1, <1>1 DEF RedsBelowBlacks, c_rbnode_is_red, c_rbnode_is_black, c_rbnode_raw
<1>3. PICK h \in Heights : HeightsAgree(o, m, w, h, p, d)
  BY DEF Balanced
<1>4. /\ HeightOf(h, v) \in Nat /\ h[s] = HeightOf(h, v) + 1 /\ h[p] = HeightOf(h, v) + 2
      /\ HeightOf(h, x) = h[s] /\ HeightOf(h, y) = h[s]
  <2>1. \A n \in Owned(o), b \in Dir :
          /\ h[n] \in Nat /\ HeightOf(h, m[n][b]) \in Nat
          /\ h[n] = HeightOf(h, m[n][b]) + (IF n = p /\ b = d THEN 1 ELSE 0)
                     + (IF c_rbnode_is_red(w, n) THEN 0 ELSE 1)
    BY <1>3, HeightBelow
  <2>2. HeightOf(h, s) = h[s]
    BY <1>1 DEF HeightOf
  <2>3. h[s] = HeightOf(h, x) /\ h[s] = HeightOf(h, y) /\ h[s] \in Nat
    BY <2>1, <2>2, <1>1, <1>2
  <2>4. HeightOf(h, v) \in Nat /\ h[p] = HeightOf(h, v) + 2 /\ h[p] = h[s] + 1
    BY <2>1, <2>2, <1>1, <1>2
  <2> QED
    BY <2>3, <2>4
<1>5. x # NULL
  BY <1>4 DEF HeightOf
<1>6. x \in Owned(o) /\ w[x].raw = s /\ ~c_rbnode_is_root(w, x) /\ x # s /\ x \in Node
  BY <1>1, <1>5, ChildFacts
<1>7. v # NULL => v \in Owned(o) /\ w[v].raw = p /\ v # p
  BY <1>1, <1>2, ChildFacts
<1>8. y # NULL => w[y].raw = s /\ y # s
  BY <1>1, ChildFacts
<1>9. w[p].raw # s
  <2> SUFFICES ASSUME w[p].raw = s PROVE FALSE
    OBVIOUS
  <2>1. p = x \/ p = y
    BY OnlyChildren
  <2> QED
    BY <2>1, <1>1, <1>2, <1>4 DEF HeightOf
<1>10. x # p /\ x # v
  BY <1>1, <1>2, <1>5, <1>6, <1>7, <1>9
<1>11. ~c_rbnode_is_red(w, x)
  BY <1>5, <1>6, <1>2, DistinctAddresses DEF RedsBelowBlacks, c_rbnode_is_red, c_rbnode_is_black, c_rbnode_raw
<1>12. Rotatable(o, m, w, p, Other(d), s)
  BY <1>1, <1>9 DEF Rotatable
<1>13. Sound(o, m2, w2) /\ Rotated(m, w, m2, p, Other(d), s)
  BY <1>12, RotationConsistent
<1>14. PICK t \in Side : m[w[p].raw][t] = p /\ RotatedFields(m, m2, w[p].raw, t, p, Other(d), s)
  BY <1>13 DEF Rotated
<1>15. w[p].raw # p
  BY ParentFacts
<1>16. /\ m2[s][d] = p /\ m2[s][Other(d)] = y /\ m2[p][d] = v /\ m2[p][Other(d)] = x
  BY <1>1, <1>2, <1>9, <1>14, <1>15 DEF RotatedFields
<1> HIDE DEF x, y, v
<1>17. \A k \in Node :
         /\ w2[k].raw = IF k = s THEN w[p].raw ELSE IF k = p THEN s ELSE IF k = x THEN p ELSE w[k].raw
         /\ c_rbnode_is_root(w2, k) <=>
              IF k = s THEN c_rbnode_is_root(w, p) ELSE k # p /\ c_rbnode_is_root(w, k)
         /\ c_rbnode_is_red(w2, k) <=> k = p \/ (k # s /\ k # x /\ c_rbnode_is_red(w, k))
  BY <1>1, <1>2 DEF RotatedWords, Repainted, x
<1>18. RedsBelowBlacks(o, w2, NULL)
  <2> SUFFICES ASSUME NEW k \in Owned(o), c_rbnode_is_red(w2, k)
               PROVE  ~c_rbnode_is_root(w2, k) /\ ~c_rbnode_is_red(w2, w2[k].raw)
    BY DEF RedsBelowBlacks, c_rbnode_is_red, c_rbnode_is_black, c_rbnode_raw
  <2>1. k \in Node /\ k # NULL
    BY DistinctAddresses DEF Owned
  <2>2. CASE k = p
    BY <2>2, <1>1, <1>2, <1>10, <1>17
  <2>3. CASE k # p
    <3>1. k # s /\ k # x /\ c_rbnode_is_red(w, k)
      BY <2>1, <2>3, <1>17
    <3>2. ~c_rbnode_is_root(w, k) /\ ~c_rbnode_is_red(w, w[k].raw)
      BY <3>1, <2>1 DEF RedsBelowBlacks, c_rbnode_is_red, c_rbnode_is_black, c_rbnode_raw
    <3>3. w[k].raw # p
      <4> SUFFICES ASSUME w[k].raw = p PROVE FALSE
        OBVIOUS
      <4>1. k = s \/ k = v
        BY OnlyChildren, <1>1 DEF v
      <4> QED
        BY <4>1, <3>1, <2>1 DEF v
    <3>4. w[k].raw \in Node
      BY <3>2, ParentFacts
    <3> QED
      BY <2>1, <2>3, <3>1, <3>2, <3>3, <3>4, <1>17
  <2> QED
    BY <2>2, <2>3
<1> DEFINE h2 == [h EXCEPT ![s] = h[p], ![p] = h[s]]
<1>19. /\ h2 \in Heights /\ h2[s] = HeightOf(h, v) + 2 /\ h2[p] = HeightOf(h, v) + 1
       /\ \A k \in Pointer : k # p /\ k # s => HeightOf(h2, k) = HeightOf(h, k)
       /\ \A k \in Node : k # p /\ k # s => h2[k] = h[k]
  BY <1>1, <1>2, <1>4 DEF Heights, HeightOf, Pointer
<1> HIDE DEF h2
<1>20. HeightsAgree(o, m2, w2, h2, p, d)
  <2>1. Undisturbed(o, w, w2, h, h2, p, d, p, d, NULL, s, p)
    BY <1>11, <1>17, <1>19, DistinctAddresses DEF Owned, Undisturbed
  <2>2. x \in Pointer /\ v \in Pointer /\ y \in Pointer
    BY <1>1 DEF Pointer, Sound, Memory, x, v, y
  <2>3. y # p
    BY <1>1, <1>8, <1>9
  <2>4. /\ HeightOf(h2, v) = HeightOf(h, v) /\ HeightOf(h2, x) = HeightOf(h, v) + 1
        /\ HeightOf(h2, y) = HeightOf(h, v) + 1 /\ HeightOf(h2, p) = HeightOf(h, v) + 1
    BY <1>1, <1>2, <1>4, <1>6, <1>7, <1>8, <1>10, <1>19, <2>2, <2>3 DEF HeightOf
  <2>5. Black(w2, p) = 0 /\ Black(w2, s) = 1
    BY <1>1, <1>2, <1>17 DEF Black, c_rbnode_is_red, c_rbnode_is_black
  <2>6. AgreeAt(m2, w2, h2, p, d, s)
    <3> SUFFICES ASSUME NEW b \in Dir PROVE h2[s] = HeightOf(h2, m2[s][b]) + 0 + Black(w2, s)
      BY <1>2 DEF AgreeAt
    <3>1. b = d \/ b = Other(d)
      BY Sides
    <3> QED
      BY <3>1, <2>4, <2>5, <1>4, <1>16, <1>19
  <2>7. AgreeAt(m2, w2, h2, p, d, p)
    <3> SUFFICES ASSUME NEW b \in Dir
                 PROVE h2[p] = HeightOf(h2, m2[p][b]) + (IF b = d THEN 1 ELSE 0) + Black(w2, p)
      BY DEF AgreeAt
    <3>1. b = d \/ b = Other(d)
      BY Sides
    <3> QED
      BY <3>1, <2>4, <2>5, <1>1, <1>4, <1>16, <1>19
  <2>8. h2[s] = h[p]
    BY <1>4, <1>19
  <2> QED
    BY <1>3, <1>12, <1>13, <1>19, <2>1, <2>6, <2>7, <2>8, RotationHeights
<1>21. ~c_rbnode_is_red(w2, x) /\ c_rbnode_is_red(w2, p)
  BY <1>1, <1>6, <1>10, <1>17
<1> QED
  BY <1>5, <1>10, <1>13, <1>16, <1>18, <1>19, <1>20, <1>21 DEF Balanced, x, v

\* Case 5: y, the red child on side d of the black sibling s of side d of p, is
\* rotated above s and the two switch colors, which makes s the red far child
\* of the new sibling y.
LEMMA InnerSiblingRotation ==
  ASSUME NEW o, NEW m, NEW w, Sound(o, m, w),
         NEW p \in Owned(o), NEW s \in Owned(o), NEW y \in Owned(o), NEW d \in Dir,
         Balanced(o, m, w, p, d),
         m[p][Other(d)] = s, m[s][d] = y,
         ~c_rbnode_is_red(w, s), c_rbnode_is_red(w, y),
         m[s][Other(d)] # NULL => ~c_rbnode_is_red(w, m[s][Other(d)]),
         RedsBelowBlacks(o, w, NULL),
         NEW m2, NEW w2,
         RotatedLinks(m, w, m2, s, d, y), RotatedWords(m, w, w2, s, d, y),
         Repainted(w, w2, {y, m[y][Other(d)]}, {s})
  PROVE  /\ Sound(o, m2, w2)
         /\ RedsBelowBlacks(o, w2, NULL)
         /\ Balanced(o, m2, w2, p, d)
         /\ m2[p][Other(d)] = y /\ m2[y][Other(d)] = s /\ m2[p][d] = m[p][d]
         /\ m2[y][d] = m[y][d]
<1> DEFINE x == m[y][Other(d)]
           z == m[y][d]
           f == m[s][Other(d)]
<1>1. /\ s \in Node /\ p \in Node /\ y \in Node /\ Other(d) \in Dir /\ Other(Other(d)) = d
      /\ s # NULL /\ p # NULL /\ y # NULL /\ Other(d) # d /\ d \in Side /\ Other(d) \in Side
  BY Sides, DistinctAddresses DEF Owned
<1>2. /\ w[s].raw = p /\ w[y].raw = s /\ p # s /\ s # y /\ y # f
      /\ ~c_rbnode_is_root(w, s) /\ ~c_rbnode_is_root(w, y)
  BY <1>1, ChildFacts
<1>3. PICK h \in Heights : HeightsAgree(o, m, w, h, p, d)
  BY DEF Balanced
<1>4. /\ h[y] \in Nat /\ h[s] = h[y] + 1 /\ HeightOf(h, f) = h[y]
      /\ h[p] \in Nat /\ (h[p] = h[s] \/ h[p] = h[s] + 1)
  <2>1. \A n \in Owned(o), b \in Dir :
          /\ h[n] \in Nat /\ HeightOf(h, m[n][b]) \in Nat
          /\ h[n] = HeightOf(h, m[n][b]) + (IF n = p /\ b = d THEN 1 ELSE 0)
                     + (IF c_rbnode_is_red(w, n) THEN 0 ELSE 1)
    BY <1>3, HeightBelow
  <2>2. HeightOf(h, s) = h[s] /\ HeightOf(h, y) = h[y]
    BY <1>1 DEF HeightOf
  <2>3. h[y] \in Nat /\ h[s] = h[y] + 1 /\ h[s] = HeightOf(h, f) + 1 /\ HeightOf(h, f) \in Nat
    BY <2>1, <2>2, <1>1, <1>2
  <2>4. h[p] \in Nat /\ (h[p] = h[s] \/ h[p] = h[s] + 1)
    BY <2>1, <2>2, <1>1, <2>3
  <2> QED
    BY <2>3, <2>4
<1>5. y # p
  BY <1>4
<1>6. HeightOf(h, x) = h[y] /\ HeightOf(h, z) = h[y]
  BY <1>1, <1>3, <1>4, <1>5, HeightBelow
<1>7. x # NULL => x \in Owned(o) /\ w[x].raw = y /\ ~c_rbnode_is_root(w, x) /\ x # y
  BY <1>1, ChildFacts
<1>8. z # NULL => z \in Owned(o) /\ w[z].raw = y /\ z # y
  BY <1>1, ChildFacts
<1>9. f # NULL => f \in Owned(o) /\ w[f].raw = s /\ f # s
  BY <1>1, ChildFacts
<1>10. x # s /\ z # s
  BY <1>1, <1>2, <1>5, <1>7, <1>8
<1>11. x # NULL => ~c_rbnode_is_red(w, x)
  BY <1>7, DistinctAddresses DEF RedsBelowBlacks, Owned, c_rbnode_is_red, c_rbnode_is_black, c_rbnode_raw
<1>12. Rotatable(o, m, w, s, d, y)
  BY <1>1, <1>2, <1>5 DEF Rotatable
<1>13. Sound(o, m2, w2) /\ Rotated(m, w, m2, s, d, y)
  BY <1>12, RotationConsistent
<1>14. PICK t \in Side : m[w[s].raw][t] = s /\ RotatedFields(m, m2, w[s].raw, t, s, d, y)
  BY <1>13 DEF Rotated
<1>15. t = Other(d)
  <2>1. Consistent(o, m, w) /\ p \in Holder(o)
    BY DEF Sound, Holder
  <2> QED
    BY <2>1, <1>1, <1>2, <1>14 DEF Consistent, ChildrenKnowParent
<1>16. /\ m2[p][Other(d)] = y /\ m2[p][d] = m[p][d]
       /\ m2[y][Other(d)] = s /\ m2[y][d] = z
       /\ m2[s][d] = x /\ m2[s][Other(d)] = f
  BY <1>1, <1>2, <1>5, <1>14, <1>15 DEF RotatedFields
<1> HIDE DEF x, z, f
<1>17. \A k \in Node :
         /\ w2[k].raw = IF k = y THEN p ELSE IF k = s THEN y ELSE IF k = x THEN s ELSE w[k].raw
         /\ c_rbnode_is_root(w2, k) <=>
              IF k = y THEN c_rbnode_is_root(w, s) ELSE k # s /\ c_rbnode_is_root(w, k)
         /\ c_rbnode_is_red(w2, k) <=> k = s \/ (k # y /\ k # x /\ c_rbnode_is_red(w, k))
  BY <1>1, <1>2 DEF RotatedWords, Repainted, x
<1>18. RedsBelowBlacks(o, w2, NULL)
  <2> SUFFICES ASSUME NEW k \in Owned(o), c_rbnode_is_red(w2, k)
               PROVE  ~c_rbnode_is_root(w2, k) /\ ~c_rbnode_is_red(w2, w2[k].raw)
    BY DEF RedsBelowBlacks, c_rbnode_is_red, c_rbnode_is_black, c_rbnode_raw
  <2>1. k \in Node /\ k # NULL
    BY DistinctAddresses DEF Owned
  <2>2. CASE k = s
    BY <2>2, <1>1, <1>2, <1>10, <1>17
  <2>3. CASE k # s
    <3>1. k # y /\ k # x /\ c_rbnode_is_red(w, k)
      BY <2>1, <2>3, <1>17
    <3>2. ~c_rbnode_is_root(w, k) /\ ~c_rbnode_is_red(w, w[k].raw)
      BY <3>1, <2>1 DEF RedsBelowBlacks, c_rbnode_is_red, c_rbnode_is_black, c_rbnode_raw
    <3>3. w[k].raw # s
      <4> SUFFICES ASSUME w[k].raw = s PROVE FALSE
        OBVIOUS
      <4>1. k = y \/ k = f
        BY OnlyChildren, <1>1 DEF f
      <4> QED
        BY <4>1, <3>1, <2>1 DEF f
    <3>4. w[k].raw \in Node
      BY <3>2, ParentFacts
    <3> QED
      BY <2>1, <2>3, <3>1, <3>2, <3>3, <3>4, <1>17
  <2> QED
    BY <2>2, <2>3
<1> DEFINE h2 == [h EXCEPT ![y] = h[s], ![s] = h[y]]
<1>19. /\ h2 \in Heights /\ h2[y] = h[s] /\ h2[s] = h[y]
       /\ \A k \in Pointer : k # y /\ k # s => HeightOf(h2, k) = HeightOf(h, k)
       /\ \A k \in Node : k # y /\ k # s => h2[k] = h[k]
  BY <1>1, <1>2, <1>4 DEF Heights, HeightOf, Pointer
<1> HIDE DEF h2
<1>20. HeightsAgree(o, m2, w2, h2, p, d)
  <2>1. Undisturbed(o, w, w2, h, h2, p, d, p, d, NULL, y, s)
    BY <1>11, <1>17, <1>19, DistinctAddresses DEF Owned, Undisturbed
  <2>2. x \in Pointer /\ z \in Pointer /\ f \in Pointer
    BY <1>1 DEF Pointer, Sound, Memory, x, z, f
  <2>3. /\ HeightOf(h2, x) = h[y] /\ HeightOf(h2, z) = h[y]
        /\ HeightOf(h2, f) = h[y] /\ HeightOf(h2, s) = h[y]
    BY <1>1, <1>2, <1>4, <1>6, <1>7, <1>8, <1>9, <1>10, <1>19, <2>2, DistinctAddresses DEF HeightOf
  <2>4. Black(w2, y) = 1 /\ Black(w2, s) = 0
    BY <1>1, <1>2, <1>17 DEF Black, c_rbnode_is_red, c_rbnode_is_black
  <2>5. ASSUME NEW k, k = s \/ k = y PROVE AgreeAt(m2, w2, h2, p, d, k)
    <3> SUFFICES ASSUME NEW b \in Dir PROVE h2[k] = HeightOf(h2, m2[k][b]) + 0 + Black(w2, k)
      BY <2>5, <1>2, <1>5 DEF AgreeAt
    <3>1. b = d \/ b = Other(d)
      BY Sides
    <3> QED
      BY <3>1, <2>3, <2>4, <2>5, <1>4, <1>16, <1>19
  <2>6. AgreeAt(m2, w2, h2, p, d, s) /\ AgreeAt(m2, w2, h2, p, d, y)
    BY <2>5
  <2> QED
    BY <1>3, <1>12, <1>13, <1>19, <2>1, <2>6, RotationHeights
<1> QED
  BY <1>13, <1>16, <1>18, <1>19, <1>20 DEF Balanced, z

-----------------------------------------------------------------------------
(***************************************************************************)
(* Nodes that enter a tree, leave it, change color or change trees: what   *)
(* happens to the pointers, the colors and the heights.                    *)
(***************************************************************************)

\* Only objects that are in no tree are written to.
OthersWritten(o, m, w, m2, w2) ==
  /\ m2 \in Memory /\ Shaped(m2) /\ w2 \in [Node -> Word]
  /\ \A x \in Holder(o) : m2[x] = m[x]
  /\ \A n \in Owned(o) : w2[n] = w[n]

\* They do not matter.
LEMMA OthersDoNotMatter ==
  ASSUME NEW o, NEW m, NEW w, Sound(o, m, w),
         NEW m2, NEW w2, OthersWritten(o, m, w, m2, w2)
  PROVE  /\ Sound(o, m2, w2)
         /\ \A q : RedsBelowBlacks(o, w, q) => RedsBelowBlacks(o, w2, q)
         /\ \A q, e : Balanced(o, m, w, q, e) => Balanced(o, m2, w2, q, e)
<1> USE DEF OthersWritten
<1>1. Sound(o, m2, w2)
  <2>1. Consistent(o, m, w) /\ o \in Owners
    BY DEF Sound
  <2>2. ChildrenKnowParent(o, m2, w2)
    <3> SUFFICES ASSUME NEW a \in Holder(o), NEW b \in Side, m2[a][b] # NULL
                 PROVE  /\ o[m2[a][b]] = Home(o, a)
                        /\ w2[m2[a][b]].raw = a
                        /\ b = "root" <=> c_rbnode_is_root(w2, m2[a][b])
                        /\ b = "root" <=> a \in Tree
                        /\ \A f \in Side : m2[a][f] = m2[a][b] => f = b
      BY DEF ChildrenKnowParent, c_rbnode_raw
    <3>1. m2[a] = m[a] /\ m2[a][b] \in Pointer
      BY DEF Memory, Holder, Owned
    <3>2. /\ o[m[a][b]] = Home(o, a)
          /\ w[m[a][b]].raw = a
          /\ b = "root" <=> c_rbnode_is_root(w, m[a][b])
          /\ b = "root" <=> a \in Tree
          /\ \A f \in Side : m[a][f] = m[a][b] => f = b
      BY <2>1, <3>1 DEF Consistent, ChildrenKnowParent, c_rbnode_raw
    <3>3. Home(o, a) # NULL
      BY DistinctAddresses DEF Home, Holder, Owned
    <3>4. m[a][b] \in Owned(o)
      BY <3>1, <3>2, <3>3 DEF Pointer, Owned
    <3> QED
      BY <3>1, <3>2, <3>4 DEF c_rbnode_is_root
  <2>3. ParentsKnowChild(o, m2, w2)
    BY <2>1 DEF Consistent, ParentsKnowChild, c_rbnode_raw
  <2> QED
    BY <2>1, <2>2, <2>3 DEF Sound, Consistent
<1>2. ASSUME NEW q, RedsBelowBlacks(o, w, q) PROVE RedsBelowBlacks(o, w2, q)
  <2> SUFFICES ASSUME NEW n \in Owned(o), c_rbnode_is_red(w2, n), n # q
               PROVE  ~c_rbnode_is_root(w2, n) /\ c_rbnode_is_black(w2, w2[n].raw)
    BY DEF RedsBelowBlacks, c_rbnode_raw
  <2>1. ~c_rbnode_is_root(w, n) /\ c_rbnode_is_black(w, w[n].raw)
    BY <1>2 DEF RedsBelowBlacks, c_rbnode_raw, c_rbnode_is_red
  <2>2. w[n].raw \in Owned(o)
    BY <2>1, ParentFacts
  <2> QED
    BY <2>1, <2>2 DEF c_rbnode_is_root, c_rbnode_is_black
<1>3. ASSUME NEW q, NEW e, Balanced(o, m, w, q, e) PROVE Balanced(o, m2, w2, q, e)
  BY <1>3 DEF Balanced, HeightsAgree, Holder, Black, c_rbnode_is_black
<1> QED
  BY <1>1, <1>2, <1>3

\* Only colors are changed.
Recolored(w, w2) ==
  /\ w2 \in [Node -> Word]
  /\ \A n \in Node : /\ w2[n].raw = w[n].raw
                     /\ c_rbnode_is_root(w2, n) <=> c_rbnode_is_root(w, n)

\* Colors have no part in the consistency of the pointers.
LEMMA RecoloredConsistent ==
  ASSUME NEW o, NEW m, NEW w, Sound(o, m, w), NEW w2, Recolored(w, w2)
  PROVE  Sound(o, m, w2)
<1> USE DEF Recolored
<1>1. Consistent(o, m, w) /\ m \in Memory /\ o \in Owners
  BY DEF Sound
<1>2. \A a \in Holder(o), b \in Side : m[a][b] # NULL => m[a][b] \in Node
  BY <1>1 DEF Memory, Pointer, Holder, Owned
<1>3. ChildrenKnowParent(o, m, w2)
  BY <1>1, <1>2 DEF Consistent, ChildrenKnowParent, c_rbnode_raw
<1>4. ParentsKnowChild(o, m, w2)
  BY <1>1 DEF Consistent, ParentsKnowChild, c_rbnode_raw, Owned
<1> QED
  BY <1>3, <1>4 DEF Sound, Consistent

WithNode(m, n, x, s) == [m EXCEPT ![n] = NoLinks, ![x][s] = n]

\* The word of the new node n is that of a red child of x on side s.
AddedWord(w, w2, n, x, s) ==
  /\ w2 \in [Node -> Word]
  /\ w2[n].raw = x
  /\ c_rbnode_is_root(w2, n) <=> s = "root"
  /\ c_rbnode_is_red(w2, n)
  /\ \A k \in Node : k # n => w2[k] = w[k]

\* A new red node n in the empty field s of x: what c_rbtree_add makes of it.
LEMMA NodeAdded ==
  ASSUME NEW o, NEW m, NEW w, Sound(o, m, w), NEW e0,
         Balanced(o, m, w, NULL, e0), RedsBelowBlacks(o, w, NULL),
         NEW n \in Node, o[n] = NULL,
         NEW x \in Holder(o), NEW s \in Side, s = "root" <=> x \in Tree, m[x][s] = NULL,
         NEW o2, o2 = [o EXCEPT ![n] = Home(o, x)],
         NEW m2, m2 = WithNode(m, n, x, s),
         NEW w2, AddedWord(w, w2, n, x, s)
  PROVE  /\ Sound(o2, m2, w2)
         /\ RedsBelowBlacks(o2, w2, n)
         /\ \A e2 : Balanced(o2, m2, w2, NULL, e2)
         /\ n \in Owned(o2)
<1> USE DEF AddedWord
<1>0. m \in Memory /\ Shaped(m) /\ w \in [Node -> Word] /\ o \in Owners /\ Consistent(o, m, w)
  BY DEF Sound
<1>1. /\ x # n /\ x \in Node \cup Tree /\ n # NULL /\ n \notin Tree
      /\ Home(o, x) \in Tree
  BY <1>0, DistinctAddresses DEF Holder, Owned, Home, Owners
<1>2. o2 \in Owners /\ o2[n] = Home(o, x) /\ \A k \in Node : k # n => o2[k] = o[k]
  BY <1>0, <1>1 DEF Owners
<1>3. \A a \in Node \cup Tree, b \in Side :
        m2[a][b] = IF a = x /\ b = s THEN n ELSE IF a = n THEN NULL ELSE m[a][b]
  BY <1>0, <1>1 DEF Memory, NoLinks, WithNode
<1>4. m2 \in Memory
  BY <1>0, <1>1 DEF Memory, NoLinks, Pointer, WithNode
<1>5. Shaped(m2)
  <2>1. "root" \in Side /\ Dir \subseteq Side /\ "root" \notin Dir
    BY Sides
  <2>2. ASSUME NEW k \in Node PROVE m2[k]["root"] = NULL
    <3>1. ~(k = x /\ "root" = s)
      BY DistinctAddresses
    <3> QED
      BY <2>1, <3>1, <1>0, <1>3 DEF Shaped
  <2>3. ASSUME NEW k \in Tree, NEW d \in Dir PROVE m2[k][d] = NULL
    <3>1. ~(k = x /\ d = s)
      BY <2>1
    <3> QED
      BY <2>1, <3>1, <1>0, <1>3 DEF Shaped
  <2> QED
    BY <2>2, <2>3 DEF Shaped
<1>6. Owned(o2) = Owned(o) \cup {n} /\ n \notin Owned(o)
  BY <1>1, <1>2, DistinctAddresses DEF Owned
<1>7. \A a \in Node \cup Tree : a # n => Home(o2, a) = Home(o, a)
  BY <1>2 DEF Home
<1>8. \A a \in Holder(o), b \in Side : m[a][b] # n /\ (m[a][b] # NULL => m[a][b] \in Owned(o))
  <2> SUFFICES ASSUME NEW a \in Holder(o), NEW b \in Side, m[a][b] # NULL
               PROVE  m[a][b] \in Owned(o)
    BY <1>1, <1>6
  <2>1. o[m[a][b]] = Home(o, a)
    BY <1>0 DEF Consistent, ChildrenKnowParent
  <2>2. Home(o, a) # NULL
    BY DistinctAddresses DEF Home, Holder, Owned
  <2> QED
    BY <1>0, <2>1, <2>2 DEF Memory, Pointer, Owned, Holder
<1>9. ChildrenKnowParent(o2, m2, w2)
  <2> SUFFICES ASSUME NEW a \in Holder(o2), NEW b \in Side, m2[a][b] # NULL
               PROVE  /\ o2[m2[a][b]] = Home(o2, a)
                      /\ w2[m2[a][b]].raw = a
                      /\ b = "root" <=> c_rbnode_is_root(w2, m2[a][b])
                      /\ b = "root" <=> a \in Tree
                      /\ \A f \in Side : m2[a][f] = m2[a][b] => f = b
    BY DEF ChildrenKnowParent, c_rbnode_raw
  <2>1. a \in Node \cup Tree /\ a # n /\ a \in Holder(o)
    <3>1. \A f \in Side : m2[n][f] = NULL
      BY <1>1, <1>3
    <3>2. a # n
      BY <3>1
    <3> QED
      BY <3>2, <1>6 DEF Holder, Owned
  <2>2. CASE a = x /\ b = s
    <3>1. m2[a][b] = n
      BY <2>1, <2>2, <1>3
    <3>2. o2[n] = Home(o2, a)
      BY <2>2, <1>1, <1>2, <1>7
    <3>3. \A f \in Side : m2[a][f] = n => f = b
      BY <2>1, <2>2, <1>1, <1>3, <1>8
    <3> QED
      BY <2>2, <3>1, <3>2, <3>3
  <2>3. CASE ~(a = x /\ b = s)
    <3>1. m2[a][b] = m[a][b] /\ m[a][b] # NULL /\ m[a][b] \in Owned(o) /\ m[a][b] # n
      BY <2>1, <2>3, <1>3, <1>8
    <3>2. /\ o[m[a][b]] = Home(o, a)
          /\ w[m[a][b]].raw = a
          /\ b = "root" <=> c_rbnode_is_root(w, m[a][b])
          /\ b = "root" <=> a \in Tree
          /\ \A f \in Side : m[a][f] = m[a][b] => f = b
      BY <1>0, <2>1, <3>1 DEF Consistent, ChildrenKnowParent, c_rbnode_raw
    <3>3. m[a][b] \in Node
      BY <3>1 DEF Owned
    <3>4. o2[m[a][b]] = Home(o2, a) /\ w2[m[a][b]] = w[m[a][b]]
      BY <2>1, <3>1, <3>2, <3>3, <1>2, <1>7
    <3>5. \A f \in Side : m2[a][f] = m[a][b] => m[a][f] = m[a][b]
      BY <2>1, <3>1, <1>3
    <3> QED
      BY <3>1, <3>2, <3>4, <3>5 DEF c_rbnode_is_root
  <2> QED
    BY <2>2, <2>3
<1>10. ParentsKnowChild(o2, m2, w2)
  <2> SUFFICES ASSUME NEW k \in Owned(o2)
               PROVE  /\ w2[k].raw \in Holder(o2) /\ w2[k].raw # k
                      /\ \E b \in Side : m2[w2[k].raw][b] = k
    BY DEF ParentsKnowChild, c_rbnode_raw
  <2>1. Holder(o) \subseteq Holder(o2)
    BY <1>6 DEF Holder
  <2>2. CASE k = n
    BY <2>1, <2>2, <1>1, <1>3
  <2>3. CASE k # n
    <3>1. k \in Owned(o) /\ k \in Node /\ k # NULL
      BY <2>3, <1>6, DistinctAddresses DEF Owned
    <3>2. /\ w[k].raw \in Holder(o) /\ w[k].raw # k /\ \E b \in Side : m[w[k].raw][b] = k
      BY <1>0, <3>1 DEF Consistent, ParentsKnowChild, c_rbnode_raw
    <3>3. w[k].raw # n /\ w[k].raw \in Node \cup Tree /\ w2[k] = w[k]
      BY <2>3, <3>1, <3>2, <1>1, <1>6 DEF Holder, Owned
    <3>4. PICK b \in Side : m[w[k].raw][b] = k
      BY <3>2
    <3>5. m2[w[k].raw][b] = k
      BY <3>1, <3>3, <3>4, <1>3
    <3> QED
      BY <2>1, <3>2, <3>3, <3>5
  <2> QED
    BY <2>2, <2>3
<1>11. Sound(o2, m2, w2)
  BY <1>2, <1>4, <1>5, <1>9, <1>10 DEF Sound, Consistent
<1>12. RedsBelowBlacks(o2, w2, n)
  <2> SUFFICES ASSUME NEW k \in Owned(o), c_rbnode_is_red(w2, k), k # n
               PROVE  ~c_rbnode_is_root(w2, k) /\ c_rbnode_is_black(w2, w2[k].raw)
    BY <1>6 DEF RedsBelowBlacks, c_rbnode_raw
  <2>1. k \in Node /\ k # NULL
    BY DistinctAddresses DEF Owned
  <2>2. ~c_rbnode_is_root(w, k) /\ c_rbnode_is_black(w, w[k].raw)
    BY <2>1 DEF RedsBelowBlacks, c_rbnode_raw, c_rbnode_is_red
  <2>3. w[k].raw \in Owned(o)
    BY <2>2, ParentFacts
  <2> QED
    BY <2>1, <2>2, <2>3, <1>6 DEF c_rbnode_is_root, c_rbnode_is_black, Owned
<1>13. PICK h \in Heights : HeightsAgree(o, m, w, h, NULL, e0)
  BY DEF Balanced
<1> DEFINE h2 == [h EXCEPT ![n] = 0]
<1>14. ASSUME NEW e2 PROVE HeightsAgree(o2, m2, w2, h2, NULL, e2)
  <2> SUFFICES ASSUME NEW k \in Owned(o2), NEW d \in Dir
               PROVE  h2[k] = HeightOf(h2, m2[k][d]) + 0 + Black(w2, k)
    BY DistinctAddresses DEF HeightsAgree, Owned
  <2>1. k \in Node /\ k # NULL /\ d \in Side /\ d # "root"
    BY Sides, DistinctAddresses DEF Owned
  <2>2. HeightOf(h2, n) = 0 /\ HeightOf(h2, NULL) = 0
    BY <1>1 DEF HeightOf, Heights
  <2>3. CASE k = n
    BY <2>1, <2>2, <2>3, <1>1, <1>3 DEF Heights, Black, c_rbnode_is_red, c_rbnode_is_black
  <2>4. CASE k # n
    <3>1. h[k] = HeightOf(h, m[k][d]) + 0 + Black(w, k)
      BY <2>1, <2>4, <1>6, <1>13 DEF HeightsAgree
    <3>2. Black(w, k) = Black(w2, k) /\ h2[k] = h[k]
      BY <2>1, <2>4 DEF Black, c_rbnode_is_black, Heights
    <3>3. CASE k = x /\ d = s
      BY <2>1, <2>2, <3>1, <3>2, <3>3, <1>3 DEF HeightOf
    <3>4. CASE ~(k = x /\ d = s)
      <4>1. m2[k][d] = m[k][d] /\ m[k][d] # n /\ m[k][d] \in Pointer
        BY <2>1, <2>4, <3>4, <1>0, <1>3, <1>6, <1>8 DEF Memory, Holder
      <4>2. HeightOf(h2, m[k][d]) = HeightOf(h, m[k][d])
        BY <4>1 DEF HeightOf, Heights, Pointer
      <4> QED
        BY <3>1, <3>2, <4>1, <4>2
    <3> QED
      BY <3>3, <3>4
  <2> QED
    BY <2>3, <2>4
<1>15. h2 \in Heights
  BY DEF Heights
<1> QED
  BY <1>6, <1>11, <1>12, <1>14, <1>15 DEF Balanced

\* The owners after n was taken out of its tree.
Disowned(o, n) == [o EXCEPT ![n] = NULL]

\* The words w2 after n was replaced by its child c, if any, in the words w.
DroppedWords(w, w2, n, c) ==
  /\ w2 \in [Node -> Word]
  /\ \A k \in Node : k # n =>
       /\ w2[k].raw = IF k = c THEN w[n].raw ELSE w[k].raw
       /\ c_rbnode_is_root(w2, k) <=> IF k = c THEN c_rbnode_is_root(w, n)
                                               ELSE c_rbnode_is_root(w, k)
       /\ c_rbnode_is_red(w2, k) <=> k # c /\ c_rbnode_is_red(w, k)

\* n, which has at most the child c, is replaced by c, and c turns black: Cases
\* 1.0 to 1.2 of c_rbnode_unlink_stale.
LEMMA NodeDropped ==
  ASSUME NEW o, NEW m, NEW w, Sound(o, m, w), NEW e0,
         Balanced(o, m, w, NULL, e0), RedsBelowBlacks(o, w, NULL),
         NEW n \in Owned(o), NEW d \in Dir, NEW c, m[n][d] = c, m[n][Other(d)] = NULL,
         NEW o2, o2 = Disowned(o, n),
         NEW m2, m2 = PutInPlace(m, w, n, c),
         NEW w2, DroppedWords(w, w2, n, c)
  PROVE  /\ Sound(o2, m2, w2)
         /\ RedsBelowBlacks(o2, w2, NULL)
         /\ (c # NULL \/ c_rbnode_is_red(w, n) \/ c_rbnode_is_root(w, n)) =>
              \A e2 : Balanced(o2, m2, w2, NULL, e2)
         /\ (c = NULL /\ ~c_rbnode_is_red(w, n) /\ ~c_rbnode_is_root(w, n)) =>
              /\ w[n].raw \in Owned(o2)
              /\ \E e \in Dir :
                   /\ m2[w[n].raw][e] = NULL /\ m2[w[n].raw][Other(e)] # NULL
                   /\ Balanced(o2, m2, w2, w[n].raw, e)
<1> DEFINE g == w[n].raw
<1>0. m \in Memory /\ Shaped(m) /\ w \in [Node -> Word] /\ o \in Owners /\ Consistent(o, m, w)
  BY DEF Sound
<1>1. /\ n \in Node /\ n # NULL /\ g # n /\ g \in Node \cup Tree /\ c \in Pointer
      /\ d \in Side /\ Other(d) \in Side /\ d # Other(d) /\ Other(d) \in Dir /\ Other(Other(d)) = d
  BY <1>0, ParentFacts, Sides DEF Owned, Memory
<1>2. c # NULL => c \in Owned(o) /\ w[c].raw = n /\ c # n /\ o[c] = o[n]
  BY ChildFacts
<1>3. PICK h \in Heights : HeightsAgree(o, m, w, h, NULL, e0)
  BY DEF Balanced
<1>4. /\ \A k \in Owned(o), b \in Dir :
           /\ h[k] \in Nat /\ HeightOf(h, m[k][b]) \in Nat
           /\ h[k] = HeightOf(h, m[k][b]) + (IF c_rbnode_is_red(w, k) THEN 0 ELSE 1)
      /\ HeightOf(h, NULL) = 0
  BY <1>3, HeightBelow, DistinctAddresses DEF Owned, HeightOf
<1>5. h[n] = (IF c_rbnode_is_red(w, n) THEN 0 ELSE 1) /\ HeightOf(h, c) = 0
  BY <1>1, <1>4
<1>6. c # NULL => h[c] = 0 /\ c_rbnode_is_red(w, c) /\ ~c_rbnode_is_red(w, n) /\ h[n] = 1
  <2> SUFFICES ASSUME c # NULL
               PROVE  h[c] = 0 /\ c_rbnode_is_red(w, c) /\ ~c_rbnode_is_red(w, n)
    BY <1>5
  <2>1. h[c] = 0
    BY <1>5 DEF HeightOf
  <2>2. c_rbnode_is_red(w, c)
    BY <2>1, <1>1, <1>2, <1>4
  <2> QED
    BY <2>1, <2>2, <1>2 DEF RedsBelowBlacks, c_rbnode_is_red, c_rbnode_is_black, c_rbnode_raw
<1>7. c # NULL => g # c
  <2> SUFFICES ASSUME c # NULL, g = c PROVE FALSE
    OBVIOUS
  <2>1. n = m[c][d] \/ n = m[c][Other(d)]
    BY <1>2, OnlyChildren
  <2> QED
    BY <2>1, <1>1, <1>2, <1>4, <1>6 DEF HeightOf
<1>8. PICK t \in Side : /\ m[g][t] = n
                        /\ t = "root" <=> g \in Tree
                        /\ g \in Holder(o)
                        /\ m2 = Put(m, g, t, c)
  BY <1>0, PutInPlaceAt
<1>9. \A a \in Node \cup Tree, b \in Side : m2[a][b] = IF a = g /\ b = t THEN c ELSE m[a][b]
  BY <1>0, <1>1, <1>8 DEF Memory, Put
<1>10. m2 \in Memory
  BY <1>0, <1>1, <1>8 DEF Memory, Put
<1>11. Shaped(m2)
  <2>1. "root" \in Side /\ Dir \subseteq Side /\ "root" \notin Dir
    BY Sides
  <2>2. ASSUME NEW k \in Node PROVE m2[k]["root"] = NULL
    BY <2>1, <1>0, <1>8, <1>9, DistinctAddresses DEF Shaped
  <2>3. ASSUME NEW k \in Tree, NEW b \in Dir PROVE m2[k][b] = NULL
    BY <2>1, <1>0, <1>8, <1>9 DEF Shaped
  <2> QED
    BY <2>2, <2>3 DEF Shaped
<1>12. /\ o2 \in Owners /\ \A k \in Node : k # n => o2[k] = o[k]
       /\ Owned(o2) = Owned(o) \ {n} /\ n \notin Tree
       /\ \A a \in Node \cup Tree : a # n => Home(o2, a) = Home(o, a)
  BY <1>0, <1>1, DistinctAddresses DEF Owners, Owned, Home, Disowned
<1>13. Holder(o2) = Holder(o) \ {n}
  BY <1>12 DEF Holder
<1> HIDE DEF g
<1>14. \A a \in Holder(o), b \in Side : m[a][b] # NULL =>
          /\ m[a][b] \in Node
          /\ o[m[a][b]] = Home(o, a)
          /\ w[m[a][b]].raw = a
          /\ b = "root" <=> c_rbnode_is_root(w, m[a][b])
          /\ b = "root" <=> a \in Tree
          /\ \A f \in Side : m[a][f] = m[a][b] => f = b
  BY <1>0 DEF Consistent, ChildrenKnowParent, c_rbnode_raw, Memory, Pointer, Holder, Owned
<1>15. \A k \in Node : k # n =>
           /\ w2[k].raw = IF k = c THEN g ELSE w[k].raw
           /\ c_rbnode_is_root(w2, k) <=> IF k = c THEN c_rbnode_is_root(w, n)
                                                   ELSE c_rbnode_is_root(w, k)
           /\ c_rbnode_is_red(w2, k) <=> k # c /\ c_rbnode_is_red(w, k)
  BY DEF g, DroppedWords
<1>16. ChildrenKnowParent(o2, m2, w2)
  <2> SUFFICES ASSUME NEW a \in Holder(o), a # n, NEW b \in Side, m2[a][b] # NULL
               PROVE  /\ o2[m2[a][b]] = Home(o2, a)
                      /\ w2[m2[a][b]].raw = a
                      /\ b = "root" <=> c_rbnode_is_root(w2, m2[a][b])
                      /\ b = "root" <=> a \in Tree
                      /\ \A f \in Side : m2[a][f] = m2[a][b] => f = b
    BY <1>13 DEF ChildrenKnowParent, c_rbnode_raw
  <2>1. a \in Node \cup Tree
    BY DEF Holder, Owned
  <2>2. CASE a = g /\ b = t
    <3>1. m2[a][b] = c /\ c # NULL /\ c \in Node /\ c # n
      BY <2>1, <2>2, <1>1, <1>2, <1>9 DEF Owned
    <3>2. o2[c] = Home(o2, a)
      <4>1. o[n] = Home(o, g)
        BY <1>1, <1>8, <1>14
      <4>2. Home(o2, a) = Home(o, g)
        BY <2>1, <2>2, <1>12
      <4> QED
        BY <4>1, <4>2, <3>1, <1>2, <1>12
    <3>3. t = "root" <=> c_rbnode_is_root(w2, c)
      BY <2>2, <3>1, <1>1, <1>8, <1>14, <1>15
    <3>4. \A f \in Side : m2[a][f] = c => f = b
      BY <2>1, <2>2, <3>1, <1>2, <1>9, <1>14
    <3> QED
      BY <2>2, <3>1, <3>2, <3>3, <3>4, <1>8, <1>15
  <2>3. CASE ~(a = g /\ b = t)
    <3>1. m2[a][b] = m[a][b] /\ m[a][b] # NULL
      BY <2>1, <2>3, <1>9
    <3>2. m[a][b] # n
      BY <2>3, <3>1, <1>8, <1>14
    <3>3. m[a][b] # c
      BY <3>1, <1>2, <1>14
    <3>4. \A f \in Side : m2[a][f] = m[a][b] => m[a][f] = m[a][b]
      BY <2>1, <3>3, <1>9
    <3>5. /\ m[a][b] \in Node /\ o[m[a][b]] = Home(o, a) /\ w[m[a][b]].raw = a
          /\ b = "root" <=> c_rbnode_is_root(w, m[a][b])
          /\ b = "root" <=> a \in Tree
          /\ \A f \in Side : m[a][f] = m[a][b] => f = b
      BY <3>1, <1>14
    <3>6. o2[m[a][b]] = o[m[a][b]] /\ Home(o2, a) = Home(o, a)
      BY <2>1, <3>2, <3>5, <1>12
    <3>7. /\ w2[m[a][b]].raw = a
          /\ c_rbnode_is_root(w2, m[a][b]) <=> c_rbnode_is_root(w, m[a][b])
      BY <3>2, <3>3, <3>5, <1>15
    <3> QED
      BY <3>1, <3>4, <3>5, <3>6, <3>7
  <2> QED
    BY <2>2, <2>3
<1>17. \A k \in Owned(o) : k # n /\ k # c => w[k].raw # n
  BY <1>1, OnlyChildren, DistinctAddresses DEF Owned
<1>18. ParentsKnowChild(o2, m2, w2)
  <2> SUFFICES ASSUME NEW k \in Owned(o), k # n
               PROVE  /\ w2[k].raw \in Holder(o) /\ w2[k].raw # n /\ w2[k].raw # k
                      /\ \E b \in Side : m2[w2[k].raw][b] = k
    BY <1>12, <1>13 DEF ParentsKnowChild, c_rbnode_raw
  <2>1. k \in Node /\ k # NULL
    BY DistinctAddresses DEF Owned
  <2>2. CASE k = c
    BY <2>1, <2>2, <1>1, <1>7, <1>8, <1>9, <1>15
  <2>3. CASE k # c
    <3>1. /\ w[k].raw \in Holder(o) /\ w[k].raw # k /\ \E b \in Side : m[w[k].raw][b] = k
      BY <1>0 DEF Consistent, ParentsKnowChild, c_rbnode_raw
    <3>2. PICK b \in Side : m[w[k].raw][b] = k
      BY <3>1
    <3>3. w[k].raw \in Node \cup Tree
      BY <3>1 DEF Holder, Owned
    <3>4. m2[w[k].raw][b] = k
      BY <3>2, <3>3, <1>8, <1>9
    <3> QED
      BY <2>1, <2>3, <3>1, <3>4, <1>15, <1>17
  <2> QED
    BY <2>2, <2>3
<1>19. Sound(o2, m2, w2)
  BY <1>10, <1>11, <1>12, <1>16, <1>18 DEF Sound, Consistent, DroppedWords
<1>20. RedsBelowBlacks(o2, w2, NULL)
  <2> SUFFICES ASSUME NEW k \in Owned(o), k # n, c_rbnode_is_red(w2, k)
               PROVE  ~c_rbnode_is_root(w2, k) /\ ~c_rbnode_is_red(w2, w2[k].raw)
    BY <1>12 DEF RedsBelowBlacks, c_rbnode_raw, c_rbnode_is_red, c_rbnode_is_black
  <2>1. k \in Node /\ k # NULL
    BY DistinctAddresses DEF Owned
  <2>2. k # c /\ c_rbnode_is_red(w, k)
    BY <2>1, <1>15
  <2>3. ~c_rbnode_is_root(w, k) /\ ~c_rbnode_is_red(w, w[k].raw)
    BY <2>1, <2>2 DEF RedsBelowBlacks, c_rbnode_raw, c_rbnode_is_red, c_rbnode_is_black
  <2>4. w[k].raw \in Node /\ w[k].raw # n
    BY <2>2, <2>3, <1>17, ParentFacts
  <2> QED
    BY <2>1, <2>2, <2>3, <2>4, <1>15
<1> DEFINE h2 == [h EXCEPT ![c] = h[n]]
<1>21. /\ h2 \in Heights
       /\ \A k \in Pointer : k # c => HeightOf(h2, k) = HeightOf(h, k)
       /\ \A k \in Node : k # c => h2[k] = h[k]
       /\ c # NULL => h2[c] = h[n]
  BY <1>1, <1>4 DEF Heights, HeightOf, Pointer
<1> HIDE DEF h2
\* The equations away from the field that held n.
<1>22. ASSUME NEW k \in Owned(o), k # n, NEW b \in Dir, ~(k = g /\ b = t)
       PROVE  h2[k] = HeightOf(h2, m2[k][b]) + Black(w2, k)
  <2>1. k \in Node /\ k # NULL /\ b \in Side /\ k \in Holder(o)
    BY Sides, DistinctAddresses DEF Owned, Holder
  <2>2. m2[k][b] = m[k][b] /\ m[k][b] \in Pointer
    BY <2>1, <1>0, <1>9, <1>22 DEF Memory
  <2>3. c # NULL => m[k][b] # c
    BY <2>1, <1>2, <1>14, <1>22
  <2>4. HeightOf(h2, m[k][b]) = HeightOf(h, m[k][b])
    BY <2>2, <2>3, <1>21 DEF HeightOf
  <2>5. CASE k = c
    <3>1. ~c_rbnode_is_red(w2, k)
      BY <2>1, <2>5, <1>15, <1>22
    <3>2. Black(w2, k) = 1
      BY <3>1 DEF Black, c_rbnode_is_red, c_rbnode_is_black
    <3>3. c_rbnode_is_red(w, k) /\ h[k] = 0
      BY <2>1, <2>5, <1>6
    <3>4. HeightOf(h, m[k][b]) = 0
      BY <3>3, <1>4
    <3>5. h2[k] = 1
      BY <2>1, <2>5, <1>6, <1>21
    <3> QED
      BY <2>2, <2>4, <3>2, <3>4, <3>5
  <2>6. CASE k # c
    <3>1. Black(w2, k) = IF c_rbnode_is_red(w, k) THEN 0 ELSE 1
      BY <2>1, <2>6, <1>15, <1>22 DEF Black, c_rbnode_is_red, c_rbnode_is_black
    <3> QED
      BY <2>1, <2>2, <2>4, <2>6, <3>1, <1>4, <1>21
  <2> QED
    BY <2>5, <2>6
<1>23. g \in Owned(o) => /\ g \in Node /\ g # c /\ t \in Dir /\ h2[g] = h[g]
                         /\ h[g] = h[n] + Black(w2, g)
                         /\ m2[g][t] = c
  <2> SUFFICES ASSUME g \in Owned(o)
               PROVE  /\ g \in Node /\ g # c /\ t \in Dir /\ h2[g] = h[g]
                      /\ h[g] = h[n] + Black(w2, g)
                      /\ m2[g][t] = c
    OBVIOUS
  <2>1. g \in Node /\ g # NULL /\ t \in Dir /\ g # c
    BY <1>7, <1>8, DistinctAddresses DEF Owned, Side, Dir
  <2>2. HeightOf(h, n) = h[n]
    BY <1>1 DEF HeightOf
  <2>3. h[g] = h[n] + (IF c_rbnode_is_red(w, g) THEN 0 ELSE 1)
    BY <2>1, <2>2, <1>4, <1>8
  <2>4. Black(w2, g) = IF c_rbnode_is_red(w, g) THEN 0 ELSE 1
    BY <2>1, <1>1, <1>15 DEF Black, c_rbnode_is_red, c_rbnode_is_black
  <2> QED
    BY <2>1, <2>3, <2>4, <1>9, <1>21
<1>24. ASSUME c # NULL \/ c_rbnode_is_red(w, n) \/ c_rbnode_is_root(w, n), NEW e2
       PROVE  HeightsAgree(o2, m2, w2, h2, NULL, e2)
  <2> SUFFICES ASSUME NEW k \in Owned(o), k # n, NEW b \in Dir
               PROVE  h2[k] = HeightOf(h2, m2[k][b])
                                + (IF k = NULL /\ b = e2 THEN 1 ELSE 0) + Black(w2, k)
    BY <1>12 DEF HeightsAgree
  <2>0. k # NULL /\ HeightOf(h2, m2[k][b]) \in Nat /\ Black(w2, k) \in Nat
    <3>1. m2[k][b] \in Pointer
      BY <1>10, Sides DEF Memory, Owned
    <3> QED
      BY <3>1, <1>21, HeightOfIsNat, DistinctAddresses DEF Black, Owned
  <2>1. CASE ~(k = g /\ b = t)
    BY <2>0, <2>1, <1>22
  <2>2. CASE k = g /\ b = t
    <3>1. h2[g] = h[n] + Black(w2, g) /\ m2[g][t] = c /\ ~c_rbnode_is_root(w, n)
      <4>1. g \in Owned(o) /\ n # g
        BY <2>2
      <4>2. t # "root"
        BY <4>1, <1>8, DistinctAddresses DEF Owned
      <4> QED
        BY <4>1, <4>2, <1>1, <1>8, <1>14, <1>23
    <3>2. HeightOf(h2, c) = h[n]
      BY <3>1, <1>5, <1>21, <1>24 DEF HeightOf
    <3> QED
      BY <2>0, <2>2, <3>1, <3>2
  <2> QED
    BY <2>1, <2>2
<1>25. ASSUME c = NULL, ~c_rbnode_is_red(w, n), ~c_rbnode_is_root(w, n)
       PROVE  /\ g \in Owned(o2) /\ t \in Dir
              /\ m2[g][t] = NULL /\ m2[g][Other(t)] # NULL
              /\ HeightsAgree(o2, m2, w2, h2, g, t)
  <2>1. g \in Owned(o) /\ g # n
    BY <1>1, <1>25, ParentFacts DEF g
  <2>2. t \in Dir /\ m2[g][t] = NULL /\ h2[g] = 1 + Black(w2, g)
    BY <2>1, <1>5, <1>23, <1>25
  <2>3. HeightOf(h2, NULL) = 0
    BY DEF HeightOf
  <2>4. \A k \in Owned(o), b \in Dir : HeightOf(h2, m2[k][b]) \in Nat /\ Black(w2, k) \in Nat
    <3>1. \A k \in Owned(o), b \in Dir : m2[k][b] \in Pointer
      BY <1>10, Sides DEF Memory, Owned
    <3> QED
      BY <3>1, <1>21, HeightOfIsNat DEF Black
  <2>5. Other(t) \in Dir /\ Other(t) # t
    BY <2>2, Sides
  <2>6. m2[g][Other(t)] # NULL
    BY <2>1, <2>2, <2>3, <2>4, <2>5, <1>22
  <2>7. ASSUME NEW k \in Owned(o), k # n, NEW b \in Dir
        PROVE  h2[k] = HeightOf(h2, m2[k][b]) + (IF k = g /\ b = t THEN 1 ELSE 0) + Black(w2, k)
    <3>1. CASE k = g /\ b = t
      BY <3>1, <2>2, <2>3, <2>4, <2>7
    <3>2. CASE ~(k = g /\ b = t)
      BY <3>2, <2>4, <2>7, <1>22
    <3> QED
      BY <3>1, <3>2
  <2> QED
    BY <2>1, <2>2, <2>6, <2>7, <1>12 DEF HeightsAgree
<1> QED
  BY <1>19, <1>20, <1>21, <1>24, <1>25 DEF Balanced, g

-----------------------------------------------------------------------------
(* Recolorings and moves *)

\* c_rbtree_paint_path, Case 1: a red root turns black.
LEMMA RootPainted ==
  ASSUME NEW o, NEW m, NEW w, Sound(o, m, w), NEW e0, Balanced(o, m, w, NULL, e0),
         NEW r \in Owned(o), RedsBelowBlacks(o, w, r),
         c_rbnode_is_root(w, r), c_rbnode_is_red(w, r),
         NEW w2, Recolored(w, w2), Repainted(w, w2, {r}, {})
  PROVE  /\ RedsBelowBlacks(o, w2, NULL)
         /\ \A e2 : Balanced(o, m, w2, NULL, e2)
<1>1. \A k \in Owned(o) : k \in Node /\ k # NULL
  BY DistinctAddresses DEF Owned
<1>2. \A k \in Node : /\ w2[k].raw = w[k].raw
                      /\ c_rbnode_is_root(w2, k) <=> c_rbnode_is_root(w, k)
                      /\ c_rbnode_is_red(w2, k) <=> k # r /\ c_rbnode_is_red(w, k)
  BY DEF Recolored, Repainted
<1>3. RedsBelowBlacks(o, w2, NULL)
  <2> SUFFICES ASSUME NEW k \in Owned(o), c_rbnode_is_red(w2, k)
               PROVE  ~c_rbnode_is_root(w2, k) /\ ~c_rbnode_is_red(w2, w2[k].raw)
    BY DEF RedsBelowBlacks, c_rbnode_raw, c_rbnode_is_red, c_rbnode_is_black
  <2>1. ~c_rbnode_is_root(w, k) /\ ~c_rbnode_is_red(w, w[k].raw)
    BY <1>1, <1>2 DEF RedsBelowBlacks, c_rbnode_raw, c_rbnode_is_red, c_rbnode_is_black
  <2>2. w[k].raw \in Node
    BY <2>1, ParentFacts
  <2> QED
    BY <1>1, <1>2, <2>1, <2>2
<1>4. PICK h \in Heights : HeightsAgree(o, m, w, h, NULL, e0)
  BY DEF Balanced
<1> DEFINE h2 == [h EXCEPT ![r] = h[r] + 1]
<1>5. /\ h2 \in Heights /\ h2[r] = h[r] + 1 /\ h[r] \in Nat
      /\ \A k \in Pointer : k # r => HeightOf(h2, k) = HeightOf(h, k)
      /\ \A k \in Node : k # r => h2[k] = h[k]
  BY <1>1 DEF Heights, HeightOf, Pointer
<1> HIDE DEF h2
<1>6. ASSUME NEW e2 PROVE HeightsAgree(o, m, w2, h2, NULL, e2)
  <2> SUFFICES ASSUME NEW k \in Owned(o), NEW d \in Dir
               PROVE  h2[k] = HeightOf(h2, m[k][d]) + 0 + Black(w2, k)
    BY <1>1 DEF HeightsAgree
  <2>1. m[k][d] # r
    BY <1>1, ChildFacts
  <2>2. m[k][d] \in Pointer
    BY <1>1, Sides DEF Sound, Memory
  <2>3. HeightOf(h2, m[k][d]) = HeightOf(h, m[k][d]) /\ HeightOf(h, m[k][d]) \in Nat
    BY <2>1, <2>2, <1>5, HeightOfIsNat
  <2>4. h[k] = HeightOf(h, m[k][d]) + (IF c_rbnode_is_red(w, k) THEN 0 ELSE 1)
    BY <1>1, <1>4, HeightBelow
  <2>5. Black(w2, k) = IF k # r /\ c_rbnode_is_red(w, k) THEN 0 ELSE 1
    BY <1>1, <1>2 DEF Black, c_rbnode_is_red, c_rbnode_is_black
  <2> QED
    BY <2>3, <2>4, <2>5, <1>1, <1>5
<1> QED
  BY <1>3, <1>5, <1>6 DEF Balanced

\* Case 3: the red node n has a red parent p and a red uncle u. They turn
\* black, the grandparent g red.
LEMMA UncleRecolored ==
  ASSUME NEW o, NEW m, NEW w, Sound(o, m, w), NEW e0, Balanced(o, m, w, NULL, e0),
         NEW n \in Owned(o), RedsBelowBlacks(o, w, n), c_rbnode_is_red(w, n),
         NEW p \in Owned(o), NEW u \in Owned(o), NEW g \in Owned(o), NEW d \in Dir,
         w[n].raw = p, m[g][d] = p, m[g][Other(d)] = u,
         c_rbnode_is_red(w, p), c_rbnode_is_red(w, u), ~c_rbnode_is_red(w, g),
         ~c_rbnode_is_root(w, n),
         NEW w2, Recolored(w, w2), Repainted(w, w2, {p, u}, {g})
  PROVE  /\ RedsBelowBlacks(o, w2, g) /\ c_rbnode_is_red(w2, g)
         /\ \A e2 : Balanced(o, m, w2, NULL, e2)
<1>1. /\ \A k \in Owned(o) : k \in Node /\ k # NULL
      /\ Other(d) \in Dir /\ Other(Other(d)) = d /\ Other(d) # d
      /\ \A b \in Dir : b = d \/ b = Other(d)
  BY Sides, DistinctAddresses DEF Owned
<1>2. p # g /\ u # g /\ p # u /\ n # p /\ w[p].raw = g /\ w[u].raw = g
  BY <1>1, ChildFacts, ParentFacts
<1>3. \A k \in Node :
        /\ w2[k].raw = w[k].raw
        /\ c_rbnode_is_root(w2, k) <=> c_rbnode_is_root(w, k)
        /\ c_rbnode_is_red(w2, k) <=> k = g \/ (k # p /\ k # u /\ c_rbnode_is_red(w, k))
  BY DEF Recolored, Repainted
<1>4. RedsBelowBlacks(o, w2, g)
  <2> SUFFICES ASSUME NEW k \in Owned(o), c_rbnode_is_red(w2, k), k # g
               PROVE  ~c_rbnode_is_root(w2, k) /\ ~c_rbnode_is_red(w2, w2[k].raw)
    BY DEF RedsBelowBlacks, c_rbnode_raw, c_rbnode_is_red, c_rbnode_is_black
  <2>1. k # p /\ k # u /\ c_rbnode_is_red(w, k)
    BY <1>1, <1>3
  <2>2. CASE k = n
    BY <2>2, <1>1, <1>2, <1>3
  <2>3. CASE k # n
    <3>1. ~c_rbnode_is_root(w, k) /\ ~c_rbnode_is_red(w, w[k].raw)
      BY <2>1, <2>3 DEF RedsBelowBlacks, c_rbnode_raw, c_rbnode_is_red, c_rbnode_is_black
    <3>2. w[k].raw \in Node
      BY <3>1, ParentFacts
    <3>3. w[k].raw # g
      BY <2>1, <1>1, OnlyChildren
    <3> QED
      BY <1>1, <1>3, <3>1, <3>2, <3>3
  <2> QED
    BY <2>2, <2>3
<1>5. PICK h \in Heights : HeightsAgree(o, m, w, h, NULL, e0)
  BY DEF Balanced
<1>6. \A k \in Owned(o), b \in Dir :
           /\ h[k] \in Nat /\ HeightOf(h, m[k][b]) \in Nat
           /\ h[k] = HeightOf(h, m[k][b]) + (IF c_rbnode_is_red(w, k) THEN 0 ELSE 1)
  BY <1>1, <1>5, HeightBelow
<1> DEFINE h2 == [h EXCEPT ![p] = h[p] + 1, ![u] = h[u] + 1]
<1>7. /\ h2 \in Heights /\ h2[p] = h[p] + 1 /\ h2[u] = h[u] + 1
      /\ \A k \in Pointer : k # p /\ k # u => HeightOf(h2, k) = HeightOf(h, k)
      /\ \A k \in Node : k # p /\ k # u => h2[k] = h[k]
  BY <1>1, <1>2 DEF Heights, HeightOf, Pointer
<1> HIDE DEF h2
<1>8. ASSUME NEW e2 PROVE HeightsAgree(o, m, w2, h2, NULL, e2)
  <2> SUFFICES ASSUME NEW k \in Owned(o), NEW b \in Dir
               PROVE  h2[k] = HeightOf(h2, m[k][b]) + 0 + Black(w2, k)
    BY <1>1 DEF HeightsAgree
  <2>1. m[k][b] \in Pointer
    BY <1>1, Sides DEF Sound, Memory
  <2>2. Black(w2, k) = IF k = g \/ (k # p /\ k # u /\ c_rbnode_is_red(w, k)) THEN 0 ELSE 1
    BY <1>1, <1>3 DEF Black, c_rbnode_is_red, c_rbnode_is_black
  <2>3. CASE k = g
    <3>1. HeightOf(h2, m[g][b]) = HeightOf(h, m[g][b]) + 1
      BY <1>1, <1>7 DEF HeightOf
    <3> QED
      BY <2>2, <2>3, <3>1, <1>1, <1>2, <1>6, <1>7
  <2>4. CASE k # g
    <3>1. m[k][b] # p /\ m[k][b] # u
      BY <2>4, <1>1, <1>2, ChildFacts
    <3>2. HeightOf(h2, m[k][b]) = HeightOf(h, m[k][b])
      BY <2>1, <3>1, <1>7
    <3> QED
      BY <2>2, <2>4, <3>2, <1>1, <1>2, <1>6, <1>7
  <2> QED
    BY <2>3, <2>4
<1> QED
  BY <1>1, <1>3, <1>4, <1>7, <1>8 DEF Balanced

\* Cases 3 and 4 of the rebalancing: the black sibling s of side d of p, whose
\* children are not red, turns red and p black. If p was black already, all
\* paths through p lack a black node now; q and e tell where that is seen from.
LEMMA SiblingRecolored ==
  ASSUME NEW o, NEW m, NEW w, Sound(o, m, w),
         NEW p \in Owned(o), NEW s \in Owned(o), NEW d \in Dir,
         Balanced(o, m, w, p, d), RedsBelowBlacks(o, w, NULL),
         m[p][Other(d)] = s, ~c_rbnode_is_red(w, s),
         \A b \in Dir : m[s][b] # NULL => ~c_rbnode_is_red(w, m[s][b]),
         NEW w2, Recolored(w, w2), Repainted(w, w2, {p}, {s})
  PROVE  /\ RedsBelowBlacks(o, w2, NULL)
         /\ (c_rbnode_is_red(w, p) \/ c_rbnode_is_root(w, p)) =>
              \A e2 : Balanced(o, m, w2, NULL, e2)
         /\ ~c_rbnode_is_red(w, p) =>
              \A q \in Owned(o), e2 \in Dir : m[q][e2] = p => Balanced(o, m, w2, q, e2)
<1>1. /\ \A k \in Owned(o) : k \in Node /\ k # NULL
      /\ Other(d) \in Dir /\ Other(Other(d)) = d /\ Other(d) # d
      /\ \A b \in Dir : b = d \/ b = Other(d)
  BY Sides, DistinctAddresses DEF Owned
<1>2. p # s /\ w[s].raw = p /\ ~c_rbnode_is_root(w, s)
  BY <1>1, ChildFacts
<1>3. \A k \in Node :
        /\ w2[k].raw = w[k].raw
        /\ c_rbnode_is_root(w2, k) <=> c_rbnode_is_root(w, k)
        /\ c_rbnode_is_red(w2, k) <=> k = s \/ (k # p /\ c_rbnode_is_red(w, k))
  BY DEF Recolored, Repainted
<1>4. RedsBelowBlacks(o, w2, NULL)
  <2> SUFFICES ASSUME NEW k \in Owned(o), c_rbnode_is_red(w2, k)
               PROVE  ~c_rbnode_is_root(w2, k) /\ ~c_rbnode_is_red(w2, w2[k].raw)
    BY DEF RedsBelowBlacks, c_rbnode_raw, c_rbnode_is_red, c_rbnode_is_black
  <2>1. CASE k = s
    BY <2>1, <1>1, <1>2, <1>3
  <2>2. CASE k # s
    <3>1. c_rbnode_is_red(w, k)
      BY <2>2, <1>1, <1>3
    <3>2. ~c_rbnode_is_root(w, k) /\ ~c_rbnode_is_red(w, w[k].raw)
      BY <1>1, <3>1 DEF RedsBelowBlacks, c_rbnode_raw, c_rbnode_is_red, c_rbnode_is_black
    <3>3. w[k].raw \in Node
      BY <3>2, ParentFacts
    <3>4. w[k].raw # s
      <4>1. w[k].raw = s => k = m[s][d] \/ k = m[s][Other(d)]
        BY OnlyChildren
      <4> QED
        BY <4>1, <3>1, <1>1
    <3> QED
      BY <1>1, <1>3, <3>2, <3>3, <3>4
  <2> QED
    BY <2>1, <2>2
<1>5. PICK h \in Heights : HeightsAgree(o, m, w, h, p, d)
  BY DEF Balanced
<1>6. \A k \in Owned(o), b \in Dir :
           /\ h[k] \in Nat /\ HeightOf(h, m[k][b]) \in Nat
           /\ h[k] = HeightOf(h, m[k][b]) + (IF k = p /\ b = d THEN 1 ELSE 0)
                      + (IF c_rbnode_is_red(w, k) THEN 0 ELSE 1)
  BY <1>5, HeightBelow
<1>7. h[s] > 0
  BY <1>1, <1>2, <1>6
<1>8. \A k \in Owned(o), b \in Dir :
        /\ m[k][b] \in Pointer
        /\ m[k][b] = s => k = p
        /\ m[k][b] = p => w[p].raw = k /\ ~c_rbnode_is_root(w, p) /\ k # p
        /\ m[k][b] = s => b = Other(d)
  <2>1. ASSUME NEW k \in Owned(o), NEW b \in Dir
        PROVE  /\ m[k][b] \in Pointer
               /\ m[k][b] = s => k = p
               /\ m[k][b] = p => w[p].raw = k /\ ~c_rbnode_is_root(w, p) /\ k # p
    <3>1. m[k][b] \in Pointer
      BY <1>1, Sides DEF Sound, Memory
    <3>2. m[k][b] # NULL => w[m[k][b]].raw = k /\ ~c_rbnode_is_root(w, m[k][b]) /\ m[k][b] # k
      BY ChildFacts
    <3> QED
      BY <1>1, <1>2, <3>1, <3>2
  <2>2. m[p][d] # s
    <3>1. m[p][Other(d)] # m[p][Other(Other(d))]
      BY <1>1, ChildFacts
    <3> QED
      BY <3>1, <1>1
  <2> QED
    BY <2>1, <2>2, <1>1
<1>9. \A k \in Owned(o) : Black(w2, k) = IF k = s \/ (k # p /\ c_rbnode_is_red(w, k)) THEN 0 ELSE 1
  BY <1>1, <1>3 DEF Black, c_rbnode_is_red, c_rbnode_is_black
<1>10. ASSUME c_rbnode_is_red(w, p), NEW e2 PROVE Balanced(o, m, w2, NULL, e2)
  <2> DEFINE h2 == [h EXCEPT ![s] = h[s] - 1]
  <2>1. /\ h2 \in Heights /\ h2[s] = h[s] - 1
        /\ \A k \in Pointer : k # s => HeightOf(h2, k) = HeightOf(h, k)
        /\ \A k \in Node : k # s => h2[k] = h[k]
    BY <1>1, <1>6, <1>7 DEF Heights, HeightOf, Pointer
  <2> HIDE DEF h2
  <2>2. ASSUME NEW k \in Owned(o), NEW b \in Dir
        PROVE  h2[k] = HeightOf(h2, m[k][b]) + 0 + Black(w2, k)
    <3>1. CASE m[k][b] = s
      <4>1. k = p /\ b = Other(d) /\ HeightOf(h2, s) = h[s] - 1 /\ HeightOf(h, s) = h[s]
        BY <3>1, <1>1, <1>8, <2>1 DEF HeightOf
      <4> QED
        BY <3>1, <4>1, <1>1, <1>2, <1>6, <1>7, <1>9, <1>10, <2>1
    <3>2. CASE m[k][b] # s
      BY <3>2, <1>1, <1>2, <1>6, <1>7, <1>8, <1>9, <1>10, <2>1
    <3> QED
      BY <3>1, <3>2
  <2>3. HeightsAgree(o, m, w2, h2, NULL, e2)
    BY <2>2, <1>1 DEF HeightsAgree
  <2> QED
    BY <2>1, <2>3 DEF Balanced
<1>11. ASSUME ~c_rbnode_is_red(w, p), NEW q, NEW e2,
              \A k \in Owned(o), b \in Dir : m[k][b] = p <=> k = q /\ b = e2
       PROVE  Balanced(o, m, w2, q, e2)
  <2> DEFINE h2 == [h EXCEPT ![s] = h[s] - 1, ![p] = h[p] - 1]
  <2>1. /\ h2 \in Heights /\ h2[s] = h[s] - 1 /\ h2[p] = h[p] - 1 /\ h[p] > 0
        /\ \A k \in Pointer : k # s /\ k # p => HeightOf(h2, k) = HeightOf(h, k)
        /\ \A k \in Node : k # s /\ k # p => h2[k] = h[k]
    BY <1>1, <1>2, <1>6, <1>7, <1>11 DEF Heights, HeightOf, Pointer
  <2> HIDE DEF h2
  <2>2. ASSUME NEW k \in Owned(o), NEW b \in Dir
        PROVE  h2[k] = HeightOf(h2, m[k][b]) + (IF k = q /\ b = e2 THEN 1 ELSE 0) + Black(w2, k)
    <3>1. CASE m[k][b] = s
      <4>1. k = p /\ b = Other(d) /\ HeightOf(h2, s) = h[s] - 1 /\ HeightOf(h, s) = h[s]
            /\ ~(k = q /\ b = e2)
        BY <3>1, <1>1, <1>2, <1>8, <1>11, <2>1 DEF HeightOf
      <4> QED
        BY <3>1, <4>1, <1>1, <1>2, <1>6, <1>7, <1>9, <1>11, <2>1
    <3>2. CASE m[k][b] = p
      <4>1. k = q /\ b = e2 /\ k # p /\ HeightOf(h2, p) = h[p] - 1 /\ HeightOf(h, p) = h[p]
        BY <3>2, <1>1, <1>8, <1>11, <2>1 DEF HeightOf
      <4>2. k # s
        <5>1. k = s => p = m[s][b] /\ h[s] = HeightOf(h, p) + 1 /\ h[p] = HeightOf(h, s) + 1
          BY <3>2, <1>1, <1>2, <1>6, <1>11
        <5>2. HeightOf(h, s) = h[s]
          BY <1>1 DEF HeightOf
        <5> QED
          BY <4>1, <5>1, <5>2, <1>1, <1>6
      <4> QED
        BY <3>2, <4>1, <4>2, <1>1, <1>6, <1>9, <1>11, <2>1
    <3>3. CASE m[k][b] # s /\ m[k][b] # p
      <4>1. ~(k = q /\ b = e2) /\ HeightOf(h2, m[k][b]) = HeightOf(h, m[k][b])
        BY <3>3, <1>8, <1>11, <2>1
      <4>2. CASE k = p
        <5>1. b = d
          BY <3>3, <4>2, <1>1
        <5> QED
          BY <4>1, <4>2, <5>1, <1>1, <1>2, <1>6, <1>9, <1>11, <2>1
      <4>3. CASE k = s
        BY <4>1, <4>3, <1>1, <1>2, <1>6, <1>9, <2>1
      <4>4. CASE k # p /\ k # s
        BY <4>1, <4>4, <1>1, <1>6, <1>9, <2>1
      <4> QED
        BY <4>2, <4>3, <4>4
    <3> QED
      BY <3>1, <3>2, <3>3
  <2>3. HeightsAgree(o, m, w2, h2, q, e2)
    BY <2>2 DEF HeightsAgree
  <2> QED
    BY <2>1, <2>3 DEF Balanced
<1>12. ASSUME ~c_rbnode_is_red(w, p), c_rbnode_is_root(w, p), NEW e2
       PROVE  Balanced(o, m, w2, NULL, e2)
  BY <1>1, <1>8, <1>11, <1>12
<1>13. ASSUME ~c_rbnode_is_red(w, p), NEW q \in Owned(o), NEW e2 \in Dir, m[q][e2] = p
       PROVE  Balanced(o, m, w2, q, e2)
  <2>1. ASSUME NEW k \in Owned(o), NEW b \in Dir, m[k][b] = p PROVE k = q /\ b = e2
    <3>1. k = q
      BY <2>1, <1>8, <1>13
    <3>2. m[q][e2] # NULL => m[q][e2] # m[q][Other(e2)]
      BY ChildFacts
    <3> QED
      BY <2>1, <3>1, <3>2, <1>1, <1>13, Sides
  <2> QED
    BY <2>1, <1>11, <1>13
<1> QED
  BY <1>4, <1>10, <1>12, <1>13

\* c_rbtree_move: the root r of the tree from becomes the root of the tree to.
MovedOwners(o, to, from) == [n \in Node |-> IF o[n] = from THEN to ELSE o[n]]
MovedLinks(m, to, from, r) == [m EXCEPT ![to]["root"] = r, ![from]["root"] = NULL]
MovedWords(w, w2, to, r) ==
  /\ w2 \in [Node -> Word]
  /\ \A k \in Node :
       /\ w2[k].raw = IF k = r THEN to ELSE w[k].raw
       /\ c_rbnode_is_root(w2, k) <=> c_rbnode_is_root(w, k)
       /\ c_rbnode_is_red(w2, k) <=> c_rbnode_is_red(w, k)

\* Both trees are consistent afterwards and nothing changes below the root.
LEMMA RootMoved ==
  ASSUME NEW o, NEW m, NEW w, Sound(o, m, w),
         NEW to \in Tree, NEW from \in Tree, NEW r, r # NULL,
         m[to]["root"] = NULL, m[from]["root"] = r,
         NEW o2, o2 = MovedOwners(o, to, from),
         NEW m2, m2 = MovedLinks(m, to, from, r),
         NEW w2, MovedWords(w, w2, to, r)
  PROVE  /\ Sound(o2, m2, w2) /\ Owned(o2) = Owned(o)
         /\ RedsBelowBlacks(o, w, NULL) => RedsBelowBlacks(o2, w2, NULL)
         /\ \A e, e2 : Balanced(o, m, w, NULL, e) => Balanced(o2, m2, w2, NULL, e2)
<1>0. m \in Memory /\ Shaped(m) /\ w \in [Node -> Word] /\ o \in Owners /\ Consistent(o, m, w)
  BY DEF Sound
<1>1. /\ to # from /\ from \in Holder(o) /\ from \notin Node /\ to \notin Node
      /\ to # NULL /\ from # NULL /\ "root" \in Side
  BY DistinctAddresses, Sides DEF Holder
<1>2. /\ r \in Node /\ o[r] = from /\ w[r].raw = from /\ c_rbnode_is_root(w, r)
  BY <1>0, <1>1 DEF Consistent, ChildrenKnowParent, Home, Memory, Pointer, c_rbnode_raw
<1>3. r \in Owned(o)
  BY <1>1, <1>2 DEF Owned
<1>4. \A a \in Node \cup Tree, b \in Side :
        m2[a][b] = IF a = to /\ b = "root" THEN r
                   ELSE IF a = from /\ b = "root" THEN NULL
                   ELSE m[a][b]
  BY <1>0, <1>1 DEF Memory, MovedLinks
<1>5. m2 \in Memory
  BY <1>0, <1>1, <1>2 DEF Memory, Pointer, MovedLinks
<1>6. Shaped(m2)
  BY <1>0, <1>1, <1>4, Sides DEF Shaped
<1>7. /\ o2 \in Owners /\ Owned(o2) = Owned(o) /\ Holder(o2) = Holder(o)
      /\ \A k \in Node : o2[k] = IF o[k] = from THEN to ELSE o[k]
  BY <1>0, <1>1 DEF Owners, Owned, Holder, MovedOwners
<1>7a. \A k \in Node :
         /\ w2[k].raw = IF k = r THEN to ELSE w[k].raw
         /\ c_rbnode_is_root(w2, k) <=> c_rbnode_is_root(w, k)
         /\ c_rbnode_is_red(w2, k) <=> c_rbnode_is_red(w, k)
  BY DEF MovedWords
<1>8. \A a \in Holder(o), b \in Side : m[a][b] # NULL =>
        /\ o[m[a][b]] = Home(o, a) /\ m[a][b] \in Node
        /\ w[m[a][b]].raw = a
        /\ b = "root" <=> c_rbnode_is_root(w, m[a][b])
        /\ b = "root" <=> a \in Tree
        /\ \A f \in Side : m[a][f] = m[a][b] => f = b
  BY <1>0 DEF Consistent, ChildrenKnowParent, c_rbnode_raw, Memory, Pointer, Holder, Owned
<1>9. ChildrenKnowParent(o2, m2, w2)
  <2> SUFFICES ASSUME NEW a \in Holder(o), NEW b \in Side, m2[a][b] # NULL
               PROVE  /\ o2[m2[a][b]] = Home(o2, a)
                      /\ w2[m2[a][b]].raw = a
                      /\ b = "root" <=> c_rbnode_is_root(w2, m2[a][b])
                      /\ b = "root" <=> a \in Tree
                      /\ \A f \in Side : m2[a][f] = m2[a][b] => f = b
    BY <1>7 DEF ChildrenKnowParent, c_rbnode_raw
  <2>0. a \in Node \cup Tree /\ (a \in Node => a \notin Tree)
    BY DistinctAddresses DEF Holder, Owned
  <2>1. CASE a = to
    <3>1. b = "root" /\ m2[a][b] = r
      <4>1. b # "root" => m2[a][b] = NULL
        BY <2>0, <2>1, <1>0, <1>1, <1>4 DEF Shaped, Side, Dir
      <4> QED
        BY <4>1, <2>0, <2>1, <1>4
    <3>2. \A f \in Side : m2[a][f] = r => f = b
      BY <3>1, <2>0, <2>1, <1>0, <1>1, <1>2, <1>4, DistinctAddresses DEF Shaped, Side, Dir
    <3>3. o2[r] = Home(o2, a)
      BY <2>1, <1>2, <1>7 DEF Home
    <3>4. w2[r].raw = a /\ c_rbnode_is_root(w2, r)
      BY <2>1, <1>2, <1>7a
    <3> QED
      BY <3>1, <3>2, <3>3, <3>4, <2>1
  <2>2. CASE a # to
    <3>1. a # from
      BY <2>0, <2>2, <1>0, <1>1, <1>4 DEF Shaped, Side, Dir
    <3>2. \A f \in Side : m2[a][f] = m[a][f]
      BY <2>0, <2>2, <3>1, <1>4
    <3>3. m[a][b] # r /\ m[a][b] # NULL /\ m[a][b] \in Node
      BY <3>1, <3>2, <1>2, <1>8
    <3>4. Home(o2, a) = IF Home(o, a) = from THEN to ELSE Home(o, a)
      BY <2>0, <2>2, <3>1, <1>7 DEF Home
    <3> QED
      BY <3>2, <3>3, <3>4, <1>7, <1>7a, <1>8
  <2> QED
    BY <2>1, <2>2
<1>10. ParentsKnowChild(o2, m2, w2)
  <2> SUFFICES ASSUME NEW k \in Owned(o)
               PROVE  /\ w2[k].raw \in Holder(o) /\ w2[k].raw # k
                      /\ \E b \in Side : m2[w2[k].raw][b] = k
    BY <1>7 DEF ParentsKnowChild, c_rbnode_raw
  <2>1. k \in Node /\ k # NULL
    BY DistinctAddresses DEF Owned
  <2>2. CASE k = r
    BY <2>1, <2>2, <1>1, <1>4, <1>7a DEF Holder
  <2>3. CASE k # r
    <3>1. /\ w[k].raw \in Holder(o) /\ w[k].raw # k /\ \E b \in Side : m[w[k].raw][b] = k
      BY <1>0 DEF Consistent, ParentsKnowChild, c_rbnode_raw
    <3>2. PICK b \in Side : m[w[k].raw][b] = k
      BY <3>1
    <3>3. ~(w[k].raw = to /\ b = "root") /\ ~(w[k].raw = from /\ b = "root")
      BY <2>1, <2>3, <3>2
    <3>4. m2[w[k].raw][b] = k
      BY <3>1, <3>2, <3>3, <1>4 DEF Holder, Owned
    <3> QED
      BY <2>1, <2>3, <3>1, <3>4, <1>7a
  <2> QED
    BY <2>2, <2>3
<1>11. Sound(o2, m2, w2)
  BY <1>5, <1>6, <1>7, <1>9, <1>10 DEF Sound, Consistent, MovedWords
<1>12. ASSUME RedsBelowBlacks(o, w, NULL) PROVE RedsBelowBlacks(o2, w2, NULL)
  <2> SUFFICES ASSUME NEW k \in Owned(o), c_rbnode_is_red(w2, k)
               PROVE  ~c_rbnode_is_root(w2, k) /\ ~c_rbnode_is_red(w2, w2[k].raw)
    BY <1>7 DEF RedsBelowBlacks, c_rbnode_raw, c_rbnode_is_red, c_rbnode_is_black
  <2>1. k \in Node /\ k # NULL
    BY DistinctAddresses DEF Owned
  <2>2. ~c_rbnode_is_root(w, k) /\ ~c_rbnode_is_red(w, w[k].raw)
    BY <2>1, <1>7a, <1>12 DEF RedsBelowBlacks, c_rbnode_raw, c_rbnode_is_red, c_rbnode_is_black
  <2>3. w[k].raw \in Node /\ k # r
    BY <2>2, <1>2, ParentFacts
  <2> QED
    BY <2>1, <2>2, <2>3, <1>7a
<1>13. ASSUME NEW e, NEW e2, Balanced(o, m, w, NULL, e) PROVE Balanced(o2, m2, w2, NULL, e2)
  <2>1. PICK h \in Heights : HeightsAgree(o, m, w, h, NULL, e)
    BY <1>13 DEF Balanced
  <2>2. \A k \in Owned(o), b \in Dir : m2[k][b] = m[k][b] /\ k # NULL /\ Black(w2, k) = Black(w, k)
    BY <1>1, <1>4, <1>7a, Sides, DistinctAddresses DEF Owned, Black, c_rbnode_is_red, c_rbnode_is_black
  <2>3. HeightsAgree(o2, m2, w2, h, NULL, e2)
    BY <2>1, <2>2, <1>7 DEF HeightsAgree
  <2> QED
    BY <2>1, <2>3 DEF Balanced
<1> QED
  BY <1>7, <1>11, <1>12, <1>13

\* c_rbtree_init: the nodes of the tree t are given up.
DroppedOwners(o, t) == [n \in Node |-> IF o[n] = t THEN NULL ELSE o[n]]

\* The other trees stay as they are: no pointer leads from one to another.
LEMMA TreeDropped ==
  ASSUME NEW o, NEW m, NEW w, Sound(o, m, w), NEW t \in Tree,
         NEW o2, o2 = DroppedOwners(o, t),
         NEW m2, m2 = [m EXCEPT ![t] = NoLinks]
  PROVE  /\ Sound(o2, m2, w)
         /\ RedsBelowBlacks(o, w, NULL) => RedsBelowBlacks(o2, w, NULL)
         /\ \A e : Balanced(o, m, w, NULL, e) => Balanced(o2, m2, w, NULL, e)
<1>0. m \in Memory /\ Shaped(m) /\ w \in [Node -> Word] /\ o \in Owners /\ Consistent(o, m, w)
  BY DEF Sound
<1>1. \A k \in Node : o2[k] = IF o[k] = t THEN NULL ELSE o[k]
  BY DEF DroppedOwners
<1>2. /\ o2 \in Owners /\ Owned(o2) \subseteq Owned(o)
      /\ Owned(o2) = {k \in Owned(o) : o[k] # t}
  BY <1>0, <1>1, DistinctAddresses DEF Owners, Owned, DroppedOwners
<1>3. /\ \A s \in Side : m2[t][s] = NULL
      /\ \A a \in Node \cup Tree : a # t => m2[a] = m[a]
  BY <1>0 DEF Memory, NoLinks
<1>4. m2 \in Memory /\ Shaped(m2)
  <2>1. NoLinks \in [Side -> Pointer]
    BY DEF NoLinks, Pointer
  <2>2. m2 \in Memory
    BY <2>1, <1>0 DEF Memory
  <2>3. Shaped(m2)
    BY <1>0, <1>3, Sides DEF Shaped
  <2> QED
    BY <2>2, <2>3
<1>5. \A a \in Holder(o2) : a \in Holder(o) /\ a \in Node \cup Tree /\ (a # t => m2[a] = m[a])
  BY <1>2, <1>3 DEF Holder, Owned
<1>6. ChildrenKnowParent(o2, m2, w)
  <2> SUFFICES ASSUME NEW a \in Holder(o2), NEW s \in Side, m2[a][s] # NULL
               PROVE  /\ o2[m2[a][s]] = Home(o2, a)
                      /\ c_rbnode_raw(w, m2[a][s]) = a
                      /\ s = "root" <=> c_rbnode_is_root(w, m2[a][s])
                      /\ s = "root" <=> a \in Tree
                      /\ \A f \in Side : m2[a][f] = m2[a][s] => f = s
    BY DEF ChildrenKnowParent
  <2>1. a # t /\ a \in Holder(o) /\ m2[a] = m[a]
    BY <1>3, <1>5
  <2>2. /\ o[m[a][s]] = Home(o, a) /\ c_rbnode_raw(w, m[a][s]) = a
        /\ s = "root" <=> c_rbnode_is_root(w, m[a][s])
        /\ s = "root" <=> a \in Tree
        /\ \A f \in Side : m[a][f] = m[a][s] => f = s
    BY <2>1, <1>0 DEF Consistent, ChildrenKnowParent
  <2>3. m[a][s] \in Node
    BY <2>1, <1>0, <1>5 DEF Memory, Pointer
  <2>4. Home(o, a) # t /\ Home(o2, a) = Home(o, a)
    BY <2>1, <1>1, <1>2 DEF Home, Holder, Owned
  <2> QED
    BY <2>1, <2>2, <2>3, <2>4, <1>1
<1>7. ParentsKnowChild(o2, m2, w)
  <2> SUFFICES ASSUME NEW k \in Owned(o2)
               PROVE  /\ c_rbnode_raw(w, k) \in Holder(o2) /\ c_rbnode_raw(w, k) # k
                      /\ \E s \in Side : m2[c_rbnode_raw(w, k)][s] = k
    BY DEF ParentsKnowChild
  <2> DEFINE p == c_rbnode_raw(w, k)
  <2>1. k \in Node /\ k # NULL /\ k \in Owned(o) /\ o[k] # t /\ o[k] # NULL
    BY <1>2, DistinctAddresses DEF Owned
  <2>2. p \in Holder(o) /\ p # k
    BY <2>1, <1>0 DEF Consistent, ParentsKnowChild
  <2>3. PICK s \in Side : m[p][s] = k
    BY <2>1, <1>0 DEF Consistent, ParentsKnowChild
  <2>4. Home(o, p) = o[k]
    BY <2>1, <2>2, <2>3, <1>0 DEF Consistent, ChildrenKnowParent
  <2>5. p # t /\ p \in Holder(o2)
    BY <2>1, <2>2, <2>4, <1>2 DEF Home, Holder, Owned
  <2>6. m2[p][s] = k
    BY <2>3, <2>5, <1>5
  <2> QED
    BY <2>2, <2>5, <2>6
<1>8. Sound(o2, m2, w)
  BY <1>0, <1>2, <1>4, <1>6, <1>7 DEF Sound, Consistent
<1>9. RedsBelowBlacks(o, w, NULL) => RedsBelowBlacks(o2, w, NULL)
  BY <1>2 DEF RedsBelowBlacks
<1>10. ASSUME NEW e, Balanced(o, m, w, NULL, e) PROVE Balanced(o2, m2, w, NULL, e)
  <2>1. PICK h \in Heights : HeightsAgree(o, m, w, h, NULL, e)
    BY <1>10 DEF Balanced
  <2>2. \A k \in Owned(o2) : k \in Owned(o) /\ m2[k] = m[k]
    BY <1>2, <1>3, DistinctAddresses DEF Owned
  <2>3. HeightsAgree(o2, m2, w, h, NULL, e)
    BY <2>1, <2>2 DEF HeightsAgree
  <2> QED
    BY <2>1, <2>3 DEF Balanced
<1> QED
  BY <1>8, <1>9, <1>10

-----------------------------------------------------------------------------
(***************************************************************************)
(* Case 1.3 of c_rbnode_unlink_stale: a node with two children is replaced *)
(* by its successor.                                                       *)
(***************************************************************************)

\* The fields before the parent of n is told of s. p is the parent the right
\* child of s ends up with, on side e: s itself if s is the child of n.
SplicedLinks(m, n, s, p) ==
  LET m1 == IF p = s
            THEN m
            ELSE [m EXCEPT ![p]["left"] = m[s]["right"], ![s]["right"] = m[n]["right"]]
  IN  [m1 EXCEPT ![s]["left"] = m[n]["left"]]

SplicedWords(m, w, w2, n, s, p) ==
  /\ w2 \in [Node -> Word]
  /\ \A k \in Node : k # n =>
       /\ w2[k].raw = IF k = s THEN w[n].raw
                      ELSE IF k = m[n]["left"] \/ k = m[n]["right"] THEN s
                      ELSE IF k = m[s]["right"] THEN p
                      ELSE w[k].raw
       /\ c_rbnode_is_root(w2, k) <=> IF k = s THEN c_rbnode_is_root(w, n)
                                               ELSE c_rbnode_is_root(w, k)
       /\ c_rbnode_is_red(w2, k) <=> IF k = s THEN c_rbnode_is_red(w, n)
                                     ELSE k # m[s]["right"] /\ c_rbnode_is_red(w, k)

\* s is the successor of n: its right child, or a left child without a left
\* child; the parent of n is not part of what is moved.
Spliceable(o, m, w, n, s, p, e) ==
  /\ n \in Owned(o) /\ s \in Owned(o) /\ s # n /\ o[s] = o[n]
  /\ m[n]["left"] # NULL /\ m[n]["right"] # NULL /\ s # m[n]["left"]
  /\ m[s]["left"] = NULL
  /\ w[n].raw # s /\ w[n].raw # p
  /\ p = s => s = m[n]["right"] /\ e = "right"
  /\ p # s => /\ s # m[n]["right"] /\ p = w[s].raw /\ p \in Owned(o)
              /\ p # n /\ m[p]["left"] = s /\ e = "left"

\* The successor s takes the place and the color of n. The heights agree unless
\* s was a black leaf: then p lacks a black node on side e, where s was.
LEMMA SuccessorSpliced ==
  ASSUME NEW o, NEW m, NEW w, Sound(o, m, w), NEW e0,
         Balanced(o, m, w, NULL, e0), RedsBelowBlacks(o, w, NULL),
         NEW n, NEW s, NEW p, NEW e, Spliceable(o, m, w, n, s, p, e),
         NEW o2, o2 = Disowned(o, n),
         NEW m2, m2 = PutInPlace(SplicedLinks(m, n, s, p), w, n, s),
         NEW w2, SplicedWords(m, w, w2, n, s, p)
  PROVE  /\ Sound(o2, m2, w2)
         /\ RedsBelowBlacks(o2, w2, NULL)
         /\ (m[s]["right"] # NULL \/ c_rbnode_is_red(w, s)) =>
              \A e2 : Balanced(o2, m2, w2, NULL, e2)
         /\ (m[s]["right"] = NULL /\ ~c_rbnode_is_red(w, s)) =>
              /\ p \in Owned(o2) /\ e \in Dir
              /\ m2[p][e] = NULL /\ m2[p][Other(e)] # NULL
              /\ Balanced(o2, m2, w2, p, e)
<1> DEFINE g == w[n].raw
           l == m[n]["left"]
           r == m[n]["right"]
           c == m[s]["right"]
<1>0. m \in Memory /\ Shaped(m) /\ w \in [Node -> Word] /\ o \in Owners /\ Consistent(o, m, w)
  BY DEF Sound
<1>1. /\ n \in Node /\ s \in Node /\ n # NULL /\ s # NULL /\ s # n
      /\ n \in Owned(o) /\ s \in Owned(o) /\ o[s] = o[n]
      /\ l # NULL /\ r # NULL /\ s # l /\ m[s]["left"] = NULL /\ g # s /\ g # p
      /\ p = s => s = r /\ e = "right"
      /\ p # s => s # r /\ p = w[s].raw /\ p # n /\ m[p]["left"] = s /\ e = "left"
      /\ p \in Owned(o) /\ p \in Node /\ p # NULL /\ p # n /\ e \in Dir
  BY DistinctAddresses DEF Spliceable, Owned, Dir
<1>2. /\ "left" \in Dir /\ "right" \in Dir /\ "left" \in Side /\ "right" \in Side /\ "root" \in Side
      /\ Other("left") = "right" /\ Other("right") = "left"
      /\ \A b \in Side : b \in {"left", "right", "root"}
      /\ \A b \in Dir : b \in {"left", "right"}
  BY DEF Dir, Side, Other
<1>3. \A a \in Holder(o), b \in Side : m[a][b] # NULL =>
          /\ m[a][b] \in Node /\ m[a][b] \in Owned(o)
          /\ o[m[a][b]] = Home(o, a)
          /\ w[m[a][b]].raw = a
          /\ b = "root" <=> c_rbnode_is_root(w, m[a][b])
          /\ b = "root" <=> a \in Tree
          /\ \A f \in Side : m[a][f] = m[a][b] => f = b
  <2>1. \A a \in Holder(o), b \in Side : m[a][b] # NULL => o[m[a][b]] = Home(o, a) /\ Home(o, a) # NULL
    BY <1>0, DistinctAddresses DEF Consistent, ChildrenKnowParent, Home, Holder, Owned
  <2> QED
    BY <1>0, <2>1 DEF Consistent, ChildrenKnowParent, c_rbnode_raw, Memory, Pointer, Holder, Owned
<1>4. /\ l \in Owned(o) /\ w[l].raw = n /\ l # n /\ o[l] = o[n] /\ ~c_rbnode_is_root(w, l) /\ l # r /\ l \in Node
      /\ r \in Owned(o) /\ w[r].raw = n /\ r # n /\ o[r] = o[n] /\ ~c_rbnode_is_root(w, r) /\ r \in Node
  BY <1>1, <1>2, ChildFacts
<1>5. /\ c # NULL => /\ c \in Owned(o) /\ w[c].raw = s /\ c # s /\ o[c] = o[n]
                     /\ ~c_rbnode_is_root(w, c) /\ c \in Node
      /\ c \in Pointer
  BY <1>0, <1>1, <1>2, ChildFacts DEF Memory
<1>6. ~c_rbnode_is_root(w, s) /\ w[s].raw = IF p = s THEN n ELSE p
  <2>1. CASE p = s
    BY <2>1, <1>1, <1>4
  <2>2. CASE p # s
    BY <2>2, <1>1, <1>2, ChildFacts
  <2> QED
    BY <2>1, <2>2
<1>7. c # n /\ c # l /\ c # r /\ c # s
  BY <1>1, <1>4, <1>5
<1>8. PICK h \in Heights : HeightsAgree(o, m, w, h, NULL, e0)
  BY DEF Balanced
<1>9. /\ \A k \in Owned(o), b \in Dir :
           /\ h[k] \in Nat /\ HeightOf(h, m[k][b]) \in Nat
           /\ h[k] = HeightOf(h, m[k][b]) + (IF c_rbnode_is_red(w, k) THEN 0 ELSE 1)
      /\ HeightOf(h, NULL) = 0
  BY <1>8, HeightBelow, DistinctAddresses DEF Owned, HeightOf
<1>10. h[s] = (IF c_rbnode_is_red(w, s) THEN 0 ELSE 1) /\ HeightOf(h, c) = 0
  BY <1>1, <1>2, <1>9
<1>11. c # NULL => h[c] = 0 /\ c_rbnode_is_red(w, c) /\ ~c_rbnode_is_red(w, s) /\ h[s] = 1
  <2> SUFFICES ASSUME c # NULL
               PROVE  h[c] = 0 /\ c_rbnode_is_red(w, c) /\ ~c_rbnode_is_red(w, s)
    BY <1>10
  <2>1. h[c] = 0
    BY <1>10 DEF HeightOf
  <2>2. c_rbnode_is_red(w, c)
    BY <2>1, <1>2, <1>5, <1>9
  <2> QED
    BY <2>1, <2>2, <1>5 DEF RedsBelowBlacks, c_rbnode_is_red, c_rbnode_is_black, c_rbnode_raw
<1>12. c # p
  <2>1. ASSUME c = p PROVE FALSE
    <3>1. p # s /\ m[p]["left"] = s /\ c # NULL
      BY <2>1, <1>1, <1>7
    <3>2. h[p] = HeightOf(h, s) + (IF c_rbnode_is_red(w, p) THEN 0 ELSE 1)
      BY <3>1, <1>1, <1>2, <1>9
    <3> QED
      BY <2>1, <3>1, <3>2, <1>1, <1>11 DEF HeightOf
  <2> QED
    BY <2>1
<1>13. g # n /\ g \in Node \cup Tree /\ g \in Holder(o)
  BY <1>1, ParentFacts DEF Holder
<1> DEFINE m1 == SplicedLinks(m, n, s, p)
<1>14. /\ m1 \in Memory
       /\ \A a \in Node \cup Tree, b \in Side :
            m1[a][b] = IF a = p /\ b = e THEN c
                       ELSE IF a = s /\ b = "left" THEN l
                       ELSE IF a = s /\ b = "right" THEN r
                       ELSE m[a][b]
  <2>1. l \in Pointer /\ r \in Pointer /\ c \in Pointer
    BY <1>4, <1>5 DEF Pointer
  <2> HIDE DEF l, r, c
  <2>2. CASE p = s
    <3>1. m1 = [m EXCEPT ![s]["left"] = l]
      BY <2>2 DEF SplicedLinks, l
    <3>2. m[s]["right"] = c
      BY DEF c
    <3> HIDE DEF m1
    <3> QED
      BY <2>1, <2>2, <3>1, <3>2, <1>0, <1>1, <1>2 DEF Memory
  <2>3. CASE p # s
    <3>1. m1 = [[m EXCEPT ![p]["left"] = c, ![s]["right"] = r] EXCEPT ![s]["left"] = l]
      BY <2>3 DEF SplicedLinks, l, c, r
    <3> DEFINE m0 == [m EXCEPT ![p]["left"] = c, ![s]["right"] = r]
    <3>2. /\ m0 \in Memory
          /\ \A a \in Node \cup Tree, b \in Side :
               m0[a][b] = IF a = p /\ b = "left" THEN c
                          ELSE IF a = s /\ b = "right" THEN r
                          ELSE m[a][b]
      BY <2>1, <2>3, <1>0, <1>1, <1>2 DEF Memory
    <3>3. m1 = [m0 EXCEPT ![s]["left"] = l]
      BY <3>1
    <3> HIDE DEF m1, m0
    <3>4. m1 \in Memory
      BY <2>1, <3>2, <3>3, <1>1, <1>2 DEF Memory
    <3>5. \A a \in Node \cup Tree, b \in Side :
            m1[a][b] = IF a = s /\ b = "left" THEN l ELSE m0[a][b]
      BY <2>1, <3>2, <3>3, <1>1, <1>2 DEF Memory
    <3> QED
      BY <2>3, <3>2, <3>4, <3>5, <1>1, <1>2
  <2> QED
    BY <2>2, <2>3
<1> HIDE DEF m1
<1>15. m1[g] = m[g]
  <2>1. \A b \in Side : m1[g][b] = m[g][b]
    BY <1>1, <1>13, <1>14
  <2>2. m1[g] \in [Side -> Pointer] /\ m[g] \in [Side -> Pointer]
    BY <1>0, <1>13, <1>14 DEF Memory
  <2> QED
    BY <2>1, <2>2
<1>16. PICK t \in Side : /\ m[g][t] = n
                         /\ t = "root" <=> g \in Tree
                         /\ m2 = Put(m1, g, t, s)
  <2>1. m2 = PutInPlace(m1, w, n, s)
    BY DEF m1
  <2> QED
    BY <2>1, <1>0, <1>1, <1>14, <1>15, PutInPlaceAt
<1> HIDE DEF g, l, r, c
<1>17. /\ m2 \in Memory
       /\ \A a \in Node \cup Tree, b \in Side :
            m2[a][b] = IF a = g /\ b = t THEN s
                       ELSE IF a = p /\ b = e THEN c
                       ELSE IF a = s /\ b = "left" THEN l
                       ELSE IF a = s /\ b = "right" THEN r
                       ELSE m[a][b]
  <2>1. m2 \in Memory
    BY <1>1, <1>13, <1>14, <1>16 DEF Memory, Put, Pointer
  <2>2. \A a \in Node \cup Tree, b \in Side : m2[a][b] = IF a = g /\ b = t THEN s ELSE m1[a][b]
    BY <1>1, <1>13, <1>14, <1>16 DEF Memory, Put
  <2> QED
    BY <2>1, <2>2, <1>14
<1>18. w2 \in [Node -> Word] /\ \A k \in Node : k # n =>
       /\ w2[k].raw = IF k = s THEN g ELSE IF k = l \/ k = r THEN s ELSE IF k = c THEN p
                      ELSE w[k].raw
       /\ c_rbnode_is_root(w2, k) <=> IF k = s THEN c_rbnode_is_root(w, n)
                                               ELSE c_rbnode_is_root(w, k)
       /\ c_rbnode_is_red(w2, k) <=> IF k = s THEN c_rbnode_is_red(w, n)
                                     ELSE k # c /\ c_rbnode_is_red(w, k)
  BY DEF SplicedWords, g, l, r, c
<1>19. /\ m[n]["left"] = l /\ m[n]["right"] = r /\ m[s]["right"] = c /\ w[n].raw = g
  BY DEF g, l, r, c
<1>20. /\ o2 \in Owners /\ \A k \in Node : k # n => o2[k] = o[k]
       /\ Owned(o2) = Owned(o) \ {n} /\ n \notin Tree
       /\ \A a \in Node \cup Tree : a # n => Home(o2, a) = Home(o, a)
  BY <1>0, <1>1, DistinctAddresses DEF Owners, Owned, Home, Disowned
<1>21. Holder(o2) = Holder(o) \ {n} /\ Holder(o) \subseteq Node \cup Tree
  BY <1>20 DEF Holder, Owned
<1>22. Shaped(m2)
  <2>1. ASSUME NEW k \in Node PROVE m2[k]["root"] = NULL
    BY <1>0, <1>1, <1>2, <1>16, <1>17, DistinctAddresses DEF Shaped
  <2>2. ASSUME NEW k \in Tree, NEW b \in Dir PROVE m2[k][b] = NULL
    BY <1>0, <1>1, <1>2, <1>16, <1>17, DistinctAddresses DEF Shaped
  <2> QED
    BY <2>1, <2>2 DEF Shaped
<1>23. t = "root" <=> c_rbnode_is_root(w, n)
  BY <1>1, <1>3, <1>13, <1>16
\* The fields that did not hold n, s or one of their children.
<1>24. ASSUME NEW a \in Holder(o), a # n, NEW b \in Side, m[a][b] # NULL,
              ~(a = g /\ b = t), ~(a = p /\ b = e), a # s \/ b = "root"
       PROVE  m[a][b] \notin {n, s, l, r, c}
  <2>1. m[a][b] # n
    BY <1>1, <1>3, <1>13, <1>16, <1>19, <1>24
  <2>2. m[a][b] # l /\ m[a][b] # r
    BY <1>1, <1>3, <1>4, <1>24
  <2>3. w[s].raw = a => ~(m[a][b] = s)
    <3>1. CASE p = s
      BY <3>1, <1>6, <1>24
    <3>2. CASE p # s
      BY <3>2, <1>1, <1>2, <1>3, <1>6, <1>24
    <3> QED
      BY <3>1, <3>2
  <2>4. m[a][b] # s
    BY <2>3, <1>3, <1>24
  <2>5. m[a][b] # c
    <3>1. ASSUME m[a][b] = c PROVE FALSE
      <4>1. a = s /\ c # NULL
        BY <3>1, <1>3, <1>5, <1>24
      <4>2. b = "right"
        BY <4>1, <3>1, <1>1, <1>2, <1>3, <1>19, <1>24
      <4> QED
        BY <4>1, <4>2, <1>24
    <3> QED
      BY <3>1
  <2> QED
    BY <2>1, <2>2, <2>4, <2>5
<1>25. ChildrenKnowParent(o2, m2, w2)
  <2> SUFFICES ASSUME NEW a \in Holder(o), a # n, NEW b \in Side, m2[a][b] # NULL
               PROVE  /\ o2[m2[a][b]] = Home(o2, a)
                      /\ w2[m2[a][b]].raw = a
                      /\ b = "root" <=> c_rbnode_is_root(w2, m2[a][b])
                      /\ b = "root" <=> a \in Tree
                      /\ \A f \in Side : m2[a][f] = m2[a][b] => f = b
    BY <1>21 DEF ChildrenKnowParent, c_rbnode_raw
  <2>0. a \in Node \cup Tree /\ Home(o2, a) = Home(o, a) /\ (a \in Tree => a \notin Node)
    BY <1>20, <1>21, DistinctAddresses
  <2>1. CASE a = g /\ b = t
    <3>1. m2[a][b] = s
      BY <2>0, <2>1, <1>17
    <3>2. o2[s] = Home(o2, a)
      <4>1. o[n] = Home(o, g)
        BY <1>1, <1>3, <1>13, <1>16
      <4> QED
        BY <4>1, <2>0, <2>1, <1>1, <1>20
    <3>3. t = "root" <=> c_rbnode_is_root(w2, s)
      BY <1>1, <1>18, <1>23
    <3>4. \A f \in Side : m2[g][f] = s => f = t
      <4>1. \A f \in Side : f # t => m2[g][f] = m[g][f]
        BY <1>1, <1>13, <1>17
      <4>2. \A f \in Side : m[g][f] # s
        BY <1>1, <1>3, <1>6, <1>13
      <4> QED
        BY <4>1, <4>2
    <3> QED
      BY <2>1, <3>1, <3>2, <3>3, <3>4, <1>1, <1>16, <1>18
  <2>2. CASE a = p /\ b = e
    <3>1. m2[a][b] = c /\ c # NULL /\ a # g
      BY <2>0, <2>2, <1>1, <1>17
    <3>2. o2[c] = Home(o2, a)
      <4>1. o[p] = o[n]
        BY <1>1, <1>2, <1>3, <1>20, DistinctAddresses DEF Home, Holder
      <4> QED
        BY <4>1, <2>0, <2>2, <3>1, <1>1, <1>5, <1>7, <1>20, DistinctAddresses DEF Home
    <3>3. ~c_rbnode_is_root(w2, c) /\ w2[c].raw = p
      BY <3>1, <1>5, <1>7, <1>18
    <3>4. \A f \in Side : m2[p][f] = c => f = e
      <4>1. CASE p = s
        BY <4>1, <3>1, <2>2, <1>0, <1>1, <1>2, <1>7, <1>17 DEF Shaped
      <4>2. CASE p # s
        <5>1. \A f \in Side : f # e => m2[p][f] = m[p][f]
          BY <4>2, <3>1, <2>2, <1>1, <1>17
        <5>2. \A f \in Side : m[p][f] # c
          BY <4>2, <3>1, <1>1, <1>3, <1>5 DEF Holder
        <5> QED
          BY <5>1, <5>2
      <4> QED
        BY <4>1, <4>2
    <3> QED
      BY <2>0, <2>2, <3>1, <3>2, <3>3, <3>4, <1>1, <1>2, Sides
  <2>3. CASE a = s /\ b = "left" /\ ~(a = p /\ b = e)
    <3>1. m2[a][b] = l
      BY <2>0, <2>3, <1>1, <1>17
    <3>2. o2[l] = Home(o2, a) /\ ~c_rbnode_is_root(w2, l) /\ w2[l].raw = s
      BY <2>0, <2>3, <1>1, <1>4, <1>18, <1>20, DistinctAddresses DEF Home
    <3>3. \A f \in Side : m2[s][f] = l => f = "left"
      <4>1. m2[s]["right"] = c \/ m2[s]["right"] = r
        BY <1>1, <1>2, <1>17
      <4>2. m2[s]["root"] = NULL
        BY <1>1, <1>22 DEF Shaped
      <4> QED
        BY <4>1, <4>2, <1>2, <1>4, <1>7, DistinctAddresses
    <3> QED
      BY <2>0, <2>3, <3>1, <3>2, <3>3, <1>1
  <2>4. CASE a = s /\ b = "right" /\ ~(a = p /\ b = e)
    <3>1. m2[a][b] = r /\ r # s
      BY <2>0, <2>4, <1>1, <1>2, <1>17, <1>19
    <3>2. o2[r] = Home(o2, a) /\ ~c_rbnode_is_root(w2, r) /\ w2[r].raw = s
      BY <2>0, <2>4, <3>1, <1>1, <1>4, <1>18, <1>20, DistinctAddresses DEF Home
    <3>3. \A f \in Side : m2[s][f] = r => f = "right"
      <4>1. m2[s]["left"] = l
        BY <2>4, <1>1, <1>2, <1>17
      <4>2. m2[s]["root"] = NULL
        BY <1>1, <1>22 DEF Shaped
      <4> QED
        BY <4>1, <4>2, <1>2, <1>4, <1>7, DistinctAddresses
    <3> QED
      BY <2>0, <2>4, <3>1, <3>2, <3>3, <1>1
  <2>5. CASE ~(a = g /\ b = t) /\ ~(a = p /\ b = e) /\ (a # s \/ b = "root")
    <3>1. m2[a][b] = m[a][b] /\ m[a][b] # NULL
      BY <2>0, <2>5, <1>1, <1>2, <1>17
    <3>2. m[a][b] \notin {n, s, l, r, c}
      BY <2>5, <3>1, <1>24
    <3>3. /\ m[a][b] \in Node /\ o[m[a][b]] = Home(o, a) /\ w[m[a][b]].raw = a
          /\ b = "root" <=> c_rbnode_is_root(w, m[a][b])
          /\ b = "root" <=> a \in Tree
          /\ \A f \in Side : m[a][f] = m[a][b] => f = b
      BY <3>1, <1>3
    <3>4. \A f \in Side : m2[a][f] = m[a][b] => m[a][f] = m[a][b]
      BY <2>0, <3>2, <1>17
    <3>5. /\ o2[m[a][b]] = o[m[a][b]] /\ w2[m[a][b]].raw = a
          /\ c_rbnode_is_root(w2, m[a][b]) <=> c_rbnode_is_root(w, m[a][b])
      BY <3>2, <3>3, <1>18, <1>20
    <3> QED
      BY <2>0, <3>1, <3>3, <3>4, <3>5
  <2> QED
    BY <2>1, <2>2, <2>3, <2>4, <2>5, <1>2
<1>26. \A k \in Owned(o) : k \notin {n, l, r} => w[k].raw # n
  BY <1>1, <1>2, <1>19, OnlyChildren
<1>27. \A k \in Owned(o) : k # c => w[k].raw # s
  <2>1. \A k \in Owned(o) : k # NULL
    BY DistinctAddresses DEF Owned
  <2> QED
    BY <2>1, <1>1, <1>2, <1>19, OnlyChildren
<1>28. ParentsKnowChild(o2, m2, w2)
  <2> SUFFICES ASSUME NEW k \in Owned(o), k # n
               PROVE  /\ w2[k].raw \in Holder(o) /\ w2[k].raw # n /\ w2[k].raw # k
                      /\ \E b \in Side : m2[w2[k].raw][b] = k
    BY <1>20, <1>21 DEF ParentsKnowChild, c_rbnode_raw
  <2>1. k \in Node /\ k # NULL /\ s \in Holder(o) /\ p \in Holder(o)
    BY <1>1, DistinctAddresses DEF Owned, Holder
  <2>2. CASE k = s
    BY <2>1, <2>2, <1>1, <1>13, <1>16, <1>17, <1>18
  <2>3. CASE k = l
    <3>1. m2[s]["left"] = l /\ w2[l].raw = s
      BY <2>1, <2>3, <1>1, <1>2, <1>4, <1>17, <1>18
    <3> QED
      BY <2>1, <2>3, <3>1, <1>1, <1>2
  <2>4. CASE k = r /\ r # s
    <3>1. m2[s]["right"] = r /\ w2[r].raw = s
      BY <2>1, <2>4, <1>1, <1>2, <1>4, <1>17, <1>18, <1>19
    <3> QED
      BY <2>1, <2>4, <3>1, <1>1, <1>2
  <2>5. CASE k = c
    <3>1. m2[p][e] = c /\ w2[c].raw = p
      BY <2>1, <2>5, <1>1, <1>2, <1>7, <1>17, <1>18
    <3> QED
      BY <2>1, <2>5, <3>1, <1>1, <1>2, <1>12, Sides
  <2>6. CASE k \notin {s, l, r, c}
    <3>1. /\ w[k].raw \in Holder(o) /\ w[k].raw # k /\ \E b \in Side : m[w[k].raw][b] = k
      BY <1>0 DEF Consistent, ParentsKnowChild, c_rbnode_raw
    <3>2. PICK b \in Side : m[w[k].raw][b] = k
      BY <3>1
    <3>3. w2[k].raw = w[k].raw /\ w[k].raw # n /\ w[k].raw # s
      BY <2>1, <2>6, <1>18, <1>26, <1>27
    <3>4. ~(w[k].raw = g /\ b = t) /\ ~(w[k].raw = p /\ b = e)
      BY <2>6, <3>2, <3>3, <1>1, <1>16
    <3>5. m2[w[k].raw][b] = k
      BY <3>1, <3>2, <3>3, <3>4, <1>17, <1>21
    <3> QED
      BY <3>1, <3>3, <3>5
  <2> QED
    BY <2>2, <2>3, <2>4, <2>5, <2>6
<1>29. Sound(o2, m2, w2)
  BY <1>17, <1>18, <1>20, <1>22, <1>25, <1>28 DEF Sound, Consistent
<1>30. RedsBelowBlacks(o2, w2, NULL)
  <2> SUFFICES ASSUME NEW k \in Owned(o), k # n, c_rbnode_is_red(w2, k)
               PROVE  ~c_rbnode_is_root(w2, k) /\ ~c_rbnode_is_red(w2, w2[k].raw)
    BY <1>20 DEF RedsBelowBlacks, c_rbnode_raw, c_rbnode_is_red, c_rbnode_is_black
  <2>1. k \in Node /\ k # NULL
    BY DistinctAddresses DEF Owned
  <2>2. \A j \in Owned(o) : c_rbnode_is_red(w, j) =>
           /\ ~c_rbnode_is_root(w, j) /\ ~c_rbnode_is_red(w, w[j].raw) /\ w[j].raw \in Node
    BY ParentFacts, DistinctAddresses
       DEF RedsBelowBlacks, Owned, c_rbnode_is_red, c_rbnode_is_black, c_rbnode_raw
  <2>3. CASE k = s
    BY <2>1, <2>2, <2>3, <1>1, <1>13, <1>18, <1>19
  <2>4. CASE (k = l \/ k = r) /\ k # s
    BY <2>1, <2>2, <2>4, <1>1, <1>4, <1>7, <1>18
  <2>5. CASE k \notin {s, l, r}
    <3>1. k # c /\ c_rbnode_is_red(w, k)
      BY <2>1, <2>5, <1>18
    <3>2. w2[k].raw = w[k].raw /\ w[k].raw # n /\ w[k].raw # s
      BY <2>1, <2>5, <3>1, <1>18, <1>26, <1>27
    <3> QED
      BY <2>1, <2>2, <2>5, <3>1, <3>2, <1>18
  <2> QED
    BY <2>3, <2>4, <2>5
<1> DEFINE h2 == [h EXCEPT ![s] = h[n], ![c] = 1]
<1>31. /\ h2 \in Heights /\ h2[s] = h[n]
       /\ \A k \in Pointer : k # s /\ k # c => HeightOf(h2, k) = HeightOf(h, k)
       /\ \A k \in Node : k # s /\ k # c => h2[k] = h[k]
       /\ c # NULL => h2[c] = 1
  BY <1>1, <1>5, <1>7, <1>9 DEF Heights, HeightOf, Pointer
<1> HIDE DEF h2
<1>32. ASSUME NEW k \in Owned(o), k # n, NEW b \in Dir
       PROVE  k # NULL /\ HeightOf(h2, m2[k][b]) \in Nat /\ Black(w2, k) \in Nat
  <2>1. m2[k][b] \in Pointer
    BY <1>17, Sides DEF Memory, Owned
  <2> QED
    BY <2>1, <1>31, HeightOfIsNat, DistinctAddresses DEF Black, Owned
\* The equations away from the field that held s, or that now holds its child.
<1>33. ASSUME NEW k \in Owned(o), k # n, NEW b \in Dir, ~(k = p /\ b = e)
       PROVE  h2[k] = HeightOf(h2, m2[k][b]) + Black(w2, k)
  <2>1. k \in Node /\ k # NULL /\ b \in Side /\ k \in Holder(o) /\ b # "root"
    BY Sides, DistinctAddresses DEF Owned, Holder
  <2>2. k # s /\ k # c => Black(w2, k) = IF c_rbnode_is_red(w, k) THEN 0 ELSE 1
    BY <2>1, <1>18, <1>33 DEF Black, c_rbnode_is_red, c_rbnode_is_black
  <2>3. Black(w2, s) = IF c_rbnode_is_red(w, n) THEN 0 ELSE 1
    BY <1>1, <1>18 DEF Black, c_rbnode_is_red, c_rbnode_is_black
  <2>4. HeightOf(h, n) = h[n]
    BY <1>1 DEF HeightOf
  <2>5. CASE k = g /\ b = t
    <3>1. m2[k][b] = s /\ k # s /\ m[k][b] = n
      BY <2>1, <2>5, <1>1, <1>16, <1>17
    <3>2. HeightOf(h2, s) = h[n]
      BY <1>1, <1>31 DEF HeightOf
    <3>3. h[k] = h[n] + (IF c_rbnode_is_red(w, k) THEN 0 ELSE 1)
      BY <2>4, <3>1, <1>9
    <3>4. k # c
      <4>1. ASSUME k = c PROVE FALSE
        <5>1. c # NULL /\ h[c] = 0 /\ c_rbnode_is_red(w, c)
          BY <2>1, <4>1, <1>11
        <5>2. h[n] = HeightOf(h, l) + (IF c_rbnode_is_red(w, n) THEN 0 ELSE 1)
              /\ h[n] = HeightOf(h, r) + (IF c_rbnode_is_red(w, n) THEN 0 ELSE 1)
              /\ HeightOf(h, l) \in Nat /\ HeightOf(h, r) \in Nat
          BY <1>1, <1>2, <1>9, <1>19
        <5>3. c_rbnode_is_red(w, n)
          BY <4>1, <5>1, <5>2, <3>3
        <5>4. ~c_rbnode_is_root(w, n) /\ ~c_rbnode_is_red(w, g)
          BY <5>3, <1>1, <1>19 DEF RedsBelowBlacks, c_rbnode_is_red, c_rbnode_is_black, c_rbnode_raw
        <5> QED
          BY <2>5, <4>1, <5>1, <5>4
      <4> QED
        BY <4>1
    <3> QED
      BY <2>1, <2>2, <3>1, <3>2, <3>3, <3>4, <1>31
  <2>6. CASE k = s
    <3>1. m2[k][b] = l \/ (m2[k][b] = r /\ r # s)
      BY <2>1, <2>6, <1>1, <1>2, <1>17, <1>19, <1>33
    <3>2. HeightOf(h2, l) = HeightOf(h, l) /\ (r # s => HeightOf(h2, r) = HeightOf(h, r))
      BY <1>1, <1>4, <1>7, <1>31 DEF Pointer
    <3>3. /\ h[n] = HeightOf(h, l) + (IF c_rbnode_is_red(w, n) THEN 0 ELSE 1)
          /\ h[n] = HeightOf(h, r) + (IF c_rbnode_is_red(w, n) THEN 0 ELSE 1)
      BY <1>1, <1>2, <1>9, <1>19
    <3> QED
      BY <2>3, <2>6, <3>1, <3>2, <3>3, <1>31
  <2>7. CASE k # s /\ ~(k = g /\ b = t)
    <3>1. m2[k][b] = m[k][b] /\ m[k][b] \in Pointer
      BY <2>1, <2>7, <1>0, <1>17, <1>33 DEF Memory
    <3>2. m[k][b] # NULL => m[k][b] # s /\ m[k][b] # c
      BY <2>1, <2>7, <1>24, <1>33
    <3>3. HeightOf(h2, m[k][b]) = HeightOf(h, m[k][b])
      BY <3>1, <3>2, <1>31 DEF HeightOf
    <3>4. CASE k = c
      <4>1. Black(w2, k) = 1
        BY <2>1, <2>7, <3>4, <1>7, <1>18, <1>33 DEF Black, c_rbnode_is_red, c_rbnode_is_black
      <4>2. HeightOf(h, m[k][b]) = 0 /\ h2[k] = 1
        BY <2>1, <3>4, <1>9, <1>11, <1>31
      <4> QED
        BY <4>1, <4>2, <3>1, <3>3
    <3>5. CASE k # c
      BY <2>1, <2>2, <2>7, <3>1, <3>3, <3>5, <1>9, <1>31
    <3> QED
      BY <3>4, <3>5
  <2> QED
    BY <2>5, <2>6, <2>7
\* The equation of that field.
<1>34. /\ m2[p][e] = c
       /\ h2[p] = h[s] + Black(w2, p)
  <2>1. m2[p][e] = c /\ HeightOf(h, s) = h[s] /\ p # c
    BY <1>1, <1>2, <1>12, <1>17, Sides DEF HeightOf
  <2>2. CASE p = s
    <3>1. h[n] = h[s] + (IF c_rbnode_is_red(w, n) THEN 0 ELSE 1)
      BY <2>1, <2>2, <1>1, <1>2, <1>9, <1>19
    <3>2. Black(w2, s) = IF c_rbnode_is_red(w, n) THEN 0 ELSE 1
      BY <1>1, <1>18 DEF Black, c_rbnode_is_red, c_rbnode_is_black
    <3> QED
      BY <2>1, <2>2, <3>1, <3>2, <1>31
  <2>3. CASE p # s
    <3>1. h[p] = h[s] + (IF c_rbnode_is_red(w, p) THEN 0 ELSE 1)
      BY <2>1, <2>3, <1>1, <1>2, <1>9
    <3>2. Black(w2, p) = IF c_rbnode_is_red(w, p) THEN 0 ELSE 1
      BY <2>1, <2>3, <1>1, <1>18 DEF Black, c_rbnode_is_red, c_rbnode_is_black
    <3> QED
      BY <2>1, <2>3, <3>1, <3>2, <1>1, <1>31
  <2> QED
    BY <2>2, <2>3
<1>35. HeightOf(h2, NULL) = 0 /\ (c # NULL => HeightOf(h2, c) = 1)
  BY <1>31 DEF HeightOf
<1>36. ASSUME c # NULL \/ c_rbnode_is_red(w, s), NEW e2
       PROVE  HeightsAgree(o2, m2, w2, h2, NULL, e2)
  <2> SUFFICES ASSUME NEW k \in Owned(o), k # n, NEW b \in Dir
               PROVE  h2[k] = HeightOf(h2, m2[k][b])
                                + (IF k = NULL /\ b = e2 THEN 1 ELSE 0) + Black(w2, k)
    BY <1>20 DEF HeightsAgree
  <2>1. CASE k = p /\ b = e
    <3>1. HeightOf(h2, c) = h[s]
      BY <1>10, <1>11, <1>35, <1>36
    <3> QED
      BY <2>1, <3>1, <1>1, <1>32, <1>34
  <2>2. CASE ~(k = p /\ b = e)
    BY <2>2, <1>32, <1>33
  <2> QED
    BY <2>1, <2>2
<1>37. ASSUME c = NULL, ~c_rbnode_is_red(w, s)
       PROVE  /\ p \in Owned(o2) /\ e \in Dir
              /\ m2[p][e] = NULL /\ m2[p][Other(e)] # NULL
              /\ HeightsAgree(o2, m2, w2, h2, p, e)
  <2>1. p \in Owned(o2) /\ e \in Dir /\ Other(e) \in Dir /\ Other(e) # e
    BY <1>1, <1>20, Sides
  <2>2. h2[p] = 1 + Black(w2, p) /\ m2[p][e] = NULL
    BY <1>10, <1>34, <1>37
  <2>3. m2[p][Other(e)] # NULL
    BY <2>1, <2>2, <1>1, <1>32, <1>33, <1>35
  <2>4. ASSUME NEW k \in Owned(o), k # n, NEW b \in Dir
        PROVE  h2[k] = HeightOf(h2, m2[k][b]) + (IF k = p /\ b = e THEN 1 ELSE 0) + Black(w2, k)
    <3>1. CASE k = p /\ b = e
      BY <3>1, <2>2, <2>4, <1>32, <1>35
    <3>2. CASE ~(k = p /\ b = e)
      BY <3>2, <2>4, <1>32, <1>33
    <3> QED
      BY <3>1, <3>2
  <2> QED
    BY <2>1, <2>2, <2>3, <2>4, <1>20 DEF HeightsAgree
<1> QED
  BY <1>29, <1>30, <1>31, <1>36, <1>37 DEF Balanced, c

-----------------------------------------------------------------------------
(***************************************************************************)
(* What the functions that write __parent_and_flags leave in the words,    *)
(* and that the sequences of such writes in the rotations of c-rbtree.c    *)
(* add up to RotatedWords and Repainted.                                   *)
(***************************************************************************)

Words == [Node -> Word]
Raw   == Node \cup Tree \cup {NULL}

\* v is w with the word of x rewritten: raw value, root flag and color as given.
Rewritten(w, v, x, raw, root, red) ==
  /\ v \in Words
  /\ \A k \in Node :
       /\ v[k].raw = IF k = x THEN raw ELSE w[k].raw
       /\ c_rbnode_is_root(v, k) <=> IF k = x THEN root ELSE c_rbnode_is_root(w, k)
       /\ c_rbnode_is_red(v, k) <=> IF k = x THEN red ELSE c_rbnode_is_red(w, k)

\* c_rbnode_set_parent_and_flags rewrites one word.
LEMMA SetFacts ==
  ASSUME NEW w \in Words, NEW x \in Node, NEW p \in Raw,
         NEW f \in SUBSET {C_RBNODE_RED, C_RBNODE_ROOT}
  PROVE  Rewritten(w, c_rbnode_set_parent_and_flags(w, x, p, f), x, p,
                   C_RBNODE_ROOT \in f, C_RBNODE_RED \in f)
<1> DEFINE v == c_rbnode_set_parent_and_flags(w, x, p, f)
<1>1. [raw |-> p, flags |-> f] \in Word
  BY DEF Word, Raw
<1>2. v \in Words /\ v[x] = [raw |-> p, flags |-> f] /\ \A k \in Node : k # x => v[k] = w[k]
  BY <1>1 DEF Words, c_rbnode_set_parent_and_flags
<1> HIDE DEF v
<1> QED
  BY <1>2 DEF Rewritten, c_rbnode_is_root, c_rbnode_is_red, v

\* The flags a word holds are the color and the root flag.
LEMMA FlagsFacts ==
  ASSUME NEW w \in Words, NEW x \in Node
  PROVE  /\ c_rbnode_flags(w, x) \in SUBSET {C_RBNODE_RED, C_RBNODE_ROOT}
         /\ c_rbnode_raw(w, x) \in Raw
         /\ C_RBNODE_RED # C_RBNODE_ROOT
         /\ C_RBNODE_RED \in c_rbnode_flags(w, x) <=> c_rbnode_is_red(w, x)
         /\ C_RBNODE_ROOT \in c_rbnode_flags(w, x) <=> c_rbnode_is_root(w, x)
BY DEF Words, Word, Raw, c_rbnode_flags, c_rbnode_raw, c_rbnode_is_red, c_rbnode_is_root,
       C_RBNODE_RED, C_RBNODE_ROOT

\* A child is told its new parent; NULL is not written to.
LEMMA ReparentFacts ==
  ASSUME NEW w \in Words, NEW x \in Pointer, NEW p \in Raw, NEW f \in SUBSET {C_RBNODE_RED}
  PROVE  Rewritten(w, Reparent(w, x, p, f), x, p,
                   c_rbnode_is_root(w, x), C_RBNODE_RED \notin f /\ c_rbnode_is_red(w, x))
<1>1. CASE x = NULL
  <2>1. \A k \in Node : k # x
    BY <1>1, DistinctAddresses
  <2> QED
    BY <1>1, <2>1 DEF Reparent, Rewritten
<1>2. CASE x # NULL
  <2>1. x \in Node
    BY <1>2 DEF Pointer
  <2> DEFINE g == c_rbnode_flags(w, x) \ f
  <2>2. /\ g \in SUBSET {C_RBNODE_RED, C_RBNODE_ROOT}
        /\ C_RBNODE_ROOT \in g <=> c_rbnode_is_root(w, x)
        /\ C_RBNODE_RED \in g <=> C_RBNODE_RED \notin f /\ c_rbnode_is_red(w, x)
    BY <2>1, FlagsFacts
  <2>3. Reparent(w, x, p, f) = c_rbnode_set_parent_and_flags(w, x, p, g)
    BY <1>2 DEF Reparent
  <2> HIDE DEF g
  <2> QED
    BY <2>1, <2>2, <2>3, SetFacts DEF Rewritten
<1> QED
  BY <1>1, <1>2

\* c_rbnode_pop_root clears the root flag and the tree head in the word.
LEMMA PopFacts ==
  ASSUME NEW w \in Words, NEW n \in Node
  PROVE  Rewritten(w, c_rbnode_pop_root(w, n), n,
                   IF c_rbnode_is_root(w, n) THEN NULL ELSE w[n].raw,
                   FALSE, c_rbnode_is_red(w, n))
<1>1. CASE c_rbnode_is_root(w, n)
  <2> DEFINE f == c_rbnode_flags(w, n) \ {C_RBNODE_ROOT}
  <2>1. /\ f \in SUBSET {C_RBNODE_RED, C_RBNODE_ROOT} /\ C_RBNODE_ROOT \notin f
        /\ C_RBNODE_RED \in f <=> c_rbnode_is_red(w, n)
    BY FlagsFacts
  <2>2. c_rbnode_pop_root(w, n) = c_rbnode_set_parent_and_flags(w, n, NULL, f) /\ NULL \in Raw
    BY <1>1 DEF c_rbnode_pop_root, Raw
  <2> HIDE DEF f
  <2> QED
    BY <1>1, <2>1, <2>2, SetFacts DEF Rewritten
<1>2. CASE ~c_rbnode_is_root(w, n)
  BY <1>2 DEF c_rbnode_pop_root, Rewritten
<1> QED
  BY <1>1, <1>2

\* c_rbnode_push_root sets both, unless there is no tree head to set.
LEMMA PushFacts ==
  ASSUME NEW w \in Words, NEW n \in Node, NEW t \in Tree \cup {NULL}
  PROVE  Rewritten(w, c_rbnode_push_root(w, n, t), n,
                   IF t # NULL THEN t ELSE w[n].raw,
                   t # NULL \/ c_rbnode_is_root(w, n), c_rbnode_is_red(w, n))
<1>1. CASE t # NULL
  <2> DEFINE f == c_rbnode_flags(w, n) \cup {C_RBNODE_ROOT}
  <2>1. /\ f \in SUBSET {C_RBNODE_RED, C_RBNODE_ROOT} /\ C_RBNODE_ROOT \in f
        /\ C_RBNODE_RED \in f <=> c_rbnode_is_red(w, n)
    BY FlagsFacts
  <2>2. c_rbnode_push_root(w, n, t) = c_rbnode_set_parent_and_flags(w, n, t, f) /\ t \in Raw
    BY <1>1 DEF c_rbnode_push_root, Raw
  <2> HIDE DEF f
  <2> QED
    BY <1>1, <2>1, <2>2, SetFacts DEF Rewritten
<1>2. CASE t = NULL
  BY <1>2 DEF c_rbnode_push_root, Rewritten
<1> QED
  BY <1>1, <1>2

\* The root flag of n tells whether its word names a tree head or a node.
WellHeld(w, n) == IF c_rbnode_is_root(w, n) THEN w[n].raw \in Tree ELSE w[n].raw \in Node

\* The words of the nodes in a tree are of that kind.
LEMMA HeldWell ==
  ASSUME NEW o, NEW m, NEW w, Sound(o, m, w), NEW n \in Owned(o)
  PROVE  WellHeld(w, n) /\ w \in Words /\ n \in Node
BY ParentFacts DEF WellHeld, Sound, Words

\* The parent and the tree head of such a node.
LEMMA ParentAndRoot ==
  ASSUME NEW w, NEW n, WellHeld(w, n)
  PROVE  /\ c_rbnode_parent(w, n) = IF c_rbnode_is_root(w, n) THEN NULL ELSE w[n].raw
         /\ c_rbnode_parent(w, n) \in Pointer
         /\ RootOf(w, n) = IF c_rbnode_is_root(w, n) THEN w[n].raw ELSE NULL
         /\ RootOf(w, n) \in Tree \cup {NULL}
         /\ RootOf(w, n) # NULL <=> c_rbnode_is_root(w, n)
         /\ c_rbnode_parent(w, n) # NULL <=> ~c_rbnode_is_root(w, n)
BY DistinctAddresses DEF WellHeld, c_rbnode_parent, RootOf, c_rbnode_raw, Pointer

-----------------------------------------------------------------------------
(* Rotations *)

\* The words of c_rbtree_paint_terminal.
LEMMA GrandparentWords ==
  ASSUME NEW m, NEW w \in Words, NEW g \in Node, WellHeld(w, g),
         NEW p \in Node, NEW d \in Dir, p # g,
         ~c_rbnode_is_root(w, p),
         m[p][Other(d)] \in Pointer, m[p][Other(d)] # p, m[p][Other(d)] # g
  PROVE  /\ RotatedWords(m, w, RotateGrandparentWord(m, w, p, g, d), g, d, p)
         /\ Repainted(w, RotateGrandparentWord(m, w, p, g, d), {p, m[p][Other(d)]}, {g})
<1> DEFINE x  == m[p][Other(d)]
           t  == RootOf(w, g)
           gg == c_rbnode_parent(w, g)
           w1 == c_rbnode_pop_root(w, g)
           w2 == Reparent(w1, x, g, {C_RBNODE_RED})
           w3 == Reparent(w2, p, gg, {C_RBNODE_RED})
           f  == c_rbnode_flags(w3, g) \cup {C_RBNODE_RED}
           w4 == c_rbnode_set_parent_and_flags(w3, g, p, f)
           w5 == c_rbnode_push_root(w4, p, t)
<1>0. w \in Words /\ g \in Node /\ g \in Raw /\ p \in Raw /\ p \in Pointer
  BY DEF Raw, Pointer
<1>1. w5 = RotateGrandparentWord(m, w, p, g, d)
  BY DEF RotateGrandparentWord
<1>2. /\ t \in Tree \cup {NULL} /\ gg \in Pointer /\ gg \in Raw
      /\ t # NULL <=> c_rbnode_is_root(w, g)
      /\ t = IF c_rbnode_is_root(w, g) THEN w[g].raw ELSE NULL
      /\ gg = IF c_rbnode_is_root(w, g) THEN NULL ELSE w[g].raw
  BY ParentAndRoot DEF Raw, Pointer
<1> HIDE DEF t, gg, x
<1>3. Rewritten(w, w1, g, gg, FALSE, c_rbnode_is_red(w, g))
  BY <1>0, <1>2, PopFacts DEF Rewritten
<1> HIDE DEF w1
<1>4. Rewritten(w1, w2, x, g, c_rbnode_is_root(w1, x), FALSE)
  <2>1. w1 \in Words /\ x \in Pointer
    BY <1>3 DEF Rewritten, x
  <2> QED
    BY <2>1, <1>0, ReparentFacts DEF Rewritten
<1> HIDE DEF w2
<1>5. Rewritten(w2, w3, p, gg, c_rbnode_is_root(w2, p), FALSE)
  <2>1. w2 \in Words
    BY <1>4 DEF Rewritten
  <2> QED
    BY <2>1, <1>0, <1>2, ReparentFacts DEF Rewritten
<1> HIDE DEF w3
<1>6. Rewritten(w3, w4, g, p, c_rbnode_is_root(w3, g), TRUE)
  <2>1. w3 \in Words
    BY <1>5 DEF Rewritten
  <2>2. f \in SUBSET {C_RBNODE_RED, C_RBNODE_ROOT} /\ C_RBNODE_RED \in f
        /\ (C_RBNODE_ROOT \in f <=> c_rbnode_is_root(w3, g))
    BY <2>1, <1>0, FlagsFacts
  <2> HIDE DEF f
  <2> QED
    BY <2>1, <2>2, <1>0, SetFacts DEF Rewritten
<1> HIDE DEF w4
<1>7. Rewritten(w4, w5, p, IF t # NULL THEN t ELSE w4[p].raw,
                t # NULL \/ c_rbnode_is_root(w4, p), c_rbnode_is_red(w4, p))
  <2>1. w4 \in Words
    BY <1>6 DEF Rewritten
  <2> QED
    BY <2>1, <1>0, <1>2, PushFacts
<1> HIDE DEF w5
<1>8. /\ w5 \in Words
      /\ \A k \in Node :
           /\ w5[k].raw = IF k = p THEN w[g].raw ELSE IF k = g THEN p ELSE IF k = x THEN g ELSE w[k].raw
           /\ c_rbnode_is_root(w5, k) <=>
                IF k = p THEN c_rbnode_is_root(w, g) ELSE k # g /\ c_rbnode_is_root(w, k)
           /\ c_rbnode_is_red(w5, k) <=> k = g \/ (k # p /\ k # x /\ c_rbnode_is_red(w, k))
  <2>1. x # p /\ x # g
    BY DEF x
  <2> QED
    BY <2>1, <1>0, <1>2, <1>3, <1>4, <1>5, <1>6, <1>7 DEF Rewritten
<1> QED
  BY <1>1, <1>8 DEF RotatedWords, Repainted, Words, x

\* The words w2 after Case 6 was applied to the words w.
SiblingWritten(m, w, w2, p, s, x, d) ==
  /\ w2 \in Words
  /\ \A k \in Node :
       /\ w2[k].raw = IF k = s THEN w[p].raw
                      ELSE IF k = p \/ k = x THEN s
                      ELSE IF k = m[s][d] THEN p
                      ELSE w[k].raw
       /\ c_rbnode_is_root(w2, k) <=>
            IF k = s THEN c_rbnode_is_root(w, p) ELSE k # p /\ c_rbnode_is_root(w, k)
       /\ c_rbnode_is_red(w2, k) <=> IF k = s THEN c_rbnode_is_red(w, p)
                                     ELSE k # p /\ k # x /\ c_rbnode_is_red(w, k)

\* s is rotated above p, on the side Other(d) of p, with the far child x.
LEMMA SiblingWords ==
  ASSUME NEW m, NEW w \in Words, NEW p \in Node, WellHeld(w, p),
         NEW s \in Node, NEW x \in Node, NEW d \in Dir,
         p # s, x # p, x # s,
         ~c_rbnode_is_root(w, s), ~c_rbnode_is_root(w, x),
         m[s][d] \in Pointer, m[s][d] # p, m[s][d] # s, m[s][d] # x
  PROVE  SiblingWritten(m, w, RotateSiblingWord(m, w, p, s, x, d), p, s, x, d)
<1> DEFINE z  == m[s][d]
           t  == RootOf(w, p)
           g  == c_rbnode_parent(w, p)
           w1 == c_rbnode_pop_root(w, p)
           w2 == Reparent(w1, x, s, {C_RBNODE_RED})
           w3 == Reparent(w2, z, p, {})
           w4 == c_rbnode_set_parent_and_flags(w3, s, c_rbnode_parent(w3, p),
                                               c_rbnode_flags(w3, p))
           w5 == Reparent(w4, p, s, {C_RBNODE_RED})
           w6 == c_rbnode_push_root(w5, s, t)
<1>0. w \in Words /\ p \in Node /\ p \in Raw /\ s \in Raw /\ p \in Pointer /\ x \in Pointer
      /\ Other(Other(d)) = d
  BY Sides DEF Raw, Pointer
<1>1. w6 = RotateSiblingWord(m, w, p, s, x, d)
  BY DEF RotateSiblingWord
<1>2. /\ t \in Tree \cup {NULL} /\ g \in Raw
      /\ t # NULL <=> c_rbnode_is_root(w, p)
      /\ t = IF c_rbnode_is_root(w, p) THEN w[p].raw ELSE NULL
      /\ g = IF c_rbnode_is_root(w, p) THEN NULL ELSE w[p].raw
  BY ParentAndRoot DEF Raw, Pointer
<1> HIDE DEF t, g, z
<1>3. Rewritten(w, w1, p, g, FALSE, c_rbnode_is_red(w, p))
  BY <1>0, <1>2, PopFacts DEF Rewritten
<1> HIDE DEF w1
<1>4. Rewritten(w1, w2, x, s, c_rbnode_is_root(w1, x), FALSE)
  <2>1. w1 \in Words
    BY <1>3 DEF Rewritten
  <2> QED
    BY <2>1, <1>0, ReparentFacts DEF Rewritten
<1> HIDE DEF w2
<1>5. Rewritten(w2, w3, z, p, c_rbnode_is_root(w2, z), c_rbnode_is_red(w2, z))
  <2>1. w2 \in Words /\ z \in Pointer
    BY <1>4 DEF Rewritten, z
  <2> QED
    BY <2>1, <1>0, ReparentFacts DEF Rewritten
<1> HIDE DEF w3
<1>6. Rewritten(w3, w4, s, g, FALSE, c_rbnode_is_red(w, p))
  <2>1. w3 \in Words
    BY <1>5 DEF Rewritten
  <2>2. /\ c_rbnode_is_red(w3, p) <=> c_rbnode_is_red(w, p)
        /\ ~c_rbnode_is_root(w3, p) /\ w3[p].raw = g
    BY <1>0, <1>3, <1>4, <1>5 DEF Rewritten, z
  <2>3. c_rbnode_parent(w3, p) = g
    BY <2>2 DEF c_rbnode_parent
  <2>4. /\ c_rbnode_flags(w3, p) \in SUBSET {C_RBNODE_RED, C_RBNODE_ROOT}
        /\ C_RBNODE_RED \in c_rbnode_flags(w3, p) <=> c_rbnode_is_red(w, p)
        /\ C_RBNODE_ROOT \notin c_rbnode_flags(w3, p)
    BY <2>1, <2>2, <1>0, FlagsFacts
  <2> DEFINE f == c_rbnode_flags(w3, p)
  <2>5. w4 = c_rbnode_set_parent_and_flags(w3, s, g, f)
    BY <2>3
  <2>6. /\ f \in SUBSET {C_RBNODE_RED, C_RBNODE_ROOT}
        /\ C_RBNODE_RED \in f <=> c_rbnode_is_red(w, p)
        /\ C_RBNODE_ROOT \notin f
    BY <2>4
  <2> HIDE DEF w4, f
  <2>7. Rewritten(w3, w4, s, g, C_RBNODE_ROOT \in f, C_RBNODE_RED \in f)
    BY <2>1, <2>5, <2>6, <1>0, <1>2, SetFacts
  <2> QED
    BY <2>6, <2>7 DEF Rewritten
<1> HIDE DEF w4
<1>7. Rewritten(w4, w5, p, s, c_rbnode_is_root(w4, p), FALSE)
  <2>1. w4 \in Words
    BY <1>6 DEF Rewritten
  <2> QED
    BY <2>1, <1>0, ReparentFacts DEF Rewritten
<1> HIDE DEF w5
<1>8. Rewritten(w5, w6, s, IF t # NULL THEN t ELSE w5[s].raw,
                t # NULL \/ c_rbnode_is_root(w5, s), c_rbnode_is_red(w5, s))
  <2>1. w5 \in Words
    BY <1>7 DEF Rewritten
  <2> QED
    BY <2>1, <1>0, <1>2, PushFacts
<1> HIDE DEF w6
<1>9. /\ w6 \in Words
      /\ \A k \in Node :
           /\ w6[k].raw = IF k = s THEN w[p].raw ELSE IF k = p \/ k = x THEN s
                          ELSE IF k = z THEN p ELSE w[k].raw
           /\ c_rbnode_is_root(w6, k) <=>
                IF k = s THEN c_rbnode_is_root(w, p) ELSE k # p /\ c_rbnode_is_root(w, k)
           /\ c_rbnode_is_red(w6, k) <=> IF k = s THEN c_rbnode_is_red(w, p)
                                         ELSE k # p /\ k # x /\ c_rbnode_is_red(w, k)
  <2>1. z # p /\ z # s /\ z # x
    BY DEF z
  <2> QED
    BY <2>1, <1>0, <1>2, <1>3, <1>4, <1>5, <1>6, <1>7, <1>8 DEF Rewritten
<1> QED
  BY <1>1, <1>9 DEF SiblingWritten, z

\* The words of Case 2.
LEMMA RedSiblingWords ==
  ASSUME NEW m, NEW w \in Words, NEW p \in Node, WellHeld(w, p),
         NEW s \in Node, NEW d \in Dir, p # s, ~c_rbnode_is_root(w, s),
         m[s][d] \in Pointer, m[s][d] # p, m[s][d] # s
  PROVE  /\ RotatedWords(m, w, RotateRedSiblingWord(m, w, p, s, d), p, Other(d), s)
         /\ Repainted(w, RotateRedSiblingWord(m, w, p, s, d), {s, m[s][d]}, {p})
<1> DEFINE x == m[s][d]
           t == RootOf(w, p)
           g == c_rbnode_parent(w, p)
           w1 == c_rbnode_pop_root(w, p)
           w2 == Reparent(w1, x, p, {C_RBNODE_RED})
           w3 == Reparent(w2, s, c_rbnode_parent(w1, p), {C_RBNODE_RED})
           f  == c_rbnode_flags(w3, p) \cup {C_RBNODE_RED}
           w4 == c_rbnode_set_parent_and_flags(w3, p, s, f)
           w5 == c_rbnode_push_root(w4, s, t)
<1>0. w \in Words /\ p \in Node /\ p \in Raw /\ s \in Raw /\ p \in Pointer /\ s \in Pointer
      /\ Other(Other(d)) = d
  BY Sides DEF Raw, Pointer
<1>1. w5 = RotateRedSiblingWord(m, w, p, s, d)
  BY DEF RotateRedSiblingWord
<1>2. /\ t \in Tree \cup {NULL} /\ g \in Raw
      /\ t # NULL <=> c_rbnode_is_root(w, p)
      /\ t = IF c_rbnode_is_root(w, p) THEN w[p].raw ELSE NULL
      /\ g = IF c_rbnode_is_root(w, p) THEN NULL ELSE w[p].raw
  BY ParentAndRoot DEF Raw, Pointer
<1> HIDE DEF t, g, x
<1>3. Rewritten(w, w1, p, g, FALSE, c_rbnode_is_red(w, p))
  BY <1>0, <1>2, PopFacts DEF Rewritten
<1> HIDE DEF w1
<1>4. Rewritten(w1, w2, x, p, c_rbnode_is_root(w1, x), FALSE)
  <2>1. w1 \in Words /\ x \in Pointer
    BY <1>3 DEF Rewritten, x
  <2> QED
    BY <2>1, <1>0, ReparentFacts DEF Rewritten
<1> HIDE DEF w2
<1>5. Rewritten(w2, w3, s, g, c_rbnode_is_root(w2, s), FALSE)
  <2>1. w2 \in Words
    BY <1>4 DEF Rewritten
  <2>2. c_rbnode_parent(w1, p) = g
    BY <1>0, <1>3 DEF Rewritten, c_rbnode_parent
  <2>3. w3 = Reparent(w2, s, g, {C_RBNODE_RED})
    BY <2>2
  <2> HIDE DEF w3
  <2> QED
    BY <2>1, <2>3, <1>0, <1>2, ReparentFacts DEF Rewritten
<1> HIDE DEF w3
<1>6. Rewritten(w3, w4, p, s, c_rbnode_is_root(w3, p), TRUE)
  <2>1. w3 \in Words
    BY <1>5 DEF Rewritten
  <2>2. f \in SUBSET {C_RBNODE_RED, C_RBNODE_ROOT} /\ C_RBNODE_RED \in f
        /\ (C_RBNODE_ROOT \in f <=> c_rbnode_is_root(w3, p))
    BY <2>1, <1>0, FlagsFacts
  <2> HIDE DEF f
  <2> QED
    BY <2>1, <2>2, <1>0, SetFacts DEF Rewritten
<1> HIDE DEF w4
<1>7. Rewritten(w4, w5, s, IF t # NULL THEN t ELSE w4[s].raw,
                t # NULL \/ c_rbnode_is_root(w4, s), c_rbnode_is_red(w4, s))
  <2>1. w4 \in Words
    BY <1>6 DEF Rewritten
  <2> QED
    BY <2>1, <1>0, <1>2, PushFacts
<1> HIDE DEF w5
<1>8. /\ w5 \in Words
      /\ \A k \in Node :
           /\ w5[k].raw = IF k = s THEN w[p].raw ELSE IF k = p THEN s ELSE IF k = x THEN p ELSE w[k].raw
           /\ c_rbnode_is_root(w5, k) <=>
                IF k = s THEN c_rbnode_is_root(w, p) ELSE k # p /\ c_rbnode_is_root(w, k)
           /\ c_rbnode_is_red(w5, k) <=> k = p \/ (k # s /\ k # x /\ c_rbnode_is_red(w, k))
  <2>1. x # p /\ x # s
    BY DEF x
  <2> QED
    BY <2>1, <1>0, <1>2, <1>3, <1>4, <1>5, <1>6, <1>7 DEF Rewritten
<1> QED
  BY <1>0, <1>1, <1>8 DEF RotatedWords, Repainted, Words, x

-----------------------------------------------------------------------------
(* Insertion and removal *)

\* The word c_rbnode_link, or c_rbtree_add, gives to the new node n.
LEMMA LinkWords ==
  ASSUME NEW w \in Words, NEW n \in Node, NEW p \in Node, NEW d \in Dir
  PROVE  AddedWord(w, c_rbnode_set_parent_and_flags(w, n, p, {C_RBNODE_RED}), n, p, d)
<1> DEFINE f == {C_RBNODE_RED}
           v == c_rbnode_set_parent_and_flags(w, n, p, f)
<1>1. /\ f \in SUBSET {C_RBNODE_RED, C_RBNODE_ROOT} /\ p \in Raw /\ d # "root"
      /\ C_RBNODE_RED \in f /\ C_RBNODE_ROOT \notin f
  BY Sides DEF Raw, C_RBNODE_RED, C_RBNODE_ROOT
<1>2. \A k \in Node : k # n => v[k] = w[k]
  BY DEF c_rbnode_set_parent_and_flags
<1> HIDE DEF f
<1>3. Rewritten(w, v, n, p, C_RBNODE_ROOT \in f, C_RBNODE_RED \in f)
  BY <1>1, SetFacts
<1> HIDE DEF v
<1>4. AddedWord(w, v, n, p, d)
  BY <1>1, <1>2, <1>3 DEF AddedWord, Rewritten, Words
<1> QED
  BY <1>4 DEF v, f

\* The word c_rbtree_add gives to the first node of a tree.
LEMMA AddRootWords ==
  ASSUME NEW w \in Words, NEW n \in Node, NEW t \in Tree
  PROVE  AddedWord(w, c_rbnode_push_root(
                        c_rbnode_set_parent_and_flags(w, n, NULL, {C_RBNODE_RED}), n, t),
                   n, t, "root")
<1> DEFINE f == {C_RBNODE_RED}
           v == c_rbnode_set_parent_and_flags(w, n, NULL, f)
           u == c_rbnode_push_root(v, n, t)
<1>1. /\ f \in SUBSET {C_RBNODE_RED, C_RBNODE_ROOT} /\ NULL \in Raw /\ t \in Tree \cup {NULL}
      /\ C_RBNODE_RED \in f /\ C_RBNODE_ROOT \notin f /\ t # NULL
  BY DistinctAddresses DEF Raw, C_RBNODE_RED, C_RBNODE_ROOT
<1>2. \A k \in Node : k # n => u[k] = w[k]
  <2>1. \A k \in Node : k # n => v[k] = w[k]
    BY DEF c_rbnode_set_parent_and_flags
  <2>2. v \in Words
    BY <1>1, SetFacts DEF Rewritten
  <2> HIDE DEF v
  <2>3. \A k \in Node : k # n => u[k] = v[k]
    BY <2>2 DEF c_rbnode_set_parent_and_flags, c_rbnode_push_root, Words
  <2> QED
    BY <2>1, <2>3
<1> HIDE DEF f
<1>3. Rewritten(w, v, n, NULL, C_RBNODE_ROOT \in f, C_RBNODE_RED \in f)
  BY <1>1, SetFacts
<1> HIDE DEF v
<1>4. Rewritten(v, u, n, IF t # NULL THEN t ELSE v[n].raw,
                t # NULL \/ c_rbnode_is_root(v, n), c_rbnode_is_red(v, n))
  BY <1>1, <1>3, PushFacts DEF Rewritten
<1> HIDE DEF u
<1>5. AddedWord(w, u, n, t, "root")
  BY <1>1, <1>2, <1>3, <1>4 DEF AddedWord, Rewritten, Words
<1> QED
  BY <1>5 DEF u, v, f

\* The words after a leaf n is taken out.
LEMMA LeafWords ==
  ASSUME NEW w \in Words, NEW n \in Node
  PROVE  DroppedWords(w, c_rbnode_pop_root(w, n), n, NULL)
<1>1. Rewritten(w, c_rbnode_pop_root(w, n), n,
                IF c_rbnode_is_root(w, n) THEN NULL ELSE w[n].raw, FALSE, c_rbnode_is_red(w, n))
  BY PopFacts
<1> QED
  BY <1>1, DistinctAddresses DEF Rewritten, DroppedWords, Words

\* The words after the only child c of n took its place.
LEMMA OneChildWords ==
  ASSUME NEW w \in Words, NEW n \in Node, WellHeld(w, n),
         NEW c \in Node, c # n, ~c_rbnode_is_root(w, c)
  PROVE  DroppedWords(w, ReplaceWord(w, n, c), n, c)
<1> DEFINE t  == RootOf(w, n)
           w1 == c_rbnode_pop_root(w, n)
           g  == c_rbnode_parent(w1, n)
           w2 == Reparent(w1, c, g, {C_RBNODE_RED})
           w3 == c_rbnode_push_root(w2, c, t)
<1>1. w3 = ReplaceWord(w, n, c) /\ c \in Pointer
  BY DEF ReplaceWord, Pointer
<1>2. /\ t \in Tree \cup {NULL}
      /\ t # NULL <=> c_rbnode_is_root(w, n)
      /\ t = IF c_rbnode_is_root(w, n) THEN w[n].raw ELSE NULL
  BY ParentAndRoot
<1> HIDE DEF t
<1>3. Rewritten(w, w1, n, IF c_rbnode_is_root(w, n) THEN NULL ELSE w[n].raw,
                FALSE, c_rbnode_is_red(w, n))
  BY PopFacts
<1> HIDE DEF w1
<1>4. g = (IF c_rbnode_is_root(w, n) THEN NULL ELSE w[n].raw) /\ g \in Raw
  BY <1>3 DEF Rewritten, c_rbnode_parent, WellHeld, Raw
<1> HIDE DEF g
<1>5. Rewritten(w1, w2, c, g, c_rbnode_is_root(w1, c), FALSE)
  BY <1>1, <1>3, <1>4, ReparentFacts DEF Rewritten
<1> HIDE DEF w2
<1>6. Rewritten(w2, w3, c, IF t # NULL THEN t ELSE w2[c].raw,
                t # NULL \/ c_rbnode_is_root(w2, c), c_rbnode_is_red(w2, c))
  BY <1>2, <1>5, PushFacts DEF Rewritten
<1> HIDE DEF w3
<1>7. DroppedWords(w, w3, n, c)
  BY <1>2, <1>3, <1>4, <1>5, <1>6 DEF DroppedWords, Rewritten, Words
<1> QED
  BY <1>1, <1>7

\* The words after the successor s of n took its place; p is the parent the
\* right child of s ends up with.
LEMMA SpliceWords ==
  ASSUME NEW m, NEW w \in Words, NEW n \in Node, WellHeld(w, n),
         NEW s \in Node, NEW p \in Node, s # n, ~c_rbnode_is_root(w, s),
         m[n]["left"] \in Node, m[n]["right"] \in Node, m[s]["right"] \in Pointer,
         m[n]["left"] # n, m[n]["right"] # n, m[s]["right"] # n, m[s]["right"] # s,
         m[n]["left"] # s, m[n]["left"] # m[n]["right"],
         m[s]["right"] # m[n]["left"], m[s]["right"] # m[n]["right"]
  PROVE  SplicedWords(m, w, SpliceWord(m, w, n, s, p), n, s, p)
<1> DEFINE t  == RootOf(w, n)
           l  == m[n]["left"]
           r  == m[n]["right"]
           c  == m[s]["right"]
           g  == IF c_rbnode_is_root(w, n) THEN NULL ELSE w[n].raw
           w1 == c_rbnode_pop_root(w, n)
           w2 == IF s = r THEN w1 ELSE Reparent(w1, r, s, {})
           w3 == Reparent(w2, l, s, {})
           w4 == Reparent(w3, c, p, {C_RBNODE_RED})
           k0 == c_rbnode_flags(w4, s)
           f  == IF c_rbnode_is_red(w4, n) THEN k0 \cup {C_RBNODE_RED} ELSE k0 \ {C_RBNODE_RED}
           w5 == c_rbnode_set_parent_and_flags(w4, s, c_rbnode_parent(w4, n), f)
           w6 == c_rbnode_push_root(w5, s, t)
<1>1. w6 = SpliceWord(m, w, n, s, p)
  BY DEF SpliceWord
<1>2. /\ t \in Tree \cup {NULL} /\ g \in Raw /\ s \in Raw /\ p \in Raw
      /\ t # NULL <=> c_rbnode_is_root(w, n)
      /\ t = IF c_rbnode_is_root(w, n) THEN w[n].raw ELSE NULL
  BY ParentAndRoot DEF Raw, WellHeld
<1>3. /\ l \in Pointer /\ r \in Pointer /\ c \in Pointer /\ l \in Node /\ r \in Node
      /\ l # n /\ r # n /\ c # n /\ c # s /\ l # s /\ l # r /\ c # l /\ c # r
  BY DEF Pointer
<1>4. Rewritten(w, w1, n, g, FALSE, c_rbnode_is_red(w, n))
  BY PopFacts
<1> HIDE DEF t, g, w1, l, r, c
<1>5. Rewritten(w1, w2, r, IF s = r THEN w1[r].raw ELSE s, c_rbnode_is_root(w1, r), c_rbnode_is_red(w1, r))
  <2>1. w1 \in Words
    BY <1>4 DEF Rewritten
  <2>2. CASE s = r
    BY <2>1, <2>2 DEF Rewritten
  <2>3. CASE s # r
    BY <2>1, <2>3, <1>2, <1>3, ReparentFacts DEF Rewritten
  <2> QED
    BY <2>2, <2>3
<1> HIDE DEF w2
<1>6. Rewritten(w2, w3, l, s, c_rbnode_is_root(w2, l), c_rbnode_is_red(w2, l))
  BY <1>2, <1>3, <1>5, ReparentFacts DEF Rewritten
<1> HIDE DEF w3
<1>7. Rewritten(w3, w4, c, p, c_rbnode_is_root(w3, c), FALSE)
  BY <1>2, <1>3, <1>6, ReparentFacts DEF Rewritten
<1> HIDE DEF w4
<1>8. Rewritten(w4, w5, s, g, FALSE, c_rbnode_is_red(w, n))
  <2>1. w4 \in Words
    BY <1>7 DEF Rewritten
  <2>2. /\ c_rbnode_is_red(w4, n) <=> c_rbnode_is_red(w, n)
        /\ ~c_rbnode_is_root(w4, n) /\ w4[n].raw = g /\ ~c_rbnode_is_root(w4, s)
    BY <1>3, <1>4, <1>5, <1>6, <1>7 DEF Rewritten
  <2>3. c_rbnode_parent(w4, n) = g
    BY <2>2 DEF c_rbnode_parent
  <2>4. k0 \in SUBSET {C_RBNODE_RED, C_RBNODE_ROOT} /\ C_RBNODE_ROOT \notin k0
        /\ C_RBNODE_RED # C_RBNODE_ROOT
    BY <2>1, <2>2, FlagsFacts
  <2> HIDE DEF k0
  <2>5. /\ f \in SUBSET {C_RBNODE_RED, C_RBNODE_ROOT} /\ C_RBNODE_ROOT \notin f
        /\ C_RBNODE_RED \in f <=> c_rbnode_is_red(w, n)
    BY <2>2, <2>4
  <2> HIDE DEF f
  <2>6. w5 = c_rbnode_set_parent_and_flags(w4, s, g, f)
    BY <2>3
  <2> HIDE DEF w5
  <2>7. Rewritten(w4, w5, s, g, C_RBNODE_ROOT \in f, C_RBNODE_RED \in f)
    BY <2>1, <2>5, <2>6, <1>2, SetFacts
  <2> QED
    BY <2>5, <2>7 DEF Rewritten
<1> HIDE DEF w5
<1>9. Rewritten(w5, w6, s, IF t # NULL THEN t ELSE w5[s].raw,
                t # NULL \/ c_rbnode_is_root(w5, s), c_rbnode_is_red(w5, s))
  <2>1. w5 \in Words
    BY <1>8 DEF Rewritten
  <2> QED
    BY <2>1, <1>2, PushFacts
<1> HIDE DEF w6
<1>10. w6 \in Words
  BY <1>9 DEF Rewritten
<1>11. ASSUME NEW k \in Node, k # n
       PROVE  /\ w6[k].raw = IF k = s THEN w[n].raw ELSE IF k = l \/ k = r THEN s
                             ELSE IF k = c THEN p ELSE w[k].raw
              /\ c_rbnode_is_root(w6, k) <=> IF k = s THEN c_rbnode_is_root(w, n)
                                                      ELSE c_rbnode_is_root(w, k)
              /\ c_rbnode_is_red(w6, k) <=> IF k = s THEN c_rbnode_is_red(w, n)
                                            ELSE k # c /\ c_rbnode_is_red(w, k)
  <2>1. CASE k = s
    BY <2>1, <1>2, <1>8, <1>9 DEF Rewritten, g
  <2>2. CASE k # s
    BY <2>2, <1>3, <1>4, <1>5, <1>6, <1>7, <1>8, <1>9, <1>11 DEF Rewritten
  <2> QED
    BY <2>1, <2>2
<1> QED
  BY <1>1, <1>10, <1>11 DEF SplicedWords, Words, l, r, c

-----------------------------------------------------------------------------
(* The inductive invariant *)

\* Nodes in no tree point to themselves, unless their memory is garbage.
CallerOK ==
  /\ stale \subseteq Node
  /\ \A n \in Node \ stale : owner[n] = NULL => pf[n].raw = n /\ ~c_rbnode_is_root(pf, n)

LocalsOK ==
  /\ pc \in {"idle", "paint", "successor", "rebalance", "rotate", "init"}
  /\ call \in Removals \cup {"none"}
  /\ victim \in Pointer /\ cur \in Pointer /\ prev \in Pointer

\* x is further down than y, if one of them is below the other.
Below(w, h, x, y) ==
  h[x] < h[y] \/ (h[x] = h[y] /\ ~c_rbnode_is_red(w, x) /\ c_rbnode_is_red(w, y))

Painting == pc = "paint" => cur \in InUse /\ c_rbnode_is_red(pf, cur)

\* The search for the successor is in the right subtree of the node to remove.
FarFromVictim ==
  cur # link[victim]["right"] =>
    /\ pf[cur].raw \in InUse /\ ~c_rbnode_is_root(pf, cur)
    /\ pf[cur].raw # victim /\ link[pf[cur].raw]["left"] = cur

BelowVictim ==
  \E h \in Heights :
    /\ HeightsAgree(owner, link, pf, h, NULL, "left")
    /\ Below(pf, h, cur, victim)
    /\ cur # link[victim]["right"] => Below(pf, h, pf[cur].raw, victim)

Searching ==
  pc = "successor" =>
    /\ victim \in InUse /\ cur \in InUse /\ owner[cur] = owner[victim]
    /\ link[victim]["left"] # NULL /\ link[victim]["right"] # NULL
    /\ cur \notin {victim, link[victim]["left"]}
    /\ FarFromVictim /\ BelowVictim

\* The side of cur that lacks a black node is the one prev is on.
Rebalancing ==
  pc \in {"rebalance", "rotate"} =>
    /\ victim \in Node /\ owner[victim] = NULL
    /\ cur # NULL => cur \in InUse /\ prev = link[cur][HoleSide]
    /\ prev # NULL => ~c_rbnode_is_red(pf, prev)
    /\ pc = "rotate" => cur # NULL /\ (MustRotate \/ c_rbnode_is_red(pf, cur))

Initialising == pc = "init" => victim \in Node /\ owner[victim] = NULL

IInv ==
  /\ Sound(owner, link, pf)
  /\ NoRedRed
  /\ Balanced(owner, link, pf, Hole, HoleSide)
  /\ CallerOK
  /\ LocalsOK
  /\ Painting
  /\ Searching
  /\ Rebalancing
  /\ Initialising

-----------------------------------------------------------------------------
(* Helpers *)

\* The memory of the trees at rest: no red node to fix, no hole.
AtRest(o, m, w) ==
  /\ Sound(o, m, w)
  /\ RedsBelowBlacks(o, w, NULL)
  /\ \A e : Balanced(o, m, w, NULL, e)

\* A tree without a hole has none on any side.
LEMMA AnySide ==
  ASSUME NEW o, NEW m, NEW w, NEW e, Balanced(o, m, w, NULL, e)
  PROVE  \A e2 : Balanced(o, m, w, NULL, e2)
BY DistinctAddresses DEF Balanced, HeightsAgree, Owned

\* The trees are at rest except while c_rbtree_paint or c_rbnode_rebalance
\* repairs one.
LEMMA RestWhenQuiet ==
  ASSUME IInv, pc \in {"idle", "successor", "init"}
  PROVE  AtRest(owner, link, pf)
<1>1. Balanced(owner, link, pf, NULL, HoleSide) /\ RedsBelowBlacks(owner, pf, NULL)
  BY DEF IInv, Hole, NoRedRed
<1> QED
  BY <1>1, AnySide DEF IInv, AtRest

\* A call that is over, but for the reinitialisation by c_rbnode_unlink.
LEMMA Finished ==
  ASSUME AtRest(owner, link, pf)', CallerOK', LocalsOK,
         NEW api \in Removals \cup {"none"}, NEW n \in Node, owner'[n] = NULL,
         Unlinked(api, n)
  PROVE  IInv'
<1>1. pc' \in {"idle", "init"} /\ (pc' = "init" => victim' = n /\ call' = api)
      /\ (pc' = "idle" => call' = "none" /\ victim' = NULL) /\ cur' = NULL /\ prev' = NULL
  BY DEF Unlinked, Return
<1>2. LocalsOK'
  BY <1>1 DEF LocalsOK, Pointer
<1>3. NoRedRed' /\ Balanced(owner, link, pf, Hole, HoleSide)' /\ Sound(owner, link, pf)'
  BY <1>1 DEF AtRest, NoRedRed, Hole
<1>4. Painting' /\ Searching' /\ Rebalancing' /\ Initialising'
  BY <1>1 DEF Painting, Searching, Rebalancing, Initialising
<1> QED
  BY <1>2, <1>3, <1>4 DEF IInv

\* The same for the other calls.
LEMMA Returned ==
  ASSUME AtRest(owner, link, pf)', CallerOK', pc' = "idle", call' \in Removals \cup {"none"},
         victim' \in Pointer, cur' \in Pointer, prev' \in Pointer
  PROVE  IInv'
<1>1. LocalsOK'
  BY DEF LocalsOK
<1>2. NoRedRed' /\ Balanced(owner, link, pf, Hole, HoleSide)' /\ Sound(owner, link, pf)'
  BY DEF AtRest, NoRedRed, Hole
<1>3. Painting' /\ Searching' /\ Rebalancing' /\ Initialising'
  BY DEF Painting, Searching, Rebalancing, Initialising
<1> QED
  BY <1>1, <1>2, <1>3 DEF IInv

\* The side that SideOf finds.
LEMMA SideAt ==
  ASSUME NEW o, NEW m, NEW w, Sound(o, m, w), NEW p \in Owned(o), NEW d \in Dir,
         NEW n, m[p][d] = n, n # NULL \/ m[p][Other(d)] # NULL
  PROVE  SideOf(m, p, n) = d
<1>1. CASE d = "left"
  BY <1>1 DEF SideOf
<1>2. CASE d = "right"
  <2>1. m[p]["left"] # n
    <3>1. n # NULL => m[p][d] # m[p][Other(d)]
      BY ChildFacts
    <3> QED
      BY <3>1, <1>2 DEF Other
  <2> QED
    BY <1>2, <2>1 DEF SideOf
<1> QED
  BY <1>1, <1>2 DEF Dir

\* What the invariant says of the types.
LEMMA InUseFacts ==
  ASSUME IInv
  PROVE  /\ Sound(owner, link, pf) /\ pf \in Words /\ link \in Memory /\ owner \in Owners
         /\ InUse = Owned(owner)
         /\ \A n \in InUse : n \in Node /\ n # NULL
BY DistinctAddresses DEF IInv, InUse, Owned, Sound, Words

-----------------------------------------------------------------------------
(* Insertion *)

\* The invariant holds when nothing is linked yet.
LEMMA InitHolds ==
  ASSUME Init
  PROVE  IInv
<1>1. Owned(owner) = {} /\ Holder(owner) = Tree
  BY DEF Init, Owned, Holder
<1>2. Sound(owner, link, pf)
  <2>1. link \in Memory /\ Shaped(link)
    BY Sides DEF Init, Memory, Shaped, NoLinks, Pointer
  <2>2. pf \in [Node -> Word] /\ owner \in Owners
    BY DEF Init, Word, Owners
  <2>3. ChildrenKnowParent(owner, link, pf)
    BY <1>1 DEF Init, ChildrenKnowParent, NoLinks
  <2>4. ParentsKnowChild(owner, link, pf)
    BY <1>1 DEF ParentsKnowChild
  <2> QED
    BY <2>1, <2>2, <2>3, <2>4 DEF Sound, Consistent
<1>3. NoRedRed
  BY <1>1 DEF NoRedRed, RedsBelowBlacks
<1>4. Balanced(owner, link, pf, Hole, HoleSide)
  <2>1. [n \in Node |-> 0] \in Heights
    BY DEF Heights
  <2> QED
    BY <1>1, <2>1 DEF Balanced, HeightsAgree
<1>5. CallerOK
  BY DEF Init, CallerOK, c_rbnode_is_root
<1>6. LocalsOK /\ Painting /\ Searching /\ Rebalancing /\ Initialising
  BY DEF Init, LocalsOK, Pointer, Painting, Searching, Rebalancing, Initialising
<1> QED
  BY <1>2, <1>3, <1>4, <1>5, <1>6 DEF IInv

\* A new node n in the empty field s of x, for c_rbtree_add and c_rbnode_link.
LEMMA AddedKeeps ==
  ASSUME IInv, Idle, NEW n \in Node, owner[n] = NULL,
         NEW x \in Holder(owner), NEW s \in Side, s = "root" <=> x \in Tree, link[x][s] = NULL,
         link' = WithNode(link, n, x, s),
         AddedWord(pf, pf', n, x, s),
         owner' = [owner EXCEPT ![n] = Home(owner, x)],
         stale' = stale \ {n},
         pc' = "paint", cur' = n, prev' = NULL, UNCHANGED <<call, victim>>
  PROVE  IInv'
<1>1. AtRest(owner, link, pf)
  BY RestWhenQuiet DEF Idle
<1>2. /\ Sound(owner', link', pf') /\ RedsBelowBlacks(owner', pf', n)
      /\ \A e : Balanced(owner', link', pf', NULL, e)
      /\ n \in Owned(owner')
  <2>1. Sound(owner, link, pf) /\ RedsBelowBlacks(owner, pf, NULL) /\ Balanced(owner, link, pf, NULL, "left")
    BY <1>1 DEF AtRest
  <2> QED
    BY <2>1, NodeAdded
<1>3. NoRedRed' /\ Balanced(owner, link, pf, Hole, HoleSide)'
  BY <1>2 DEF NoRedRed, Hole
<1>4. CallerOK'
  <2>1. stale' \subseteq Node
    BY DEF IInv, CallerOK
  <2>2. \A k \in Node \ stale' : owner'[k] = NULL => k # n /\ k \notin stale /\ owner[k] = NULL /\ pf'[k] = pf[k]
    BY <1>2, InUseFacts DEF Owned, AddedWord, Owners
  <2> QED
    BY <2>1, <2>2 DEF IInv, CallerOK, c_rbnode_is_root
<1>5. Painting'
  BY <1>2 DEF Painting, InUse, AddedWord
<1>6. LocalsOK' /\ Searching' /\ Rebalancing' /\ Initialising'
  BY DEF IInv, LocalsOK, Pointer, Searching, Rebalancing, Initialising
<1> QED
  BY <1>2, <1>3, <1>4, <1>5, <1>6 DEF IInv

\* c_rbtree_add to an empty tree keeps the invariant.
LEMMA AddRootKeeps ==
  ASSUME IInv, NEW t \in Tree, NEW n \in Node, AddRoot(t, n)
  PROVE  IInv'
<1>1. t \in Holder(owner) /\ "root" \in Side /\ link[t]["root"] = NULL /\ Home(owner, t) = t
  BY Sides DEF Holder, AddRoot, Home
<1>2. AddedWord(pf, pf', n, t, "root")
  BY InUseFacts, AddRootWords DEF AddRoot
<1>3. link' = WithNode(link, n, t, "root") /\ owner' = [owner EXCEPT ![n] = Home(owner, t)]
  BY <1>1 DEF AddRoot, WithNode
<1>4. /\ Idle /\ owner[n] = NULL /\ stale' = stale \ {n}
      /\ pc' = "paint" /\ cur' = n /\ prev' = NULL /\ UNCHANGED <<call, victim>>
  BY DEF AddRoot, Continue
<1> QED
  BY <1>1, <1>2, <1>3, <1>4, AddedKeeps

\* So does c_rbnode_link.
LEMMA LinkKeeps ==
  ASSUME IInv, NEW p \in Node, NEW d \in Dir, NEW n \in Node, Link(p, d, n)
  PROVE  IInv'
<1>1. p \in Holder(owner) /\ d \in Side /\ link[p][d] = NULL /\ Home(owner, p) = owner[p]
      /\ (d = "root" <=> p \in Tree)
  BY Sides, DistinctAddresses DEF Holder, Owned, Link, Home
<1>2. AddedWord(pf, pf', n, p, d)
  BY InUseFacts, LinkWords DEF Link
<1>3. link' = WithNode(link, n, p, d) /\ owner' = [owner EXCEPT ![n] = Home(owner, p)]
  BY <1>1 DEF Link, WithNode
<1>4. /\ Idle /\ owner[n] = NULL /\ stale' = stale \ {n}
      /\ pc' = "paint" /\ cur' = n /\ prev' = NULL /\ UNCHANGED <<call, victim>>
  BY DEF Link, Continue
<1> QED
  BY <1>1, <1>2, <1>3, <1>4, AddedKeeps

\* The neighbours of the node that c_rbtree_paint_path is fixing.
LEMMA PaintNeighbours ==
  ASSUME IInv, pc = "paint", RedParent(cur),
         NEW p, p = c_rbnode_parent(pf, cur), NEW g, g = Grandparent(cur),
         NEW d, d = SideOf(link, g, p)
  PROVE  /\ cur \in InUse /\ p \in InUse /\ g \in InUse /\ d \in Dir
         /\ ~c_rbnode_is_root(pf, cur) /\ pf[cur].raw = p
         /\ ~c_rbnode_is_root(pf, p) /\ pf[p].raw = g
         /\ link[g][d] = p /\ Uncle(cur) = link[g][Other(d)]
         /\ link[p][d] = cur \/ link[p][Other(d)] = cur
         /\ c_rbnode_is_red(pf, cur) /\ c_rbnode_is_red(pf, p) /\ ~c_rbnode_is_red(pf, g)
         /\ RedsBelowBlacks(owner, pf, cur)
<1>1. cur \in Owned(owner) /\ c_rbnode_is_red(pf, cur) /\ Sound(owner, link, pf)
  BY DEF IInv, Painting, InUse
<1>2. ~c_rbnode_is_root(pf, cur) /\ p = pf[cur].raw /\ c_rbnode_is_red(pf, p) /\ p # NULL
  BY DEF RedParent, RedNode, c_rbnode_parent, c_rbnode_raw
<1>3. p \in Owned(owner) /\ p # cur /\ \E b \in Dir : link[p][b] = cur
  BY <1>1, <1>2, ParentFacts
<1>4. RedsBelowBlacks(owner, pf, cur)
  BY DEF IInv, NoRedRed
<1>5. ~c_rbnode_is_root(pf, p) /\ ~c_rbnode_is_red(pf, pf[p].raw)
  BY <1>2, <1>3, <1>4 DEF RedsBelowBlacks, c_rbnode_is_red, c_rbnode_is_black, c_rbnode_raw
<1>6. g = pf[p].raw
  BY <1>5 DEF Grandparent, c_rbnode_parent, c_rbnode_raw
<1>7. g \in Owned(owner) /\ \E b \in Dir : link[g][b] = p
  BY <1>1, <1>3, <1>5, <1>6, ParentFacts
<1>8. PICK b \in Dir : link[g][b] = p
  BY <1>7
<1>9. d = b
  BY <1>1, <1>2, <1>7, <1>8, SideAt
<1>10. Uncle(cur) = link[g][Other(d)]
  BY DEF Uncle
<1>11. link[p][d] = cur \/ link[p][Other(d)] = cur
  BY <1>3, <1>8, <1>9, Sides
<1> QED
  BY <1>1, <1>2, <1>3, <1>4, <1>5, <1>6, <1>7, <1>8, <1>9, <1>10, <1>11 DEF InUse

\* CallerOK depends on the nodes in no tree only.
LEMMA CallerKept ==
  ASSUME IInv, UNCHANGED caller, pf' \in Words,
         \A k \in Node : owner[k] = NULL =>
           pf'[k].raw = pf[k].raw /\ (c_rbnode_is_root(pf', k) <=> c_rbnode_is_root(pf, k))
  PROVE  CallerOK'
BY DEF IInv, CallerOK, caller

\* c_rbtree_paint_path, Case 1, keeps the invariant.
LEMMA PaintRootKeeps ==
  ASSUME IInv, PaintRoot
  PROVE  IInv'
<1> DEFINE f == c_rbnode_flags(pf, cur) \ {C_RBNODE_RED}
           v == c_rbnode_set_parent_and_flags(pf, cur, c_rbnode_raw(pf, cur), f)
<1>1. /\ cur \in Owned(owner) /\ cur \in Node /\ c_rbnode_is_red(pf, cur)
      /\ Sound(owner, link, pf) /\ RedsBelowBlacks(owner, pf, cur)
      /\ Balanced(owner, link, pf, NULL, HoleSide) /\ pf \in Words
  BY InUseFacts DEF IInv, Painting, InUse, NoRedRed, Hole, PaintRoot
<1>2. c_rbnode_is_root(pf, cur)
  BY <1>1, ParentFacts, DistinctAddresses DEF PaintRoot, c_rbnode_parent, c_rbnode_raw
<1>3. Rewritten(pf, v, cur, pf[cur].raw, TRUE, FALSE)
  <2>1. f \in SUBSET {C_RBNODE_RED, C_RBNODE_ROOT} /\ C_RBNODE_RED \notin f /\ C_RBNODE_ROOT \in f
        /\ c_rbnode_raw(pf, cur) \in Raw
    BY <1>1, <1>2, FlagsFacts
  <2> HIDE DEF f
  <2> QED
    BY <2>1, <1>1, SetFacts DEF Rewritten, c_rbnode_raw
<1>4. pf' = v
  BY DEF PaintRoot
<1> HIDE DEF v
<1>5. Recolored(pf, pf') /\ Repainted(pf, pf', {cur}, {})
  BY <1>1, <1>2, <1>3, <1>4 DEF Recolored, Repainted, Rewritten, Words
<1>6. /\ RedsBelowBlacks(owner, pf', NULL) /\ \A e2 : Balanced(owner, link, pf', NULL, e2)
      /\ Sound(owner, link, pf')
  BY <1>1, <1>2, <1>5, RootPainted, RecoloredConsistent
<1>7. CallerOK'
  BY <1>5, CallerKept DEF Recolored, Words, PaintRoot
<1>8. AtRest(owner, link, pf)'
  BY <1>6 DEF AtRest, PaintRoot, caller
<1>9. /\ pc' = "idle" /\ call' \in Removals \cup {"none"}
      /\ victim' \in Pointer /\ cur' \in Pointer /\ prev' \in Pointer
  BY DEF PaintRoot, Return, Pointer
<1> QED
  BY <1>7, <1>8, <1>9, Returned

\* So does Case 2.
LEMMA PaintDoneKeeps ==
  ASSUME IInv, PaintDone
  PROVE  IInv'
<1>1. /\ cur \in Owned(owner) /\ Sound(owner, link, pf) /\ RedsBelowBlacks(owner, pf, cur)
      /\ Balanced(owner, link, pf, NULL, HoleSide)
  BY DEF IInv, Painting, InUse, NoRedRed, Hole, PaintDone
<1>2. ~c_rbnode_is_root(pf, cur) /\ c_rbnode_is_black(pf, pf[cur].raw)
  BY DEF PaintDone, c_rbnode_parent, c_rbnode_raw
<1>3. RedsBelowBlacks(owner, pf, NULL)
  BY <1>1, <1>2 DEF RedsBelowBlacks, c_rbnode_raw
<1>4. AtRest(owner, link, pf)
  BY <1>1, <1>3, AnySide DEF AtRest
<1>5. AtRest(owner, link, pf)' /\ CallerOK'
  BY <1>4 DEF PaintDone, memory, caller, AtRest, IInv, CallerOK
<1>6. /\ pc' = "idle" /\ call' \in Removals \cup {"none"}
      /\ victim' \in Pointer /\ cur' \in Pointer /\ prev' \in Pointer
  BY DEF PaintDone, Return, Pointer
<1> QED
  BY <1>5, <1>6, Returned

\* So does Case 3: the node to fix is the grandparent now.
LEMMA PaintRecolorKeeps ==
  ASSUME IInv, PaintRecolor
  PROVE  IInv'
<1> DEFINE p  == c_rbnode_parent(pf, cur)
           g  == Grandparent(cur)
           d  == SideOf(link, g, p)
           u  == Uncle(cur)
           w1 == Reparent(pf, p, g, {C_RBNODE_RED})
           w2 == Reparent(w1, u, g, {C_RBNODE_RED})
           f  == c_rbnode_flags(w2, g) \cup {C_RBNODE_RED}
           w3 == c_rbnode_set_parent_and_flags(w2, g, c_rbnode_raw(w2, g), f)
<1>1. /\ cur \in InUse /\ p \in InUse /\ g \in InUse /\ d \in Dir
      /\ ~c_rbnode_is_root(pf, cur) /\ pf[cur].raw = p
      /\ ~c_rbnode_is_root(pf, p) /\ pf[p].raw = g
      /\ link[g][d] = p /\ u = link[g][Other(d)]
      /\ c_rbnode_is_red(pf, cur) /\ c_rbnode_is_red(pf, p) /\ ~c_rbnode_is_red(pf, g)
      /\ RedsBelowBlacks(owner, pf, cur)
  BY PaintNeighbours DEF PaintRecolor
<1>2. u # NULL /\ c_rbnode_is_red(pf, u) /\ pf' = w3
  BY DEF PaintRecolor, RedNode
<1>3. /\ Sound(owner, link, pf) /\ pf \in Words /\ InUse = Owned(owner)
      /\ Balanced(owner, link, pf, NULL, HoleSide)
  BY InUseFacts DEF IInv, Hole, PaintRecolor
<1> HIDE DEF p, g, d, u
<1>4. /\ u \in Owned(owner) /\ u \in Node /\ pf[u].raw = g /\ u # g /\ p # g /\ u # p
      /\ ~c_rbnode_is_root(pf, u) /\ cur \in Node /\ p \in Node /\ g \in Node
      /\ p \in Pointer /\ u \in Pointer /\ g \in Raw
  <2>1. Other(d) \in Dir /\ Other(Other(d)) = d
    BY <1>1, Sides
  <2>2. u \in Owned(owner) /\ u \in Node /\ pf[u].raw = g /\ u # g /\ ~c_rbnode_is_root(pf, u) /\ u # p
    BY <1>1, <1>2, <1>3, <2>1, ChildFacts
  <2>3. p # g
    BY <1>1, <1>3, ParentFacts
  <2> QED
    BY <1>1, <2>2, <2>3, InUseFacts DEF Raw, Pointer
<1>5. Rewritten(pf, w1, p, g, FALSE, FALSE)
  BY <1>1, <1>3, <1>4, ReparentFacts DEF Rewritten
<1> HIDE DEF w1
<1>6. Rewritten(w1, w2, u, g, FALSE, FALSE)
  BY <1>4, <1>5, ReparentFacts DEF Rewritten
<1> HIDE DEF w2
<1>7. Rewritten(w2, w3, g, pf[g].raw, c_rbnode_is_root(pf, g), TRUE)
  <2>1. w2 \in Words /\ w2[g].raw = pf[g].raw /\ (c_rbnode_is_root(w2, g) <=> c_rbnode_is_root(pf, g))
    BY <1>4, <1>5, <1>6 DEF Rewritten
  <2>2. f \in SUBSET {C_RBNODE_RED, C_RBNODE_ROOT} /\ C_RBNODE_RED \in f
        /\ (C_RBNODE_ROOT \in f <=> c_rbnode_is_root(w2, g)) /\ c_rbnode_raw(w2, g) \in Raw
    BY <2>1, <1>4, FlagsFacts
  <2> HIDE DEF f
  <2>3. Rewritten(w2, w3, g, c_rbnode_raw(w2, g), C_RBNODE_ROOT \in f, C_RBNODE_RED \in f)
    BY <2>1, <2>2, <1>4, SetFacts
  <2> QED
    BY <2>1, <2>2, <2>3 DEF Rewritten, c_rbnode_raw
<1> HIDE DEF w3
<1>8. Recolored(pf, pf') /\ Repainted(pf, pf', {p, u}, {g})
  BY <1>1, <1>2, <1>4, <1>5, <1>6, <1>7 DEF Recolored, Repainted, Rewritten, Words
<1>9. /\ RedsBelowBlacks(owner, pf', g) /\ c_rbnode_is_red(pf', g)
      /\ \A e2 : Balanced(owner, link, pf', NULL, e2)
  BY <1>1, <1>2, <1>3, <1>4, <1>8, UncleRecolored
<1>10. Sound(owner, link, pf')
  BY <1>3, <1>8, RecoloredConsistent
<1>11. CallerOK'
  BY <1>8, CallerKept DEF Recolored, Words, PaintRecolor
<1>12. /\ pc' = "paint" /\ cur' = g /\ prev' = prev /\ link' = link /\ owner' = owner
       /\ call' = call /\ victim' = victim
  BY DEF PaintRecolor, Continue, caller, g
<1>13. NoRedRed' /\ Balanced(owner, link, pf, Hole, HoleSide)' /\ Sound(owner, link, pf)'
  BY <1>9, <1>10, <1>12 DEF NoRedRed, Hole
<1>14. LocalsOK' /\ Painting' /\ Searching' /\ Rebalancing' /\ Initialising'
  BY <1>1, <1>4, <1>9, <1>12
     DEF IInv, LocalsOK, Pointer, Painting, InUse, Searching, Rebalancing, Initialising
<1> QED
  BY <1>11, <1>13, <1>14 DEF IInv

\* A rotation writes no word of a node that is in no tree.
LEMMA RotationForOthers ==
  ASSUME NEW o, NEW m, NEW w, Sound(o, m, w), NEW w2, NEW p, NEW e, NEW s,
         Rotatable(o, m, w, p, e, s), RotatedWords(m, w, w2, p, e, s),
         NEW k \in Node, o[k] = NULL
  PROVE  w2[k].raw = w[k].raw /\ (c_rbnode_is_root(w2, k) <=> c_rbnode_is_root(w, k))
<1>1. s \in Owned(o) /\ p \in Owned(o) /\ Other(e) \in Dir
  BY Sides, ChildFacts, DistinctAddresses DEF Rotatable
<1>2. m[s][Other(e)] # NULL => m[s][Other(e)] \in Owned(o)
  BY <1>1, ChildFacts
<1>3. k # s /\ k # p /\ k # m[s][Other(e)]
  BY <1>1, <1>2, DistinctAddresses DEF Owned
<1> QED
  BY <1>3 DEF RotatedWords

\* No red node is above its own parent.
LEMMA NotAboveParent ==
  ASSUME NEW o, NEW m, NEW w, Sound(o, m, w), NEW e0, Balanced(o, m, w, NULL, e0),
         NEW p \in Owned(o), NEW g \in Owned(o), NEW d \in Dir, m[g][d] = p,
         c_rbnode_is_red(w, p), ~c_rbnode_is_red(w, g)
  PROVE  w[g].raw # p
<1>1. PICK h \in Heights : HeightsAgree(o, m, w, h, NULL, e0)
  BY DEF Balanced
<1>2. g \in Node /\ p \in Node /\ g # NULL /\ p # NULL /\ p \notin Tree
  BY DistinctAddresses DEF Owned
<1>3. h[g] \in Nat /\ h[p] \in Nat /\ h[g] = h[p] + 1
  <2>1. h[g] \in Nat /\ h[p] \in Nat
    BY <1>1, <1>2 DEF Heights
  <2>2. h[g] = HeightOf(h, m[g][d]) + (IF g = NULL /\ d = e0 THEN 1 ELSE 0)
                 + (IF c_rbnode_is_red(w, g) THEN 0 ELSE 1)
    BY <1>1, HeightBelow
  <2>3. HeightOf(h, m[g][d]) = h[p]
    BY <1>2 DEF HeightOf
  <2> QED
    BY <1>2, <2>1, <2>2, <2>3
<1>4. SUFFICES ASSUME w[g].raw = p
               PROVE  FALSE
  OBVIOUS
<1>5. PICK b \in Dir : m[p][b] = g
  BY <1>2, <1>4, ParentFacts
<1>6. h[p] = h[g]
  <2>1. h[p] = HeightOf(h, m[p][b]) + (IF p = NULL /\ b = e0 THEN 1 ELSE 0)
                 + (IF c_rbnode_is_red(w, p) THEN 0 ELSE 1)
    BY <1>1, HeightBelow
  <2>2. HeightOf(h, m[p][b]) = h[g]
    BY <1>2, <1>5 DEF HeightOf
  <2> QED
    BY <1>2, <1>3, <2>1, <2>2
<1> QED
  BY <1>3, <1>6

\* Case 4 with one rotation ends the call with the trees at rest.
LEMMA PaintRotateKeeps ==
  ASSUME IInv, PaintRotate
  PROVE  IInv'
<1> DEFINE p == c_rbnode_parent(pf, cur)
           g == Grandparent(cur)
           d == SideOf(link, g, p)
           w2 == RotateGrandparentWord(link, pf, p, g, d)
<1>1. /\ cur \in InUse /\ p \in InUse /\ g \in InUse /\ d \in Dir
      /\ ~c_rbnode_is_root(pf, cur) /\ pf[cur].raw = p
      /\ ~c_rbnode_is_root(pf, p) /\ pf[p].raw = g
      /\ link[g][d] = p /\ Uncle(cur) = link[g][Other(d)]
      /\ link[p][d] = cur \/ link[p][Other(d)] = cur
      /\ c_rbnode_is_red(pf, cur) /\ c_rbnode_is_red(pf, p) /\ ~c_rbnode_is_red(pf, g)
      /\ RedsBelowBlacks(owner, pf, cur)
  BY PaintNeighbours DEF PaintRotate
<1>2. /\ link[p][d] = cur
      /\ RotatedLinks(link, pf, link', g, d, p)
      /\ pf' = w2
      /\ link[g][Other(d)] # NULL => ~c_rbnode_is_red(pf, link[g][Other(d)])
  BY <1>1 DEF PaintRotate, RotateGrandparentLink, RotatedLinks, RedNode
<1>3. /\ Sound(owner, link, pf) /\ pf \in Words /\ InUse = Owned(owner)
      /\ Balanced(owner, link, pf, NULL, HoleSide)
  BY InUseFacts DEF IInv, Hole, PaintRotate
<1> HIDE DEF p, g, d
<1>4. /\ g \in Node /\ p \in Node /\ WellHeld(pf, g) /\ p # g /\ pf[g].raw # p
      /\ link[p][Other(d)] \in Pointer /\ link[p][Other(d)] # p /\ link[p][Other(d)] # g
  <2>1. Other(d) \in Dir
    BY <1>1, Sides
  <2>2. g \in Node /\ p \in Node /\ WellHeld(pf, g)
    BY <1>1, <1>3, HeldWell
  <2>3. p # g /\ pf[g].raw # p
    <3>1. p # g
      BY <1>1, <1>3, ParentFacts
    <3>2. pf[g].raw # p
      BY <1>1, <1>3, NotAboveParent
    <3> QED
      BY <3>1, <3>2
  <2>4. link[p][Other(d)] \in Pointer
    BY <2>1, <2>2, <1>3, Sides DEF Sound, Memory
  <2>5. link[p][Other(d)] # p /\ link[p][Other(d)] # g
    <3>1. CASE link[p][Other(d)] = NULL
      BY <3>1, <2>2, DistinctAddresses
    <3>2. CASE link[p][Other(d)] # NULL
      BY <3>2, <2>1, <1>1, <1>3, <2>3, ChildFacts
    <3> QED
      BY <3>1, <3>2
  <2> QED
    BY <2>2, <2>3, <2>4, <2>5
<1>5. /\ RotatedWords(link, pf, w2, g, d, p)
      /\ Repainted(pf, w2, {p, link[p][Other(d)]}, {g})
  BY <1>1, <1>3, <1>4, GrandparentWords
<1> HIDE DEF w2
<1>6. /\ Sound(owner, link', pf')
      /\ RedsBelowBlacks(owner, pf', NULL)
      /\ \A e2 : Balanced(owner, link', pf', NULL, e2)
  BY <1>1, <1>2, <1>3, <1>5, PaintRotation
<1>7. UNCHANGED caller
  BY DEF PaintRotate
<1>8. CallerOK'
  <2>1. Rotatable(owner, link, pf, g, d, p)
    BY <1>1, <1>3, <1>4 DEF Rotatable
  <2> QED
    BY <2>1, <1>2, <1>3, <1>5, <1>6, <1>7, RotationForOthers, CallerKept DEF Sound, Words
<1>9. AtRest(owner, link, pf)'
  BY <1>6, <1>7 DEF AtRest, caller
<1>10. /\ pc' = "idle" /\ call' \in Removals \cup {"none"}
       /\ victim' \in Pointer /\ cur' \in Pointer /\ prev' \in Pointer
  BY DEF PaintRotate, Return, Pointer
<1> QED
  BY <1>8, <1>9, <1>10, Returned

\* So does Case 4 with two rotations; the memory between them is itself sound.
LEMMA PaintRotateTwiceKeeps ==
  ASSUME IInv, PaintRotateTwice
  PROVE  IInv'
<1> DEFINE n == cur
           p == c_rbnode_parent(pf, n)
           g == Grandparent(n)
           d == SideOf(link, g, p)
           x == link[n][d]
           m1 == [link EXCEPT ![p][Other(d)] = x, ![n][d] = p]
           wa == Reparent(pf, x, p, {})
           w1 == Reparent(wa, p, n, {})
           mv == PutInPlace(m1, pf, p, n)
           f == c_rbnode_flags(w1, n)
           wv == c_rbnode_set_parent_and_flags(w1, n, g, f)
           w2 == RotateGrandparentWord(m1, w1, n, g, d)
<1>1. /\ n \in InUse /\ p \in InUse /\ g \in InUse /\ d \in Dir
      /\ ~c_rbnode_is_root(pf, n) /\ pf[n].raw = p
      /\ ~c_rbnode_is_root(pf, p) /\ pf[p].raw = g
      /\ link[g][d] = p /\ Uncle(n) = link[g][Other(d)]
      /\ c_rbnode_is_red(pf, n) /\ c_rbnode_is_red(pf, p) /\ ~c_rbnode_is_red(pf, g)
      /\ RedsBelowBlacks(owner, pf, n)
  BY PaintNeighbours DEF PaintRotateTwice
<1>2. /\ link[p][Other(d)] = n
      /\ link' = RotateGrandparentLink(m1, n, g, d)
      /\ pf' = w2
      /\ link[g][Other(d)] # NULL => ~c_rbnode_is_red(pf, link[g][Other(d)])
  BY <1>1 DEF PaintRotateTwice, RedNode
<1>3. /\ Sound(owner, link, pf) /\ pf \in Words /\ InUse = Owned(owner) /\ link \in Memory
      /\ Balanced(owner, link, pf, NULL, HoleSide)
  BY InUseFacts DEF IInv, Hole, PaintRotateTwice
<1> HIDE DEF n, p, g, d
<1>4. /\ g \in Node /\ p \in Node /\ n \in Node /\ WellHeld(pf, g)
      /\ p # g /\ n # p /\ n # g /\ pf[g].raw # p
      /\ g # NULL /\ n # NULL /\ p # NULL /\ Other(d) \in Dir /\ Other(d) # d /\ Other(Other(d)) = d
  <2>1. Other(d) \in Dir /\ Other(d) # d /\ Other(Other(d)) = d
    BY <1>1, Sides
  <2>2. g \in Node /\ p \in Node /\ n \in Node /\ WellHeld(pf, g) /\ p # g /\ n # p
    BY <1>1, <1>3, HeldWell, ParentFacts
  <2>3. n # g
    BY <1>1
  <2>4. pf[g].raw # p
    BY <1>1, <1>3, NotAboveParent
  <2> QED
    BY <2>1, <2>2, <2>3, <2>4, DistinctAddresses
<1>5. /\ x \in Pointer /\ x # n /\ x # p /\ x # g
      /\ link[n][Other(d)] \in Pointer /\ link[n][Other(d)] # n /\ link[n][Other(d)] # g
      /\ link[n][Other(d)] # p
  <2>1. \A b \in Dir : link[n][b] \in Pointer
    BY <1>3, <1>4, Sides DEF Memory
  <2>2. \A b \in Dir : link[n][b] # NULL => link[n][b] # n /\ pf[link[n][b]].raw = n
    BY <1>1, <1>3, ChildFacts
  <2>3. pf[g].raw # n
    <3>1. pf[g].raw = n => c_rbnode_is_root(pf, g) \/ \E b \in Dir : link[n][b] = g
      BY <1>1, <1>3, ParentFacts
    <3>2. ~c_rbnode_is_root(pf, g) \/ pf[g].raw \in Tree
      BY <1>1, <1>3, ParentFacts
    <3>3. pf[g].raw = n => \E b \in Dir : link[n][b] = g
      BY <3>1, <3>2, <1>4, DistinctAddresses
    <3>4. PICK h \in Heights : HeightsAgree(owner, link, pf, h, NULL, HoleSide)
      BY <1>3 DEF Balanced
    <3>5. h[n] \in Nat /\ h[p] \in Nat /\ h[g] \in Nat
      BY <1>4 DEF Heights
    <3>6. \A q \in {n, p, g}, b \in Dir : h[q] = HeightOf(h, link[q][b]) + (IF c_rbnode_is_red(pf, q) THEN 0 ELSE 1)
      <4>1. TAKE q \in {n, p, g}, b \in Dir
      <4>2. q \in Owned(owner) /\ q # NULL
        BY <1>1, <1>3, <1>4
      <4>3. h[q] = HeightOf(h, link[q][b]) + (IF q = NULL /\ b = HoleSide THEN 1 ELSE 0)
                     + (IF c_rbnode_is_red(pf, q) THEN 0 ELSE 1)
            /\ HeightOf(h, link[q][b]) \in Nat
        BY <3>4, <4>2, <1>3, HeightBelow
      <4> QED
        BY <4>2, <4>3
    <3>7. h[g] = h[p] + 1
      BY <3>5, <3>6, <1>1, <1>4 DEF HeightOf
    <3>8. h[p] = h[n] + 0
      BY <3>5, <3>6, <1>1, <1>2, <1>4 DEF HeightOf
    <3>9. ASSUME pf[g].raw = n PROVE h[n] = h[g] + 0
      BY <3>3, <3>9, <3>6, <3>5, <1>1, <1>4 DEF HeightOf
    <3> QED
      BY <3>5, <3>7, <3>8, <3>9
  <2>4. \A b \in Dir : link[n][b] # p
    BY <2>2, <1>1, <1>4
  <2> QED
    BY <2>1, <2>2, <2>3, <2>4, <1>1, <1>4
\* The state between the two rotations, but for the word of n.
<1>6. mv = Put(m1, g, d, n) /\ m1 \in Memory /\ m1[g] = link[g]
  <2>1. m1[g] = link[g] /\ m1 \in Memory
    BY <1>1, <1>3, <1>4, <1>5, Sides DEF Memory, Pointer
  <2>2. SideOf(m1, g, p) = d
    <3>1. SideOf(link, g, p) = d
      BY <1>1, <1>3, <1>4, SideAt
    <3> QED
      BY <2>1, <3>1 DEF SideOf
  <2> HIDE DEF m1
  <2> QED
    BY <2>1, <2>2, <1>1 DEF PutInPlace, Put
<1>7. RotatedLinks(link, pf, mv, p, Other(d), n)
  BY <1>4 DEF RotatedLinks
<1>8. /\ m1[n][Other(d)] = link[n][Other(d)]
      /\ mv[n][Other(d)] = link[n][Other(d)]
  <2>1. m1[n][Other(d)] = link[n][Other(d)] /\ m1 \in Memory
    BY <1>3, <1>4, <1>1, <1>6, Sides DEF Memory
  <2> HIDE DEF m1, mv
  <2>2. mv[n] = m1[n]
    BY <2>1, <1>6, <1>4 DEF Put, Memory
  <2> QED
    BY <2>1, <2>2
<1>9. Rewritten(pf, wa, x, p, c_rbnode_is_root(pf, x), c_rbnode_is_red(pf, x))
  BY <1>3, <1>4, <1>5, ReparentFacts DEF Rewritten, Raw
<1> HIDE DEF wa
<1>10. Rewritten(wa, w1, p, n, FALSE, TRUE)
  <2>1. wa \in Words /\ ~c_rbnode_is_root(wa, p) /\ c_rbnode_is_red(wa, p)
    BY <1>9, <1>4, <1>5, <1>1 DEF Rewritten
  <2> QED
    BY <2>1, <1>4, ReparentFacts DEF Rewritten, Raw, Pointer
<1> HIDE DEF w1
<1>11. /\ w1 \in Words
       /\ ~c_rbnode_is_root(w1, n) /\ c_rbnode_is_red(w1, n)
       /\ w1[g].raw = pf[g].raw /\ (c_rbnode_is_root(w1, g) <=> c_rbnode_is_root(pf, g))
  BY <1>9, <1>10, <1>4, <1>5, <1>1 DEF Rewritten
<1>12. Rewritten(w1, wv, n, g, FALSE, TRUE)
  <2>1. f \in SUBSET {C_RBNODE_RED, C_RBNODE_ROOT} /\ C_RBNODE_RED \in f /\ C_RBNODE_ROOT \notin f
        /\ g \in Raw
    BY <1>11, <1>4, FlagsFacts DEF Raw
  <2> HIDE DEF f
  <2> QED
    BY <2>1, <1>4, <1>11, SetFacts DEF Rewritten
<1> HIDE DEF wv
<1>13. /\ RotatedWords(link, pf, wv, p, Other(d), n)
       /\ Repainted(pf, wv, {}, {})
  <2>1. wv \in [Node -> Word]
    BY <1>12 DEF Rewritten, Words
  <2>2. \A k \in Node : wv[k].raw = IF k = n THEN g ELSE IF k = p THEN n ELSE IF k = x THEN p ELSE pf[k].raw
    BY <1>9, <1>10, <1>12 DEF Rewritten
  <2>3. \A k \in Node : c_rbnode_is_root(wv, k) <=>
          (IF k = n THEN FALSE ELSE IF k = p THEN FALSE ELSE c_rbnode_is_root(pf, k))
    BY <1>9, <1>10, <1>12 DEF Rewritten
  <2>4. \A k \in Node : c_rbnode_is_red(wv, k) <=> c_rbnode_is_red(pf, k)
    BY <1>9, <1>10, <1>12, <1>1 DEF Rewritten
  <2>5. RotatedWords(link, pf, wv, p, Other(d), n)
    BY <2>1, <2>2, <2>3, <1>1, <1>4 DEF RotatedWords
  <2> QED
    BY <2>4, <2>5 DEF Repainted
<1> HIDE DEF mv
<1>14. /\ Sound(owner, mv, wv)
       /\ RedsBelowBlacks(owner, wv, p)
       /\ Balanced(owner, mv, wv, NULL, HoleSide)
       /\ mv[g][d] = n /\ mv[n][d] = p /\ mv[g][Other(d)] = link[g][Other(d)]
  <2>1. n \in Owned(owner) /\ p \in Owned(owner) /\ g \in Owned(owner)
    BY <1>1, <1>3
  <2> HIDE DEF x, m1
  <2> QED
    BY <2>1, <1>1, <1>2, <1>3, <1>7, <1>13, InnerPaintRotation
\* The second rotation, seen from that state.
<1>15. RotatedLinks(mv, wv, link', g, d, n)
  <2>1. wv[g].raw = pf[g].raw /\ (c_rbnode_is_root(wv, g) <=> c_rbnode_is_root(pf, g))
    BY <1>11, <1>12, <1>4 DEF Rewritten
  <2>2. \A m, a, b : PutInPlace(m, wv, g, a) = PutInPlace(m, pf, g, a)
    BY <2>1 DEF PutInPlace
  <2>3. [m1 EXCEPT ![g][d] = m1[n][Other(d)], ![n][Other(d)] = g]
        = [mv EXCEPT ![g][d] = mv[n][Other(d)], ![n][Other(d)] = g]
    <3> DEFINE v == link[n][Other(d)]
    <3>1. m1[n][Other(d)] = v /\ mv[n][Other(d)] = v
      BY <1>8
    <3> HIDE DEF v, m1
    <3>2. [m1 EXCEPT ![g][d] = v] = [mv EXCEPT ![g][d] = v]
      BY <1>6, <1>4, <1>1, Sides DEF Put, Memory
    <3> QED
      BY <3>1, <3>2
  <2> QED
    BY <1>2, <2>2, <2>3 DEF RotatedLinks, RotateGrandparentLink
<1>16. /\ RotatedWords(m1, w1, w2, g, d, n)
       /\ Repainted(w1, w2, {n, m1[n][Other(d)]}, {g})
  <2>1. WellHeld(w1, g)
    BY <1>11, <1>4 DEF WellHeld
  <2> QED
    BY <2>1, <1>1, <1>4, <1>5, <1>8, <1>11, GrandparentWords
<1> HIDE DEF w2, m1
<1>17. /\ RotatedWords(mv, wv, w2, g, d, n)
       /\ Repainted(wv, w2, {n, mv[n][Other(d)]}, {g})
  <2>1. \A k \in Node : /\ k # n => wv[k].raw = w1[k].raw
                        /\ c_rbnode_is_root(wv, k) <=> c_rbnode_is_root(w1, k)
                        /\ c_rbnode_is_red(wv, k) <=> c_rbnode_is_red(w1, k)
    BY <1>11, <1>12 DEF Rewritten
  <2>2. RotatedWords(mv, wv, w2, g, d, n)
    BY <2>1, <1>16, <1>8, <1>4 DEF RotatedWords
  <2> QED
    BY <2>1, <2>2, <1>16, <1>8 DEF Repainted
<1>18. /\ c_rbnode_is_red(wv, p) /\ c_rbnode_is_red(wv, n) /\ ~c_rbnode_is_red(wv, g)
       /\ mv[g][Other(d)] # NULL => ~c_rbnode_is_red(wv, mv[g][Other(d)])
  <2>1. link[g][Other(d)] # NULL => link[g][Other(d)] \in Node
    BY <1>1, <1>3, <1>4, ChildFacts
  <2> QED
    BY <2>1, <1>1, <1>2, <1>4, <1>13, <1>14 DEF Repainted
<1>19. /\ Sound(owner, link', pf')
       /\ RedsBelowBlacks(owner, pf', NULL)
       /\ \A e2 : Balanced(owner, link', pf', NULL, e2)
  BY <1>1, <1>2, <1>3, <1>14, <1>15, <1>17, <1>18, PaintRotation
<1>20. UNCHANGED caller
  BY DEF PaintRotateTwice
<1>21. CallerOK'
  <2>1. Rotatable(owner, link, pf, p, Other(d), n)
    BY <1>1, <1>2, <1>3, <1>4 DEF Rotatable
  <2>2. Rotatable(owner, mv, wv, g, d, n)
    <3>1. wv[g].raw # n
      BY <1>1, <1>3, <1>14, <1>18, NotAboveParent
    <3> QED
      BY <3>1, <1>1, <1>3, <1>4, <1>14 DEF Rotatable
  <2>3. \A k \in Node : owner[k] = NULL =>
           pf'[k].raw = pf[k].raw /\ (c_rbnode_is_root(pf', k) <=> c_rbnode_is_root(pf, k))
    BY <2>1, <2>2, <1>2, <1>3, <1>13, <1>14, <1>17, RotationForOthers
  <2> QED
    BY <2>3, <1>19, <1>20, CallerKept DEF Sound, Words
<1>22. AtRest(owner, link, pf)'
  BY <1>19, <1>20 DEF AtRest, caller
<1>23. /\ pc' = "idle" /\ call' \in Removals \cup {"none"}
       /\ victim' \in Pointer /\ cur' \in Pointer /\ prev' \in Pointer
  BY DEF PaintRotateTwice, Return, Pointer
<1> QED
  BY <1>21, <1>22, <1>23, Returned

-----------------------------------------------------------------------------
(* Removal *)

\* CallerOK does not depend on the node that was just taken out.
LEMMA CallerDetached ==
  ASSUME IInv, NEW n \in Node, Detach(n),
         \A k \in Node : k # n /\ owner[k] = NULL =>
           pf'[k].raw = pf[k].raw /\ (c_rbnode_is_root(pf', k) <=> c_rbnode_is_root(pf, k))
  PROVE  CallerOK'
<1>1. stale' \subseteq Node
  BY DEF IInv, CallerOK, Detach
<1>2. \A k \in Node \ stale' : owner'[k] = NULL => k # n /\ k \notin stale /\ owner[k] = NULL
  BY InUseFacts DEF Detach, Owners
<1> QED
  BY <1>1, <1>2 DEF IInv, CallerOK

\* The guards of the removal functions are right about what is in a tree.
LEMMA RemovableInUse ==
  ASSUME IInv, NEW n \in Node, NEW api, Removable(api, n)
  PROVE  n \in Owned(owner) /\ api \in Removals /\ AtRest(owner, link, pf)
<1>1. api \in Removals /\ AtRest(owner, link, pf)
  BY RestWhenQuiet DEF Removable, Idle
<1>2. owner[n] # NULL
  <2>1. CASE api = "unlink"
    <3>1. n \notin stale /\ c_rbnode_is_linked(pf, n)
      BY <2>1 DEF Removable
    <3>2. ~(pf[n].raw = n /\ ~c_rbnode_is_root(pf, n))
      BY <3>1 DEF c_rbnode_is_linked, c_rbnode_parent
    <3> QED
      BY <3>1, <3>2 DEF IInv, CallerOK
  <2>2. CASE api # "unlink"
    BY <2>2 DEF Removable
  <2> QED
    BY <2>1, <2>2
<1> QED
  BY <1>1, <1>2 DEF Owned

\* c_rbnode_rebalance is called: the side of p without child lacks a black node.
LEMMA RebalanceStarts ==
  ASSUME Sound(owner, link, pf)', RedsBelowBlacks(owner', pf', NULL), CallerOK',
         NEW n \in Node, owner'[n] = NULL,
         NEW api \in Removals \cup {"none"}, NEW p \in Pointer,
         RebalanceFrom(api, n, p),
         p = NULL => \A e : Balanced(owner', link', pf', NULL, e),
         p # NULL => p \in Owned(owner') /\ \E e \in Dir :
                       /\ link'[p][e] = NULL /\ link'[p][Other(e)] # NULL
                       /\ Balanced(owner', link', pf', p, e)
  PROVE  IInv'
<1>1. pc' = "rebalance" /\ call' = api /\ victim' = n /\ cur' = p /\ prev' = NULL
  BY DEF RebalanceFrom
<1>2. LocalsOK'
  BY <1>1 DEF LocalsOK, Pointer
<1>3. NoRedRed' /\ Sound(owner, link, pf)'
  BY <1>1 DEF NoRedRed
<1>4. p # NULL => link'[p][HoleSide'] = NULL /\ Balanced(owner', link', pf', p, HoleSide')
  <2>1. SUFFICES ASSUME p # NULL
                 PROVE  link'[p][HoleSide'] = NULL /\ Balanced(owner', link', pf', p, HoleSide')
    OBVIOUS
  <2>2. PICK e \in Dir : /\ link'[p][e] = NULL /\ link'[p][Other(e)] # NULL
                         /\ Balanced(owner', link', pf', p, e)
    BY <2>1
  <2>3. SideOf(link', p, NULL) = e
    BY <2>1, <2>2, SideAt
  <2>4. HoleSide' = SideOf(link', p, NULL)
    BY <1>1 DEF HoleSide
  <2> QED
    BY <2>2, <2>3, <2>4
<1>5. Balanced(owner, link, pf, Hole, HoleSide)'
  BY <1>1, <1>4 DEF Hole
<1>6. Painting' /\ Searching' /\ Initialising'
  BY <1>1 DEF Painting, Searching, Initialising
<1>7. Rebalancing'
  BY <1>1, <1>4 DEF Rebalancing, InUse
<1> QED
  BY <1>2, <1>3, <1>5, <1>6, <1>7 DEF IInv

\* c_rbnode_unlink_stale, Case 1.0, keeps the invariant.
LEMMA UnlinkLeafKeeps ==
  ASSUME IInv, NEW n \in Node, NEW api, UnlinkLeaf(api, n)
  PROVE  IInv'
<1> DEFINE w == c_rbnode_pop_root(pf, n)
<1>1. n \in Owned(owner) /\ api \in Removals /\ AtRest(owner, link, pf)
  BY RemovableInUse DEF UnlinkLeaf
<1>2. /\ Sound(owner, link, pf) /\ RedsBelowBlacks(owner, pf, NULL)
      /\ Balanced(owner, link, pf, NULL, "left") /\ pf \in Words /\ owner \in Owners
  BY <1>1, InUseFacts DEF AtRest
<1>3. /\ link' = PutInPlace(link, pf, n, NULL) /\ pf' = w
      /\ owner' = Disowned(owner, n) /\ owner'[n] = NULL
      /\ link[n]["left"] = NULL /\ link[n][Other("left")] = NULL
  BY <1>2, Sides DEF UnlinkLeaf, Detach, Dir, Owners, Disowned
<1>4. DroppedWords(pf, w, n, NULL)
  BY <1>2, LeafWords
<1>5. Rewritten(pf, w, n, IF c_rbnode_is_root(pf, n) THEN NULL ELSE pf[n].raw,
                FALSE, c_rbnode_is_red(pf, n))
  BY <1>2, PopFacts
<1>6. c_rbnode_parent(w, n) = IF c_rbnode_is_root(pf, n) THEN NULL ELSE pf[n].raw
  BY <1>5 DEF Rewritten, c_rbnode_parent
<1>7. c_rbnode_is_black(w, n) <=> ~c_rbnode_is_red(pf, n)
  BY <1>5 DEF Rewritten, c_rbnode_is_black, c_rbnode_is_red
<1>8. IF c_rbnode_is_black(w, n)
      THEN RebalanceFrom(api, n, c_rbnode_parent(w, n))
      ELSE Unlinked(api, n)
  BY DEF UnlinkLeaf
<1> HIDE DEF w
<1>9. /\ Sound(owner', link', pf')
      /\ RedsBelowBlacks(owner', pf', NULL)
      /\ (c_rbnode_is_red(pf, n) \/ c_rbnode_is_root(pf, n)) =>
           \A e2 : Balanced(owner', link', pf', NULL, e2)
      /\ (~c_rbnode_is_red(pf, n) /\ ~c_rbnode_is_root(pf, n)) =>
           /\ pf[n].raw \in Owned(owner')
           /\ \E e \in Dir :
                /\ link'[pf[n].raw][e] = NULL /\ link'[pf[n].raw][Other(e)] # NULL
                /\ Balanced(owner', link', pf', pf[n].raw, e)
  <2>1. "left" \in Dir
    BY DEF Dir
  <2> QED
    BY <2>1, <1>1, <1>2, <1>3, <1>4, NodeDropped
<1>10. CallerOK'
  <2>1. \A k \in Node : k # n => k # NULL
    BY DistinctAddresses
  <2>2. Detach(n)
    BY DEF UnlinkLeaf
  <2> QED
    BY <2>1, <2>2, <1>3, <1>4, CallerDetached DEF DroppedWords
<1>11. CASE c_rbnode_is_red(pf, n)
  <2>1. Unlinked(api, n) /\ AtRest(owner, link, pf)'
    BY <1>7, <1>8, <1>9, <1>11 DEF AtRest
  <2> QED
    BY <2>1, <1>1, <1>3, <1>10, Finished DEF IInv
<1>12. CASE ~c_rbnode_is_red(pf, n)
  <2>1. RebalanceFrom(api, n, c_rbnode_parent(w, n))
    BY <1>7, <1>8, <1>12
  <2>2. pf[n].raw \in Owned(owner') => pf[n].raw \in Pointer /\ pf[n].raw # NULL
    BY DistinctAddresses DEF Owned, Pointer
  <2>3. NULL \in Pointer
    BY DEF Pointer
  <2>4. CASE c_rbnode_is_root(pf, n)
    <3>1. c_rbnode_parent(w, n) = NULL
      BY <2>4, <1>6
    <3> QED
      BY <3>1, <2>1, <2>3, <2>4, <1>1, <1>3, <1>9, <1>10, RebalanceStarts
  <2>5. CASE ~c_rbnode_is_root(pf, n)
    <3>1. c_rbnode_parent(w, n) = pf[n].raw
      BY <2>5, <1>6
    <3> QED
      BY <3>1, <2>1, <2>2, <2>5, <1>1, <1>3, <1>9, <1>10, <1>12, RebalanceStarts
  <2> QED
    BY <2>4, <2>5
<1> QED
  BY <1>11, <1>12

\* So do Cases 1.1 and 1.2.
LEMMA UnlinkOneChildKeeps ==
  ASSUME IInv, NEW n \in Node, NEW d \in Dir, NEW api, UnlinkOneChild(api, n, d)
  PROVE  IInv'
<1> DEFINE c == link[n][d]
<1>1. n \in Owned(owner) /\ api \in Removals /\ AtRest(owner, link, pf)
  BY RemovableInUse DEF UnlinkOneChild
<1>2. /\ Sound(owner, link, pf) /\ RedsBelowBlacks(owner, pf, NULL)
      /\ Balanced(owner, link, pf, NULL, "left") /\ pf \in Words /\ owner \in Owners
  BY <1>1, InUseFacts DEF AtRest
<1>3. /\ link' = PutInPlace(link, pf, n, c) /\ pf' = ReplaceWord(pf, n, c)
      /\ owner' = Disowned(owner, n) /\ owner'[n] = NULL
      /\ c # NULL /\ link[n][Other(d)] = NULL
      /\ Detach(n) /\ Unlinked(api, n)
  BY <1>2 DEF UnlinkOneChild, Detach, Owners, Disowned
<1>4. c \in Node /\ c \in Owned(owner) /\ c # n /\ ~c_rbnode_is_root(pf, c) /\ WellHeld(pf, n)
  BY <1>1, <1>2, <1>3, ChildFacts, HeldWell
<1>5. DroppedWords(pf, pf', n, c)
  BY <1>2, <1>3, <1>4, OneChildWords
<1>6. /\ Sound(owner', link', pf')
      /\ RedsBelowBlacks(owner', pf', NULL)
      /\ \A e2 : Balanced(owner', link', pf', NULL, e2)
  <2> HIDE DEF c
  <2>1. link[n][d] = c
    BY DEF c
  <2> QED
    BY <2>1, <1>1, <1>2, <1>3, <1>5, NodeDropped
<1>7. CallerOK'
  <2>1. owner[c] # NULL
    BY <1>4 DEF Owned
  <2> QED
    BY <2>1, <1>3, <1>5, CallerDetached DEF DroppedWords
<1>8. AtRest(owner, link, pf)'
  BY <1>6 DEF AtRest
<1> QED
  BY <1>1, <1>3, <1>7, <1>8, Finished DEF IInv

\* A node is further down than its parent.
LEMMA ChildBelow ==
  ASSUME NEW o, NEW m, NEW w, Sound(o, m, w), RedsBelowBlacks(o, w, NULL),
         NEW h \in Heights, NEW e, HeightsAgree(o, m, w, h, NULL, e),
         NEW n \in Owned(o), NEW d \in Dir, m[n][d] # NULL
  PROVE  Below(w, h, m[n][d], n)
<1>1. /\ m[n][d] \in Owned(o) /\ m[n][d] \in Node /\ w[m[n][d]].raw = n
      /\ ~c_rbnode_is_root(w, m[n][d]) /\ n # NULL
  BY ChildFacts, ParentFacts
<1>2. h[n] = h[m[n][d]] + (IF c_rbnode_is_red(w, n) THEN 0 ELSE 1)
  <2>1. h[n] = HeightOf(h, m[n][d]) + (IF n = NULL /\ d = e THEN 1 ELSE 0)
                 + (IF c_rbnode_is_red(w, n) THEN 0 ELSE 1)
        /\ HeightOf(h, m[n][d]) \in Nat
    BY HeightBelow
  <2> QED
    BY <1>1, <2>1 DEF HeightOf
<1>3. c_rbnode_is_red(w, n) => ~c_rbnode_is_red(w, m[n][d])
  BY <1>1, DistinctAddresses DEF RedsBelowBlacks, c_rbnode_is_red, c_rbnode_is_black, c_rbnode_raw
<1>4. h[n] \in Nat /\ h[m[n][d]] \in Nat
  BY <1>1 DEF Heights, Owned
<1> QED
  <2>1. CASE c_rbnode_is_red(w, n)
    BY <2>1, <1>2, <1>3, <1>4 DEF Below
  <2>2. CASE ~c_rbnode_is_red(w, n)
    <3>1. h[m[n][d]] < h[n]
      BY <2>2, <1>2, <1>4
    <3> QED
      BY <3>1 DEF Below
  <2> QED
    BY <2>1, <2>2

\* The order of the nodes on a path down.
LEMMA BelowOrder ==
  ASSUME NEW w, NEW h \in Heights
  PROVE  /\ \A x \in Node : ~Below(w, h, x, x)
         /\ \A x, y, z \in Node : Below(w, h, x, y) /\ Below(w, h, y, z) => Below(w, h, x, z)
<1>1. \A x \in Node : h[x] \in Nat
  BY DEF Heights
<1> QED
  BY <1>1 DEF Below

\* The search for the successor starts below the node to remove.
LEMMA UnlinkFullKeeps ==
  ASSUME IInv, NEW n \in Node, NEW api, UnlinkFull(api, n)
  PROVE  IInv'
<1>1. n \in Owned(owner) /\ api \in Removals /\ AtRest(owner, link, pf)
  BY RemovableInUse DEF UnlinkFull
<1>2. /\ Sound(owner, link, pf) /\ RedsBelowBlacks(owner, pf, NULL)
      /\ Balanced(owner, link, pf, NULL, "left")
  BY <1>1 DEF AtRest
<1>3. /\ pc' = "successor" /\ call' = api /\ victim' = n /\ prev' = NULL
      /\ cur' = link[n]["right"]
      /\ link' = link /\ pf' = pf /\ owner' = owner /\ stale' = stale
      /\ link[n]["left"] # NULL /\ link[n]["right"] # NULL
  BY DEF UnlinkFull, memory, caller, Dir
<1>4. /\ cur' \in Owned(owner) /\ cur' \in Node /\ cur' # n /\ owner[cur'] = owner[n]
      /\ cur' # link[n]["left"]
  <2>1. "right" \in Dir /\ Other("right") = "left"
    BY DEF Dir, Other
  <2> QED
    BY <2>1, <1>1, <1>2, <1>3, ChildFacts
<1>5. NoRedRed' /\ Sound(owner, link, pf)' /\ CallerOK'
  BY <1>2, <1>3 DEF IInv, NoRedRed, CallerOK
<1>6. Balanced(owner, link, pf, Hole, HoleSide)'
  BY <1>1, <1>3 DEF AtRest, Hole
<1>7. LocalsOK' /\ Painting' /\ Rebalancing' /\ Initialising'
  BY <1>1, <1>3, <1>4 DEF LocalsOK, Pointer, Painting, Rebalancing, Initialising
<1>8. FarFromVictim'
  BY <1>3 DEF FarFromVictim
<1>9. BelowVictim'
  <2>1. PICK h \in Heights : HeightsAgree(owner, link, pf, h, NULL, "left")
    BY <1>2 DEF Balanced
  <2>2. "right" \in Dir
    BY DEF Dir
  <2>3. Below(pf, h, cur', n)
    BY <2>1, <2>2, <1>1, <1>2, <1>3, ChildBelow
  <2> QED
    BY <2>1, <2>3, <1>3 DEF BelowVictim
<1>10. Searching'
  BY <1>1, <1>3, <1>4, <1>8, <1>9 DEF Searching, InUse
<1> QED
  BY <1>5, <1>6, <1>7, <1>10 DEF IInv

\* It stays below it, one c_rbnode_leftmost iteration after the other.
LEMMA WalkLeftKeeps ==
  ASSUME IInv, WalkLeft
  PROVE  IInv'
<1> DEFINE c == link[cur]["left"]
<1>1. /\ pc' = "successor" /\ cur' = c /\ call' = call /\ victim' = victim /\ prev' = prev
      /\ link' = link /\ pf' = pf /\ owner' = owner /\ stale' = stale
      /\ c # NULL /\ pc = "successor"
  BY DEF WalkLeft, Continue, memory, caller
<1>2. AtRest(owner, link, pf)
  BY <1>1, RestWhenQuiet
<1>3. Sound(owner, link, pf) /\ RedsBelowBlacks(owner, pf, NULL)
  BY <1>2 DEF AtRest
<1>4. /\ victim \in InUse /\ cur \in InUse /\ owner[cur] = owner[victim]
      /\ link[victim]["left"] # NULL /\ link[victim]["right"] # NULL
      /\ cur \notin {victim, link[victim]["left"]}
      /\ BelowVictim
  BY <1>1 DEF IInv, Searching
<1>5. victim \in Owned(owner) /\ cur \in Owned(owner) /\ victim \in Node /\ cur \in Node /\ "left" \in Dir
  BY <1>4 DEF InUse, Owned, Dir
<1>6. /\ c \in Owned(owner) /\ c \in Node /\ pf[c].raw = cur /\ ~c_rbnode_is_root(pf, c)
      /\ owner[c] = owner[cur]
  BY <1>1, <1>3, <1>5, ChildFacts
<1>7. PICK h \in Heights : /\ HeightsAgree(owner, link, pf, h, NULL, "left")
                           /\ Below(pf, h, cur, victim)
  BY <1>4 DEF BelowVictim
<1>8. Below(pf, h, c, victim)
  <2>1. Below(pf, h, c, cur)
    BY <1>1, <1>3, <1>5, <1>7, ChildBelow
  <2> QED
    BY <2>1, <1>5, <1>6, <1>7, BelowOrder
<1>9. c # victim
  BY <1>8, <1>5, BelowOrder
<1>10. c # link[victim]["left"]
  <2>1. pf[link[victim]["left"]].raw = victim
    BY <1>3, <1>4, <1>5, ChildFacts
  <2> QED
    BY <2>1, <1>4, <1>6
<1> HIDE DEF c
<1>11. NoRedRed' /\ Sound(owner, link, pf)' /\ CallerOK'
  BY <1>1, <1>3 DEF IInv, NoRedRed, CallerOK
<1>12. Balanced(owner, link, pf, Hole, HoleSide)'
  BY <1>1, <1>2 DEF AtRest, Hole
<1>13. LocalsOK' /\ Painting' /\ Rebalancing' /\ Initialising'
  BY <1>1, <1>6 DEF IInv, LocalsOK, Pointer, Painting, Rebalancing, Initialising
<1>14. FarFromVictim'
  BY <1>1, <1>4, <1>6 DEF FarFromVictim, InUse, c
<1>15. BelowVictim'
  BY <1>1, <1>6, <1>7, <1>8 DEF BelowVictim
<1>16. Searching'
  BY <1>1, <1>4, <1>6, <1>9, <1>10, <1>14, <1>15 DEF Searching, InUse
<1> QED
  BY <1>11, <1>12, <1>13, <1>16 DEF IInv

\* The node the search for the successor ends at can take the place of victim.
LEMMA SuccessorFound ==
  ASSUME IInv, pc = "successor", link[cur]["left"] = NULL,
         NEW p, p = IF cur = link[victim]["right"] THEN cur ELSE c_rbnode_parent(pf, cur),
         NEW e, e = IF cur = link[victim]["right"] THEN "right" ELSE "left"
  PROVE  /\ Spliceable(owner, link, pf, victim, cur, p, e)
         /\ p = cur <=> cur = link[victim]["right"]
         /\ p \in Owned(owner) /\ ~c_rbnode_is_root(pf, cur)
<1>1. Sound(owner, link, pf) /\ RedsBelowBlacks(owner, pf, NULL)
  BY RestWhenQuiet DEF AtRest
<1>2. /\ victim \in InUse /\ cur \in InUse /\ owner[cur] = owner[victim]
      /\ link[victim]["left"] # NULL /\ link[victim]["right"] # NULL
      /\ cur # victim /\ cur # link[victim]["left"]
      /\ BelowVictim /\ FarFromVictim
  BY DEF IInv, Searching
<1>3. victim \in Owned(owner) /\ cur \in Owned(owner) /\ victim \in Node /\ cur \in Node
  BY <1>2 DEF InUse, Owned
<1>4. PICK h \in Heights :
        /\ HeightsAgree(owner, link, pf, h, NULL, "left")
        /\ Below(pf, h, cur, victim)
        /\ cur # link[victim]["right"] => Below(pf, h, pf[cur].raw, victim)
  BY <1>2 DEF BelowVictim
<1>5. \A x \in Owned(owner) : Below(pf, h, x, victim) => pf[victim].raw # x
  <2>1. TAKE x \in Owned(owner)
  <2>2. SUFFICES ASSUME Below(pf, h, x, victim), pf[victim].raw = x
                 PROVE  FALSE
    OBVIOUS
  <2>3. x \in Node /\ x \notin Tree
    BY DistinctAddresses DEF Owned
  <2>4. PICK d \in Dir : link[x][d] = victim
    BY <1>1, <1>3, <2>2, <2>3, ParentFacts
  <2>5. victim # NULL
    BY <1>1, <1>3, ParentFacts
  <2>6. Below(pf, h, victim, x)
    BY <1>1, <1>4, <2>4, <2>5, ChildBelow
  <2> QED
    BY <2>2, <2>3, <2>6, <1>3, BelowOrder
<1>6. CASE cur = link[victim]["right"]
  <2>1. p = cur /\ e = "right"
    BY <1>6
  <2>2. ~c_rbnode_is_root(pf, cur)
    <3>1. "right" \in Dir
      BY DEF Dir
    <3> QED
      BY <3>1, <1>1, <1>2, <1>3, <1>6, ChildFacts
  <2>3. pf[victim].raw # cur
    BY <1>3, <1>4, <1>5
  <2> QED
    BY <2>1, <2>2, <2>3, <1>2, <1>3, <1>6 DEF Spliceable
<1>7. CASE cur # link[victim]["right"]
  <2>1. /\ pf[cur].raw \in Owned(owner) /\ ~c_rbnode_is_root(pf, cur)
        /\ pf[cur].raw # victim /\ link[pf[cur].raw]["left"] = cur
    BY <1>2, <1>7 DEF FarFromVictim, InUse
  <2>2. p = pf[cur].raw /\ e = "left"
    BY <1>7, <2>1 DEF c_rbnode_parent, c_rbnode_raw
  <2>3. p # cur
    BY <2>2, <1>1, <1>3, ParentFacts
  <2>4. pf[victim].raw # cur /\ pf[victim].raw # p
    BY <2>1, <2>2, <1>3, <1>4, <1>5, <1>7
  <2> QED
    BY <2>1, <2>2, <2>3, <2>4, <1>2, <1>3, <1>7 DEF Spliceable
<1> QED
  BY <1>6, <1>7

\* Case 1.3 keeps the invariant.
LEMMA SpliceSuccessorKeeps ==
  ASSUME IInv, SpliceSuccessor
  PROVE  IInv'
<1> DEFINE n == victim
           s == cur
           p == IF s = link[n]["right"] THEN s ELSE c_rbnode_parent(pf, s)
           e == IF s = link[n]["right"] THEN "right" ELSE "left"
<1>1. /\ pc = "successor" /\ link[s]["left"] = NULL
      /\ link' = SpliceLink(link, n, s, p)
      /\ pf' = SpliceWord(link, pf, n, s, p)
      /\ Detach(n)
      /\ IF link[s]["right"] = NULL /\ c_rbnode_is_black(pf, s)
         THEN RebalanceFrom(call, n, p)
         ELSE Unlinked(call, n)
  BY DEF SpliceSuccessor
<1>2. /\ Spliceable(owner, link, pf, n, s, p, e)
      /\ p = s <=> s = link[n]["right"]
      /\ p \in Owned(owner) /\ ~c_rbnode_is_root(pf, s)
  BY <1>1, SuccessorFound
<1>3. /\ Sound(owner, link, pf) /\ RedsBelowBlacks(owner, pf, NULL)
      /\ Balanced(owner, link, pf, NULL, "left") /\ pf \in Words /\ owner \in Owners
      /\ link \in Memory
  BY <1>1, RestWhenQuiet, InUseFacts DEF AtRest
<1> HIDE DEF n, s, p, e
<1>4. link' = PutInPlace(SplicedLinks(link, n, s, p), pf, n, s)
  <2>1. SpliceLink(link, n, s, p) = PutInPlace(SplicedLinks(link, n, s, p), pf, n, s)
    <3>1. CASE p = s
      BY <3>1, <1>2 DEF SpliceLink, SplicedLinks
    <3>2. CASE p # s
      BY <3>2, <1>2 DEF SpliceLink, SplicedLinks
    <3> QED
      BY <3>1, <3>2
  <2> QED
    BY <2>1, <1>1
<1>5. /\ n \in Owned(owner) /\ n \in Node /\ s \in Owned(owner) /\ s \in Node /\ p \in Node /\ s # n
      /\ WellHeld(pf, n)
  BY <1>2, <1>3, HeldWell DEF Spliceable, Owned
<1>6. /\ link[n]["left"] \in Owned(owner) /\ link[n]["right"] \in Owned(owner)
      /\ link[n]["left"] \in Node /\ link[n]["right"] \in Node
      /\ link[n]["left"] # n /\ link[n]["right"] # n /\ link[n]["left"] # link[n]["right"]
      /\ link[n]["left"] # s
      /\ pf[link[n]["left"]].raw = n /\ pf[link[n]["right"]].raw = n
  <2>1. "left" \in Dir /\ "right" \in Dir /\ Other("left") = "right"
    BY DEF Dir, Other
  <2>2. link[n]["left"] # NULL /\ link[n]["right"] # NULL /\ s # link[n]["left"]
    BY <1>2 DEF Spliceable
  <2> QED
    BY <2>1, <2>2, <1>3, <1>5, ChildFacts
<1>7. /\ link[s]["right"] \in Pointer /\ link[s]["right"] # n /\ link[s]["right"] # s
      /\ link[s]["right"] # link[n]["left"] /\ link[s]["right"] # link[n]["right"]
      /\ link[s]["right"] # NULL => link[s]["right"] \in Owned(owner)
  <2>1. "right" \in Dir /\ "right" \in Side
    BY DEF Dir, Side
  <2>2. link[s]["right"] \in Pointer
    BY <2>1, <1>3, <1>5 DEF Memory
  <2>3. CASE link[s]["right"] = NULL
    BY <2>2, <2>3, <1>5, <1>6, DistinctAddresses
  <2>4. CASE link[s]["right"] # NULL
    <3>1. /\ link[s]["right"] # s /\ pf[link[s]["right"]].raw = s
          /\ link[s]["right"] \in Owned(owner)
      BY <2>1, <2>4, <1>3, <1>5, ChildFacts
    <3>2. pf[n].raw # s
      BY <1>2 DEF Spliceable
    <3> QED
      BY <3>1, <3>2, <2>2, <1>5, <1>6
  <2> QED
    BY <2>3, <2>4
<1>8. SplicedWords(link, pf, pf', n, s, p)
  <2>1. SplicedWords(link, pf, SpliceWord(link, pf, n, s, p), n, s, p)
    BY <1>2, <1>3, <1>5, <1>6, <1>7, SpliceWords
  <2> QED
    BY <2>1, <1>1
<1>9. owner' = Disowned(owner, n) /\ owner'[n] = NULL
  BY <1>1, <1>3, <1>5 DEF Detach, Disowned, Owners
<1>10. /\ Sound(owner', link', pf')
       /\ RedsBelowBlacks(owner', pf', NULL)
       /\ (link[s]["right"] # NULL \/ c_rbnode_is_red(pf, s)) =>
            \A e2 : Balanced(owner', link', pf', NULL, e2)
       /\ (link[s]["right"] = NULL /\ ~c_rbnode_is_red(pf, s)) =>
            /\ p \in Owned(owner') /\ e \in Dir
            /\ link'[p][e] = NULL /\ link'[p][Other(e)] # NULL
            /\ Balanced(owner', link', pf', p, e)
  BY <1>2, <1>3, <1>4, <1>8, <1>9, SuccessorSpliced
<1>11. CallerOK'
  <2>1. \A k \in Node : owner[k] = NULL =>
          k # s /\ k # link[n]["left"] /\ k # link[n]["right"] /\ k # link[s]["right"]
    BY <1>5, <1>6, <1>7, DistinctAddresses DEF Owned
  <2> QED
    BY <2>1, <1>1, <1>5, <1>8, CallerDetached DEF SplicedWords
<1>12. call \in Removals \cup {"none"}
  BY DEF IInv, LocalsOK
<1>13. CASE link[s]["right"] = NULL /\ ~c_rbnode_is_red(pf, s)
  <2>1. RebalanceFrom(call, n, p)
    BY <1>1, <1>13 DEF c_rbnode_is_red, c_rbnode_is_black
  <2>2. p \in Pointer /\ p # NULL
    BY <1>5, DistinctAddresses DEF Pointer
  <2> QED
    BY <2>1, <2>2, <1>5, <1>9, <1>10, <1>11, <1>12, <1>13, RebalanceStarts
<1>14. CASE link[s]["right"] # NULL \/ c_rbnode_is_red(pf, s)
  <2>1. Unlinked(call, n)
    BY <1>1, <1>14 DEF c_rbnode_is_red, c_rbnode_is_black
  <2>2. AtRest(owner, link, pf)'
    BY <1>10, <1>14 DEF AtRest
  <2> QED
    BY <2>1, <2>2, <1>5, <1>9, <1>11, <1>12, Finished DEF IInv
<1> QED
  BY <1>13, <1>14

\* The hole that c_rbnode_rebalance_path moved past the root is gone.
LEMMA RebalanceEndKeeps ==
  ASSUME IInv, RebalanceEnd
  PROVE  IInv'
<1>1. /\ Unlinked(call, victim) /\ link' = link /\ pf' = pf /\ owner' = owner /\ stale' = stale
      /\ pc = "rebalance" /\ cur = NULL
  BY DEF RebalanceEnd, memory, caller
<1>2. Balanced(owner, link, pf, NULL, HoleSide) /\ RedsBelowBlacks(owner, pf, NULL)
      /\ Sound(owner, link, pf)
  BY <1>1 DEF IInv, Hole, NoRedRed
<1>3. AtRest(owner, link, pf)'
  BY <1>1, <1>2, AnySide DEF AtRest
<1>4. victim \in Node /\ owner'[victim] = NULL /\ CallerOK' /\ LocalsOK
      /\ call \in Removals \cup {"none"}
  BY <1>1 DEF IInv, Rebalancing, CallerOK, LocalsOK
<1> QED
  BY <1>1, <1>3, <1>4, Finished

\* c_rbnode_init writes a node that is in no tree.
LEMMA NodeReset ==
  ASSUME IInv, pc \in {"idle", "init"}, NEW n \in Node, owner[n] = NULL,
         link' = [link EXCEPT ![n] = NoLinks],
         pf' = c_rbnode_set_parent_and_flags(pf, n, n, {}),
         stale' = stale \ {n}, owner' = owner
  PROVE  AtRest(owner, link, pf)' /\ CallerOK'
<1>1. AtRest(owner, link, pf) /\ pf \in Words /\ link \in Memory
  BY RestWhenQuiet, InUseFacts
<1>2. Rewritten(pf, pf', n, n, FALSE, FALSE)
  <2>1. n \in Raw /\ {} \in SUBSET {C_RBNODE_RED, C_RBNODE_ROOT}
    BY DEF Raw
  <2> QED
    BY <2>1, <1>1, SetFacts DEF Rewritten
<1>3. OthersWritten(owner, link, pf, link', pf')
  <2>1. link' \in Memory /\ \A x \in Node \cup Tree : x # n => link'[x] = link[x]
    BY <1>1 DEF Memory, NoLinks, Pointer
  <2>2. link'[n] = NoLinks
    BY <1>1 DEF Memory
  <2>3. Shaped(link')
    <3>1. Shaped(link) /\ n \notin Tree /\ "root" \in Side
      BY <1>1, Sides, DistinctAddresses DEF AtRest, Sound
    <3> QED
      BY <3>1, <2>1, <2>2 DEF Shaped, NoLinks
  <2>4. n \notin Holder(owner) /\ Holder(owner) \subseteq Node \cup Tree
    BY DistinctAddresses DEF Holder, Owned
  <2>5. \A k \in Owned(owner) : pf'[k] = pf[k]
    BY <1>1 DEF Owned, c_rbnode_set_parent_and_flags, Words
  <2>6. pf' \in [Node -> Word]
    BY <1>2 DEF Rewritten, Words
  <2> QED
    BY <2>1, <2>3, <2>4, <2>5, <2>6 DEF OthersWritten
<1>4. AtRest(owner, link, pf)'
  <2>1. /\ Sound(owner, link', pf')
        /\ RedsBelowBlacks(owner, pf', NULL)
        /\ \A e : Balanced(owner, link', pf', NULL, e)
    BY <1>1, <1>3, OthersDoNotMatter DEF AtRest
  <2> QED
    BY <2>1 DEF AtRest
<1>5. CallerOK'
  BY <1>2 DEF IInv, CallerOK, Rewritten
<1> QED
  BY <1>4, <1>5

\* c_rbnode_init at the end of c_rbnode_unlink keeps the invariant.
LEMMA ReinitKeeps ==
  ASSUME IInv, Reinit
  PROVE  IInv'
<1>1. /\ pc = "init" /\ link' = [link EXCEPT ![victim] = NoLinks]
      /\ pf' = c_rbnode_set_parent_and_flags(pf, victim, victim, {})
      /\ stale' = stale \ {victim} /\ owner' = owner
  BY DEF Reinit
<1>2. victim \in Node /\ owner[victim] = NULL
  BY <1>1 DEF IInv, Initialising
<1>3. AtRest(owner, link, pf)' /\ CallerOK'
  BY <1>1, <1>2, NodeReset
<1>4. /\ pc' = "idle" /\ call' \in Removals \cup {"none"}
      /\ victim' \in Pointer /\ cur' \in Pointer /\ prev' \in Pointer
  BY DEF Reinit, Return, Pointer
<1> QED
  BY <1>3, <1>4, Returned

\* So does c_rbnode_init called by the user.
LEMMA InitKeeps ==
  ASSUME IInv, NEW n \in Node, c_rbnode_init(n)
  PROVE  IInv'
<1>1. /\ pc = "idle" /\ link' = [link EXCEPT ![n] = NoLinks]
      /\ pf' = c_rbnode_set_parent_and_flags(pf, n, n, {})
      /\ stale' = stale \ {n} /\ owner' = owner /\ owner[n] = NULL
      /\ UNCHANGED locals
  BY DEF c_rbnode_init, Idle
<1>2. AtRest(owner, link, pf)' /\ CallerOK'
  BY <1>1, NodeReset
<1>3. /\ pc' = "idle" /\ call' \in Removals \cup {"none"}
      /\ victim' \in Pointer /\ cur' \in Pointer /\ prev' \in Pointer
  BY <1>1 DEF IInv, LocalsOK, locals
<1> QED
  BY <1>2, <1>3, Returned

\* So does c_rbtree_move.
LEMMA MoveKeeps ==
  ASSUME IInv, NEW to \in Tree, NEW from \in Tree, c_rbtree_move(to, from)
  PROVE  IInv'
<1> DEFINE r == link[from]["root"]
           w1 == c_rbnode_pop_root(pf, r)
<1>1. /\ pc = "idle" /\ link[to]["root"] = NULL /\ r # NULL
      /\ link' = MovedLinks(link, to, from, r)
      /\ pf' = c_rbnode_push_root(w1, r, to)
      /\ owner' = MovedOwners(owner, to, from)
      /\ stale' = stale /\ UNCHANGED locals
  BY DEF c_rbtree_move, Idle, MovedLinks, MovedOwners
<1>2. AtRest(owner, link, pf) /\ pf \in Words /\ link \in Memory /\ owner \in Owners
  BY <1>1, RestWhenQuiet, InUseFacts
<1>3. r \in Node /\ r \in Owned(owner) /\ c_rbnode_is_root(pf, r)
  <2>1. "root" \in Side /\ from \in Holder(owner)
    BY Sides DEF Holder
  <2>2. r \in Node
    BY <2>1, <1>1, <1>2 DEF Memory, Pointer
  <2>3. owner[r] = Home(owner, from) /\ c_rbnode_is_root(pf, r)
    BY <2>1, <1>1, <1>2 DEF AtRest, Sound, Consistent, ChildrenKnowParent
  <2> QED
    BY <2>2, <2>3, DistinctAddresses DEF Home, Owned
<1> HIDE DEF r
<1>4. MovedWords(pf, pf', to, r)
  <2>1. Rewritten(pf, w1, r, NULL, FALSE, c_rbnode_is_red(pf, r))
    BY <1>2, <1>3, PopFacts DEF Rewritten
  <2> HIDE DEF w1
  <2>2. Rewritten(w1, pf', r, to, TRUE, c_rbnode_is_red(w1, r))
    <3>1. to \in Tree \cup {NULL} /\ to # NULL
      BY DistinctAddresses
    <3>2. w1 \in Words
      BY <2>1 DEF Rewritten
    <3>3. Rewritten(w1, c_rbnode_push_root(w1, r, to), r, IF to # NULL THEN to ELSE w1[r].raw,
                    to # NULL \/ c_rbnode_is_root(w1, r), c_rbnode_is_red(w1, r))
      BY <3>1, <3>2, <1>3, PushFacts
    <3> QED
      BY <3>1, <3>3, <1>1 DEF Rewritten
  <2> QED
    BY <2>1, <2>2, <1>3 DEF Rewritten, MovedWords, Words
<1>5. AtRest(owner', link', pf')
  <2>1. r = link[from]["root"]
    BY DEF r
  <2> QED
    BY <2>1, <1>1, <1>2, <1>3, <1>4, RootMoved DEF AtRest
<1>6. \A k \in Node : owner'[k] = NULL => owner[k] = NULL
  BY <1>1, DistinctAddresses DEF MovedOwners
<1>7. CallerOK'
  BY <1>1, <1>3, <1>4, <1>6 DEF IInv, CallerOK, MovedWords, Owned
<1>8. /\ pc' = "idle" /\ call' \in Removals \cup {"none"}
      /\ victim' \in Pointer /\ cur' \in Pointer /\ prev' \in Pointer
  BY <1>1 DEF IInv, LocalsOK, locals
<1>9. AtRest(owner, link, pf)'
  BY <1>5 DEF AtRest
<1> QED
  BY <1>7, <1>8, <1>9, Returned

\* And so does c_rbtree_init.
LEMMA TreeInitKeeps ==
  ASSUME IInv, NEW t \in Tree, c_rbtree_init(t)
  PROVE  IInv'
<1>1. /\ pc = "idle" /\ link' = [link EXCEPT ![t] = NoLinks] /\ pf' = pf
      /\ owner' = DroppedOwners(owner, t)
      /\ stale' = stale \cup {n \in Node : owner[n] = t} /\ UNCHANGED locals
  BY DEF c_rbtree_init, Idle, DroppedOwners
<1>2. AtRest(owner, link, pf)
  BY <1>1, RestWhenQuiet
<1>3. AtRest(owner', link', pf')
  BY <1>1, <1>2, TreeDropped DEF AtRest
<1>4. AtRest(owner, link, pf)'
  BY <1>3 DEF AtRest
<1>5. \A k \in Node : owner'[k] = IF owner[k] = t THEN NULL ELSE owner[k]
  BY <1>1 DEF DroppedOwners
<1>6. CallerOK'
  BY <1>1, <1>5 DEF IInv, CallerOK
<1>7. /\ pc' = "idle" /\ call' \in Removals \cup {"none"}
      /\ victim' \in Pointer /\ cur' \in Pointer /\ prev' \in Pointer
  BY <1>1 DEF IInv, LocalsOK, locals
<1> QED
  BY <1>4, <1>6, <1>7, Returned

-----------------------------------------------------------------------------
(* Rebalancing *)

\* The sibling of the hole is not also the parent of cur.
LEMMA HoleNotAbove ==
  ASSUME NEW o, NEW m, NEW w, Sound(o, m, w), RedsBelowBlacks(o, w, NULL),
         NEW p \in Owned(o), NEW s \in Owned(o), NEW d \in Dir,
         Balanced(o, m, w, p, d), m[p][Other(d)] = s
  PROVE  w[p].raw # s
<1>1. SUFFICES ASSUME w[p].raw = s
               PROVE  FALSE
  OBVIOUS
<1>2. PICK h \in Heights : HeightsAgree(o, m, w, h, p, d)
  BY DEF Balanced
<1>3. /\ p \in Node /\ s \in Node /\ s # NULL /\ p # NULL /\ s \notin Tree
      /\ Other(d) \in Dir /\ Other(d) # d
  BY Sides, DistinctAddresses DEF Owned
<1>4. s # p /\ w[s].raw = p /\ ~c_rbnode_is_root(w, s)
  BY <1>3, ChildFacts
<1>5. PICK b \in Dir : m[s][b] = p
  BY <1>1, <1>3, ParentFacts
<1>6. h[p] \in Nat /\ h[s] \in Nat
  BY <1>2, <1>3 DEF Heights
<1>7. h[p] = h[s] + (IF c_rbnode_is_red(w, p) THEN 0 ELSE 1)
  <2>1. h[p] = HeightOf(h, m[p][Other(d)]) + (IF p = p /\ Other(d) = d THEN 1 ELSE 0)
                 + (IF c_rbnode_is_red(w, p) THEN 0 ELSE 1)
    BY <1>2, <1>3, HeightBelow
  <2> QED
    BY <2>1, <1>3, <1>6 DEF HeightOf
<1>8. h[s] = h[p] + (IF c_rbnode_is_red(w, s) THEN 0 ELSE 1)
  <2>1. h[s] = HeightOf(h, m[s][b]) + (IF s = p /\ b = d THEN 1 ELSE 0)
                 + (IF c_rbnode_is_red(w, s) THEN 0 ELSE 1)
    BY <1>2, HeightBelow
  <2> QED
    BY <2>1, <1>3, <1>4, <1>5, <1>6 DEF HeightOf
<1>9. c_rbnode_is_red(w, p) /\ c_rbnode_is_red(w, s)
  BY <1>6, <1>7, <1>8
<1>10. ~c_rbnode_is_red(w, p)
  BY <1>3, <1>4, <1>9 DEF RedsBelowBlacks, c_rbnode_is_black, c_rbnode_is_red, c_rbnode_raw
<1> QED
  BY <1>9, <1>10

\* A side that lacks a black node has a sibling, and a red one has children.
LEMMA SiblingThere ==
  ASSUME NEW o, NEW m, NEW w, Sound(o, m, w), RedsBelowBlacks(o, w, NULL),
         NEW p \in Owned(o), NEW d \in Dir, Balanced(o, m, w, p, d)
  PROVE  /\ m[p][Other(d)] # NULL
         /\ c_rbnode_is_red(w, m[p][Other(d)]) =>
              \A b \in Dir : /\ m[m[p][Other(d)]][b] # NULL
                             /\ ~c_rbnode_is_red(w, m[m[p][Other(d)]][b])
<1> DEFINE s == m[p][Other(d)]
<1>1. PICK h \in Heights : HeightsAgree(o, m, w, h, p, d)
  BY DEF Balanced
<1>2. Other(d) \in Dir /\ Other(d) # d
  BY Sides
<1>3. /\ h[p] \in Nat /\ HeightOf(h, s) \in Nat /\ HeightOf(h, m[p][d]) \in Nat
      /\ HeightOf(h, s) = HeightOf(h, m[p][d]) + 1
  <2>1. /\ h[p] \in Nat /\ HeightOf(h, s) \in Nat
        /\ h[p] = HeightOf(h, s) + (IF p = p /\ Other(d) = d THEN 1 ELSE 0)
                    + (IF c_rbnode_is_red(w, p) THEN 0 ELSE 1)
    BY <1>1, <1>2, HeightBelow
  <2>2. /\ HeightOf(h, m[p][d]) \in Nat
        /\ h[p] = HeightOf(h, m[p][d]) + (IF p = p /\ d = d THEN 1 ELSE 0)
                    + (IF c_rbnode_is_red(w, p) THEN 0 ELSE 1)
    BY <1>1, HeightBelow
  <2> HIDE DEF s
  <2> QED
    BY <1>2, <2>1, <2>2
<1>4. s # NULL
  BY <1>3 DEF HeightOf
<1>5. s \in Owned(o) /\ s # p
  BY <1>2, <1>4, ChildFacts
<1>6. ASSUME c_rbnode_is_red(w, s), NEW b \in Dir
      PROVE  m[s][b] # NULL /\ ~c_rbnode_is_red(w, m[s][b])
  <2>1. h[s] = HeightOf(h, s)
    BY <1>4 DEF HeightOf
  <2>2. /\ HeightOf(h, m[s][b]) \in Nat
        /\ h[s] = HeightOf(h, m[s][b]) + (IF s = p /\ b = d THEN 1 ELSE 0)
                    + (IF c_rbnode_is_red(w, s) THEN 0 ELSE 1)
    BY <1>1, <1>5, HeightBelow
  <2> HIDE DEF s
  <2>3. HeightOf(h, m[s][b]) # 0
    BY <1>3, <1>5, <1>6, <2>1, <2>2
  <2>4. m[s][b] # NULL
    BY <2>3 DEF HeightOf
  <2>5. m[s][b] \in Owned(o) /\ w[m[s][b]].raw = s /\ ~c_rbnode_is_root(w, m[s][b])
    BY <1>5, <2>4, ChildFacts
  <2>6. ~c_rbnode_is_red(w, m[s][b])
    BY <1>6, <2>5, DistinctAddresses
       DEF RedsBelowBlacks, c_rbnode_is_black, c_rbnode_is_red, c_rbnode_raw, Owned
  <2> QED
    BY <2>4, <2>6
<1> QED
  BY <1>4, <1>6

\* The neighbours of the hole.
LEMMA HoleNeighbours ==
  ASSUME IInv, pc \in {"rebalance", "rotate"}, cur # NULL,
         NEW d, d = HoleSide, NEW s, s = Sibling
  PROVE  /\ Sound(owner, link, pf) /\ RedsBelowBlacks(owner, pf, NULL)
         /\ Balanced(owner, link, pf, cur, d)
         /\ cur \in Owned(owner) /\ cur \in Node /\ d \in Dir
         /\ Other(d) \in Dir /\ Other(d) # d /\ Other(Other(d)) = d
         /\ prev = link[cur][d] /\ link[cur][Other(d)] = s
         /\ s \in Owned(owner) /\ s \in Node /\ s # cur /\ s # prev
         /\ pf[s].raw = cur /\ ~c_rbnode_is_root(pf, s) /\ pf[cur].raw # s
         /\ prev # NULL => ~c_rbnode_is_red(pf, prev)
<1>1. /\ Sound(owner, link, pf) /\ RedsBelowBlacks(owner, pf, NULL)
      /\ Balanced(owner, link, pf, cur, HoleSide)
      /\ cur \in Owned(owner) /\ prev = link[cur][HoleSide]
      /\ prev # NULL => ~c_rbnode_is_red(pf, prev)
  BY DEF IInv, Hole, NoRedRed, Rebalancing, InUse
<1>2. d \in Dir
  BY DEF HoleSide, SideOf, Dir
<1>3. Other(d) \in Dir /\ Other(d) # d /\ Other(Other(d)) = d
  BY <1>2, Sides
<1>4. link[cur][Other(d)] = s
  BY DEF Sibling
<1>5. s # NULL
  BY <1>1, <1>2, <1>4, SiblingThere
<1>6. /\ s \in Owned(owner) /\ s \in Node /\ s # cur /\ s # link[cur][d]
      /\ pf[s].raw = cur /\ ~c_rbnode_is_root(pf, s)
  BY <1>1, <1>3, <1>4, <1>5, ChildFacts
<1>7. pf[cur].raw # s
  BY <1>1, <1>2, <1>4, <1>6, HoleNotAbove
<1> QED
  BY <1>1, <1>2, <1>3, <1>4, <1>6, <1>7, ParentFacts

\* Nephews that need no rotation are not red.
LEMMA NephewsBlack ==
  ASSUME NEW d, d = HoleSide, d \in Dir, NEW s, s = Sibling, ~MustRotate
  PROVE  /\ ~c_rbnode_is_red(pf, s)
         /\ \A b \in Dir : link[s][b] # NULL => ~c_rbnode_is_red(pf, link[s][b])
<1>1. \A b \in Dir : b = d \/ b = Other(d)
  BY Sides
<1> QED
  BY <1>1 DEF MustRotate, RedNode, NearNephew, FarNephew

\* The words when the sibling is red, and when p is black as well.
SiblingReddened(w, s, p) ==
  c_rbnode_set_parent_and_flags(w, s, p, c_rbnode_flags(w, s) \cup {C_RBNODE_RED})

ParentBlackened(w, s, p) ==
  LET w1 == SiblingReddened(w, s, p)
  IN  Reparent(w1, p, c_rbnode_parent(w1, p), {C_RBNODE_RED})

\* The word of the sibling s, and of cur if it is red, after the recoloring.
LEMMA RecolorWords ==
  ASSUME NEW w \in Words, NEW p \in Node, NEW s \in Node, s # p,
         w[s].raw = p, ~c_rbnode_is_root(w, s)
  PROVE  /\ Recolored(w, SiblingReddened(w, s, p))
         /\ ~c_rbnode_is_red(w, p) => Repainted(w, SiblingReddened(w, s, p), {p}, {s})
         /\ c_rbnode_parent(SiblingReddened(w, s, p), p) = c_rbnode_parent(w, p)
         /\ c_rbnode_is_red(SiblingReddened(w, s, p), p) <=> c_rbnode_is_red(w, p)
         /\ ~c_rbnode_is_root(w, p) =>
              Recolored(w, ParentBlackened(w, s, p)) /\ Repainted(w, ParentBlackened(w, s, p), {p}, {s})
<1> DEFINE w1 == SiblingReddened(w, s, p)
           w2 == ParentBlackened(w, s, p)
           f == c_rbnode_flags(w, s) \cup {C_RBNODE_RED}
<1>1. Rewritten(w, w1, s, p, FALSE, TRUE)
  <2>1. /\ f \in SUBSET {C_RBNODE_RED, C_RBNODE_ROOT} /\ C_RBNODE_RED \in f
        /\ C_RBNODE_ROOT \notin f /\ p \in Raw
    BY FlagsFacts DEF Raw
  <2>2. w1 = c_rbnode_set_parent_and_flags(w, s, p, f)
    BY DEF SiblingReddened
  <2> HIDE DEF f
  <2>3. Rewritten(w, w1, s, p, C_RBNODE_ROOT \in f, C_RBNODE_RED \in f)
    BY <2>1, <2>2, SetFacts
  <2> QED
    BY <2>1, <2>3 DEF Rewritten
<1> HIDE DEF w1, w2
<1>2. Recolored(w, w1)
  BY <1>1 DEF Rewritten, Recolored, Words
<1>3. ~c_rbnode_is_red(w, p) => Repainted(w, w1, {p}, {s})
  BY <1>1 DEF Rewritten, Repainted
<1>4. /\ c_rbnode_is_root(w1, p) <=> c_rbnode_is_root(w, p)
      /\ w1[p].raw = w[p].raw
      /\ c_rbnode_is_red(w1, p) <=> c_rbnode_is_red(w, p)
  BY <1>1 DEF Rewritten
<1>5. c_rbnode_parent(w1, p) = c_rbnode_parent(w, p)
  BY <1>4 DEF c_rbnode_parent
<1>6. ASSUME ~c_rbnode_is_root(w, p)
      PROVE  Recolored(w, w2) /\ Repainted(w, w2, {p}, {s})
  <2>1. c_rbnode_parent(w1, p) = w[p].raw /\ w[p].raw \in Raw
    BY <1>4, <1>6, FlagsFacts DEF c_rbnode_parent, c_rbnode_raw
  <2>2. Rewritten(w1, w2, p, w[p].raw, FALSE, FALSE)
    <3>1. w1 \in Words /\ p \in Pointer /\ {C_RBNODE_RED} \in SUBSET {C_RBNODE_RED}
      BY <1>1 DEF Rewritten, Pointer
    <3> DEFINE v == Reparent(w1, p, w[p].raw, {C_RBNODE_RED})
    <3>2. w2 = v
      BY <2>1 DEF ParentBlackened, w1, w2
    <3>3. Rewritten(w1, v, p, w[p].raw,
                    c_rbnode_is_root(w1, p), C_RBNODE_RED \notin {C_RBNODE_RED} /\ c_rbnode_is_red(w1, p))
      BY <2>1, <3>1, ReparentFacts
    <3> QED
      BY <3>2, <3>3, <1>4, <1>6 DEF Rewritten
  <2> QED
    BY <1>1, <2>2, <1>6 DEF Rewritten, Recolored, Repainted, Words
<1> QED
  BY <1>2, <1>3, <1>4, <1>5, <1>6 DEF w1, w2

\* Cases 3 and 4: the sibling turns red and a red cur black, which ends the call.
LEMMA RecolorEnds ==
  ASSUME IInv, pc \in {"rebalance", "rotate"}, cur # NULL, ~MustRotate, c_rbnode_is_red(pf, cur),
         pf' = ParentBlackened(pf, Sibling, cur),
         Unlinked(call, victim), UNCHANGED <<link, caller>>
  PROVE  IInv'
<1> DEFINE d == HoleSide
           s == Sibling
<1>1. /\ Sound(owner, link, pf) /\ RedsBelowBlacks(owner, pf, NULL)
      /\ Balanced(owner, link, pf, cur, d)
      /\ cur \in Owned(owner) /\ cur \in Node /\ d \in Dir
      /\ link[cur][Other(d)] = s
      /\ s \in Owned(owner) /\ s \in Node /\ s # cur
      /\ pf[s].raw = cur /\ ~c_rbnode_is_root(pf, s)
  BY HoleNeighbours
<1>2. /\ ~c_rbnode_is_red(pf, s)
      /\ \A b \in Dir : link[s][b] # NULL => ~c_rbnode_is_red(pf, link[s][b])
  BY <1>1, NephewsBlack
<1>3. pf \in Words
  BY InUseFacts
<1> HIDE DEF d, s
<1>4. ~c_rbnode_is_root(pf, cur)
  BY <1>1, DistinctAddresses DEF RedsBelowBlacks
<1>5. Recolored(pf, pf') /\ Repainted(pf, pf', {cur}, {s})
  <2>1. pf' = ParentBlackened(pf, s, cur)
    BY DEF s
  <2> QED
    BY <2>1, <1>1, <1>3, <1>4, RecolorWords
<1>6. /\ RedsBelowBlacks(owner, pf', NULL)
      /\ \A e2 : Balanced(owner, link, pf', NULL, e2)
      /\ Sound(owner, link, pf')
  BY <1>1, <1>2, <1>5, SiblingRecolored, RecoloredConsistent
<1>7. CallerOK'
  BY <1>5, CallerKept DEF Recolored, Words
<1>8. AtRest(owner, link, pf)'
  BY <1>6 DEF AtRest, caller
<1>9. LocalsOK /\ victim \in Node /\ owner'[victim] = NULL /\ call \in Removals \cup {"none"}
  BY DEF IInv, Rebalancing, caller, LocalsOK
<1> QED
  BY <1>7, <1>8, <1>9, Finished

\* Recoloring after a rotation: cur is red, so the call ends.
LEMMA RotateRecolorKeeps ==
  ASSUME IInv, RotateRecolor
  PROVE  IInv'
<1>1. /\ pc = "rotate" /\ ~MustRotate /\ Unlinked(call, victim) /\ UNCHANGED <<link, caller>>
      /\ pf' = ParentBlackened(pf, Sibling, cur)
  BY DEF RotateRecolor, SiblingReddened, ParentBlackened
<1>2. cur # NULL /\ c_rbnode_is_red(pf, cur)
  BY <1>1 DEF IInv, Rebalancing
<1> QED
  BY <1>1, <1>2, RecolorEnds

\* Recoloring in the loop: the hole moves up to the parent of cur, or is gone.
LEMMA RebalanceRecolorKeeps ==
  ASSUME IInv, RebalanceRecolor
  PROVE  IInv'
<1> DEFINE d  == HoleSide
           s  == Sibling
           w1 == SiblingReddened(pf, s, cur)
           q  == c_rbnode_parent(pf, cur)
<1>1. /\ Sound(owner, link, pf) /\ RedsBelowBlacks(owner, pf, NULL)
      /\ Balanced(owner, link, pf, cur, d)
      /\ cur \in Owned(owner) /\ cur \in Node /\ d \in Dir
      /\ link[cur][Other(d)] = s
      /\ s \in Owned(owner) /\ s \in Node /\ s # cur
      /\ pf[s].raw = cur /\ ~c_rbnode_is_root(pf, s)
  BY HoleNeighbours DEF RebalanceRecolor
<1>2. /\ ~c_rbnode_is_red(pf, s)
      /\ \A b \in Dir : link[s][b] # NULL => ~c_rbnode_is_red(pf, link[s][b])
  BY <1>1, NephewsBlack DEF RebalanceRecolor
<1>3. pf \in Words /\ pc = "rebalance" /\ cur # NULL /\ ~MustRotate
  BY InUseFacts DEF RebalanceRecolor
<1> HIDE DEF w1
<1>4. /\ Recolored(pf, w1)
      /\ ~c_rbnode_is_red(pf, cur) => Repainted(pf, w1, {cur}, {s})
      /\ c_rbnode_parent(w1, cur) = q
      /\ c_rbnode_is_red(w1, cur) <=> c_rbnode_is_red(pf, cur)
  <2> HIDE DEF s
  <2> QED
    BY <1>1, <1>3, RecolorWords DEF w1
<1>5. CASE c_rbnode_is_red(pf, cur)
  <2>1. /\ pf' = ParentBlackened(pf, Sibling, cur)
        /\ Unlinked(call, victim) /\ UNCHANGED <<link, caller>>
    BY <1>4, <1>5 DEF RebalanceRecolor, SiblingReddened, ParentBlackened, w1
  <2> QED
    BY <2>1, <1>3, <1>5, RecolorEnds
<1>6. CASE ~c_rbnode_is_red(pf, cur)
  <2>1. /\ pf' = w1 /\ prev' = cur /\ pc' = "rebalance" /\ cur' = q
        /\ call' = call /\ victim' = victim /\ link' = link /\ owner' = owner /\ stale' = stale
    BY <1>4, <1>6 DEF RebalanceRecolor, Continue, caller, SiblingReddened, w1
  <2> HIDE DEF d, s
  <2>2. /\ RedsBelowBlacks(owner, w1, NULL)
        /\ c_rbnode_is_root(pf, cur) => \A e2 : Balanced(owner, link, w1, NULL, e2)
        /\ \A r \in Owned(owner), e2 \in Dir : link[r][e2] = cur => Balanced(owner, link, w1, r, e2)
        /\ Sound(owner, link, w1)
    BY <1>1, <1>2, <1>4, <1>6, SiblingRecolored, RecoloredConsistent
  <2>3. CallerOK'
    <3>1. UNCHANGED caller
      BY <2>1 DEF caller
    <3> QED
      BY <3>1, <2>1, <1>4, CallerKept DEF Recolored, Words
  <2>4. NoRedRed' /\ Sound(owner, link, pf)'
    BY <2>1, <2>2 DEF NoRedRed
  <2>5. Painting' /\ Searching' /\ Initialising'
    BY <2>1 DEF Painting, Searching, Initialising
  <2>6. cur \in Pointer /\ cur # NULL
    BY <1>1, <1>3 DEF Pointer
  <2>7. CASE c_rbnode_is_root(pf, cur)
    <3>1. q = NULL
      BY <2>7 DEF c_rbnode_parent
    <3> HIDE DEF q
    <3>2. Balanced(owner, link, pf, Hole, HoleSide)'
      BY <3>1, <2>1, <2>2, <2>7 DEF Hole
    <3>3. LocalsOK'
      BY <3>1, <2>1, <2>6 DEF IInv, LocalsOK, Pointer
    <3>4. Rebalancing'
      <4>1. ~c_rbnode_is_red(w1, cur)
        BY <1>4, <1>6
      <4> QED
        BY <3>1, <4>1, <2>1, <1>3 DEF IInv, Rebalancing
    <3> QED
      BY <2>3, <2>4, <2>5, <3>2, <3>3, <3>4 DEF IInv
  <2>8. CASE ~c_rbnode_is_root(pf, cur)
    <3>1. q = pf[cur].raw
      BY <2>8 DEF c_rbnode_parent, c_rbnode_raw
    <3>2. q \in Owned(owner) /\ q \in Node /\ \E b \in Dir : link[q][b] = cur
      BY <3>1, <2>8, <1>1, ParentFacts
    <3> HIDE DEF q
    <3>3. PICK b \in Dir : link[q][b] = cur
      BY <3>2
    <3>4. HoleSide' = b
      <4>1. SideOf(link, q, cur) = b
        BY <3>2, <3>3, <2>6, <1>1, SideAt
      <4> QED
        BY <4>1, <2>1 DEF HoleSide
    <3>5. Balanced(owner, link, pf, Hole, HoleSide)'
      BY <3>2, <3>3, <3>4, <2>1, <2>2 DEF Hole
    <3>6. LocalsOK'
      BY <3>2, <2>1, <2>6 DEF IInv, LocalsOK, Pointer
    <3>7. Rebalancing'
      <4>1. ~c_rbnode_is_red(w1, cur)
        BY <1>4, <1>6
      <4> QED
        BY <3>2, <3>3, <3>4, <4>1, <2>1, <1>3 DEF IInv, Rebalancing, InUse
    <3> QED
      BY <2>3, <2>4, <2>5, <3>5, <3>6, <3>7 DEF IInv
  <2> QED
    BY <2>7, <2>8
<1> QED
  BY <1>5, <1>6

\* The hand-over from c_rbnode_rebalance_path to c_rbnode_rebalance_terminal.
LEMMA RebalanceFoundKeeps ==
  ASSUME IInv, RebalanceFound
  PROVE  IInv'
<1>1. /\ pc = "rebalance" /\ cur # NULL /\ MustRotate
      /\ pc' = "rotate" /\ cur' = cur /\ call' = call /\ victim' = victim /\ prev' = prev
      /\ link' = link /\ pf' = pf /\ owner' = owner /\ stale' = stale
  BY DEF RebalanceFound, Continue, memory, caller
<1>2. HoleSide' = HoleSide
  BY <1>1 DEF HoleSide
<1>3. MustRotate'
  BY <1>1, <1>2 DEF MustRotate, NearNephew, FarNephew, Sibling
<1>4. Balanced(owner, link, pf, Hole, HoleSide)'
  BY <1>1, <1>2 DEF IInv, Hole
<1>5. NoRedRed' /\ Sound(owner, link, pf)' /\ CallerOK' /\ LocalsOK'
  BY <1>1 DEF IInv, NoRedRed, CallerOK, LocalsOK
<1>6. Painting' /\ Searching' /\ Initialising'
  BY <1>1 DEF Painting, Searching, Initialising
<1>7. Rebalancing'
  BY <1>1, <1>2, <1>3 DEF IInv, Rebalancing, InUse
<1> QED
  BY <1>4, <1>5, <1>6, <1>7 DEF IInv

\* The children of the sibling.
LEMMA Nephews ==
  ASSUME NEW o, NEW m, NEW w, Sound(o, m, w), NEW p \in Owned(o), NEW s \in Owned(o),
         w[p].raw # s, NEW b \in Dir
  PROVE  /\ m[s][b] \in Pointer /\ m[s][b] # p /\ m[s][b] # s /\ m[s][b] \notin Tree
         /\ m[s][b] # NULL => /\ m[s][b] \in Owned(o) /\ m[s][b] \in Node
                              /\ w[m[s][b]].raw = s /\ ~c_rbnode_is_root(w, m[s][b])
                              /\ m[s][b] # m[s][Other(b)]
<1>1. s \in Node /\ s # NULL /\ p # NULL
  BY ParentFacts
<1>2. m[s][b] \in Pointer /\ m[s][b] \notin Tree
  BY <1>1, Sides, DistinctAddresses DEF Sound, Memory, Pointer
<1>3. CASE m[s][b] = NULL
  BY <1>1, <1>2, <1>3
<1>4. CASE m[s][b] # NULL
  <2>1. /\ m[s][b] \in Owned(o) /\ m[s][b] \in Node /\ m[s][b] # s
        /\ w[m[s][b]].raw = s /\ ~c_rbnode_is_root(w, m[s][b])
        /\ m[s][b] # m[s][Other(b)]
    BY <1>4, ChildFacts
  <2> QED
    BY <1>2, <2>1
<1> QED
  BY <1>3, <1>4

\* Case 2: the hole stays with cur, which is red now and has a black sibling.
LEMMA RotateRedSiblingKeeps ==
  ASSUME IInv, RotateRedSibling
  PROVE  IInv'
<1> DEFINE d == HoleSide
           s == Sibling
           w2 == RotateRedSiblingWord(link, pf, cur, s, d)
<1>1. /\ pc = "rotate" /\ c_rbnode_is_red(pf, s)
      /\ link' = RotateSiblingLink(link, cur, s, d)
      /\ pf' = w2
      /\ pc' = "rotate" /\ cur' = cur /\ call' = call /\ victim' = victim /\ prev' = prev
      /\ owner' = owner /\ stale' = stale
  BY DEF RotateRedSibling, Continue, caller
<1>2. cur # NULL /\ pf \in Words
  BY <1>1, InUseFacts DEF IInv, Rebalancing
<1>3. /\ Sound(owner, link, pf) /\ RedsBelowBlacks(owner, pf, NULL)
      /\ Balanced(owner, link, pf, cur, d)
      /\ cur \in Owned(owner) /\ cur \in Node /\ d \in Dir
      /\ Other(d) \in Dir /\ Other(d) # d /\ Other(Other(d)) = d
      /\ prev = link[cur][d] /\ link[cur][Other(d)] = s
      /\ s \in Owned(owner) /\ s \in Node /\ s # cur /\ s # prev
      /\ pf[s].raw = cur /\ ~c_rbnode_is_root(pf, s) /\ pf[cur].raw # s
      /\ prev # NULL => ~c_rbnode_is_red(pf, prev)
  BY <1>1, <1>2, HoleNeighbours
<1> HIDE DEF d, s
<1>4. link[s][d] \in Pointer /\ link[s][d] # cur /\ link[s][d] # s
  BY <1>3, Nephews
<1>5. WellHeld(pf, cur)
  BY <1>3, HeldWell
<1>6. /\ RotatedWords(link, pf, w2, cur, Other(d), s)
      /\ Repainted(pf, w2, {s, link[s][d]}, {cur})
  BY <1>2, <1>3, <1>4, <1>5, RedSiblingWords
<1> HIDE DEF w2
<1>7. RotatedLinks(link, pf, link', cur, Other(d), s)
  BY <1>1, <1>3 DEF RotatedLinks, RotateSiblingLink
<1>8. /\ Sound(owner, link', w2)
      /\ RedsBelowBlacks(owner, w2, NULL)
      /\ Balanced(owner, link', w2, cur, d)
      /\ link'[cur][d] = link[cur][d] /\ link'[cur][Other(d)] = link[s][d]
      /\ link[s][d] # NULL
      /\ c_rbnode_is_red(w2, cur)
  <2>1. link[cur][d] # NULL => ~c_rbnode_is_red(pf, link[cur][d])
    BY <1>3
  <2>2. c_rbnode_is_red(pf, s)
    BY <1>1
  <2> QED
    BY <2>1, <2>2, <1>3, <1>6, <1>7, RedSiblingRotation
<1>9. CallerOK'
  <2>1. Rotatable(owner, link, pf, cur, Other(d), s)
    BY <1>3 DEF Rotatable
  <2>2. UNCHANGED caller
    BY <1>1 DEF caller
  <2> QED
    BY <2>1, <2>2, <1>1, <1>3, <1>6, <1>8, RotationForOthers, CallerKept DEF Sound, Words
<1>10. HoleSide' = d
  <2>1. SideOf(link', cur, prev) = d
    BY <1>3, <1>8, SideAt
  <2> QED
    BY <2>1, <1>1 DEF HoleSide
<1>11. prev # NULL => ~c_rbnode_is_red(pf', prev)
  <2>1. prev # NULL => prev \in Node /\ prev # cur
    BY <1>3, ChildFacts
  <2> QED
    BY <2>1, <1>1, <1>3, <1>6 DEF Repainted
<1>12. NoRedRed' /\ Sound(owner, link, pf)' /\ Balanced(owner, link, pf, Hole, HoleSide)'
  BY <1>1, <1>8, <1>10 DEF NoRedRed, Hole
<1>13. LocalsOK' /\ Painting' /\ Searching' /\ Initialising'
  BY <1>1 DEF IInv, LocalsOK, Painting, Searching, Initialising
<1>14. Rebalancing'
  BY <1>1, <1>2, <1>3, <1>8, <1>10, <1>11 DEF IInv, Rebalancing, InUse
<1> QED
  BY <1>9, <1>12, <1>13, <1>14 DEF IInv

\* What is left to show when a rotation ends the call.
LEMMA RotationEnds ==
  ASSUME IInv, pc = "rotate", UNCHANGED caller, Unlinked(call, victim),
         Sound(owner, link', pf'), RedsBelowBlacks(owner, pf', NULL),
         \A e2 : Balanced(owner, link', pf', NULL, e2),
         \A k \in Node : owner[k] = NULL =>
           pf'[k].raw = pf[k].raw /\ (c_rbnode_is_root(pf', k) <=> c_rbnode_is_root(pf, k))
  PROVE  IInv'
<1>1. CallerOK'
  BY CallerKept DEF Sound, Words
<1>2. AtRest(owner, link, pf)'
  BY DEF AtRest, caller
<1>3. LocalsOK /\ victim \in Node /\ owner'[victim] = NULL /\ call \in Removals \cup {"none"}
  BY DEF IInv, Rebalancing, caller, LocalsOK
<1> QED
  BY <1>1, <1>2, <1>3, Finished

\* Case 6 fills the hole.
LEMMA RotateSiblingKeeps ==
  ASSUME IInv, RotateSibling
  PROVE  IInv'
<1> DEFINE d == HoleSide
           s == Sibling
           f == FarNephew
           w2 == RotateSiblingWord(link, pf, cur, s, f, d)
<1>1. /\ pc = "rotate" /\ ~c_rbnode_is_red(pf, s)
      /\ f # NULL /\ c_rbnode_is_red(pf, f)
      /\ link' = RotateSiblingLink(link, cur, s, d)
      /\ pf' = w2
      /\ Unlinked(call, victim) /\ UNCHANGED caller
  BY DEF RotateSibling, RedNode, c_rbnode_is_black, c_rbnode_is_red
<1>2. cur # NULL /\ pf \in Words
  BY <1>1, InUseFacts DEF IInv, Rebalancing
<1>3. /\ Sound(owner, link, pf) /\ RedsBelowBlacks(owner, pf, NULL)
      /\ Balanced(owner, link, pf, cur, d)
      /\ cur \in Owned(owner) /\ cur \in Node /\ d \in Dir
      /\ Other(d) \in Dir /\ Other(d) # d /\ Other(Other(d)) = d
      /\ link[cur][Other(d)] = s
      /\ s \in Owned(owner) /\ s \in Node /\ s # cur
      /\ pf[s].raw = cur /\ ~c_rbnode_is_root(pf, s) /\ pf[cur].raw # s
  BY <1>1, <1>2, HoleNeighbours
<1>4. link[s][Other(d)] = f
  BY DEF FarNephew
<1> HIDE DEF d, s, f
<1>5. link[s][d] \in Pointer /\ link[s][d] # cur /\ link[s][d] # s
  BY <1>3, Nephews
<1>6. /\ f \in Owned(owner) /\ f \in Node /\ f # cur /\ f # s
      /\ pf[f].raw = s /\ ~c_rbnode_is_root(pf, f) /\ f # link[s][d]
  BY <1>1, <1>3, <1>4, Nephews
<1>7. WellHeld(pf, cur)
  BY <1>3, HeldWell
<1>8. SiblingWritten(link, pf, w2, cur, s, f, d)
  BY <1>2, <1>3, <1>5, <1>6, <1>7, SiblingWords
<1> HIDE DEF w2
<1>9. RotatedWords(link, pf, w2, cur, Other(d), s)
  BY <1>3, <1>6, <1>8 DEF RotatedWords, SiblingWritten, Words
<1>10. Repainted(pf, w2, {cur, s, f}, {k \in {s} : c_rbnode_is_red(pf, cur)})
  BY <1>3, <1>6, <1>8 DEF Repainted, SiblingWritten
<1>11. RotatedLinks(link, pf, link', cur, Other(d), s)
  BY <1>1, <1>3 DEF RotatedLinks, RotateSiblingLink
<1>12. /\ Sound(owner, link', w2)
       /\ RedsBelowBlacks(owner, w2, NULL)
       /\ \A e2 : Balanced(owner, link', w2, NULL, e2)
  BY <1>1, <1>3, <1>4, <1>6, <1>9, <1>10, <1>11, SiblingRotation
<1>13. \A k \in Node : owner[k] = NULL =>
           w2[k].raw = pf[k].raw /\ (c_rbnode_is_root(w2, k) <=> c_rbnode_is_root(pf, k))
  <2>1. Rotatable(owner, link, pf, cur, Other(d), s)
    BY <1>3 DEF Rotatable
  <2> QED
    BY <2>1, <1>3, <1>9, RotationForOthers
<1> QED
  BY <1>1, <1>12, <1>13, RotationEnds

\* Case 5 followed by Case 6 fills it too.
LEMMA RotateNephewKeeps ==
  ASSUME IInv, RotateNephew
  PROVE  IInv'
<1> DEFINE p == cur
           d == HoleSide
           s == Sibling
           y == NearNephew
           x == link[y][Other(d)]
           m0 == [link EXCEPT ![s][d] = x, ![y][Other(d)] = s]
           m1 == [link EXCEPT ![s][d] = x, ![y][Other(d)] = s, ![p][Other(d)] = y]
           w1 == Reparent(pf, x, s, {C_RBNODE_RED})
           wa == c_rbnode_set_parent_and_flags(w1, y, p, {})
           wv == c_rbnode_set_parent_and_flags(wa, s, y, {C_RBNODE_RED})
           w2 == RotateSiblingWord(m1, w1, p, y, s, d)
<1>1. /\ pc = "rotate" /\ ~c_rbnode_is_red(pf, s)
      /\ y # NULL /\ c_rbnode_is_red(pf, y)
      /\ link[s][Other(d)] # NULL => ~c_rbnode_is_red(pf, link[s][Other(d)])
      /\ link' = RotateSiblingLink(m1, p, y, d)
      /\ pf' = w2
      /\ Unlinked(call, victim) /\ UNCHANGED caller
  BY DEF RotateNephew, RedNode, FarNephew, c_rbnode_is_black, c_rbnode_is_red
<1>2. p # NULL /\ pf \in Words /\ link \in Memory
  BY <1>1, InUseFacts DEF IInv, Rebalancing
<1>3. /\ Sound(owner, link, pf) /\ RedsBelowBlacks(owner, pf, NULL)
      /\ Balanced(owner, link, pf, p, d)
      /\ p \in Owned(owner) /\ p \in Node /\ d \in Dir
      /\ Other(d) \in Dir /\ Other(d) # d /\ Other(Other(d)) = d
      /\ link[p][Other(d)] = s
      /\ s \in Owned(owner) /\ s \in Node /\ s # p
      /\ pf[s].raw = p /\ ~c_rbnode_is_root(pf, s) /\ pf[p].raw # s
  BY <1>1, <1>2, HoleNeighbours
<1>4. link[s][d] = y
  BY DEF NearNephew
<1> HIDE DEF p, d, s, y
<1>5. /\ y \in Owned(owner) /\ y \in Node /\ y # p /\ y # s
      /\ pf[y].raw = s /\ ~c_rbnode_is_root(pf, y) /\ y # link[s][Other(d)]
  BY <1>1, <1>3, <1>4, Nephews
<1>6. /\ x \in Pointer /\ x # s /\ x # y /\ x # p
      /\ link[y][d] \in Pointer /\ link[y][d] # s /\ link[y][d] # y /\ link[y][d] # p
  <2>1. \A b \in Dir : /\ link[y][b] \in Pointer /\ link[y][b] # y /\ link[y][b] # s
                       /\ link[y][b] # NULL => pf[link[y][b]].raw = y
    <3>1. pf[s].raw # y
      BY <1>3, <1>5
    <3>2. \A b \in Dir : /\ link[y][b] \in Pointer /\ link[y][b] # y /\ link[y][b] # s
                         /\ link[y][b] # NULL => pf[link[y][b]].raw = y
      BY <3>1, <1>3, <1>5, Nephews
    <3> QED
      BY <3>2
  <2>2. pf[p].raw # y
    <3>1. SUFFICES ASSUME pf[p].raw = y
                   PROVE  FALSE
      OBVIOUS
    <3>2. y \notin Tree
      BY <1>5, DistinctAddresses
    <3>3. PICK b \in Dir : link[y][b] = p
      BY <3>1, <3>2, <1>3, ParentFacts
    <3>4. PICK h \in Heights : HeightsAgree(owner, link, pf, h, p, d)
      BY <1>3 DEF Balanced
    <3>5. /\ h[p] \in Nat /\ h[s] \in Nat /\ h[y] \in Nat
          /\ p # NULL /\ s # NULL /\ y # NULL
      BY <3>4, <1>2, <1>3, <1>5, DistinctAddresses DEF Heights
    <3>6. h[y] = h[p] + 0
      <4>1. h[y] = HeightOf(h, link[y][b]) + (IF y = p /\ b = d THEN 1 ELSE 0)
                     + (IF c_rbnode_is_red(pf, y) THEN 0 ELSE 1)
        BY <3>4, <1>3, <1>5, HeightBelow
      <4> QED
        BY <4>1, <3>3, <3>5, <1>1, <1>5 DEF HeightOf
    <3>7. h[s] = h[y] + 1
      <4>1. h[s] = HeightOf(h, link[s][d]) + (IF s = p /\ d = d THEN 1 ELSE 0)
                     + (IF c_rbnode_is_red(pf, s) THEN 0 ELSE 1)
        BY <3>4, <1>3, HeightBelow
      <4> QED
        BY <4>1, <3>5, <1>1, <1>3, <1>4 DEF HeightOf
    <3>8. h[p] = h[s] + (IF c_rbnode_is_red(pf, p) THEN 0 ELSE 1)
      <4>1. h[p] = HeightOf(h, link[p][Other(d)]) + (IF p = p /\ Other(d) = d THEN 1 ELSE 0)
                     + (IF c_rbnode_is_red(pf, p) THEN 0 ELSE 1)
        BY <3>4, <1>3, HeightBelow
      <4> QED
        BY <4>1, <3>5, <1>3 DEF HeightOf
    <3> QED
      BY <3>5, <3>6, <3>7, <3>8
  <2>3. \A b \in Dir : link[y][b] # p
    BY <2>1, <2>2, <1>2
  <2> QED
    BY <2>1, <2>3, <1>3
\* The state between the two rotations, but for the words of s and y.
<1>7. RotatedLinks(link, pf, m1, s, d, y)
  <2>1. m0[p] = link[p] /\ m0 \in Memory
    BY <1>2, <1>3, <1>5, <1>6, Sides DEF Memory, Pointer
  <2>2. SideOf(m0, p, s) = Other(d)
    <3>1. SideOf(link, p, s) = Other(d)
      BY <1>3, <1>5, DistinctAddresses, SideAt
    <3> QED
      BY <2>1, <3>1 DEF SideOf
  <2>3. m1 = [m0 EXCEPT ![p][Other(d)] = y]
    OBVIOUS
  <2>4. RotatedLinks(link, pf, m1, s, d, y) <=> m1 = PutInPlace(m0, pf, s, y)
    BY DEF RotatedLinks
  <2> HIDE DEF m0, m1
  <2>5. PutInPlace(m0, pf, s, y) = [m0 EXCEPT ![p][Other(d)] = y]
    BY <2>2, <1>3 DEF PutInPlace
  <2> QED
    BY <2>3, <2>4, <2>5
<1>8. Rewritten(pf, w1, x, s, c_rbnode_is_root(pf, x), FALSE)
  <2>1. s \in Raw /\ {C_RBNODE_RED} \in SUBSET {C_RBNODE_RED} /\ C_RBNODE_RED \in {C_RBNODE_RED}
    BY <1>3 DEF Raw
  <2> HIDE DEF x
  <2>2. Rewritten(pf, w1, x, s, c_rbnode_is_root(pf, x),
                  C_RBNODE_RED \notin {C_RBNODE_RED} /\ c_rbnode_is_red(pf, x))
    BY <2>1, <1>2, <1>6, ReparentFacts
  <2> QED
    BY <2>1, <2>2 DEF Rewritten
<1> HIDE DEF w1
<1>9. /\ w1 \in Words
      /\ w1[p].raw = pf[p].raw /\ (c_rbnode_is_root(w1, p) <=> c_rbnode_is_root(pf, p))
      /\ c_rbnode_is_red(w1, p) <=> c_rbnode_is_red(pf, p)
      /\ ~c_rbnode_is_root(w1, y) /\ ~c_rbnode_is_root(w1, s)
  BY <1>8, <1>3, <1>5, <1>6 DEF Rewritten
<1>10. Rewritten(w1, wa, y, p, FALSE, FALSE)
  <2>1. p \in Raw /\ {} \in SUBSET {C_RBNODE_RED, C_RBNODE_ROOT}
    BY <1>3 DEF Raw
  <2> QED
    BY <2>1, <1>5, <1>9, SetFacts DEF Rewritten
<1> HIDE DEF wa
<1>11. Rewritten(wa, wv, s, y, FALSE, TRUE)
  <2>1. /\ y \in Raw /\ {C_RBNODE_RED} \in SUBSET {C_RBNODE_RED, C_RBNODE_ROOT}
        /\ C_RBNODE_RED \in {C_RBNODE_RED} /\ C_RBNODE_ROOT \notin {C_RBNODE_RED}
    BY <1>5 DEF Raw, C_RBNODE_RED, C_RBNODE_ROOT
  <2>2. wa \in Words
    BY <1>10 DEF Rewritten
  <2> DEFINE f == {C_RBNODE_RED}
  <2>3. f \in SUBSET {C_RBNODE_RED, C_RBNODE_ROOT} /\ C_RBNODE_RED \in f /\ C_RBNODE_ROOT \notin f
        /\ wv = c_rbnode_set_parent_and_flags(wa, s, y, f)
    BY <2>1
  <2> HIDE DEF f, wv
  <2>4. Rewritten(wa, wv, s, y, C_RBNODE_ROOT \in f, C_RBNODE_RED \in f)
    BY <2>1, <2>2, <2>3, <1>3, SetFacts
  <2> QED
    BY <2>3, <2>4 DEF Rewritten
<1> HIDE DEF wv
<1>12. /\ RotatedWords(link, pf, wv, s, d, y)
       /\ Repainted(pf, wv, {y, link[y][Other(d)]}, {s})
  <2>1. wv \in [Node -> Word]
    BY <1>11 DEF Rewritten, Words
  <2>2. RotatedWords(link, pf, wv, s, d, y)
    BY <2>1, <1>3, <1>5, <1>8, <1>10, <1>11 DEF Rewritten, RotatedWords
  <2>3. Repainted(pf, wv, {y, link[y][Other(d)]}, {s})
    BY <1>3, <1>5, <1>8, <1>10, <1>11 DEF Rewritten, Repainted
  <2> QED
    BY <2>2, <2>3
<1>13. /\ Sound(owner, m1, wv)
       /\ RedsBelowBlacks(owner, wv, NULL)
       /\ Balanced(owner, m1, wv, p, d)
       /\ m1[p][Other(d)] = y /\ m1[y][Other(d)] = s
       /\ m1[y][d] = link[y][d]
  <2> HIDE DEF m1
  <2> QED
    BY <1>1, <1>3, <1>4, <1>5, <1>7, <1>12, InnerSiblingRotation
\* The second rotation, seen from that state.
<1>14. /\ wv[p].raw = pf[p].raw /\ (c_rbnode_is_root(wv, p) <=> c_rbnode_is_root(pf, p))
       /\ ~c_rbnode_is_red(wv, y) /\ c_rbnode_is_red(wv, s)
  BY <1>3, <1>5, <1>9, <1>10, <1>11 DEF Rewritten
<1>15. WellHeld(w1, p)
  <2>1. WellHeld(pf, p)
    BY <1>3, HeldWell
  <2> QED
    BY <2>1, <1>9 DEF WellHeld
<1> HIDE DEF m1, x
<1>16. RotatedLinks(m1, wv, link', p, Other(d), y)
  <2>1. \A m, a : PutInPlace(m, wv, p, a) = PutInPlace(m, pf, p, a)
    BY <1>14 DEF PutInPlace
  <2> QED
    BY <2>1, <1>1, <1>3 DEF RotatedLinks, RotateSiblingLink
<1>17. SiblingWritten(m1, w1, w2, p, y, s, d)
  BY <1>3, <1>5, <1>6, <1>9, <1>13, <1>15, SiblingWords
<1> HIDE DEF w2
<1>18. \A k \in Node : /\ k # y /\ k # s => wv[k].raw = w1[k].raw
                       /\ c_rbnode_is_root(wv, k) <=> c_rbnode_is_root(w1, k)
                       /\ k # y /\ k # s => (c_rbnode_is_red(wv, k) <=> c_rbnode_is_red(w1, k))
  BY <1>9, <1>10, <1>11 DEF Rewritten
<1>19. wv[s].raw = y
  BY <1>3, <1>11 DEF Rewritten
<1>20. RotatedWords(m1, wv, w2, p, Other(d), y)
  <2>1. m1[y][Other(Other(d))] = link[y][d] /\ m1[y][d] = link[y][d]
    BY <1>3, <1>13
  <2> QED
    BY <2>1, <1>3, <1>5, <1>6, <1>17, <1>18, <1>19 DEF RotatedWords, SiblingWritten, Words
<1>21. Repainted(wv, w2, {p, y, s}, {k \in {y} : c_rbnode_is_red(wv, p)})
  BY <1>3, <1>5, <1>17, <1>18 DEF Repainted, SiblingWritten
<1>22. /\ Sound(owner, link', w2)
       /\ RedsBelowBlacks(owner, w2, NULL)
       /\ \A e2 : Balanced(owner, link', w2, NULL, e2)
  BY <1>3, <1>5, <1>13, <1>14, <1>16, <1>20, <1>21, SiblingRotation
<1>23. \A k \in Node : owner[k] = NULL =>
           w2[k].raw = pf[k].raw /\ (c_rbnode_is_root(w2, k) <=> c_rbnode_is_root(pf, k))
  <2>1. Rotatable(owner, link, pf, s, d, y)
    BY <1>3, <1>4, <1>5 DEF Rotatable
  <2>2. Rotatable(owner, m1, wv, p, Other(d), y)
    <3>1. wv[p].raw # y
      BY <1>3, <1>5, <1>13, HoleNotAbove
    <3> QED
      BY <3>1, <1>3, <1>5, <1>13 DEF Rotatable
  <2> QED
    BY <2>1, <2>2, <1>3, <1>12, <1>13, <1>20, RotationForOthers
<1> QED
  BY <1>1, <1>22, <1>23, RotationEnds

-----------------------------------------------------------------------------
(* The specification *)

\* Every step of every call keeps the invariant.
LEMMA StepKeeps ==
  ASSUME IInv, Step
  PROVE  IInv'
BY PaintRootKeeps, PaintDoneKeeps, PaintRecolorKeeps, PaintRotateKeeps, PaintRotateTwiceKeeps,
   WalkLeftKeeps, SpliceSuccessorKeeps, RebalanceEndKeeps, RebalanceRecolorKeeps,
   RebalanceFoundKeeps, RotateRedSiblingKeeps, RotateRecolorKeeps, RotateSiblingKeeps,
   RotateNephewKeeps, ReinitKeeps
   DEF Step

\* Every call that starts keeps the invariant, and so does stuttering.
LEMMA NextKeeps ==
  ASSUME IInv, [Next]_vars
  PROVE  IInv'
<1>1. CASE Step
  BY <1>1, StepKeeps
<1>2. CASE Move
  BY <1>2, MoveKeeps DEF Move
<1>2a. ASSUME NEW t \in Tree, c_rbtree_init(t)
       PROVE  IInv'
  BY <1>2a, TreeInitKeeps
<1>3. ASSUME NEW n \in Node, NEW t \in Tree, AddRoot(t, n)
      PROVE  IInv'
  BY <1>3, AddRootKeeps
<1>4. ASSUME NEW n \in Node, NEW p \in Node, NEW d \in Dir, Link(p, d, n)
      PROVE  IInv'
  BY <1>4, LinkKeeps
<1>5. ASSUME NEW n \in Node, Unlink(n)
      PROVE  IInv'
  BY <1>5, UnlinkLeafKeeps, UnlinkOneChildKeeps, UnlinkFullKeeps DEF Unlink
<1>6. ASSUME NEW n \in Node, c_rbnode_init(n)
      PROVE  IInv'
  BY <1>6, InitKeeps
<1>7. CASE UNCHANGED vars
  <2>1. /\ link' = link /\ pf' = pf /\ owner' = owner /\ stale' = stale /\ pc' = pc
        /\ call' = call /\ victim' = victim /\ cur' = cur /\ prev' = prev
    BY <1>7 DEF vars
  <2>2. HoleSide' = HoleSide /\ Hole' = Hole
    BY <2>1 DEF HoleSide, Hole
  <2>3. NoRedRed' /\ Sound(owner, link, pf)' /\ Balanced(owner, link, pf, Hole, HoleSide)'
    BY <2>1, <2>2 DEF IInv, NoRedRed
  <2>4. CallerOK' /\ LocalsOK' /\ Painting' /\ Initialising'
    BY <2>1 DEF IInv, CallerOK, LocalsOK, Painting, InUse, Initialising
  <2>5. Searching'
    BY <2>1 DEF IInv, Searching, FarFromVictim, BelowVictim, InUse
  <2>6. Rebalancing'
    BY <2>1, <2>2 DEF IInv, Rebalancing, InUse, MustRotate, NearNephew, FarNephew, Sibling
  <2> QED
    BY <2>3, <2>4, <2>5, <2>6 DEF IInv
<1> QED
  BY <1>1, <1>2, <1>2a, <1>3, <1>4, <1>5, <1>6, <1>7 DEF Next

\* The invariant holds in every state of every behaviour.
THEOREM Invariance == Spec => []IInv
<1>1. Init => IInv
  BY InitHolds
<1>2. IInv /\ [Next]_vars => IInv'
  BY NextKeeps
<1> QED
  BY <1>1, <1>2, PTL DEF Spec

\* The fields, words and cursors always have their types.
THEOREM TypeCorrect == Spec => []TypeOK
<1>1. IInv => TypeOK
  BY DEF IInv, Sound, Memory, Shaped, Owners, CallerOK, LocalsOK, TypeOK
<1> QED
  BY <1>1, Invariance, PTL

\* No rotation, splice, pop_root or push_root loses a node or a tree head, or
\* leaves a stale parent word behind.
THEOREM LinkageHolds == Spec => []Linkage
<1>1. IInv => Linkage
  BY DEF IInv, Sound, Linkage
<1> QED
  BY <1>1, Invariance, PTL

\* No red node has a red parent but the one that is being fixed.
THEOREM NoRedRedHolds == Spec => []NoRedRed
<1>1. IInv => NoRedRed
  BY DEF IInv
<1> QED
  BY <1>1, Invariance, PTL

\* There are heights that all paths agree with, but for the hole.
THEOREM BalanceHolds == Spec => []Balanced(owner, link, pf, Hole, HoleSide)
<1>1. IInv => Balanced(owner, link, pf, Hole, HoleSide)
  BY DEF IInv
<1> QED
  BY <1>1, Invariance, PTL

\* The grandparent of a node with a red parent.
LEMMA PaintIsSafe ==
  ASSUME IInv
  PROVE  PaintSafe
<1>1. SUFFICES ASSUME pc = "paint"
               PROVE  /\ cur \in InUse /\ c_rbnode_is_red(pf, cur)
                      /\ RedParent(cur) => /\ Grandparent(cur) \in InUse
                                           /\ c_rbnode_is_black(pf, Grandparent(cur))
  BY DEF PaintSafe
<1>2. cur \in InUse /\ c_rbnode_is_red(pf, cur)
  BY <1>1 DEF IInv, Painting
<1>3. ASSUME RedParent(cur)
      PROVE  Grandparent(cur) \in InUse /\ c_rbnode_is_black(pf, Grandparent(cur))
  BY <1>1, <1>3, PaintNeighbours DEF c_rbnode_is_black, c_rbnode_is_red
<1> QED
  BY <1>2, <1>3

\* The search for the successor.
LEMMA SuccessorIsSafe ==
  ASSUME IInv
  PROVE  SuccessorSafe
BY DEF IInv, Searching, SuccessorSafe, Dir

\* The sibling and its children.
LEMMA RebalanceIsSafe ==
  ASSUME IInv
  PROVE  RebalanceSafe
<1>1. SUFFICES ASSUME pc \in {"rebalance", "rotate"}, cur # NULL
               PROVE  /\ cur \in InUse /\ prev = link[cur][HoleSide]
                      /\ Sibling # NULL
                      /\ c_rbnode_is_red(pf, Sibling) =>
                           \A d \in Dir : /\ link[Sibling][d] # NULL
                                          /\ c_rbnode_is_black(pf, link[Sibling][d])
                      /\ pc = "rotate" /\ ~MustRotate => c_rbnode_is_red(pf, cur)
  BY DEF RebalanceSafe
<1> DEFINE d == HoleSide
           s == Sibling
<1>2. /\ Sound(owner, link, pf) /\ RedsBelowBlacks(owner, pf, NULL)
      /\ Balanced(owner, link, pf, cur, d)
      /\ cur \in Owned(owner) /\ d \in Dir /\ link[cur][Other(d)] = s
      /\ prev = link[cur][d] /\ s \in Node
  BY <1>1, HoleNeighbours
<1>3. pc = "rotate" /\ ~MustRotate => c_rbnode_is_red(pf, cur)
  BY <1>1 DEF IInv, Rebalancing
<1> HIDE DEF d, s
<1>4. /\ s # NULL
      /\ c_rbnode_is_red(pf, s) =>
           \A b \in Dir : link[s][b] # NULL /\ ~c_rbnode_is_red(pf, link[s][b])
  BY <1>2, SiblingThere
<1> QED
  BY <1>2, <1>3, <1>4 DEF d, s, InUse, c_rbnode_is_black, c_rbnode_is_red

\* What the functions assert of their arguments.
LEMMA CallsAreSafe ==
  ASSUME IInv
  PROVE  CallsSafe
<1>1. Sound(owner, link, pf) /\ InUse = Owned(owner)
  BY InUseFacts
<1>2. ASSUME NEW n \in InUse
      PROVE  c_rbnode_is_linked(pf, n)
  <2>1. n # NULL /\ pf[n].raw # n
    BY <1>1, <1>2, ParentFacts
  <2> QED
    BY <2>1 DEF c_rbnode_is_linked, c_rbnode_parent, c_rbnode_raw
<1>3. ASSUME NEW t \in Tree, link[t]["root"] # NULL
      PROVE  RootOf(pf, link[t]["root"]) = t
  <2>1. t \in Holder(owner) /\ "root" \in Side
    BY DEF Holder, Side
  <2>2. c_rbnode_raw(pf, link[t]["root"]) = t /\ c_rbnode_is_root(pf, link[t]["root"])
    BY <2>1, <1>1, <1>3 DEF Sound, Consistent, ChildrenKnowParent
  <2> QED
    BY <2>2 DEF RootOf
<1> QED
  BY <1>2, <1>3 DEF CallsSafe

\* No assertion of c-rbtree.c fails and no NULL pointer is dereferenced.
THEOREM AssertionsAlwaysHold == Spec => []AssertionsHold
<1>1. IInv => AssertionsHold
  BY PaintIsSafe, SuccessorIsSafe, RebalanceIsSafe, CallsAreSafe DEF AssertionsHold
<1> QED
  BY <1>1, Invariance, PTL

\* A node that is in a tree has a parent or is a root, another one is its own
\* parent, unless it was removed without being initialised.
LEMMA FlagTells ==
  ASSUME IInv, NEW n \in Node \ stale
  PROVE  c_rbnode_is_linked(pf, n) <=> n \in InUse
<1>1. CASE n \in InUse
  BY <1>1, CallsAreSafe DEF CallsSafe
<1>2. CASE n \notin InUse
  <2>1. pf[n].raw = n /\ ~c_rbnode_is_root(pf, n)
    BY <1>2 DEF IInv, CallerOK, InUse, Owned
  <2> QED
    BY <1>2, <2>1 DEF c_rbnode_is_linked, c_rbnode_parent, c_rbnode_raw
<1> QED
  BY <1>1, <1>2

\* Between calls c_rbnode_is_linked tells the nodes in a tree from the others.
THEOREM LinkedFlagHolds == Spec => []LinkedFlag
<1>1. IInv => LinkedFlag
  BY FlagTells DEF LinkedFlag
<1> QED
  BY <1>1, Invariance, PTL

-----------------------------------------------------------------------------
(* A call writes to one tree *)

\* The nodes a call on tree t may write to.
OwnNodes(t) == {k \in Node : owner[k] = t}

\* Words w and memory m differ from those of the current state in nodes of X at
\* most.
OnlyWords(X, w)  == DOMAIN w = Node /\ \A k \in Node \ X : w[k] = pf[k]
OnlyFields(X, m) == DOMAIN m = Node \cup Tree /\ \A k \in Node \ X : m[k] = link[k]

\* What the functions of CRBNode write to.
LEMMA WordsWritten ==
  ASSUME NEW X, NEW w, OnlyWords(X, w), NEW x \in X \cup {NULL}
  PROVE  /\ \A p, c : OnlyWords(X, Reparent(w, x, p, c))
         /\ x # NULL => /\ \A p, f : OnlyWords(X, c_rbnode_set_parent_and_flags(w, x, p, f))
                        /\ \A t : OnlyWords(X, c_rbnode_push_root(w, x, t))
                        /\ OnlyWords(X, c_rbnode_pop_root(w, x))
<1>1. ASSUME x # NULL, NEW p, NEW f
      PROVE  OnlyWords(X, c_rbnode_set_parent_and_flags(w, x, p, f))
  BY <1>1 DEF OnlyWords, c_rbnode_set_parent_and_flags
<1> QED
  BY <1>1 DEF Reparent, c_rbnode_push_root, c_rbnode_pop_root

\* What the stores to fields write to.
LEMMA FieldsWritten ==
  ASSUME NEW X, NEW m, OnlyFields(X, m), NEW x \in X \cup Tree
  PROVE  /\ \A s, v : OnlyFields(X, [m EXCEPT ![x][s] = v])
         /\ \A v : OnlyFields(X, [m EXCEPT ![x] = v])
         /\ \A w, n, v : w[n].raw = x => OnlyFields(X, PutInPlace(m, w, n, v))
<1>1. x \notin Node \ X
  BY DistinctAddresses
<1>2. ASSUME NEW s, NEW v
      PROVE  OnlyFields(X, [m EXCEPT ![x][s] = v]) /\ OnlyFields(X, [m EXCEPT ![x] = v])
  BY <1>1 DEF OnlyFields
<1> QED
  BY <1>2 DEF PutInPlace

\* The current state differs in nothing from itself.
LEMMA NothingWritten ==
  ASSUME IInv, NEW X
  PROVE  OnlyWords(X, pf) /\ OnlyFields(X, link)
BY DEF IInv, Sound, Memory, OnlyWords, OnlyFields

\* Parents and children are in the same tree.
LEMMA TreeMates ==
  ASSUME IInv, NEW n \in InUse
  PROVE  /\ n \in OwnNodes(owner[n])
         /\ pf[n].raw \in OwnNodes(owner[n]) \cup Tree
         /\ pf[n].raw \in InUse => owner[pf[n].raw] = owner[n]
         /\ \A d \in Dir : /\ link[n][d] \in OwnNodes(owner[n]) \cup {NULL}
                           /\ link[n][d] # NULL => /\ link[n][d] \in InUse
                                                   /\ owner[link[n][d]] = owner[n]
<1>1. Sound(owner, link, pf) /\ InUse = Owned(owner) /\ n \in Node
  BY InUseFacts
<1>2. pf[n].raw \in Tree \/ (pf[n].raw \in Node /\ owner[pf[n].raw] = owner[n])
  <2>1. pf[n].raw \in Holder(owner) /\ \E s \in Side : link[pf[n].raw][s] = n
    BY <1>1 DEF Sound, Consistent, ParentsKnowChild, c_rbnode_raw
  <2>2. owner[n] = Home(owner, pf[n].raw)
    BY <1>1, <2>1, DistinctAddresses DEF Sound, Consistent, ChildrenKnowParent
  <2> QED
    BY <2>1, <2>2, <1>1 DEF Home, Holder, Owned
<1>3. ASSUME NEW d \in Dir, link[n][d] # NULL
      PROVE  link[n][d] \in InUse /\ link[n][d] \in Node /\ owner[link[n][d]] = owner[n]
  BY <1>1, <1>3, ChildFacts
<1>4. pf[n].raw \in InUse => owner[pf[n].raw] = owner[n]
  BY <1>1, <1>2, DistinctAddresses DEF Owned
<1> QED
  BY <1>1, <1>2, <1>3, <1>4 DEF OwnNodes

\* Where the current call writes: to nodes of X, and to those of tree t.
WritesTo(X) == OnlyWords(X, pf') /\ OnlyFields(X, link')
Disturbs(t) == WritesTo(OwnNodes(t))

\* Insertion writes to its tree and to the new node,
LEMMA LinkDisturbs ==
  ASSUME IInv, NEW p \in Node, NEW d \in Dir, NEW n \in Node, Link(p, d, n)
  PROVE  WritesTo(OwnNodes(owner[p]) \cup {n})
<1> DEFINE X == OwnNodes(owner[p]) \cup {n}
           m1 == [link EXCEPT ![n] = NoLinks]
<1>1. n \in X /\ p \in X
  BY DEF Link, OwnNodes
<1>2. OnlyWords(X, pf) /\ OnlyFields(X, link)
  BY NothingWritten
<1> HIDE DEF X
<1>3. OnlyWords(X, pf')
  BY <1>1, <1>2, WordsWritten, DistinctAddresses DEF Link
<1>4. OnlyFields(X, [m1 EXCEPT ![p][d] = n])
  <2>1. OnlyFields(X, m1)
    BY <1>1, <1>2, FieldsWritten
  <2> HIDE DEF m1
  <2> QED
    BY <1>1, <2>1, FieldsWritten
<1>5. link' = [m1 EXCEPT ![p][d] = n]
  BY DEF Link
<1> QED
  BY <1>3, <1>4, <1>5 DEF WritesTo, X

\* c_rbtree_add of the first node too.
LEMMA AddRootDisturbs ==
  ASSUME IInv, NEW t \in Tree, NEW n \in Node, AddRoot(t, n)
  PROVE  WritesTo(OwnNodes(t) \cup {n})
<1> DEFINE X == OwnNodes(t) \cup {n}
           m1 == [link EXCEPT ![n] = NoLinks]
           w1 == c_rbnode_set_parent_and_flags(pf, n, NULL, {C_RBNODE_RED})
<1>1. n \in X /\ n # NULL
  BY DistinctAddresses
<1>2. OnlyWords(X, pf) /\ OnlyFields(X, link)
  BY NothingWritten
<1>3. pf' = c_rbnode_push_root(w1, n, t) /\ link' = [m1 EXCEPT ![t]["root"] = n]
  BY DEF AddRoot
<1> HIDE DEF X
<1>4. OnlyWords(X, w1) /\ OnlyFields(X, m1)
  BY <1>1, <1>2, WordsWritten, FieldsWritten
<1> HIDE DEF w1, m1
<1>5. OnlyWords(X, pf') /\ OnlyFields(X, link')
  BY <1>1, <1>3, <1>4, WordsWritten, FieldsWritten
<1> QED
  BY <1>5 DEF WritesTo, X

\* the repairs after it,
LEMMA PaintDisturbs ==
  ASSUME IInv, pc = "paint",
         PaintRoot \/ PaintDone \/ PaintRecolor \/ PaintRotate \/ PaintRotateTwice
  PROVE  cur \in InUse /\ Disturbs(owner[cur])
<1> DEFINE X == OwnNodes(owner[cur])
           p == c_rbnode_parent(pf, cur)
           g == Grandparent(cur)
           d == SideOf(link, g, p)
<1>1. cur \in InUse /\ cur \in X /\ cur # NULL
  BY InUseFacts, TreeMates DEF IInv, Painting
<1>2. OnlyWords(X, pf) /\ OnlyFields(X, link)
  BY NothingWritten
<1>3. ASSUME RedParent(cur)
      PROVE  /\ p \in X /\ p # NULL /\ g \in X /\ g # NULL /\ d \in Dir /\ pf[g].raw \in X \cup Tree
             /\ \A b \in Dir : /\ link[p][b] \in X \cup {NULL}
                               /\ link[g][b] \in X \cup {NULL}
                               /\ link[cur][b] \in X \cup {NULL}
             /\ Uncle(cur) = link[g][Other(d)] /\ Other(d) \in Dir
  <2>1. /\ p \in InUse /\ g \in InUse /\ d \in Dir /\ pf[cur].raw = p /\ pf[p].raw = g
        /\ Uncle(cur) = link[g][Other(d)]
    BY <1>3, PaintNeighbours
  <2>2. owner[p] = owner[cur] /\ owner[g] = owner[cur] /\ p # NULL /\ g # NULL
    BY <1>1, <2>1, TreeMates, InUseFacts
  <2> QED
    BY <1>1, <2>1, <2>2, TreeMates, Sides
<1> HIDE DEF X, p, g, d
<1>4. CASE PaintRoot
  BY <1>1, <1>2, <1>4, WordsWritten DEF PaintRoot, Disturbs, WritesTo, X
<1>5. CASE PaintDone
  BY <1>1, <1>2, <1>5 DEF PaintDone, Disturbs, WritesTo, X, memory
<1>6. CASE PaintRecolor
  <2> DEFINE w1 == Reparent(pf, p, g, {C_RBNODE_RED})
             w2 == Reparent(w1, Uncle(cur), g, {C_RBNODE_RED})
  <2>1. /\ RedParent(cur) /\ link' = link
        /\ pf' = c_rbnode_set_parent_and_flags(w2, g, c_rbnode_raw(w2, g),
                                         c_rbnode_flags(w2, g) \cup {C_RBNODE_RED})
    BY <1>6 DEF PaintRecolor, p, g
  <2>2. Uncle(cur) \in X \cup {NULL}
    BY <1>3, <2>1
  <2>3. OnlyWords(X, w1)
    BY <1>2, <1>3, <2>1, WordsWritten
  <2> HIDE DEF w1
  <2>4. OnlyWords(X, w2)
    BY <2>2, <2>3, WordsWritten
  <2> HIDE DEF w2
  <2>5. OnlyWords(X, pf')
    BY <1>3, <2>1, <2>4, WordsWritten
  <2> QED
    BY <1>1, <1>2, <2>1, <2>5 DEF Disturbs, WritesTo, X
\* The rotation of q, which is p or cur, above g.
<1>7. ASSUME RedParent(cur), NEW m, OnlyFields(X, m), NEW w, OnlyWords(X, w),
             NEW q \in X, q # NULL, m[q][Other(d)] \in X \cup {NULL}
      PROVE  /\ OnlyWords(X, RotateGrandparentWord(m, w, q, g, d))
             /\ OnlyFields(X, RotateGrandparentLink(m, q, g, d))
  <2> DEFINE t  == RootOf(w, g)
             gg == c_rbnode_parent(w, g)
             w1 == c_rbnode_pop_root(w, g)
             w2 == Reparent(w1, m[q][Other(d)], g, {C_RBNODE_RED})
             w3 == Reparent(w2, q, gg, {C_RBNODE_RED})
             w4 == c_rbnode_set_parent_and_flags(w3, g, q,
                                       c_rbnode_flags(w3, g) \cup {C_RBNODE_RED})
             m1 == [m EXCEPT ![g][d] = m[q][Other(d)]]
             m2 == [m1 EXCEPT ![q][Other(d)] = g]
  <2>0. /\ RotateGrandparentWord(m, w, q, g, d) = c_rbnode_push_root(w4, q, t)
        /\ RotateGrandparentLink(m, q, g, d) = PutInPlace(m2, pf, g, q)
    BY DEF RotateGrandparentWord, RotateGrandparentLink
  <2>1. OnlyWords(X, w1) /\ OnlyFields(X, m1)
    BY <1>3, <1>7, WordsWritten, FieldsWritten
  <2> HIDE DEF w1, m1, t, gg
  <2>2. OnlyWords(X, w2) /\ OnlyFields(X, m2)
    BY <1>3, <1>7, <2>1, WordsWritten, FieldsWritten
  <2> HIDE DEF w2, m2
  <2>3. OnlyWords(X, w3)
    BY <1>7, <2>2, WordsWritten
  <2> HIDE DEF w3
  <2>4. OnlyWords(X, w4)
    BY <1>3, <1>7, <2>3, WordsWritten
  <2> HIDE DEF w4
  <2> QED
    BY <1>3, <1>7, <2>0, <2>2, <2>4, WordsWritten, FieldsWritten
<1>8. CASE PaintRotate
  <2>1. /\ RedParent(cur) /\ link' = RotateGrandparentLink(link, p, g, d)
        /\ pf' = RotateGrandparentWord(link, pf, p, g, d)
    BY <1>8 DEF PaintRotate, p, g, d
  <2>2. OnlyWords(X, pf') /\ OnlyFields(X, link')
    BY <1>2, <1>3, <1>7, <2>1
  <2> QED
    BY <1>1, <2>2 DEF Disturbs, WritesTo, X
<1>9. CASE PaintRotateTwice
  <2> DEFINE x  == link[cur][d]
             m0 == [link EXCEPT ![p][Other(d)] = x]
             m1 == [m0 EXCEPT ![cur][d] = p]
             w0 == Reparent(pf, x, p, {})
             w1 == Reparent(w0, p, cur, {})
  <2>1. /\ RedParent(cur)
        /\ link' = RotateGrandparentLink(m1, cur, g, d)
        /\ pf' = RotateGrandparentWord(m1, w1, cur, g, d)
    BY <1>9 DEF PaintRotateTwice, p, g, d
  <2>2. m1[cur][Other(d)] \in X \cup {NULL}
    <3>1. link \in Memory /\ cur \in Node /\ p \in Node \cup Tree /\ d \in Side /\ Other(d) \in Side
          /\ x \in X \cup {NULL} /\ x \in Pointer /\ Other(d) # d
      BY <1>1, <1>3, <2>1, InUseFacts, Sides DEF X, OwnNodes, Pointer
    <3>2. link[cur][Other(d)] \in X \cup {NULL}
      BY <1>3, <2>1
    <3> HIDE DEF x
    <3>3. m0 \in Memory /\ m0[cur][Other(d)] \in {link[cur][Other(d)], x}
      BY <3>1 DEF Memory
    <3> HIDE DEF m0
    <3>4. m1[cur][Other(d)] = m0[cur][Other(d)]
      BY <3>1, <3>3 DEF Memory
    <3> QED
      BY <3>1, <3>2, <3>3, <3>4
  <2>3. x \in X \cup {NULL}
    BY <1>3, <2>1
  <2> HIDE DEF x
  <2>4. OnlyWords(X, w0) /\ OnlyFields(X, m0)
    BY <1>2, <1>3, <2>1, <2>3, WordsWritten, FieldsWritten
  <2> HIDE DEF w0, m0
  <2>5. OnlyWords(X, w1) /\ OnlyFields(X, m1)
    BY <1>1, <1>3, <2>1, <2>4, WordsWritten, FieldsWritten
  <2> HIDE DEF w1, m1
  <2>6. OnlyWords(X, pf') /\ OnlyFields(X, link')
    BY <1>1, <1>7, <2>1, <2>2, <2>5
  <2> QED
    BY <1>1, <2>6 DEF Disturbs, WritesTo, X
<1> QED
  BY <1>4, <1>5, <1>6, <1>8, <1>9

\* the removal of a node,
LEMMA UnlinkDisturbs ==
  ASSUME IInv, NEW api, NEW n \in Node, owner[n] # NULL,
         UnlinkLeaf(api, n) \/ (\E d \in Dir : UnlinkOneChild(api, n, d)) \/ UnlinkFull(api, n)
  PROVE  Disturbs(owner[n])
<1> DEFINE X == OwnNodes(owner[n])
<1>1. n \in InUse /\ n \in X /\ n # NULL /\ pf[n].raw \in X \cup Tree
  <2>1. n \in InUse
    BY DEF InUse, Owned
  <2> QED
    BY <2>1, InUseFacts, TreeMates
<1>2. OnlyWords(X, pf) /\ OnlyFields(X, link)
  BY NothingWritten
<1>3. \A d \in Dir : link[n][d] \in X \cup {NULL}
  BY <1>1, TreeMates
<1> HIDE DEF X
<1>4. \A v : OnlyFields(X, PutInPlace(link, pf, n, v))
  BY <1>1, <1>2, FieldsWritten
<1>5. OnlyWords(X, c_rbnode_pop_root(pf, n))
  BY <1>1, <1>2, WordsWritten
<1>6. CASE UnlinkLeaf(api, n)
  BY <1>4, <1>5, <1>6 DEF UnlinkLeaf, Disturbs, WritesTo, X
<1>7. ASSUME NEW d \in Dir, UnlinkOneChild(api, n, d)
      PROVE  Disturbs(owner[n])
  <2> DEFINE c  == link[n][d]
             w1 == c_rbnode_pop_root(pf, n)
             w2 == Reparent(w1, c, c_rbnode_parent(w1, n), {C_RBNODE_RED})
  <2>1. /\ c # NULL /\ link' = PutInPlace(link, pf, n, c)
        /\ pf' = c_rbnode_push_root(w2, c, RootOf(pf, n))
    BY <1>7 DEF UnlinkOneChild, ReplaceWord
  <2>2. c \in X \cup {NULL}
    BY <1>3
  <2> HIDE DEF c
  <2>3. OnlyWords(X, w2)
    BY <1>5, <2>2, WordsWritten
  <2> HIDE DEF w2
  <2>4. OnlyWords(X, pf')
    BY <2>1, <2>2, <2>3, WordsWritten
  <2> QED
    BY <1>4, <2>1, <2>4 DEF Disturbs, WritesTo, X
<1>8. CASE UnlinkFull(api, n)
  BY <1>2, <1>8 DEF UnlinkFull, memory, Disturbs, WritesTo, X
<1> QED
  BY <1>6, <1>7, <1>8

\* Splicing writes to the tree of the removed node only.
LEMMA SpliceDisturbs ==
  ASSUME IInv, SpliceSuccessor
  PROVE  victim \in InUse /\ Disturbs(owner[victim])
<1> DEFINE X == OwnNodes(owner[victim])
           n == victim
           s == cur
           p == IF s = link[n]["right"] THEN s ELSE c_rbnode_parent(pf, s)
<1>1. /\ pc = "successor" /\ link' = SpliceLink(link, n, s, p)
      /\ pf' = SpliceWord(link, pf, n, s, p)
  BY DEF SpliceSuccessor
<1>2. n \in InUse /\ s \in InUse /\ owner[s] = owner[n] /\ FarFromVictim
  BY <1>1 DEF IInv, Searching
<1>3. "left" \in Dir /\ "right" \in Dir
  BY DEF Dir
<1>4. /\ n \in X /\ n # NULL /\ s \in X /\ s # NULL /\ pf[n].raw \in X \cup Tree
      /\ \A d \in Dir : link[n][d] \in X \cup {NULL} /\ link[s][d] \in X \cup {NULL}
  BY <1>2, TreeMates, InUseFacts
<1>5. p \in X /\ p # NULL
  <2>1. CASE s = link[n]["right"]
    BY <2>1, <1>4
  <2>2. CASE s # link[n]["right"]
    <3>1. p = pf[s].raw /\ p \in InUse
      BY <2>2, <1>2 DEF FarFromVictim, c_rbnode_parent
    <3>2. owner[p] = owner[s] /\ p # NULL
      BY <3>1, <1>2, TreeMates, InUseFacts
    <3> QED
      BY <3>1, <3>2, <1>2, TreeMates
  <2> QED
    BY <2>1, <2>2
<1>6. OnlyWords(X, pf) /\ OnlyFields(X, link)
  BY NothingWritten
<1> HIDE DEF X, n, s, p
<1>7. OnlyFields(X, SpliceLink(link, n, s, p))
  <2> DEFINE a1 == [link EXCEPT ![p]["left"] = link[s]["right"]]
             a2 == [a1 EXCEPT ![s]["right"] = link[n]["right"]]
             m1 == IF s = link[n]["right"] THEN link ELSE a2
             m2 == [m1 EXCEPT ![s]["left"] = link[n]["left"]]
  <2>1. SpliceLink(link, n, s, p) = PutInPlace(m2, pf, n, s)
    BY DEF SpliceLink
  <2>2. OnlyFields(X, a1)
    BY <1>5, <1>6, FieldsWritten
  <2> HIDE DEF a1
  <2>3. OnlyFields(X, a2)
    BY <1>4, <2>2, FieldsWritten
  <2> HIDE DEF a2
  <2>4. OnlyFields(X, m1)
    BY <1>6, <2>3
  <2> HIDE DEF m1
  <2>5. OnlyFields(X, m2)
    BY <1>4, <2>4, FieldsWritten
  <2> HIDE DEF m2
  <2> QED
    BY <1>4, <2>1, <2>5, FieldsWritten
<1>8. OnlyWords(X, SpliceWord(link, pf, n, s, p))
  <2> DEFINE w1 == c_rbnode_pop_root(pf, n)
             w2 == IF s = link[n]["right"] THEN w1 ELSE Reparent(w1, link[n]["right"], s, {})
             w3 == Reparent(w2, link[n]["left"], s, {})
             w4 == Reparent(w3, link[s]["right"], p, {C_RBNODE_RED})
             f  == c_rbnode_flags(w4, s)
             w5 == c_rbnode_set_parent_and_flags(w4, s, c_rbnode_parent(w4, n),
                     IF c_rbnode_is_red(w4, n) THEN f \cup {C_RBNODE_RED}
                                               ELSE f \ {C_RBNODE_RED})
  <2>1. SpliceWord(link, pf, n, s, p) = c_rbnode_push_root(w5, s, RootOf(pf, n))
    BY DEF SpliceWord
  <2>2. OnlyWords(X, w1)
    BY <1>4, <1>6, WordsWritten
  <2> HIDE DEF w1
  <2>3. OnlyWords(X, w2)
    BY <1>3, <1>4, <2>2, WordsWritten
  <2> HIDE DEF w2
  <2>4. OnlyWords(X, w3)
    BY <1>3, <1>4, <2>3, WordsWritten
  <2> HIDE DEF w3
  <2>5. OnlyWords(X, w4)
    BY <1>3, <1>4, <2>4, WordsWritten
  <2> HIDE DEF w4, f
  <2>6. OnlyWords(X, w5)
    BY <1>4, <2>5, WordsWritten
  <2> HIDE DEF w5
  <2> QED
    BY <1>4, <2>1, <2>6, WordsWritten
<1> QED
  BY <1>1, <1>2, <1>7, <1>8 DEF Disturbs, WritesTo, X, n

\* and the repairs after it.
LEMMA RebalanceDisturbs ==
  ASSUME IInv, pc \in {"rebalance", "rotate"}, cur # NULL,
         \/ RebalanceRecolor \/ RebalanceFound
         \/ RotateRedSibling \/ RotateRecolor \/ RotateSibling \/ RotateNephew
  PROVE  cur \in InUse /\ Disturbs(owner[cur])
<1> DEFINE X == OwnNodes(owner[cur])
           p == cur
           s == Sibling
           d == HoleSide
<1>1. /\ p \in InUse /\ s \in InUse /\ d \in Dir /\ Other(d) \in Dir
      /\ link[p][Other(d)] = s /\ Other(d) # d /\ s # p
  BY HoleNeighbours DEF InUse
<1>2. owner[s] = owner[p] /\ s # NULL /\ p # NULL
  BY <1>1, TreeMates, InUseFacts
<1>3. /\ p \in X /\ s \in X /\ pf[p].raw \in X \cup Tree
      /\ \A b \in Dir : link[s][b] \in X \cup {NULL}
  BY <1>1, <1>2, TreeMates
<1>4. OnlyWords(X, pf) /\ OnlyFields(X, link)
  BY NothingWritten
<1> HIDE DEF X, p, s, d
\* Recoloring,
<1>5. OnlyWords(X, c_rbnode_set_parent_and_flags(pf, s, p,
                                        c_rbnode_flags(pf, s) \cup {C_RBNODE_RED}))
  BY <1>2, <1>3, <1>4, WordsWritten
<1>6. CASE RebalanceRecolor \/ RotateRecolor
  <2> DEFINE w1 == c_rbnode_set_parent_and_flags(pf, s, p,
                                        c_rbnode_flags(pf, s) \cup {C_RBNODE_RED})
  <2>1. /\ link' = link
        /\ pf' \in {w1, Reparent(w1, p, c_rbnode_parent(w1, p), {C_RBNODE_RED})}
    <3>1. CASE RebalanceRecolor
      BY <3>1 DEF RebalanceRecolor, s, p
    <3>2. CASE RotateRecolor
      BY <3>2 DEF RotateRecolor, s, p
    <3> QED
      BY <1>6, <3>1, <3>2
  <2>2. OnlyWords(X, w1)
    BY <1>5
  <2> HIDE DEF w1
  <2>3. OnlyWords(X, pf')
    BY <1>3, <2>1, <2>2, WordsWritten
  <2> QED
    BY <1>1, <1>4, <2>1, <2>3 DEF Disturbs, WritesTo, X, p
<1>7. CASE RebalanceFound
  BY <1>1, <1>4, <1>7 DEF RebalanceFound, memory, Disturbs, WritesTo, X, p
\* the rotation of y, the sibling or what was rotated above it, above p.
<1>8. ASSUME NEW m, OnlyFields(X, m), NEW y \in X, y # NULL
      PROVE  OnlyFields(X, RotateSiblingLink(m, p, y, d))
  <2> DEFINE m1 == [m EXCEPT ![p][Other(d)] = m[y][d]]
             m2 == [m1 EXCEPT ![y][d] = p]
  <2>1. RotateSiblingLink(m, p, y, d) = PutInPlace(m2, pf, p, y)
    BY DEF RotateSiblingLink
  <2>2. OnlyFields(X, m1)
    BY <1>3, <1>8, FieldsWritten
  <2> HIDE DEF m1
  <2>3. OnlyFields(X, m2)
    BY <1>8, <2>2, FieldsWritten
  <2> HIDE DEF m2
  <2> QED
    BY <1>3, <2>1, <2>3, FieldsWritten
<1>9. ASSUME NEW m, NEW w, OnlyWords(X, w), NEW y \in X, y # NULL, m[y][d] \in X \cup {NULL},
             NEW x \in X \cup {NULL}
      PROVE  /\ OnlyWords(X, RotateSiblingWord(m, w, p, y, x, d))
             /\ OnlyWords(X, RotateRedSiblingWord(m, w, p, y, d))
  <2>1. OnlyWords(X, RotateSiblingWord(m, w, p, y, x, d))
    <3> DEFINE w1 == c_rbnode_pop_root(w, p)
               w2 == Reparent(w1, x, y, {C_RBNODE_RED})
               w3 == Reparent(w2, m[y][d], p, {})
               w4 == c_rbnode_set_parent_and_flags(w3, y, c_rbnode_parent(w3, p),
                                                   c_rbnode_flags(w3, p))
               w5 == Reparent(w4, p, y, {C_RBNODE_RED})
    <3>1. RotateSiblingWord(m, w, p, y, x, d) = c_rbnode_push_root(w5, y, RootOf(w, p))
      BY DEF RotateSiblingWord
    <3>2. OnlyWords(X, w1)
      BY <1>2, <1>3, <1>9, WordsWritten
    <3> HIDE DEF w1
    <3>3. OnlyWords(X, w2)
      BY <1>9, <3>2, WordsWritten
    <3> HIDE DEF w2
    <3>4. OnlyWords(X, w3)
      BY <1>9, <3>3, WordsWritten
    <3> HIDE DEF w3
    <3>5. OnlyWords(X, w4)
      BY <1>9, <3>4, WordsWritten
    <3> HIDE DEF w4
    <3>6. OnlyWords(X, w5)
      BY <1>3, <3>5, WordsWritten
    <3> HIDE DEF w5
    <3> QED
      BY <1>9, <3>1, <3>6, WordsWritten
  <2>2. OnlyWords(X, RotateRedSiblingWord(m, w, p, y, d))
    <3> DEFINE w1 == c_rbnode_pop_root(w, p)
               w2 == Reparent(w1, m[y][d], p, {C_RBNODE_RED})
               w3 == Reparent(w2, y, c_rbnode_parent(w1, p), {C_RBNODE_RED})
               w4 == c_rbnode_set_parent_and_flags(w3, p, y,
                                        c_rbnode_flags(w3, p) \cup {C_RBNODE_RED})
    <3>1. RotateRedSiblingWord(m, w, p, y, d) = c_rbnode_push_root(w4, y, RootOf(w, p))
      BY DEF RotateRedSiblingWord
    <3>2. OnlyWords(X, w1)
      BY <1>2, <1>3, <1>9, WordsWritten
    <3>3. OnlyWords(X, w2)
      <4> HIDE DEF w1
      <4> QED
        BY <1>9, <3>2, WordsWritten
    <3> HIDE DEF w1, w2
    <3>4. OnlyWords(X, w3)
      BY <1>9, <3>3, WordsWritten
    <3> HIDE DEF w3
    <3>5. OnlyWords(X, w4)
      BY <1>2, <1>3, <3>4, WordsWritten
    <3> HIDE DEF w4
    <3> QED
      BY <1>9, <3>1, <3>5, WordsWritten
  <2> QED
    BY <2>1, <2>2
<1>10. CASE RotateRedSibling
  <2>1. /\ link' = RotateSiblingLink(link, p, s, d)
        /\ pf' = RotateRedSiblingWord(link, pf, p, s, d)
    BY <1>10 DEF RotateRedSibling, p, s, d
  <2>2. OnlyFields(X, link') /\ OnlyWords(X, pf')
    BY <1>1, <1>2, <1>3, <1>4, <1>8, <1>9, <2>1
  <2> QED
    BY <1>1, <2>2 DEF Disturbs, WritesTo, X, p
<1>11. CASE RotateSibling
  <2>1. /\ link' = RotateSiblingLink(link, p, s, d)
        /\ pf' = RotateSiblingWord(link, pf, p, s, FarNephew, d)
        /\ FarNephew = link[s][Other(d)]
    BY <1>11 DEF RotateSibling, FarNephew, p, s, d
  <2>2. FarNephew \in X \cup {NULL} /\ link[s][d] \in X \cup {NULL}
    BY <1>1, <1>3, <2>1
  <2>3. OnlyFields(X, link') /\ OnlyWords(X, pf')
    BY <1>2, <1>3, <1>4, <1>8, <1>9, <2>1, <2>2
  <2> QED
    BY <1>1, <2>3 DEF Disturbs, WritesTo, X, p
<1>12. CASE RotateNephew
  <2> DEFINE y  == NearNephew
             x  == link[y][Other(d)]
             a1 == [link EXCEPT ![s][d] = x]
             a2 == [a1 EXCEPT ![y][Other(d)] = s]
             m1 == [a2 EXCEPT ![p][Other(d)] = y]
             w1 == Reparent(pf, x, s, {C_RBNODE_RED})
  <2>1. /\ link' = RotateSiblingLink(m1, p, y, d)
        /\ pf' = RotateSiblingWord(m1, w1, p, y, s, d)
        /\ y = link[s][d] /\ y # NULL
    BY <1>12 DEF RotateNephew, RedNode, NearNephew, p, s, d
  <2>2. y \in InUse /\ owner[y] = owner[p]
    BY <1>1, <1>2, <2>1, TreeMates
  <2>3. /\ y \in X /\ y \in Node /\ s \in Node /\ p \in Node
        /\ \A b \in Dir : link[y][b] \in X \cup {NULL}
    BY <1>1, <2>2, TreeMates, InUseFacts DEF X, p
  <2>4. x \in X \cup {NULL} /\ x \in Pointer
    BY <1>1, <2>3, InUseFacts, Sides DEF Memory
  <2>5. OnlyWords(X, w1)
    BY <1>4, <2>4, WordsWritten
  <2>6. OnlyFields(X, a1)
    BY <1>3, <1>4, FieldsWritten
  <2>7. m1[y][d] \in X \cup {NULL}
    <3>1. link \in Memory /\ d \in Side /\ Other(d) \in Side
      BY <1>1, InUseFacts, Sides
    <3> HIDE DEF x, y
    <3>2. m1[y][d] \in {link[y][d], x}
      BY <1>1, <2>3, <2>4, <3>1 DEF Memory, Pointer
    <3> QED
      BY <1>1, <2>3, <2>4, <3>2
  <2> HIDE DEF x, y, a1, w1
  <2>8. OnlyFields(X, a2)
    BY <2>3, <2>6, FieldsWritten
  <2> HIDE DEF a2
  <2>9. OnlyFields(X, m1)
    BY <1>3, <2>8, FieldsWritten
  <2> HIDE DEF m1
  <2>10. OnlyFields(X, link') /\ OnlyWords(X, pf')
    BY <1>3, <1>8, <1>9, <2>1, <2>3, <2>5, <2>7, <2>9
  <2> QED
    BY <1>1, <2>10 DEF Disturbs, WritesTo, X, p
<1> QED
  BY <1>6, <1>7, <1>10, <1>11, <1>12

\* A move writes to one node of its tree.
LEMMA MoveDisturbs ==
  ASSUME IInv, NEW to \in Tree, NEW from \in Tree, c_rbtree_move(to, from)
  PROVE  Disturbs(from)
<1> DEFINE r == link[from]["root"]
           w1 == c_rbnode_pop_root(pf, r)
           X == OwnNodes(from)
<1>1. /\ r # NULL /\ pf' = c_rbnode_push_root(w1, r, to)
      /\ link' = [link EXCEPT ![to]["root"] = r, ![from]["root"] = NULL]
      /\ owner' = [n \in Node |-> IF owner[n] = from THEN to ELSE owner[n]]
      /\ link[to]["root"] = NULL
  BY DEF c_rbtree_move
<1>2. r \in X
  <2>1. from \in Holder(owner) /\ "root" \in Side
    BY DEF Holder, Side
  <2>2. owner[r] = from /\ r \in Pointer
    BY <1>1, <2>1, InUseFacts DEF Sound, Consistent, ChildrenKnowParent, Home, Memory
  <2> QED
    BY <1>1, <2>2 DEF OwnNodes, Pointer
<1>3. OnlyWords(X, pf) /\ OnlyFields(X, link)
  BY NothingWritten
<1> HIDE DEF X, r
<1>4. OnlyWords(X, w1)
  BY <1>1, <1>2, <1>3, WordsWritten
<1> HIDE DEF w1
<1>5. OnlyWords(X, pf')
  BY <1>1, <1>2, <1>4, WordsWritten
<1>6. OnlyFields(X, link')
  <2>1. OnlyFields(X, [link EXCEPT ![to]["root"] = r])
    BY <1>3, FieldsWritten
  <2> DEFINE m1 == [link EXCEPT ![to]["root"] = r]
  <2> HIDE DEF m1
  <2>2. OnlyFields(X, [m1 EXCEPT ![from]["root"] = NULL])
    BY <2>1, FieldsWritten DEF m1
  <2>3. link' = [m1 EXCEPT ![from]["root"] = NULL]
    BY <1>1 DEF m1
  <2> QED
    BY <2>2, <2>3
<1> QED
  BY <1>5, <1>6 DEF Disturbs, WritesTo, X

\* Nodes that are linked or removed, or whose cursor is in tree t, make up for
\* what changes in t.
Excused(n) ==
  \/ \E m \in Node : owner[m] # owner'[m] /\ owner[n] \in {owner[m], owner'[m]}
  \/ cur \in InUse /\ owner[cur] = owner[n]

OthersKept ==
  \A n \in InUse : <<link[n], pf[n]>>' # <<link[n], pf[n]>> => Excused(n)

\* A call on one tree,
LEMMA DisturbsOne ==
  ASSUME IInv, NEW t, Disturbs(t), \A n \in InUse : owner[n] = t => Excused(n)
  PROVE  OthersKept
<1>1. ASSUME NEW n \in InUse, owner[n] # t
      PROVE  link'[n] = link[n] /\ pf'[n] = pf[n]
  <2>1. n \in Node \ OwnNodes(t)
    BY <1>1 DEF OwnNodes, InUse, Owned
  <2> QED
    BY <2>1 DEF Disturbs, WritesTo, OnlyWords, OnlyFields
<1> QED
  BY <1>1 DEF OthersKept

\* on one tree and a new node,
LEMMA InsertionKeepsOthers ==
  ASSUME IInv, NEW t, NEW n \in Node, owner[n] = NULL, owner'[n] = t,
         WritesTo(OwnNodes(t) \cup {n})
  PROVE  OthersKept
<1>1. ASSUME NEW k \in InUse, owner[k] # t
      PROVE  link'[k] = link[k] /\ pf'[k] = pf[k]
  <2>1. k \in Node \ (OwnNodes(t) \cup {n})
    BY <1>1 DEF OwnNodes, InUse, Owned
  <2> QED
    BY <2>1 DEF WritesTo, OnlyWords, OnlyFields
<1>2. \A k \in InUse : owner[k] = t => Excused(k)
  BY DEF Excused, InUse, Owned
<1> QED
  BY <1>1, <1>2 DEF OthersKept

\* on a node in no tree,
LEMMA DisturbsNone ==
  ASSUME NEW n \in Node, owner[n] = NULL, IInv,
         link' = [link EXCEPT ![n] = NoLinks],
         pf' = c_rbnode_set_parent_and_flags(pf, n, n, {})
  PROVE  OthersKept
BY InUseFacts DEF OthersKept, c_rbnode_set_parent_and_flags, InUse, Owned, Words, Memory

\* on all nodes of a tree.
LEMMA MoveKeepsOthers ==
  ASSUME IInv, NEW to \in Tree, NEW from \in Tree, c_rbtree_move(to, from)
  PROVE  OthersKept
<1>1. /\ owner' = [n \in Node |-> IF owner[n] = from THEN to ELSE owner[n]]
      /\ link[from]["root"] # NULL /\ link[to]["root"] = NULL
  BY DEF c_rbtree_move
<1>2. ASSUME NEW n \in InUse, owner[n] = from
      PROVE  Excused(n)
  BY <1>1, <1>2 DEF Excused, InUse, Owned
<1> QED
  BY <1>2, MoveDisturbs, DisturbsOne

\* All steps.
LEMMA CallsKeepOthers ==
  ASSUME IInv, [Next]_vars
  PROVE  OthersKept
<1>1. ASSUME link' = link, pf' = pf
      PROVE  OthersKept
  BY <1>1 DEF OthersKept
<1>2. ASSUME cur \in InUse, Disturbs(owner[cur])
      PROVE  OthersKept
  BY <1>2, DisturbsOne DEF Excused
<1>3. ASSUME NEW n \in Node, owner'[n] # owner[n], Disturbs(owner[n])
      PROVE  OthersKept
  BY <1>3, DisturbsOne DEF Excused
<1>4. CASE Step
  <2>1. CASE PaintRoot \/ PaintDone \/ PaintRecolor \/ PaintRotate \/ PaintRotateTwice
    <3>1. pc = "paint"
      BY <2>1 DEF PaintRoot, PaintDone, PaintRecolor, PaintRotate, PaintRotateTwice
    <3> QED
      BY <2>1, <3>1, <1>2, PaintDisturbs
  <2>2. CASE WalkLeft \/ RebalanceEnd
    BY <2>2, <1>1 DEF WalkLeft, RebalanceEnd, memory
  <2>3. CASE SpliceSuccessor
    <3>1. victim \in InUse /\ Disturbs(owner[victim]) /\ victim \in Node /\ owner[victim] # NULL
      BY <2>3, SpliceDisturbs DEF InUse, Owned
    <3>2. owner'[victim] = NULL
      BY <2>3, <3>1, InUseFacts DEF SpliceSuccessor, Detach, Owners
    <3> QED
      BY <3>1, <3>2, <1>3
  <2>4. CASE \/ RebalanceRecolor \/ RebalanceFound
             \/ RotateRedSibling \/ RotateRecolor \/ RotateSibling \/ RotateNephew
    <3>1. pc \in {"rebalance", "rotate"} /\ (pc = "rebalance" => cur # NULL)
      BY <2>4 DEF RebalanceRecolor, RebalanceFound, RotateRedSibling, RotateRecolor,
                  RotateSibling, RotateNephew
    <3>2. cur # NULL
      BY <3>1 DEF IInv, Rebalancing
    <3> QED
      BY <2>4, <3>1, <3>2, <1>2, RebalanceDisturbs
  <2>5. CASE Reinit
    BY <2>5, DisturbsNone DEF Reinit, IInv, Initialising
  <2> QED
    BY <1>4, <2>1, <2>2, <2>3, <2>4, <2>5 DEF Step
<1>5. CASE Move
  BY <1>5, MoveKeepsOthers DEF Move
<1>6. ASSUME NEW t \in Tree, c_rbtree_init(t)
      PROVE  OthersKept
  BY <1>6, InUseFacts, DistinctAddresses DEF c_rbtree_init, OthersKept, Memory
<1>7. ASSUME NEW n \in Node, NEW t \in Tree, AddRoot(t, n)
      PROVE  OthersKept
  <2>1. owner'[n] = t /\ owner[n] = NULL
    BY <1>7, InUseFacts DEF AddRoot, Owners
  <2> QED
    BY <1>7, <2>1, AddRootDisturbs, InsertionKeepsOthers
<1>8. ASSUME NEW n \in Node, NEW p \in Node, NEW d \in Dir, Link(p, d, n)
      PROVE  OthersKept
  <2>1. owner'[n] = owner[p] /\ owner[n] = NULL
    BY <1>8, InUseFacts DEF Link, Owners
  <2> QED
    BY <1>8, <2>1, LinkDisturbs, InsertionKeepsOthers
<1>9. ASSUME NEW n \in Node, Unlink(n)
      PROVE  OthersKept
  <2>1. PICK api \in APICall : \/ UnlinkLeaf(api, n)
                               \/ \E d \in Dir : UnlinkOneChild(api, n, d)
                               \/ UnlinkFull(api, n)
    BY <1>9 DEF Unlink
  <2>2. owner[n] # NULL
    BY <2>1, RemovableInUse DEF UnlinkLeaf, UnlinkOneChild, UnlinkFull, InUse, Owned
  <2>3. CASE UnlinkFull(api, n)
    BY <2>3, <1>1 DEF UnlinkFull, memory
  <2>4. CASE UnlinkLeaf(api, n) \/ \E d \in Dir : UnlinkOneChild(api, n, d)
    <3>1. owner'[n] = NULL
      BY <2>4, InUseFacts DEF UnlinkLeaf, UnlinkOneChild, Detach, Owners
    <3> QED
      BY <2>2, <2>4, <3>1, <1>3, UnlinkDisturbs
  <2> QED
    BY <2>1, <2>3, <2>4
<1>10. ASSUME NEW n \in Node, c_rbnode_init(n)
       PROVE  OthersKept
  BY <1>10, DisturbsNone DEF c_rbnode_init
<1>11. CASE UNCHANGED vars
  BY <1>11, <1>1 DEF vars
<1> QED
  BY <1>4, <1>5, <1>6, <1>7, <1>8, <1>9, <1>10, <1>11 DEF Next

\* A call on one tree writes to no node of another tree, whatever garbage the
\* pointers of a node that is linked anew hold.
THEOREM CallsKeepToTheirTree == Spec => ForeignTreesUntouched
<1>1. IInv /\ [Next]_vars => [OthersKept]_vars
  BY CallsKeepOthers
<1>2. Spec => [][OthersKept]_vars
  BY <1>1, Invariance, PTL DEF Spec
<1>3. OthersKept <=>
        \A n \in InUse :
          <<link[n], pf[n]>>' # <<link[n], pf[n]>> =>
            \/ \E m \in Node : owner[m] # owner'[m] /\ owner[n] \in {owner[m], owner'[m]}
            \/ cur \in InUse /\ owner[cur] = owner[n]
  BY DEF OthersKept, Excused
<1> QED
  BY <1>2, <1>3, PTL DEF ForeignTreesUntouched

-----------------------------------------------------------------------------
(* Nodes in no tree *)

\* A step leaves a node that is in no tree alone, links it or resets it.
FreeNodeKept(n) ==
  \/ link'[n] = link[n] /\ pf'[n] = pf[n] /\ (n \in stale => n \in stale')
  \/ owner'[n] # NULL
  \/ n \notin stale' /\ link'[n] = NoLinks

FreeNodesKept == \A n \in Node \ InUse : FreeNodeKept(n)

\* A call that writes to a tree only,
LEMMA DisturbsNoFree ==
  ASSUME IInv, NEW t, t # NULL, Disturbs(t), stale \subseteq stale'
  PROVE  FreeNodesKept
<1>1. ASSUME NEW n \in Node \ InUse
      PROVE  link'[n] = link[n] /\ pf'[n] = pf[n]
  <2>1. n \in Node \ OwnNodes(t)
    BY <1>1 DEF OwnNodes, InUse, Owned
  <2> QED
    BY <2>1 DEF Disturbs, WritesTo, OnlyWords, OnlyFields
<1> QED
  BY <1>1 DEF FreeNodesKept, FreeNodeKept

\* and to a node that is put into it,
LEMMA InsertionLinksFree ==
  ASSUME IInv, NEW t, t # NULL, NEW n \in Node, owner'[n] # NULL, stale' = stale \ {n},
         WritesTo(OwnNodes(t) \cup {n})
  PROVE  FreeNodesKept
<1>1. ASSUME NEW k \in Node \ InUse, k # n
      PROVE  link'[k] = link[k] /\ pf'[k] = pf[k] /\ (k \in stale => k \in stale')
  <2>1. k \in Node \ (OwnNodes(t) \cup {n})
    BY <1>1 DEF OwnNodes, InUse, Owned
  <2> QED
    BY <1>1, <2>1 DEF WritesTo, OnlyWords, OnlyFields
<1> QED
  BY <1>1 DEF FreeNodesKept, FreeNodeKept

\* c_rbnode_init.
LEMMA ResetFreeNode ==
  ASSUME IInv, NEW n \in Node,
         link' = [link EXCEPT ![n] = NoLinks],
         pf' = c_rbnode_set_parent_and_flags(pf, n, n, {}), stale' = stale \ {n}
  PROVE  FreeNodesKept
<1>1. link \in Memory /\ pf \in [Node -> Word]
  BY DEF IInv, Sound
<1>2. link'[n] = NoLinks
  BY <1>1 DEF Memory
<1>3. ASSUME NEW k \in Node, k # n
      PROVE  link'[k] = link[k] /\ pf'[k] = pf[k]
  BY <1>1, <1>3 DEF Memory, c_rbnode_set_parent_and_flags
<1> QED
  BY <1>2, <1>3 DEF FreeNodesKept, FreeNodeKept

\* All steps.
LEMMA CallsKeepFree ==
  ASSUME IInv, [Next]_vars
  PROVE  FreeNodesKept
<1>1. ASSUME link' = link, pf' = pf, stale \subseteq stale'
      PROVE  FreeNodesKept
  BY <1>1 DEF FreeNodesKept, FreeNodeKept
<1>2. \A n \in InUse : n \in Node /\ owner[n] # NULL
  BY DEF InUse, Owned
<1>3. CASE Step
  <2>1. CASE PaintRoot \/ PaintDone \/ PaintRecolor \/ PaintRotate \/ PaintRotateTwice
    <3>1. pc = "paint" /\ stale' = stale
      BY <2>1 DEF PaintRoot, PaintDone, PaintRecolor, PaintRotate, PaintRotateTwice, caller
    <3> QED
      BY <1>2, <2>1, <3>1, PaintDisturbs, DisturbsNoFree
  <2>2. CASE WalkLeft \/ RebalanceEnd
    BY <2>2, <1>1 DEF WalkLeft, RebalanceEnd, memory, caller
  <2>3. CASE SpliceSuccessor
    <3>1. stale' = stale \cup {victim}
      BY <2>3 DEF SpliceSuccessor, Detach
    <3> QED
      BY <1>2, <2>3, <3>1, SpliceDisturbs, DisturbsNoFree
  <2>4. CASE \/ RebalanceRecolor \/ RebalanceFound
             \/ RotateRedSibling \/ RotateRecolor \/ RotateSibling \/ RotateNephew
    <3>1. pc \in {"rebalance", "rotate"} /\ (pc = "rebalance" => cur # NULL) /\ stale' = stale
      BY <2>4 DEF RebalanceRecolor, RebalanceFound, RotateRedSibling, RotateRecolor,
                  RotateSibling, RotateNephew, caller
    <3>2. cur # NULL
      BY <3>1 DEF IInv, Rebalancing
    <3> QED
      BY <1>2, <2>4, <3>1, <3>2, RebalanceDisturbs, DisturbsNoFree
  <2>5. CASE Reinit
    BY <2>5, ResetFreeNode DEF Reinit, IInv, Initialising
  <2> QED
    BY <1>3, <2>1, <2>2, <2>3, <2>4, <2>5 DEF Step
<1>4. CASE Move
  <2>1. PICK to \in Tree, from \in Tree : c_rbtree_move(to, from)
    BY <1>4 DEF Move
  <2>2. Disturbs(from) /\ stale' = stale /\ from # NULL
    BY <2>1, MoveDisturbs, DistinctAddresses DEF c_rbtree_move
  <2> QED
    BY <2>2, DisturbsNoFree
<1>5. ASSUME NEW t \in Tree, c_rbtree_init(t)
      PROVE  FreeNodesKept
  <2>1. \A n \in Node : link'[n] = link[n] /\ pf'[n] = pf[n]
    BY <1>5, InUseFacts, DistinctAddresses DEF c_rbtree_init, Memory
  <2>2. stale \subseteq stale'
    BY <1>5 DEF c_rbtree_init
  <2> QED
    BY <2>1, <2>2 DEF FreeNodesKept, FreeNodeKept
<1>6. ASSUME NEW n \in Node, NEW t \in Tree, AddRoot(t, n)
      PROVE  FreeNodesKept
  <2>1. owner'[n] = t /\ stale' = stale \ {n} /\ t # NULL
    BY <1>6, InUseFacts, DistinctAddresses DEF AddRoot, Owners
  <2> QED
    BY <1>6, <2>1, AddRootDisturbs, InsertionLinksFree
<1>7. ASSUME NEW n \in Node, NEW p \in Node, NEW d \in Dir, Link(p, d, n)
      PROVE  FreeNodesKept
  <2>1. owner'[n] = owner[p] /\ stale' = stale \ {n} /\ owner[p] # NULL
    BY <1>7, InUseFacts DEF Link, Owners
  <2> QED
    BY <1>7, <2>1, LinkDisturbs, InsertionLinksFree
<1>8. ASSUME NEW n \in Node, Unlink(n)
      PROVE  FreeNodesKept
  <2>1. PICK api \in APICall : \/ UnlinkLeaf(api, n)
                               \/ \E d \in Dir : UnlinkOneChild(api, n, d)
                               \/ UnlinkFull(api, n)
    BY <1>8 DEF Unlink
  <2>2. owner[n] # NULL
    BY <2>1, RemovableInUse DEF UnlinkLeaf, UnlinkOneChild, UnlinkFull, InUse, Owned
  <2>3. stale \subseteq stale'
    BY <2>1 DEF UnlinkLeaf, UnlinkOneChild, UnlinkFull, Detach, caller
  <2> QED
    BY <2>1, <2>2, <2>3, UnlinkDisturbs, DisturbsNoFree
<1>9. ASSUME NEW n \in Node, c_rbnode_init(n)
      PROVE  FreeNodesKept
  BY <1>9, ResetFreeNode DEF c_rbnode_init
<1>10. CASE UNCHANGED vars
  BY <1>10, <1>1 DEF vars
<1> QED
  BY <1>3, <1>4, <1>5, <1>6, <1>7, <1>8, <1>9, <1>10 DEF Next

\* Stale nodes are in no tree, and the fields of a node that is neither stale
\* nor in a tree are NULL.
OutsideOK ==
  \A n \in Node : /\ n \in stale => owner[n] = NULL
                  /\ n \notin stale /\ owner[n] = NULL => link[n] = NoLinks

\* Nodes become stale when they leave a tree, and do not get into one as such.
StaleWhenOut(n) ==
  /\ owner[n] # NULL /\ owner'[n] = NULL => n \in stale'
  /\ n \in stale' => owner'[n] = NULL

LEMMA LeaversBecomeStale ==
  ASSUME IInv, OutsideOK, [Next]_vars, NEW n \in Node
  PROVE  StaleWhenOut(n)
<1>1. /\ owner \in [Node -> Tree \cup {NULL}] /\ NULL \notin Tree
      /\ \A k \in Node : k \in stale => owner[k] = NULL
  BY InUseFacts, DistinctAddresses DEF Owners, OutsideOK
<1>2. ASSUME owner' = owner, stale' \subseteq stale
      PROVE  StaleWhenOut(n)
  BY <1>1, <1>2 DEF StaleWhenOut
<1>3. ASSUME NEW k \in Node, Detach(k)
      PROVE  StaleWhenOut(n)
  BY <1>1, <1>3 DEF Detach, StaleWhenOut
<1>4. ASSUME NEW k \in Node, stale' = stale \ {k}, NEW t \in Tree,
             owner' = [owner EXCEPT ![k] = t]
      PROVE  StaleWhenOut(n)
  BY <1>1, <1>4 DEF StaleWhenOut
<1>5. CASE Step
  <2>1. CASE SpliceSuccessor
    BY <1>3, <2>1 DEF SpliceSuccessor, IInv, Searching, InUse, Owned
  <2>2. CASE Reinit
    BY <1>2, <2>2 DEF Reinit
  <2>3. CASE ~SpliceSuccessor /\ ~Reinit
    <3>1. UNCHANGED caller
      BY <1>5, <2>3 DEF Step, PaintRoot, PaintDone, PaintRecolor, PaintRotate, PaintRotateTwice,
                        WalkLeft, RebalanceEnd, RebalanceRecolor, RebalanceFound,
                        RotateRedSibling, RotateRecolor, RotateSibling, RotateNephew
    <3> QED
      BY <1>2, <3>1 DEF caller
  <2> QED
    BY <2>1, <2>2, <2>3
<1>6. CASE Move
  <2>1. PICK to \in Tree, from \in Tree : c_rbtree_move(to, from)
    BY <1>6 DEF Move
  <2> QED
    BY <1>1, <2>1 DEF c_rbtree_move, StaleWhenOut
<1>7. ASSUME NEW t \in Tree, c_rbtree_init(t)
      PROVE  StaleWhenOut(n)
  BY <1>1, <1>7 DEF c_rbtree_init, StaleWhenOut
<1>8. ASSUME NEW k \in Node, NEW t \in Tree, AddRoot(t, k)
      PROVE  StaleWhenOut(n)
  BY <1>4, <1>8 DEF AddRoot
<1>9. ASSUME NEW k \in Node, NEW p \in Node, NEW d \in Dir, Link(p, d, k)
      PROVE  StaleWhenOut(n)
  BY <1>1, <1>4, <1>9 DEF Link
<1>10. ASSUME NEW k \in Node, Unlink(k)
       PROVE  StaleWhenOut(n)
  BY <1>2, <1>3, <1>10 DEF Unlink, UnlinkLeaf, UnlinkOneChild, UnlinkFull, caller
<1>11. ASSUME NEW k \in Node, c_rbnode_init(k)
       PROVE  StaleWhenOut(n)
  BY <1>2, <1>11 DEF c_rbnode_init
<1>12. CASE UNCHANGED vars
  BY <1>2, <1>12 DEF vars
<1> QED
  BY <1>5, <1>6, <1>7, <1>8, <1>9, <1>10, <1>11, <1>12 DEF Next

LEMMA OutsideStays ==
  ASSUME IInv, OutsideOK, [Next]_vars
  PROVE  OutsideOK'
<1>1. ASSUME NEW n \in Node
      PROVE  /\ n \in stale' => owner'[n] = NULL
             /\ n \notin stale' /\ owner'[n] = NULL => link'[n] = NoLinks
  <2>1. StaleWhenOut(n) /\ FreeNodesKept
    BY CallsKeepFree, LeaversBecomeStale
  <2>2. CASE owner[n] # NULL
    BY <2>1, <2>2 DEF StaleWhenOut
  <2>3. CASE owner[n] = NULL
    <3>1. FreeNodeKept(n)
      BY <2>1, <2>3 DEF FreeNodesKept, InUse, Owned
    <3> QED
      BY <2>1, <2>3, <3>1 DEF FreeNodeKept, StaleWhenOut, OutsideOK
  <2> QED
    BY <2>2, <2>3
<1> QED
  BY <1>1 DEF OutsideOK


\* The memory of a node that is in no tree is the caller's: no call writes to
\* it but to link or to reset it, not even the rebalancing after its removal,
\* while its stale fields still point into the tree.
THEOREM NodesOutsideLeftAlone == Spec => [][FreeNodesKept]_vars
<1>1. IInv /\ [Next]_vars => [FreeNodesKept]_vars
  BY CallsKeepFree
<1> QED
  BY <1>1, Invariance, PTL DEF Spec

\* Whatever calls a node has been through, once it is in no tree it is as after
\* c_rbnode_init, or the caller knows its fields to be stale.
THEOREM NodesOutsideStaleOrReset == Spec => []OutsideOK
<1>1. Init => OutsideOK
  BY DEF Init, OutsideOK, Memory, NoLinks
<1>2. IInv /\ OutsideOK /\ [Next]_vars => OutsideOK'
  BY OutsideStays
<1> QED
  BY <1>1, <1>2, Invariance, PTL DEF Spec
=============================================================================
