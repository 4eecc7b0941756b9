--------------------------- MODULE CRBOrderProofs ---------------------------
(***************************************************************************)
(* What recursive functions compute on the trees of CRBTree.  Heights: the *)
(* bound on every path that makes the functions of c-rbtree.c take         *)
(* logarithmic time.  Orders: what the in-order sequences hold, that every *)
(* step changes them as LinearOrder says, and that the functions of        *)
(* CRBTraverse step through them.                                          *)
(***************************************************************************)
EXTENDS CRBTraverse, CRBMapProofs

-----------------------------------------------------------------------------
(* Recursion over the child fields *)

\* f is z at NULL, and at a node what step makes of f at its two children.
Computed(m, z, step, f) ==
  /\ f[NULL] = z
  /\ \A n \in Node : f[n] = step[n][<<f[m[n]["left"]], f[m[n]["right"]]>>]

OnlySolution(m, z, step, f) ==
  /\ Computed(m, z, step, f)
  /\ \A g : Computed(m, z, step, g) => \A x \in Pointer : g[x] = f[x]

\* A memory without loops whose fields are pointers.
LoopFree(m) == NoLoops(m) /\ \A n \in Node, d \in Dir : m[n][d] \in Pointer

\* What holds for a node whenever it holds for its children, holds for all.
LEMMA TreeInduction ==
  ASSUME NEW m, LoopFree(m), NEW S,
         NULL \in S,
         \A n \in Node : m[n]["left"] \in S /\ m[n]["right"] \in S => n \in S
  PROVE  Pointer \subseteq S
<1> DEFINE B == Node \ S
<1>1. ASSUME B # {}
      PROVE  FALSE
  <2>1. PICK n \in B : \A d \in Dir : m[n][d] \notin B
    BY <1>1 DEF LoopFree, NoLoops
  <2>2. m[n]["left"] \in S /\ m[n]["right"] \in S
    BY <2>1 DEF LoopFree, Pointer, Dir
  <2> QED
    BY <2>1, <2>2
<1> QED
  BY <1>1 DEF Pointer

\* The pairs <<x, v>> that every relation contains which is closed under the
\* equations of Computed.
ClosedUnder(m, V, z, step, Q) ==
  /\ Q \in SUBSET (Pointer \X V)
  /\ <<NULL, z>> \in Q
  /\ \A n \in Node, a, b \in V :
       <<m[n]["left"], a>> \in Q /\ <<m[n]["right"], b>> \in Q => <<n, step[n][<<a, b>>]>> \in Q

Derived(m, V, z, step) ==
  {r \in Pointer \X V : \A Q : ClosedUnder(m, V, z, step, Q) => r \in Q}

\* The derived pairs are themselves closed under derivation.
LEMMA DerivedFacts ==
  ASSUME NEW m, LoopFree(m), NEW V, NEW z \in V, NEW step \in [Node -> [V \X V -> V]]
  PROVE  ClosedUnder(m, V, z, step, Derived(m, V, z, step))
<1> DEFINE R == Derived(m, V, z, step)
<1>1. R \in SUBSET (Pointer \X V) /\ <<NULL, z>> \in R
  BY DEF Derived, ClosedUnder, Pointer
<1>2. ASSUME NEW n \in Node, NEW a \in V, NEW b \in V,
             <<m[n]["left"], a>> \in R, <<m[n]["right"], b>> \in R
      PROVE  <<n, step[n][<<a, b>>]>> \in R
  <2>1. <<n, step[n][<<a, b>>]>> \in Pointer \X V
    BY DEF Pointer
  <2>2. ASSUME NEW Q, ClosedUnder(m, V, z, step, Q)
        PROVE  <<n, step[n][<<a, b>>]>> \in Q
    BY <1>2, <2>2 DEF Derived, ClosedUnder
  <2> QED
    BY <2>1, <2>2 DEF Derived
<1> QED
  BY <1>1, <1>2 DEF ClosedUnder

OneValue(V, R, x) == \E v \in V : \A w \in V : <<x, w>> \in R <=> w = v

\* Every pointer has exactly one value.
LEMMA DerivedIsUnique ==
  ASSUME NEW m, LoopFree(m), NEW V, NEW z \in V, NEW step \in [Node -> [V \X V -> V]]
  PROVE  \A x \in Pointer : OneValue(V, Derived(m, V, z, step), x)
<1> DEFINE R == Derived(m, V, z, step)
           S == {x \in Pointer : OneValue(V, R, x)}
<1>1. ClosedUnder(m, V, z, step, R)
  BY DerivedFacts
<1>2. ASSUME NEW r \in R, ClosedUnder(m, V, z, step, R \ {r})
      PROVE  FALSE
  BY <1>2 DEF Derived
<1> HIDE DEF R
<1>3. NULL \in S
  <2>1. ASSUME NEW w \in V, w # z, <<NULL, w>> \in R
        PROVE  FALSE
    <3>1. ClosedUnder(m, V, z, step, R \ {<<NULL, w>>})
      BY <1>1, <2>1, DistinctAddresses DEF ClosedUnder
    <3> QED
      BY <1>2, <2>1, <3>1
  <2>2. <<NULL, z>> \in R
    BY <1>1 DEF ClosedUnder
  <2> QED
    BY <2>1, <2>2 DEF Pointer, OneValue
<1>4. ASSUME NEW n \in Node, m[n]["left"] \in S, m[n]["right"] \in S
      PROVE  n \in S
  <2>1. PICK a \in V : \A w \in V : <<m[n]["left"], w>> \in R <=> w = a
    BY <1>4 DEF OneValue
  <2>2. PICK b \in V : \A w \in V : <<m[n]["right"], w>> \in R <=> w = b
    BY <1>4 DEF OneValue
  <2> DEFINE v == step[n][<<a, b>>]
  <2>3. v \in V /\ <<n, v>> \in R
    BY <1>1, <2>1, <2>2 DEF ClosedUnder
  <2>4. ASSUME NEW w \in V, w # v, <<n, w>> \in R
        PROVE  FALSE
    <3>1. \A k \in Node, c, d \in V :
            <<m[k]["left"], c>> \in R /\ <<m[k]["right"], d>> \in R
              => <<k, step[k][<<c, d>>]>> # <<n, w>>
      BY <2>1, <2>2, <2>4
    <3>2. ClosedUnder(m, V, z, step, R \ {<<n, w>>})
      BY <1>1, <3>1, DistinctAddresses DEF ClosedUnder
    <3> QED
      BY <1>2, <2>4, <3>2
  <2> QED
    BY <2>3, <2>4 DEF Pointer, OneValue
<1>5. S \subseteq Pointer
  OBVIOUS
<1>6. Pointer \subseteq S
  <2> HIDE DEF S
  <2> QED
    BY <1>3, <1>4, TreeInduction
<1> QED
  BY <1>6 DEF R

\* The equations of a recursive function on a memory without loops have exactly
\* one solution.
LEMMA Recursion ==
  ASSUME NEW m, LoopFree(m), NEW V, NEW z \in V, NEW step \in [Node -> [V \X V -> V]]
  PROVE  \E f \in [Pointer -> V] : OnlySolution(m, z, step, f)
<1> DEFINE R == Derived(m, V, z, step)
<1>1. ClosedUnder(m, V, z, step, R)
  BY DerivedFacts
<1>2. \A x \in Pointer : OneValue(V, R, x)
  BY DerivedIsUnique
<1> HIDE DEF R
<1> DEFINE f == [x \in Pointer |-> CHOOSE v \in V : <<x, v>> \in R]
<1>3. ASSUME NEW x \in Pointer
      PROVE  f[x] \in V /\ \A w \in V : <<x, w>> \in R <=> w = f[x]
  BY <1>2 DEF OneValue
<1>4. f \in [Pointer -> V]
  BY <1>3
<1> HIDE DEF f
<1>5. Computed(m, z, step, f)
  <2>1. f[NULL] = z
    BY <1>1, <1>3 DEF ClosedUnder, Pointer
  <2>2. ASSUME NEW n \in Node
        PROVE  f[n] = step[n][<<f[m[n]["left"]], f[m[n]["right"]]>>]
    <3>1. m[n]["left"] \in Pointer /\ m[n]["right"] \in Pointer /\ n \in Pointer
      BY DEF LoopFree, Pointer, Dir
    <3>2. <<n, step[n][<<f[m[n]["left"]], f[m[n]["right"]]>>]>> \in R
      BY <1>1, <1>3, <3>1 DEF ClosedUnder
    <3>3. step[n][<<f[m[n]["left"]], f[m[n]["right"]]>>] \in V
      BY <1>3, <3>1
    <3> QED
      BY <1>3, <3>1, <3>2, <3>3
  <2> QED
    BY <2>1, <2>2 DEF Computed
<1>6. ASSUME NEW g, Computed(m, z, step, g)
      PROVE  \A x \in Pointer : g[x] = f[x]
  <2> DEFINE S == {x \in Pointer : g[x] = f[x]}
  <2>1. NULL \in S
    BY <1>5, <1>6 DEF Computed, Pointer
  <2>2. ASSUME NEW n \in Node, m[n]["left"] \in S, m[n]["right"] \in S
        PROVE  n \in S
    BY <1>5, <1>6, <2>2 DEF Computed, Pointer
  <2>3. Pointer \subseteq S
    <3> HIDE DEF S
    <3> QED
      BY <2>1, <2>2, TreeInduction
  <2> QED
    BY <2>3
<1> QED
  BY <1>4, <1>5, <1>6 DEF OnlySolution

-----------------------------------------------------------------------------
(* Black heights *)

\* The larger of two numbers.
LEMMA LargerFacts ==
  ASSUME NEW i \in Nat, NEW j \in Nat
  PROVE  /\ LargerOf(i, j) \in Nat /\ i <= LargerOf(i, j) /\ j <= LargerOf(i, j)
         /\ LargerOf(i, j) \in {i, j}
BY DEF LargerOf

\* What the invariant says of the fields of all nodes.
LEMMA FieldsLoopFree ==
  ASSUME IInv, NoLoops(link)
  PROVE  LoopFree(link)
BY Sides DEF IInv, Sound, Memory, LoopFree

\* f gives the most that add adds up to on a path down.
Adds(add, f) ==
  /\ f[NULL] = 0
  /\ \A n \in Node : f[n] = LargerOf(f[link[n]["left"]], f[link[n]["right"]]) + add[n]

\* There is such a function.
LEMMA LongestPaths ==
  ASSUME LoopFree(link), NEW add \in [Node -> Nat]
  PROVE  \E f \in [Pointer -> Nat] : Adds(add, f)
<1> DEFINE step == [n \in Node |-> [p \in Nat \X Nat |-> LargerOf(p[1], p[2]) + add[n]]]
<1>1. step \in [Node -> [Nat \X Nat -> Nat]]
  <2>1. ASSUME NEW n \in Node, NEW p \in Nat \X Nat
        PROVE  LargerOf(p[1], p[2]) + add[n] \in Nat
    <3>1. p[1] \in Nat /\ p[2] \in Nat
      OBVIOUS
    <3>2. LargerOf(p[1], p[2]) \in Nat
      BY <3>1, LargerFacts
    <3> QED
      BY <3>2
  <2> QED
    BY <2>1
<1>2. \A n \in Node, i, j \in Nat : step[n][<<i, j>>] = LargerOf(i, j) + add[n]
  OBVIOUS
<1> HIDE DEF step
<1>3. PICK f \in [Pointer -> Nat] : Computed(link, 0, step, f)
  <2>1. 0 \in Nat
    OBVIOUS
  <2> QED
    BY <1>1, <2>1, Recursion DEF OnlySolution
<1>4. ASSUME NEW n \in Node
      PROVE  f[n] = LargerOf(f[link[n]["left"]], f[link[n]["right"]]) + add[n]
  <2>1. f[link[n]["left"]] \in Nat /\ f[link[n]["right"]] \in Nat
    BY DEF LoopFree, Dir
  <2>2. f[n] = step[n][<<f[link[n]["left"]], f[link[n]["right"]]>>]
    BY <1>3 DEF Computed
  <2> QED
    BY <2>1, <2>2, <1>2
<1>5. f[NULL] = 0
  BY <1>3 DEF Computed
<1> QED
  BY <1>4, <1>5 DEF Adds

\* Such sums are numbers.
LEMMA SumsAreNumbers ==
  ASSUME LoopFree(link), NEW add \in [Node -> Nat], NEW f, Adds(add, f)
  PROVE  \A x \in Pointer : f[x] \in Nat
<1> DEFINE S == {x \in Pointer : f[x] \in Nat}
<1>1. NULL \in S
  BY DEF Adds, Pointer
<1>2. ASSUME NEW n \in Node, link[n]["left"] \in S, link[n]["right"] \in S
      PROVE  n \in S
  <2>1. LargerOf(f[link[n]["left"]], f[link[n]["right"]]) \in Nat
    BY <1>2, LargerFacts
  <2> QED
    BY <2>1 DEF Adds, Pointer
<1>3. Pointer \subseteq S
  <2> HIDE DEF S
  <2> QED
    BY <1>1, <1>2, TreeInduction
<1> QED
  BY <1>3

\* The recursive definitions of the black height and
LEMMA BlackHeightFacts ==
  ASSUME LoopFree(link)
  PROVE  /\ \A x \in Pointer : BlackHeight[x] \in Nat
         /\ BlackHeight[NULL] = 0
         /\ \A n \in Node :
              BlackHeight[n] = LargerOf(BlackHeight[link[n]["left"]], BlackHeight[link[n]["right"]])
                        + Black(pf, n)
<1> DEFINE add == [n \in Node |-> Black(pf, n)]
           Body(g) == [x \in Pointer |->
                         IF x = NULL THEN 0
                         ELSE LargerOf(g[link[x]["left"]], g[link[x]["right"]]) + Black(pf, x)]
<1>1. add \in [Node -> Nat]
  BY DEF Black
<1>2. \A n \in Node : add[n] = Black(pf, n)
  OBVIOUS
<1> HIDE DEF add
<1>3. PICK f \in [Pointer -> Nat] : Adds(add, f)
  BY <1>1, LongestPaths
<1>4. f = Body(f)
  <2>1. ASSUME NEW x \in Pointer
        PROVE  f[x] = Body(f)[x]
    <3>1. CASE x = NULL
      BY <3>1, <1>3 DEF Adds
    <3>2. CASE x # NULL
      <4>1. x \in Node
        BY <3>2 DEF Pointer
      <4> QED
        BY <3>2, <4>1, <1>2, <1>3 DEF Adds
    <3> QED
      BY <3>1, <3>2
  <2> QED
    BY <2>1
<1>5. BlackHeight = CHOOSE g : g = Body(g)
  BY DEF BlackHeight
<1> HIDE DEF Body
<1>6. BlackHeight = Body(BlackHeight)
  BY <1>4, <1>5
<1> USE DEF Body
<1>7. Adds(add, BlackHeight)
  BY <1>6, <1>2, DistinctAddresses DEF Pointer, Adds
<1> HIDE DEF Body
<1> QED
  BY <1>1, <1>2, <1>7, SumsAreNumbers DEF Adds

\* of the depth make sense: the fields lead to an end.
LEMMA DepthFacts ==
  ASSUME LoopFree(link)
  PROVE  /\ \A x \in Pointer : Depth[x] \in Nat
         /\ Depth[NULL] = 0
         /\ \A n \in Node :
              Depth[n] = LargerOf(Depth[link[n]["left"]], Depth[link[n]["right"]])
                        + 1
<1> DEFINE add == [n \in Node |-> 1]
           Body(g) == [x \in Pointer |->
                         IF x = NULL THEN 0
                         ELSE LargerOf(g[link[x]["left"]], g[link[x]["right"]]) + 1]
<1>1. add \in [Node -> Nat]
  OBVIOUS
<1>2. \A n \in Node : add[n] = 1
  OBVIOUS
<1> HIDE DEF add
<1>3. PICK f \in [Pointer -> Nat] : Adds(add, f)
  BY <1>1, LongestPaths
<1>4. f = Body(f)
  <2>1. ASSUME NEW x \in Pointer
        PROVE  f[x] = Body(f)[x]
    <3>1. CASE x = NULL
      BY <3>1, <1>3 DEF Adds
    <3>2. CASE x # NULL
      <4>1. x \in Node
        BY <3>2 DEF Pointer
      <4> QED
        BY <3>2, <4>1, <1>2, <1>3 DEF Adds
    <3> QED
      BY <3>1, <3>2
  <2> QED
    BY <2>1
<1>5. Depth = CHOOSE g : g = Body(g)
  BY DEF Depth
<1> HIDE DEF Body
<1>6. Depth = Body(Depth)
  BY <1>4, <1>5
<1> USE DEF Body
<1>7. Adds(add, Depth)
  BY <1>6, <1>2, DistinctAddresses DEF Pointer, Adds
<1> HIDE DEF Body
<1> QED
  BY <1>1, <1>2, <1>7, SumsAreNumbers DEF Adds

\* Heights that all paths agree with are the computed ones: a node that counts
\* as present on the side with the hole makes that side as high as the other.
LEMMA HeightsAreComputed ==
  ASSUME IInv, LoopFree(link), NEW h \in Heights, NEW q, NEW e \in Dir,
         HeightsAgree(owner, link, pf, h, q, e)
  PROVE  \A n \in InUse : h[n] = BlackHeight[n]
<1> DEFINE S == {x \in Pointer : x \in InUse => h[x] = BlackHeight[x]}
<1>1. NULL \in S
  BY DistinctAddresses DEF InUse, Owned, Pointer
<1>2. ASSUME NEW n \in Node, link[n]["left"] \in S, link[n]["right"] \in S
      PROVE  n \in S
  <2> SUFFICES ASSUME n \in InUse
               PROVE  h[n] = BlackHeight[n]
    BY DEF Pointer
  <2>1. ASSUME NEW d \in Dir
        PROVE  /\ HeightOf(h, link[n][d]) = BlackHeight[link[n][d]]
               /\ BlackHeight[link[n][d]] \in Nat
    <3>1. link[n][d] \in Pointer /\ (link[n][d] # NULL => link[n][d] \in InUse)
      BY InUseClosed, Sides DEF Holder, InUse, LoopFree
    <3>2. link[n][d] \in S
      BY <1>2 DEF Dir
    <3> QED
      BY <3>1, <3>2, BlackHeightFacts DEF HeightOf
  <2>2. \A d \in Dir : h[n] = HeightOf(h, link[n][d]) + (IF n = q /\ d = e THEN 1 ELSE 0) + Black(pf, n)
    BY DEF HeightsAgree, InUse
  <2>3. BlackHeight[n] = LargerOf(BlackHeight[link[n]["left"]],
                                  BlackHeight[link[n]["right"]]) + Black(pf, n)
    BY BlackHeightFacts
  <2>4. h[n] \in Nat /\ Black(pf, n) \in Nat
    BY DEF Heights, Black
  <2>5. "left" \in Dir /\ "right" \in Dir
    BY DEF Dir
  <2>6. CASE n = q /\ e = "left"
    BY <2>1, <2>2, <2>3, <2>4, <2>5, <2>6 DEF LargerOf
  <2>7. CASE n = q /\ e = "right"
    BY <2>1, <2>2, <2>3, <2>4, <2>5, <2>7 DEF LargerOf
  <2>8. CASE n # q
    BY <2>1, <2>2, <2>3, <2>4, <2>5, <2>8 DEF LargerOf
  <2> QED
    BY <2>6, <2>7, <2>8 DEF Dir
<1>3. Pointer \subseteq S
  <2> HIDE DEF S
  <2> QED
    BY <1>1, <1>2, TreeInduction
<1> QED
  BY <1>3 DEF InUse, Owned, Pointer

\* The computed heights agree with all paths, but for the hole.
LEMMA BalancedAsComputed ==
  ASSUME IInv, NoLoops(link)
  PROVE  BlackBalanced
<1> DEFINE b == [n \in Node |-> IF n \in InUse THEN BlackHeight[n] ELSE 0]
<1>1. LoopFree(link)
  BY FieldsLoopFree
<1>2. PICK h \in Heights : HeightsAgree(owner, link, pf, h, Hole, HoleSide)
  BY DEF IInv, Balanced
<1>3. HoleSide \in Dir
  BY DEF HoleSide, SideOf, Dir
<1>4. \A n \in InUse : h[n] = BlackHeight[n]
  BY <1>1, <1>2, <1>3, HeightsAreComputed
<1>5. ASSUME NEW n \in InUse, NEW d \in Dir
      PROVE  b[n] = HeightOf(b, link[n][d]) + (IF n = Hole /\ d = HoleSide THEN 1 ELSE 0)
                      + Black(pf, n)
  <2>1. link[n][d] \in Pointer /\ (link[n][d] # NULL => link[n][d] \in InUse)
    BY <1>1, InUseClosed, Sides DEF Holder, InUse, LoopFree, Owned
  <2>2. HeightOf(b, link[n][d]) = HeightOf(h, link[n][d]) /\ b[n] = h[n]
    BY <1>4, <2>1 DEF HeightOf, InUse, Owned
  <2> HIDE DEF b
  <2> QED
    BY <1>2, <2>2 DEF HeightsAgree, InUse
<1> HIDE DEF b
<1>6. HeightsAgree(owner, link, pf, b, Hole, HoleSide)
  BY <1>5 DEF HeightsAgree, InUse
<1> QED
  BY <1>6 DEF BlackBalanced, b

\* All paths from a node down have the same number of black nodes, at every
\* step of every call, but for the node that c_rbnode_rebalance repairs.
THEOREM PathsBalanced == Spec => []BlackBalanced
<1>1. IInv /\ NoLoops(link) => BlackBalanced
  BY BalancedAsComputed
<1> QED
  BY <1>1, Invariance, FieldsMakeNoLoops, PTL

-----------------------------------------------------------------------------
(* Powers of two *)

\* The subsets of two disjoint sets together are pairs of subsets of each.
LEMMA PowersMultiply ==
  ASSUME NEW i \in Nat, NEW j \in Nat
  PROVE  2 ^ (i + j) = 2 ^ i * 2 ^ j
<1> DEFINE A == 1 .. i
           B == i + 1 .. i + j
           f == [U \in SUBSET (A \cup B) |-> <<U \cap A, U \cap B>>]
<1>1. IsFiniteSet(A) /\ Cardinality(A) = i
  BY FS_Interval
<1>2. IsFiniteSet(B) /\ Cardinality(B) = j
  <2>1. i + 1 \in Int /\ i + j \in Int
    OBVIOUS
  <2>2. IsFiniteSet(B) /\ Cardinality(B) = IF i + 1 > i + j THEN 0 ELSE (i + j) - (i + 1) + 1
    BY <2>1, FS_Interval
  <2> HIDE DEF B
  <2> QED
    BY <2>2
<1>3. A \cap B = {}
  OBVIOUS
<1> HIDE DEF A, B
<1>4. IsFiniteSet(A \cup B) /\ Cardinality(A \cup B) = i + j
  BY <1>1, <1>2, <1>3, FS_Union, FS_EmptySet
<1>5. f \in Bijection(SUBSET (A \cup B), (SUBSET A) \X (SUBSET B))
  <2>1. f \in [SUBSET (A \cup B) -> (SUBSET A) \X (SUBSET B)]
    OBVIOUS
  <2>2. ASSUME NEW U \in SUBSET (A \cup B), NEW V \in SUBSET (A \cup B), f[U] = f[V]
        PROVE  U = V
    <3>1. U \cap A = V \cap A /\ U \cap B = V \cap B
      BY <2>2
    <3> QED
      BY <3>1
  <2>3. ASSUME NEW q \in (SUBSET A) \X (SUBSET B)
        PROVE  \E U \in SUBSET (A \cup B) : f[U] = q
    <3>1. PICK V \in SUBSET A, W \in SUBSET B : q = <<V, W>>
      OBVIOUS
    <3>2. (V \cup W) \cap A = V /\ (V \cup W) \cap B = W
      BY <1>3
    <3>3. V \cup W \in SUBSET (A \cup B)
      OBVIOUS
    <3>4. f[V \cup W] = <<(V \cup W) \cap A, (V \cup W) \cap B>>
      BY <3>3
    <3> QED
      BY <3>1, <3>2, <3>3, <3>4
  <2> HIDE DEF f
  <2>4. f \in Injection(SUBSET (A \cup B), (SUBSET A) \X (SUBSET B))
    BY <2>1, <2>2 DEF Injection, IsInjective
  <2>5. f \in Surjection(SUBSET (A \cup B), (SUBSET A) \X (SUBSET B))
    BY <2>1, <2>3 DEF Surjection
  <2> QED
    BY <2>4, <2>5 DEF Bijection
<1>6. /\ IsFiniteSet(SUBSET A) /\ Cardinality(SUBSET A) = 2 ^ i
      /\ IsFiniteSet(SUBSET B) /\ Cardinality(SUBSET B) = 2 ^ j
      /\ IsFiniteSet(SUBSET (A \cup B)) /\ Cardinality(SUBSET (A \cup B)) = 2 ^ (i + j)
  BY <1>1, <1>2, <1>4, FS_SUBSET
<1>7. Cardinality((SUBSET A) \X (SUBSET B)) = 2 ^ i * 2 ^ j
  <2>1. IsFiniteSet(SUBSET A) /\ IsFiniteSet(SUBSET B)
    BY <1>6
  <2>2. Cardinality((SUBSET A) \X (SUBSET B)) = Cardinality(SUBSET A) * Cardinality(SUBSET B)
    BY <2>1, FS_Product, Zenon
  <2> QED
    BY <1>6, <2>2, Zenon
<1>8. ExistsBijection(SUBSET (A \cup B), (SUBSET A) \X (SUBSET B))
  BY <1>5 DEF ExistsBijection
<1>9. Cardinality((SUBSET A) \X (SUBSET B)) = Cardinality(SUBSET (A \cup B))
  BY <1>6, <1>8, FS_Bijection
<1> QED
  BY <1>6, <1>7, <1>9

\* Powers of two grow, from one on.
LEMMA PowerFacts ==
  ASSUME NEW i \in Nat
  PROVE  2 ^ i \in Nat /\ 2 ^ i >= 1 /\ 2 ^ 0 = 1 /\ 2 ^ (i + 1) = 2 * 2 ^ i
<1>1. ASSUME NEW j \in Nat
      PROVE  2 ^ j \in Nat /\ 2 ^ j >= 1
  <2>1. IsFiniteSet(1 .. j) /\ Cardinality(1 .. j) = j
    BY FS_Interval
  <2>2. IsFiniteSet(SUBSET (1 .. j)) /\ Cardinality(SUBSET (1 .. j)) = 2 ^ j
    BY <2>1, FS_SUBSET
  <2>3. SUBSET (1 .. j) # {}
    OBVIOUS
  <2>4. 2 ^ j \in Nat /\ 2 ^ j # 0
    BY <2>2, <2>3, FS_CardinalityType, FS_EmptySet
  <2> QED
    BY <2>4
<1>2. 2 ^ 0 = 1
  OBVIOUS
<1>3. 2 ^ 1 = 2
  OBVIOUS
<1>4. 2 ^ (i + 1) = 2 ^ i * 2 ^ 1
  BY PowersMultiply
<1> QED
  BY <1>1, <1>2, <1>3, <1>4

\* A larger power is a larger number.
LEMMA PowersGrow ==
  ASSUME NEW i \in Nat, NEW j \in Nat, i <= j
  PROVE  2 ^ i <= 2 ^ j
<1>1. j - i \in Nat /\ i + (j - i) = j
  OBVIOUS
<1>2. 2 ^ j = 2 ^ i * 2 ^ (j - i)
  BY <1>1, PowersMultiply
<1>3. 2 ^ i \in Nat /\ 2 ^ (j - i) \in Nat /\ 2 ^ (j - i) >= 1
  BY <1>1, PowerFacts
<1>4. ASSUME NEW x \in Nat, NEW y \in Nat, y >= 1
      PROVE  x <= x * y
  BY <1>4
<1> QED
  BY <1>2, <1>3, <1>4

-----------------------------------------------------------------------------
(* The height of a tree *)

\* What the invariant says of a node while no tree is being repaired.
AtRestAt(n) ==
  /\ \A d \in Dir : /\ BlackHeight[n] = BlackHeight[link[n][d]] + Black(pf, n)
                    /\ link[n][d] \in InUse \cup {NULL}
  /\ c_rbnode_is_red(pf, n) => \A d \in Dir : ~RedNode(pf, link[n][d])

\* Between calls every node is like that.
LEMMA NodesAtRest ==
  ASSUME IInv, NoLoops(link), Idle, NEW n \in InUse
  PROVE  AtRestAt(n)
<1>1. LoopFree(link) /\ Sound(owner, link, pf) /\ InUse = Owned(owner)
  BY FieldsLoopFree, InUseFacts
<1>2. BlackBalanced /\ Hole = NULL /\ NULL \notin Node /\ n \in Node
  BY BalancedAsComputed, DistinctAddresses, <1>1 DEF Hole, Idle, Owned
<1> DEFINE b == [k \in Node |-> IF k \in InUse THEN BlackHeight[k] ELSE 0]
<1>3. \A x \in InUse \cup {NULL} : HeightOf(b, x) = BlackHeight[x]
  BY <1>1, <1>2, BlackHeightFacts DEF HeightOf, InUse, Owned
<1>4. ASSUME NEW d \in Dir
      PROVE  /\ BlackHeight[n] = BlackHeight[link[n][d]] + Black(pf, n)
             /\ link[n][d] \in InUse \cup {NULL}
  <2>1. link[n][d] \in InUse \cup {NULL}
    BY InUseClosed, Sides DEF Holder, InUse
  <2>2. b[n] = HeightOf(b, link[n][d]) + 0 + Black(pf, n)
    BY <1>1, <1>2 DEF BlackBalanced, HeightsAgree
  <2>3. link[n][d] \in Pointer
    BY <1>1, <1>2 DEF LoopFree
  <2>4. BlackHeight[link[n][d]] \in Nat /\ Black(pf, n) \in Nat
    BY <1>1, <2>3, BlackHeightFacts DEF Black
  <2>5. b[n] = BlackHeight[n]
    BY <1>2
  <2> HIDE DEF b
  <2>6. HeightOf(b, link[n][d]) = BlackHeight[link[n][d]]
    BY <1>3, <2>1
  <2>7. BlackHeight[n] = BlackHeight[link[n][d]] + Black(pf, n)
    BY <2>2, <2>4, <2>5, <2>6
  <2> QED
    BY <2>1, <2>7
<1>5. ASSUME c_rbnode_is_red(pf, n), NEW d \in Dir, RedNode(pf, link[n][d])
      PROVE  FALSE
  <2>1. /\ link[n][d] \in Owned(owner) /\ pf[link[n][d]].raw = n
        /\ ~c_rbnode_is_root(pf, link[n][d])
    BY <1>1, <1>5, ChildFacts DEF RedNode
  <2>2. RedsBelowBlacks(owner, pf, NULL)
    BY DEF IInv, NoRedRed, Idle
  <2>3. link[n][d] # NULL
    BY <1>5 DEF RedNode
  <2> QED
    BY <1>5, <2>1, <2>2, <2>3 DEF RedsBelowBlacks, RedNode, c_rbnode_is_black, c_rbnode_is_red, c_rbnode_raw
<1> QED
  BY <1>4, <1>5 DEF AtRestAt

\* Below a black node at most every second node of a path is red.
PathsShort(x) ==
  Depth[x] <= 2 * BlackHeight[x] + (IF RedNode(pf, x) THEN 1 ELSE 0)

\* Between calls all paths are.
LEMMA ShortPaths ==
  ASSUME IInv, NoLoops(link), Idle
  PROVE  \A x \in InUse \cup {NULL} : PathsShort(x)
<1> DEFINE S == {x \in Pointer : x \in InUse \cup {NULL} => PathsShort(x)}
<1>1. LoopFree(link)
  BY FieldsLoopFree
<1>2. NULL \in S
  BY <1>1, BlackHeightFacts, DepthFacts DEF PathsShort, RedNode, Pointer
<1>3. ASSUME NEW n \in Node, link[n]["left"] \in S, link[n]["right"] \in S
      PROVE  n \in S
  <2> SUFFICES ASSUME n \in InUse
               PROVE  PathsShort(n)
    BY DistinctAddresses DEF Pointer
  <2> DEFINE l == link[n]["left"]
             r == link[n]["right"]
  <2>1. AtRestAt(n) /\ "left" \in Dir /\ "right" \in Dir
    BY NodesAtRest DEF Dir
  <2>2. /\ PathsShort(l) /\ PathsShort(r)
        /\ BlackHeight[n] = BlackHeight[l] + Black(pf, n)
        /\ BlackHeight[n] = BlackHeight[r] + Black(pf, n)
        /\ c_rbnode_is_red(pf, n) => ~RedNode(pf, l) /\ ~RedNode(pf, r)
    BY <1>3, <2>1 DEF AtRestAt
  <2>3. /\ BlackHeight[l] \in Nat /\ BlackHeight[r] \in Nat /\ Depth[l] \in Nat /\ Depth[r] \in Nat
        /\ Depth[n] = LargerOf(Depth[l], Depth[r]) + 1
    BY <1>1, <2>1, BlackHeightFacts, DepthFacts DEF LoopFree
  <2>4. RedNode(pf, n) <=> c_rbnode_is_red(pf, n)
    BY DistinctAddresses DEF RedNode
  <2>5. Black(pf, n) = IF c_rbnode_is_red(pf, n) THEN 0 ELSE 1
    BY DEF Black, c_rbnode_is_red, c_rbnode_is_black
  <2>6. Depth[n] = Depth[l] + 1 \/ Depth[n] = Depth[r] + 1
    BY <2>3 DEF LargerOf
  <2> HIDE DEF l, r
  <2>7. CASE c_rbnode_is_red(pf, n)
    BY <2>2, <2>3, <2>4, <2>5, <2>6, <2>7 DEF PathsShort
  <2>8. CASE ~c_rbnode_is_red(pf, n)
    BY <2>2, <2>3, <2>4, <2>5, <2>6, <2>8 DEF PathsShort
  <2> QED
    BY <2>7, <2>8
<1>4. Pointer \subseteq S
  <2> HIDE DEF S
  <2> QED
    BY <1>1, <1>2, <1>3, TreeInduction
<1> QED
  BY <1>4 DEF InUse, Owned, Pointer

\* Where paths have h black nodes there are at least 2^h - 1 nodes.
Filled(x) == 2 ^ BlackHeight[x] <= Cardinality(Subtree(link, x)) + 1

\* A subtree has its top and the nodes of two others.
LEMMA SubtreeSize ==
  ASSUME IInv, NoLoops(link), NEW n \in InUse
  PROVE  /\ \A x \in Pointer : Cardinality(Subtree(link, x)) \in Nat
         /\ Cardinality(Subtree(link, n)) >=
              1 + Cardinality(Subtree(link, link[n]["left"]))
                + Cardinality(Subtree(link, link[n]["right"]))
<1> DEFINE L == Subtree(link, link[n]["left"])
           R == Subtree(link, link[n]["right"])
           N == Subtree(link, n)
<1>1. \A x \in Pointer : IsFiniteSet(Subtree(link, x)) /\ Cardinality(Subtree(link, x)) \in Nat
  BY SubtreeFacts, NodesAreFinite, FS_Subset, FS_CardinalityType
<1>2. n \in Node /\ "left" \in Dir /\ "right" \in Dir /\ Other("left") = "right"
  BY InUseFacts DEF Dir, Other
<1>3. L \cap R = {} /\ n \notin L /\ n \notin R
  BY <1>2, SidesApart, NotBelowItself
<1>4. n \in N /\ L \subseteq N /\ R \subseteq N
  <2>1. ASSUME NEW d \in Dir
        PROVE  Subtree(link, link[n][d]) \subseteq N
    BY <1>2, SubtreeFacts, SubtreeWithin DEF Closed
  <2> QED
    BY <1>2, <2>1, SubtreeFacts
<1>5. IsFiniteSet(L) /\ IsFiniteSet(R) /\ IsFiniteSet(N)
  BY NodesAreFinite, SubtreeFacts, FS_Subset
<1> HIDE DEF L, R, N
<1>6. IsFiniteSet(L \cup R) /\ Cardinality(L \cup R) = Cardinality(L) + Cardinality(R)
  <2>1. Cardinality(L) \in Nat /\ Cardinality(R) \in Nat /\ Cardinality(L \cap R) = 0
    BY <1>3, <1>5, FS_CardinalityType, FS_EmptySet
  <2>2. /\ IsFiniteSet(L \cup R)
        /\ Cardinality(L \cup R) = Cardinality(L) + Cardinality(R) - Cardinality(L \cap R)
    BY <1>5, FS_Union
  <2> QED
    BY <2>1, <2>2
<1>7. /\ IsFiniteSet((L \cup R) \cup {n})
      /\ Cardinality((L \cup R) \cup {n}) = Cardinality(L \cup R) + 1
  BY <1>3, <1>6, FS_AddElement
<1>8. Cardinality((L \cup R) \cup {n}) <= Cardinality(N)
  BY <1>4, <1>5, FS_Subset
<1>9. Cardinality(N) >= 1 + Cardinality(L) + Cardinality(R)
  <2>1. Cardinality(L) \in Nat /\ Cardinality(R) \in Nat /\ Cardinality(N) \in Nat
    BY <1>5, FS_CardinalityType
  <2> QED
    BY <1>6, <1>7, <1>8, <2>1
<1> QED
  BY <1>1, <1>9 DEF L, R, N

\* Between calls all subtrees are.
LEMMA ManyNodes ==
  ASSUME IInv, NoLoops(link), Idle
  PROVE  \A x \in InUse \cup {NULL} : Filled(x)
<1> DEFINE S == {x \in Pointer : x \in InUse \cup {NULL} => Filled(x)}
<1>1. LoopFree(link)
  BY FieldsLoopFree
<1>2. NULL \in S
  <2>1. Subtree(link, NULL) = {}
    BY SubtreeFacts, DistinctAddresses
  <2> QED
    <3>1. BlackHeight[NULL] = 0 /\ 2 ^ 0 = 1
      BY <1>1, BlackHeightFacts, PowerFacts
    <3>2. Cardinality(Subtree(link, NULL)) = 0
      BY <2>1, FS_EmptySet
    <3>3. 2 ^ BlackHeight[NULL] = 1
      BY <3>1
    <3>4. Filled(NULL)
      BY <3>2, <3>3 DEF Filled
    <3> QED
      BY <3>4 DEF Pointer
<1>3. ASSUME NEW n \in Node, link[n]["left"] \in S, link[n]["right"] \in S
      PROVE  n \in S
  <2> SUFFICES ASSUME n \in InUse
               PROVE  Filled(n)
    BY DistinctAddresses DEF Pointer
  <2> DEFINE l == link[n]["left"]
             r == link[n]["right"]
  <2>1. AtRestAt(n) /\ "left" \in Dir /\ "right" \in Dir
    BY NodesAtRest DEF Dir
  <2>2. /\ Filled(l) /\ Filled(r)
        /\ BlackHeight[n] = BlackHeight[l] + Black(pf, n)
        /\ BlackHeight[n] = BlackHeight[r] + Black(pf, n)
        /\ BlackHeight[l] \in Nat /\ BlackHeight[r] \in Nat
        /\ l \in Pointer /\ r \in Pointer /\ n \in Pointer
    BY <1>1, <1>3, <2>1, BlackHeightFacts DEF AtRestAt, LoopFree, Pointer
  <2>3. /\ Cardinality(Subtree(link, l)) \in Nat /\ Cardinality(Subtree(link, r)) \in Nat
        /\ Cardinality(Subtree(link, n)) \in Nat
        /\ Cardinality(Subtree(link, n)) >=
             1 + Cardinality(Subtree(link, l)) + Cardinality(Subtree(link, r))
    BY <2>2, SubtreeSize
  <2>4. /\ BlackHeight[l] = BlackHeight[r]
        /\ BlackHeight[n] = BlackHeight[l] \/ BlackHeight[n] = BlackHeight[l] + 1
    BY <2>2 DEF Black
  <2>5. 2 ^ BlackHeight[l] \in Nat /\ 2 ^ (BlackHeight[l] + 1) = 2 * 2 ^ BlackHeight[l]
    BY <2>2, PowerFacts
  <2> HIDE DEF l, r
  <2> QED
    BY <2>2, <2>3, <2>4, <2>5 DEF Filled
<1>4. Pointer \subseteq S
  <2> HIDE DEF S
  <2> QED
    BY <1>1, <1>2, <1>3, TreeInduction
<1> QED
  BY <1>4 DEF InUse, Owned, Pointer

\* What is below the root of a tree is in the tree.
LEMMA SubtreeInTree ==
  ASSUME IInv, NEW t, NEW r, r \in InUse \cup {NULL}, r # NULL => owner[r] = t
  PROVE  Subtree(link, r) \subseteq {m \in InUse : owner[m] = t}
<1> DEFINE M == {m \in InUse : owner[m] = t}
<1>1. Sound(owner, link, pf) /\ InUse = Owned(owner) /\ InUse \in SUBSET Node
  BY InUseFacts, InUseClosed
<1>2. ASSUME NEW n \in M, NEW d \in Dir, link[n][d] \in Node
      PROVE  link[n][d] \in M
  BY <1>1, <1>2, ChildFacts, DistinctAddresses
<1>3. Closed(link, M) /\ M \in SUBSET Node
  BY <1>1, <1>2 DEF Closed
<1>4. r = NULL \/ r \in M
  OBVIOUS
<1> HIDE DEF M
<1>5. Subtree(link, r) \subseteq M
  BY <1>3, <1>4, SubtreeFacts, DistinctAddresses
<1> QED
  BY <1>5 DEF M

\* A larger square is one of a larger number.
LEMMA SquaresGrow ==
  ASSUME NEW i \in Nat, NEW j \in Nat, i <= j
  PROVE  i * i <= j * j
<1>1. i * i <= i * j
  OBVIOUS
<1>2. i * j <= j * j
  OBVIOUS
<1> QED
  BY <1>1, <1>2

\* The promise of the comments: between calls no path of a tree with n nodes is
\* longer than 2 log2(n + 1), so that every walk takes logarithmic time.
THEOREM HeightsLogarithmic == Spec => []LogarithmicHeight
<1>1. ASSUME IInv, NoLoops(link), Idle, NEW t \in Tree
      PROVE  LET n == Cardinality({m \in InUse : owner[m] = t})
             IN  2 ^ Depth[link[t]["root"]] <= (n + 1) * (n + 1)
  <2> DEFINE M == {m \in InUse : owner[m] = t}
             n == Cardinality(M)
             r == link[t]["root"]
  <2>1. IsFiniteSet(M) /\ n \in Nat
    <3>1. M \in SUBSET Node
      BY <1>1, InUseClosed
    <3> HIDE DEF M
    <3> QED
      BY <3>1, NodesAreFinite, FS_Subset, FS_CardinalityType
  <2>2. /\ r \in InUse \cup {NULL} /\ r \in Pointer
        /\ r # NULL => owner[r] = t /\ c_rbnode_is_root(pf, r)
    BY <1>1, InUseClosed, InUseFacts, DistinctAddresses
       DEF Holder, Side, Sound, Consistent, ChildrenKnowParent, Home, InUse, Owned, Pointer
  <2>3. ~RedNode(pf, r)
    BY <1>1, <2>2 DEF IInv, NoRedRed, RedsBelowBlacks, RedNode, Idle, InUse
  <2>4. LoopFree(link)
    BY <1>1, FieldsLoopFree
  <2>5. BlackHeight[r] \in Nat /\ Depth[r] \in Nat
    BY <2>2, <2>4, BlackHeightFacts, DepthFacts
  <2>6. Depth[r] <= 2 * BlackHeight[r]
    BY <1>1, <2>2, <2>3, <2>5, ShortPaths DEF PathsShort
  <2>7. 2 ^ BlackHeight[r] <= n + 1
    <3>1. Subtree(link, r) \subseteq M
      BY <1>1, <2>2, SubtreeInTree
    <3>2. Cardinality(Subtree(link, r)) <= n /\ Cardinality(Subtree(link, r)) \in Nat
      BY <2>1, <3>1, FS_Subset, FS_CardinalityType
    <3>3. 2 ^ BlackHeight[r] <= Cardinality(Subtree(link, r)) + 1
      BY <1>1, <2>2, ManyNodes DEF Filled
    <3>4. 2 ^ BlackHeight[r] \in Nat
      BY <2>5, PowerFacts
    <3> QED
      BY <2>1, <3>2, <3>3, <3>4
  <2> HIDE DEF M, n, r
  <2>8. 2 ^ Depth[r] <= 2 ^ (BlackHeight[r] + BlackHeight[r])
    BY <2>5, <2>6, PowersGrow
  <2>9. 2 ^ (BlackHeight[r] + BlackHeight[r]) = 2 ^ BlackHeight[r] * 2 ^ BlackHeight[r]
    BY <2>5, PowersMultiply
  <2>10. /\ 2 ^ BlackHeight[r] \in Nat /\ 2 ^ Depth[r] \in Nat
         /\ 2 ^ (BlackHeight[r] + BlackHeight[r]) \in Nat
    BY <2>5, PowerFacts
  <2>11. 2 ^ BlackHeight[r] * 2 ^ BlackHeight[r] <= (n + 1) * (n + 1)
    BY <2>1, <2>7, <2>10, SquaresGrow
  <2>12. 2 ^ Depth[r] <= (n + 1) * (n + 1)
    <3>1. (n + 1) * (n + 1) \in Nat
      BY <2>1
    <3> QED
      BY <2>8, <2>9, <2>10, <2>11, <3>1
  <2> QED
    BY <2>12 DEF M, n, r
<1>2. IInv /\ NoLoops(link) => LogarithmicHeight
  BY <1>1 DEF LogarithmicHeight
<1> QED
  BY <1>2, Invariance, FieldsMakeNoLoops, PTL


-----------------------------------------------------------------------------
(* Sequences of nodes *)

Nodes == Seq(Node)

Join(q, r) == q \o r
One(n) == <<n>>
None == <<>>

\* Concatenation of sequences of nodes.
LEMMA Joins ==
  /\ None \in Nodes
  /\ \A n \in Node : One(n) \in Nodes
  /\ \A q, r \in Nodes : Join(q, r) \in Nodes
  /\ \A q \in Nodes : Join(q, None) = q /\ Join(None, q) = q
  /\ \A q, r, u \in Nodes : Join(Join(q, r), u) = Join(q, Join(r, u))
<1>1. <<>> \in Seq(Node) /\ \A n \in Node : <<n>> \in Seq(Node)
  OBVIOUS
<1>2. \A q, r \in Seq(Node) : q \o r \in Seq(Node)
  BY ConcatProperties
<1>3. \A q \in Seq(Node) : q \o <<>> = q /\ <<>> \o q = q
  BY ConcatEmptySeq
<1>4. \A q, r, u \in Seq(Node) : (q \o r) \o u = q \o (r \o u)
  BY ConcatAssociative
<1> QED
  BY <1>1, <1>2, <1>3, <1>4 DEF Nodes, Join, One, None

\* The nodes of a sequence.
LEMMA RangeFacts ==
  /\ Range(None) = {}
  /\ \A n \in Node : Range(One(n)) = {n}
  /\ \A q, r \in Nodes : Range(Join(q, r)) = Range(q) \cup Range(r)
  /\ \A q \in Nodes : Range(q) \in SUBSET Node
  /\ \A q \in Nodes : Range(q) = {q[i] : i \in 1 .. Len(q)}
<1>1. Range(<<>>) = {}
  BY DEF Range
<1>2. \A n \in Node : Range(<<n>>) = {n}
  BY DEF Range
<1>3. \A q, r \in Seq(Node) : Range(q \o r) = Range(q) \cup Range(r)
  BY RangeConcatenation
<1>4. \A q \in Seq(Node) : Range(q) \in SUBSET Node /\ Range(q) = {q[i] : i \in 1 .. Len(q)}
  BY RangeOfSeq, RangeEquality
<1> QED
  BY <1>1, <1>2, <1>3, <1>4 DEF Nodes, Join, One, None

\* The nodes of a sequence with n in the middle.
LEMMA JoinedRange ==
  ASSUME NEW n \in Node, NEW a \in Nodes, NEW b \in Nodes
  PROVE  /\ Join(a, Join(One(n), b)) \in Nodes
         /\ Range(Join(a, Join(One(n), b))) = Range(a) \cup {n} \cup Range(b)
<1>1. One(n) \in Nodes /\ Join(One(n), b) \in Nodes
  BY Joins
<1>2. Range(Join(One(n), b)) = {n} \cup Range(b)
  <2>1. Range(Join(One(n), b)) = Range(One(n)) \cup Range(b)
    BY <1>1, RangeFacts
  <2> QED
    BY <2>1, RangeFacts
<1>3. Range(Join(a, Join(One(n), b))) = Range(a) \cup Range(Join(One(n), b))
  BY <1>1, RangeFacts
<1> QED
  BY <1>1, <1>2, <1>3, Joins

-----------------------------------------------------------------------------
(* Sequences built from the leaves up *)

\* The function h puts the sequence of a node together from those of its two
\* children, as step says.
Builds(step, h) ==
  /\ h \in [Pointer -> Nodes] /\ h[NULL] = None
  /\ \A n \in Node : h[n] = step[n][<<h[link[n]["left"]], h[link[n]["right"]]>>]

\* There is such a function.
LEMMA SomeBuilds ==
  ASSUME LoopFree(link), NEW step \in [Node -> [Nodes \X Nodes -> Nodes]]
  PROVE  \E h : Builds(step, h)
<1>1. PICK f \in [Pointer -> Nodes] : Computed(link, None, step, f)
  BY Joins, Recursion DEF OnlySolution
<1> QED
  BY <1>1 DEF Computed, Builds

\* A function with the right value wherever its arguments are sequences is one.
LEMMA BuildsSequences ==
  ASSUME LoopFree(link), NEW step \in [Node -> [Nodes \X Nodes -> Nodes]],
         NEW h, h = [x \in Pointer |-> h[x]], h[NULL] = None,
         \A n \in Node :
           h[link[n]["left"]] \in Nodes /\ h[link[n]["right"]] \in Nodes
             => h[n] = step[n][<<h[link[n]["left"]], h[link[n]["right"]]>>]
  PROVE  Builds(step, h)
<1> DEFINE S == {x \in Pointer : h[x] \in Nodes}
<1>1. NULL \in S
  BY Joins DEF Pointer
<1>2. ASSUME NEW n \in Node, link[n]["left"] \in S, link[n]["right"] \in S
      PROVE  n \in S
  <2>1. h[link[n]["left"]] \in Nodes /\ h[link[n]["right"]] \in Nodes
    BY <1>2
  <2>2. step[n][<<h[link[n]["left"]], h[link[n]["right"]]>>] \in Nodes
    BY <2>1
  <2> QED
    BY <2>1, <2>2 DEF Pointer
<1>3. Pointer \subseteq S
  <2> HIDE DEF S
  <2> QED
    BY <1>1, <1>2, TreeInduction
<1>4. h \in [Pointer -> Nodes]
  BY <1>3
<1>5. \A n \in Node : link[n]["left"] \in Pointer /\ link[n]["right"] \in Pointer
  BY DEF LoopFree, Dir
<1> QED
  BY <1>3, <1>4, <1>5 DEF Builds

\* f[n] is the sequence of the nodes from n down, in the order of the fields m.
Sequenced(U, m, f) ==
  /\ f \in [Pointer -> Nodes]
  /\ f[NULL] = None
  /\ \A n \in U : f[n] = Join(f[m[n]["left"]], Join(One(n), f[m[n]["right"]]))

\* What InOrder computes.
LEMMA InOrderFacts ==
  ASSUME LoopFree(link)
  PROVE  Sequenced(Node, link, InOrder)
<1> DEFINE Joined(n, a, b) == a \o <<n>> \o b
           step == [n \in Node |-> [p \in Nodes \X Nodes |-> Joined(n, p[1], p[2])]]
           Body(g) == [x \in Pointer |->
                         IF x = NULL THEN None
                         ELSE Joined(x, g[link[x]["left"]], g[link[x]["right"]])]
<1>1. \A n \in Node, a, b \in Nodes : Joined(n, a, b) = Join(a, Join(One(n), b))
  <2>1. \A n \in Node, a, b \in Nodes : Join(a, Join(One(n), b)) = Join(Join(a, One(n)), b)
    BY Joins
  <2> QED
    BY <2>1 DEF Join, One
<1>2. \A n \in Node, a, b \in Nodes : Joined(n, a, b) \in Nodes
  <2> HIDE DEF Joined
  <2> QED
    BY <1>1, Joins
<1>3. step \in [Node -> [Nodes \X Nodes -> Nodes]]
  <2> HIDE DEF Joined
  <2>1. \A p \in Nodes \X Nodes : p[1] \in Nodes /\ p[2] \in Nodes
    OBVIOUS
  <2> QED
    BY <1>2, <2>1
<1>4. \A n \in Node, a, b \in Nodes : step[n][<<a, b>>] = Joined(n, a, b)
  <2> HIDE DEF Joined
  <2> QED
    OBVIOUS
<1>5. InOrder = CHOOSE g : g = Body(g)
  BY DEF InOrder, None
<1> HIDE DEF step, Joined
<1>6. PICK f : Builds(step, f)
  BY <1>3, SomeBuilds
<1>7. \A n \in Node : link[n]["left"] \in Pointer /\ link[n]["right"] \in Pointer
  BY DEF LoopFree, Dir
<1>8. f = Body(f)
  <2>1. ASSUME NEW x \in Pointer
        PROVE  f[x] = IF x = NULL THEN None ELSE Joined(x, f[link[x]["left"]], f[link[x]["right"]])
    <3>1. CASE x = NULL
      BY <3>1, <1>6 DEF Builds
    <3>2. CASE x # NULL
      <4>1. x \in Node
        BY <3>2 DEF Pointer
      <4>2. f[link[x]["left"]] \in Nodes /\ f[link[x]["right"]] \in Nodes
        BY <4>1, <1>6, <1>7 DEF Builds
      <4>3. f[x] = step[x][<<f[link[x]["left"]], f[link[x]["right"]]>>]
        BY <4>1, <1>6 DEF Builds
      <4> QED
        BY <3>2, <4>1, <4>2, <4>3, <1>4
    <3> QED
      BY <3>1, <3>2
  <2>2. f = [x \in Pointer |-> f[x]]
    BY <1>6 DEF Builds
  <2> QED
    BY <2>1, <2>2
<1>9. InOrder = Body(InOrder)
  <2> HIDE DEF Body
  <2> QED
    BY <1>5, <1>8
<1>10. Builds(step, InOrder)
  <2>1. InOrder = [x \in Pointer |-> InOrder[x]] /\ InOrder[NULL] = None
    BY <1>9 DEF Pointer
  <2>2. \A n \in Node : InOrder[n] = Joined(n, InOrder[link[n]["left"]], InOrder[link[n]["right"]])
    BY <1>9, DistinctAddresses DEF Pointer
  <2> HIDE DEF Body
  <2>3. ASSUME NEW n \in Node,
               InOrder[link[n]["left"]] \in Nodes /\ InOrder[link[n]["right"]] \in Nodes
        PROVE  InOrder[n] = step[n][<<InOrder[link[n]["left"]], InOrder[link[n]["right"]]>>]
    BY <1>4, <2>2, <2>3
  <2> QED
    BY <1>3, <2>1, <2>3, BuildsSequences
<1>11. ASSUME NEW n \in Node
       PROVE  InOrder[n] = Join(InOrder[link[n]["left"]], Join(One(n), InOrder[link[n]["right"]]))
  <2>1. InOrder[link[n]["left"]] \in Nodes /\ InOrder[link[n]["right"]] \in Nodes
    BY <1>7, <1>10 DEF Builds
  <2>2. InOrder[n] = step[n][<<InOrder[link[n]["left"]], InOrder[link[n]["right"]]>>]
    BY <1>10 DEF Builds
  <2> QED
    BY <2>1, <2>2, <1>1, <1>4
<1> QED
  BY <1>10, <1>11 DEF Builds, Sequenced

SameOn(U, f, g) == \A x \in U \cup {NULL} : f[x] = g[x]

\* Two functions that describe the same fields are the same.
LEMMA OneSequence ==
  ASSUME NEW U \in SUBSET Node, NEW m, LoopFree(m),
         \A n \in U, d \in Dir : m[n][d] \in U \cup {NULL},
         NEW f, Sequenced(U, m, f), NEW g, Sequenced(U, m, g)
  PROVE  SameOn(U, f, g)
<1> DEFINE S == {x \in Pointer : x \in U \cup {NULL} => f[x] = g[x]}
<1>1. NULL \in S
  BY DEF Sequenced, Pointer
<1>2. ASSUME NEW n \in Node, m[n]["left"] \in S, m[n]["right"] \in S
      PROVE  n \in S
  <2> SUFFICES ASSUME n \in U
               PROVE  f[n] = g[n]
    BY DistinctAddresses DEF Pointer
  <2>1. m[n]["left"] \in U \cup {NULL} /\ m[n]["right"] \in U \cup {NULL}
    BY DEF Dir
  <2>2. f[m[n]["left"]] = g[m[n]["left"]] /\ f[m[n]["right"]] = g[m[n]["right"]]
    BY <1>2, <2>1
  <2> QED
    BY <2>2 DEF Sequenced
<1>3. Pointer \subseteq S
  <2> HIDE DEF S
  <2> QED
    BY <1>1, <1>2, TreeInduction
<1> QED
  BY <1>3 DEF Pointer, SameOn

\* A node that is alone in its sequence and its two sides.
Apart(U, m, f) ==
  \A n \in U :
    /\ n \notin Range(f[m[n]["left"]]) /\ n \notin Range(f[m[n]["right"]])
    /\ Range(f[m[n]["left"]]) \cap Range(f[m[n]["right"]]) = {}

\* What the invariant says of the fields of the nodes in use.
InUseTree ==
  /\ InUse \in SUBSET Node /\ NULL \notin InUse /\ LoopFree(link) /\ link \in Memory
  /\ \A n \in InUse, d \in Dir : link[n][d] \in InUse \cup {NULL}
  /\ \A t \in Tree : link[t]["root"] \in InUse \cup {NULL}
  /\ \A p, n \in InUse, e, d \in Dir : link[p][e] = link[n][d] /\ link[p][e] # NULL => p = n /\ e = d

\* The invariant says it in every state.
LEMMA InUseIsTree ==
  ASSUME IInv, NoLoops(link)
  PROVE  InUseTree
<1>1. LoopFree(link) /\ NULL \notin InUse
  BY FieldsLoopFree, InUseFacts
<1>2. InUse \subseteq Holder(owner) /\ Tree \subseteq Holder(owner) /\ Dir \subseteq Side /\ "root" \in Side
  BY Sides DEF Holder, InUse, Side
<1> QED
  BY <1>1, <1>2, InUseClosed DEF InUseTree

\* f[n] is a sequence of the nodes from n down, in any order.
Spans(U, m, f) ==
  /\ f \in [Pointer -> Nodes]
  /\ f[NULL] = None
  /\ \A n \in U : Range(f[n]) = Range(f[m[n]["left"]]) \cup {n} \cup Range(f[m[n]["right"]])

\* The sequences in order are such sequences.
LEMMA SequencedSpans ==
  ASSUME IInv, NoLoops(link), NEW f, Sequenced(InUse, link, f)
  PROVE  Spans(InUse, link, f)
<1> SUFFICES ASSUME NEW n \in InUse
             PROVE  Range(f[n]) = Range(f[link[n]["left"]]) \cup {n} \cup Range(f[link[n]["right"]])
  BY DEF Sequenced, Spans
<1>1. link[n]["left"] \in Pointer /\ link[n]["right"] \in Pointer /\ n \in Node
  BY InUseIsTree DEF InUseTree, Dir, Pointer
<1>2. f[link[n]["left"]] \in Nodes /\ f[link[n]["right"]] \in Nodes
  BY <1>1 DEF Sequenced
<1> QED
  BY <1>1, <1>2, JoinedRange DEF Sequenced

\* The sequence from n down has the nodes below n.
LEMMA RangeIsSubtree ==
  ASSUME IInv, NoLoops(link), NEW f, Spans(InUse, link, f)
  PROVE  \A x \in InUse \cup {NULL} : Range(f[x]) = Subtree(link, x)
<1> DEFINE S == {x \in Pointer : x \in InUse \cup {NULL} => Range(f[x]) = Subtree(link, x)}
<1>1. InUseTree
  BY InUseIsTree
<1>2. NULL \in S
  <2>1. Subtree(link, NULL) = {}
    BY SubtreeFacts, DistinctAddresses
  <2> QED
    BY <2>1, RangeFacts DEF Spans, Pointer
<1>3. ASSUME NEW n \in Node, link[n]["left"] \in S, link[n]["right"] \in S
      PROVE  n \in S
  <2> SUFFICES ASSUME n \in InUse
               PROVE  Range(f[n]) = Subtree(link, n)
    BY DistinctAddresses DEF Pointer
  <2> DEFINE l == link[n]["left"]
             r == link[n]["right"]
  <2>1. /\ l \in InUse \cup {NULL} /\ r \in InUse \cup {NULL} /\ "left" \in Dir /\ "right" \in Dir
        /\ l \in Pointer /\ r \in Pointer
    BY <1>1 DEF InUseTree, Dir, Pointer
  <2>3. Range(f[n]) = Subtree(link, l) \cup {n} \cup Subtree(link, r)
    BY <1>3, <2>1 DEF Spans
  <2>4. \A y \in Subtree(link, n) : y = n \/ y \in Subtree(link, l) \/ y \in Subtree(link, r)
    BY SubtreeParts DEF Dir
  <2>5. n \in Subtree(link, n)
    BY SubtreeFacts
  <2>6. Subtree(link, l) \subseteq Subtree(link, n) /\ Subtree(link, r) \subseteq Subtree(link, n)
    <3>1. ASSUME NEW d \in Dir
          PROVE  Subtree(link, link[n][d]) \subseteq Subtree(link, n)
      BY SubtreeFacts, SubtreeWithin DEF Closed
    <3> QED
      BY <3>1, <2>1
  <2> QED
    BY <2>3, <2>4, <2>5, <2>6
<1>4. Pointer \subseteq S
  <2> HIDE DEF S
  <2> QED
    BY <1>1, <1>2, <1>3, TreeInduction DEF InUseTree
<1> QED
  BY <1>1, <1>4 DEF Pointer, InUseTree

\* In a tree no node is in the sequences of both its sides.
LEMMA RangesApart ==
  ASSUME IInv, NoLoops(link), NEW f, Spans(InUse, link, f)
  PROVE  Apart(InUse, link, f)
<1> SUFFICES ASSUME NEW n \in InUse
             PROVE  LET l == link[n]["left"]
                        r == link[n]["right"]
                    IN  /\ n \notin Range(f[l]) /\ n \notin Range(f[r])
                        /\ Range(f[l]) \cap Range(f[r]) = {}
  BY DEF Apart
<1>1. /\ link[n]["left"] \in InUse \cup {NULL} /\ link[n]["right"] \in InUse \cup {NULL}
      /\ n \in Node /\ "left" \in Dir /\ "right" \in Dir /\ Other("left") = "right"
  BY InUseIsTree DEF InUseTree, Dir, Other
<1>2. /\ Range(f[link[n]["left"]]) = Subtree(link, link[n]["left"])
      /\ Range(f[link[n]["right"]]) = Subtree(link, link[n]["right"])
  BY <1>1, RangeIsSubtree
<1> QED
  BY <1>1, <1>2, SidesApart, NotBelowItself

-----------------------------------------------------------------------------
(* The nodes of a tree *)

\* The sequence of a tree has the nodes its owner linked into it.
LEMMA TreeNodes ==
  ASSUME IInv, NoLoops(link), NEW f, Spans(InUse, link, f), NEW t \in Tree
  PROVE  Range(f[link[t]["root"]]) = {n \in InUse : owner[n] = t}
<1> DEFINE r == link[t]["root"]
<1>1. r \in InUse \cup {NULL} /\ (r # NULL => owner[r] = t)
  <2>1. Sound(owner, link, pf) /\ t \in Holder(owner) /\ "root" \in Side
    BY InUseFacts DEF Holder, Side
  <2> QED
    BY <2>1, InUseIsTree DEF InUseTree, Sound, Consistent, ChildrenKnowParent, Home
<1>2. Range(f[r]) = Subtree(link, r)
  BY <1>1, RangeIsSubtree
<1>3. Subtree(link, r) \subseteq {n \in InUse : owner[n] = t}
  BY <1>1, SubtreeInTree
<1>4. {n \in InUse : owner[n] = t} \subseteq Subtree(link, r)
  BY BelowRoot
<1> QED
  BY <1>2, <1>3, <1>4

\* So in every state that satisfies the invariant.
LEMMA OrderIsComplete ==
  ASSUME IInv, NoLoops(link)
  PROVE  OrderComplete
<1>1. Sequenced(InUse, link, InOrder)
  BY InUseIsTree, InOrderFacts DEF Sequenced, InUseTree
<1>2. ASSUME NEW t \in Tree
      PROVE  {Orders[t][i] : i \in 1 .. Len(Orders[t])} = {n \in InUse : owner[n] = t}
  <2>1. Orders[t] = InOrder[link[t]["root"]] /\ InOrder[link[t]["root"]] \in Nodes
    BY <1>1, InUseIsTree DEF Orders, Sequenced, InUseTree, Pointer
  <2> QED
    BY <1>1, <2>1, SequencedSpans, TreeNodes, RangeFacts
<1> QED
  BY <1>2 DEF OrderComplete

\* The in-order sequence of every tree has the nodes that the caller put into
\* the tree and no others, at every step of every call.
THEOREM OrdersComplete == Spec => []OrderComplete
<1>1. IInv /\ NoLoops(link) => OrderComplete
  BY OrderIsComplete
<1> QED
  BY <1>1, Invariance, FieldsMakeNoLoops, PTL

-----------------------------------------------------------------------------
(* Rotations *)

\* o gives the sequences of the trees with the fields m.
HasOrders(U, m, o) ==
  /\ \A t \in Tree : m[t]["root"] \in Pointer
  /\ \E f : Sequenced(U, m, f) /\ \A t \in Tree : f[m[t]["root"]] = o[t]

\* The sequence of a node and its child before and after a rotation.
LEMMA Reassociate ==
  ASSUME NEW s \in Node, NEW p \in Node, NEW a \in Nodes, NEW b \in Nodes, NEW c \in Nodes
  PROVE  Join(Join(a, Join(One(s), b)), Join(One(p), c))
           = Join(a, Join(One(s), Join(b, Join(One(p), c))))
<1>1. /\ One(s) \in Nodes /\ One(p) \in Nodes
      /\ Join(One(s), b) \in Nodes /\ Join(One(p), c) \in Nodes
  BY Joins
<1>2. Join(Join(a, Join(One(s), b)), Join(One(p), c))
        = Join(a, Join(Join(One(s), b), Join(One(p), c)))
  BY <1>1, Joins
<1>3. Join(Join(One(s), b), Join(One(p), c)) = Join(One(s), Join(b, Join(One(p), c)))
  BY <1>1, Joins
<1> QED
  BY <1>2, <1>3

\* The sequence of p after s, its child on side e, was rotated above it.
Lowered(m, f, p, e, s) ==
  IF e = "left"
  THEN Join(f[m[s]["right"]], Join(One(p), f[m[p]["right"]]))
  ELSE Join(f[m[p]["left"]], Join(One(p), f[m[s]["left"]]))

\* A rotation keeps the sequences: s gets the sequence of p.
LEMMA TurnKeepsOrders ==
  ASSUME NEW U \in SUBSET Node, NEW m, Separate(U, m), NEW o, HasOrders(U, m, o),
         NEW m2, NEW g, NEW t, NEW p, NEW e, NEW s, Turned(U, m, m2, g, t, p, e, s)
  PROVE  HasOrders(U, m2, o)
<1>0. PICK f : Sequenced(U, m, f) /\ \A x \in Tree : f[m[x]["root"]] = o[x]
  BY DEF HasOrders
<1> DEFINE oe == Other(e)
           P  == Lowered(m, f, p, e, s)
           f2 == [f EXCEPT ![s] = f[p], ![p] = P]
<1>1. /\ p \in U /\ s \in U /\ p \in Node /\ s \in Node /\ p # s /\ m[p][e] = s /\ e \in Dir
      /\ oe \in Dir /\ oe # e /\ (\A d \in Dir : d = e \/ d = oe) /\ Dir \subseteq Side
      /\ s # NULL /\ p # NULL /\ g # p /\ g # s /\ m[g][t] = p
      /\ \A a \in U, b \in Dir : m[a][b] = p => a = g /\ b = t
      /\ \A x \in Tree : m[x]["root"] # s /\ (m[x]["root"] = p => x = g)
      /\ "left" \in Dir /\ "right" \in Dir
  BY Sides, DistinctAddresses DEF Turned, Dir
<1>2. \A a \in Node \cup Tree, b \in Side :
        m2[a][b] = IF a = g /\ b = t THEN s
                   ELSE IF a = p /\ b = e THEN m[s][oe]
                   ELSE IF a = s /\ b = oe THEN p
                   ELSE m[a][b]
  BY DEF Turned, RotatedFields
<1>3. \A n \in U, d \in Dir :
        /\ m[n][d] \in Pointer
        /\ m[n][d] = s => n = p /\ d = e
  BY <1>1 DEF Separate, Pointer
<1>4. /\ f \in [Pointer -> Nodes] /\ f[NULL] = None /\ p \in Pointer /\ s \in Pointer
      /\ NULL \in Pointer
      /\ \A n \in U : f[n] = Join(f[m[n]["left"]], Join(One(n), f[m[n]["right"]]))
  BY <1>0, <1>1 DEF Sequenced, Pointer
<1>5. P \in Nodes
  BY <1>1, <1>3, <1>4, JoinedRange DEF Lowered
<1>6. /\ f2 \in [Pointer -> Nodes] /\ f2[s] = f[p] /\ f2[p] = P
      /\ \A x \in Pointer : x # s /\ x # p => f2[x] = f[x]
  <2> HIDE DEF P
  <2> QED
    BY <1>1, <1>4, <1>5
<1> HIDE DEF f2, oe, P
<1>7. ASSUME NEW n \in U
      PROVE  f2[n] = Join(f2[m2[n]["left"]], Join(One(n), f2[m2[n]["right"]]))
  <2>0. n \in Node /\ n \in Pointer
    BY DEF Pointer
  <2>1. CASE n # s /\ n # p
    <3>1. ASSUME NEW d \in Dir
          PROVE  f2[m2[n][d]] = f[m[n][d]]
      <4>1. CASE n = g /\ d = t
        BY <4>1, <2>0, <1>1, <1>2, <1>6
      <4>2. CASE ~(n = g /\ d = t)
        <5>1. m2[n][d] = m[n][d]
          BY <4>2, <2>0, <2>1, <1>1, <1>2
        <5>2. m[n][d] # p /\ m[n][d] # s /\ m[n][d] \in Pointer
          BY <4>2, <2>1, <1>1, <1>3
        <5> QED
          BY <5>1, <5>2, <1>6
      <4> QED
        BY <4>1, <4>2
    <3>2. f2[n] = f[n]
      BY <2>0, <2>1, <1>6
    <3> QED
      BY <3>1, <3>2, <1>1, <1>4
  <2>2. m2[p][e] = m[s][oe] /\ m2[p][oe] = m[p][oe] /\ m2[s][oe] = p /\ m2[s][e] = m[s][e]
    BY <1>1, <1>2
  <2>3. \A d \in Dir : m[s][d] \in Pointer /\ m[s][d] # s /\ m[s][d] # p
    BY <1>1, <1>3
  <2>4. m[p][oe] \in Pointer /\ m[p][oe] # s /\ m[p][oe] # p
    BY <1>1, <1>3
  <2>5. \A d \in Dir : f2[m[s][d]] = f[m[s][d]]
    BY <2>3, <1>6
  <2>6. f2[m[p][oe]] = f[m[p][oe]]
    BY <2>4, <1>6
  <2>7. CASE n = p
    <3>1. CASE e = "left"
      <4>1. oe = "right"
        BY <3>1 DEF oe, Other
      <4>2. m2[p]["left"] = m[s]["right"] /\ m2[p]["right"] = m[p]["right"]
        BY <3>1, <4>1, <2>2
      <4>3. f2[p] = Join(f[m[s]["right"]], Join(One(p), f[m[p]["right"]]))
        BY <3>1, <1>6 DEF P, Lowered
      <4> QED
        BY <4>1, <4>2, <4>3, <2>5, <2>6, <2>7, <1>1
    <3>2. CASE e = "right"
      <4>1. oe = "left"
        BY <3>2 DEF oe, Other
      <4>2. m2[p]["right"] = m[s]["left"] /\ m2[p]["left"] = m[p]["left"]
        BY <3>2, <4>1, <2>2
      <4>3. f2[p] = Join(f[m[p]["left"]], Join(One(p), f[m[s]["left"]]))
        BY <3>2, <1>6 DEF P, Lowered
      <4> QED
        BY <4>1, <4>2, <4>3, <2>5, <2>6, <2>7, <1>1
    <3> QED
      BY <3>1, <3>2, <1>1 DEF Dir
  <2>8. CASE n = s
    <3> DEFINE A == f[m[s]["left"]]
               B == f[m[s]["right"]]
    <3>0. A \in Nodes /\ B \in Nodes /\ f[s] = Join(A, Join(One(s), B)) /\ f[m[p][oe]] \in Nodes
      BY <1>1, <1>4, <2>3, <2>4
    <3>1. CASE e = "left"
      <4>1. oe = "right"
        BY <3>1 DEF oe, Other
      <4> DEFINE C == f[m[p]["right"]]
      <4>2. m2[s]["right"] = p /\ f2[m2[s]["left"]] = A
        BY <3>1, <4>1, <2>2, <2>5, <1>1
      <4>3. f2[p] = Join(B, Join(One(p), C))
        BY <3>1, <1>6 DEF P, Lowered
      <4>4. f[p] = Join(f[s], Join(One(p), C)) /\ C \in Nodes
        BY <3>0, <3>1, <4>1, <1>1, <1>4
      <4> HIDE DEF A, B, C
      <4>5. f[p] = Join(A, Join(One(s), Join(B, Join(One(p), C))))
        BY <3>0, <4>4, <1>1, Reassociate
      <4> QED
        BY <4>2, <4>3, <4>5, <2>8, <1>6
    <3>2. CASE e = "right"
      <4>1. oe = "left"
        BY <3>2 DEF oe, Other
      <4> DEFINE C == f[m[p]["left"]]
      <4>2. m2[s]["left"] = p /\ f2[m2[s]["right"]] = B
        BY <3>2, <4>1, <2>2, <2>5, <1>1
      <4>3. f2[p] = Join(C, Join(One(p), A))
        BY <3>2, <1>6 DEF P, Lowered
      <4>4. f[p] = Join(C, Join(One(p), f[s])) /\ C \in Nodes
        BY <3>0, <3>2, <4>1, <1>1, <1>4
      <4> HIDE DEF A, B, C
      <4>5. f[p] = Join(Join(C, Join(One(p), A)), Join(One(s), B))
        BY <3>0, <4>4, <1>1, Reassociate
      <4> QED
        BY <4>2, <4>3, <4>5, <2>8, <1>6
    <3> QED
      BY <3>1, <3>2, <1>1 DEF Dir
  <2> QED
    BY <2>1, <2>7, <2>8
<1>8. f2[NULL] = None
  BY <1>1, <1>4, <1>6
<1>9. ASSUME NEW x \in Tree
      PROVE  m2[x]["root"] \in Pointer /\ f2[m2[x]["root"]] = o[x]
  <2>1. "root" \in Side /\ x \notin Node /\ m[x]["root"] \in Pointer /\ f[m[x]["root"]] = o[x]
    BY <1>0, DistinctAddresses DEF HasOrders, Side
  <2>2. m2[x]["root"] = IF x = g /\ "root" = t THEN s ELSE m[x]["root"]
    BY <2>1, <1>1, <1>2
  <2>3. CASE x = g /\ t = "root"
    BY <2>1, <2>2, <2>3, <1>1, <1>4, <1>6
  <2>4. CASE ~(x = g /\ t = "root")
    <3>1. m[x]["root"] # p
      BY <2>4, <1>1 DEF Turned
    <3> QED
      BY <3>1, <2>1, <2>2, <2>4, <1>1, <1>6
  <2> QED
    BY <2>3, <2>4
<1> QED
  BY <1>6, <1>7, <1>8, <1>9 DEF HasOrders, Sequenced

\* A rotation, or two in a row, leaves the sequences of all trees alone.
LEMMA RearrangedKeepsOrders ==
  ASSUME IInv, NEW o, HasOrders(InUse, link, o), NEW m2, Rearranged(m2)
  PROVE  HasOrders(InUse, m2, o)
<1>1. InUse \in SUBSET Node
  BY InUseSeparate
<1>2. ASSUME NEW m, NEW m3, HasOrders(InUse, m, o), RotatesTo(m, m3)
      PROVE  HasOrders(InUse, m3, o)
  BY <1>1, <1>2, TurnKeepsOrders DEF RotatesTo
<1> QED
  BY <1>2 DEF Rearranged

-----------------------------------------------------------------------------
(* A change in one place *)

\* r is q with one part u of it replaced by v.
Replaced(u, v, q, r) ==
  \E a, b \in Nodes : q = Join(a, Join(u, b)) /\ r = Join(a, Join(v, b))

\* Then it is also a part of what q is a part of.
LEMMA ReplacedWithin ==
  ASSUME NEW u \in Nodes, NEW v \in Nodes, NEW q, NEW r, Replaced(u, v, q, r), NEW c \in Nodes
  PROVE  /\ Replaced(u, v, Join(c, q), Join(c, r))
         /\ Replaced(u, v, Join(q, c), Join(r, c))
<1>1. PICK a \in Nodes, b \in Nodes : q = Join(a, Join(u, b)) /\ r = Join(a, Join(v, b))
  BY DEF Replaced
<1>2. Join(c, a) \in Nodes /\ Join(b, c) \in Nodes /\ Join(u, b) \in Nodes /\ Join(v, b) \in Nodes
  BY Joins
<1>3. Join(c, q) = Join(Join(c, a), Join(u, b)) /\ Join(c, r) = Join(Join(c, a), Join(v, b))
  BY <1>1, <1>2, Joins
<1>4. Join(q, c) = Join(a, Join(u, Join(b, c))) /\ Join(r, c) = Join(a, Join(v, Join(b, c)))
  <2>1. Join(q, c) = Join(a, Join(Join(u, b), c)) /\ Join(r, c) = Join(a, Join(Join(v, b), c))
    BY <1>1, <1>2, Joins
  <2> QED
    BY <2>1, Joins
<1> QED
  BY <1>2, <1>3, <1>4 DEF Replaced

\* Where the fields below x are the same, the sequence is the same.
LEMMA SameBelow ==
  ASSUME IInv, NoLoops(link), NEW f, Sequenced(InUse, link, f), NEW x \in InUse \cup {NULL},
         NEW m2, \A z \in Subtree(link, x), d \in Dir : m2[z][d] = link[z][d],
         NEW f2, Sequenced(Subtree(link, x), m2, f2)
  PROVE  f2[x] = f[x]
<1> DEFINE C == Subtree(link, x)
<1>1. InUseTree
  BY InUseIsTree
<1>2. C \subseteq InUse /\ (x = NULL \/ x \in C)
  BY SubtreeInUse, SubtreeFacts, DistinctAddresses
<1>3. C \in SUBSET Node /\ \A z \in C, d \in Dir : link[z][d] \in C \cup {NULL}
  <2>1. Closed(link, C)
    BY SubtreeFacts
  <2> QED
    BY <2>1, <1>1, <1>2 DEF InUseTree, Closed
<1> HIDE DEF C
<1>4. Sequenced(C, link, f)
  BY <1>2 DEF Sequenced
<1>5. Sequenced(C, link, f2)
  BY DEF Sequenced, C, Dir
<1>6. LoopFree(link)
  BY <1>1 DEF InUseTree
<1>7. SameOn(C, f, f2)
  BY <1>3, <1>4, <1>5, <1>6, OneSequence
<1> QED
  BY <1>2, <1>7 DEF SameOn

\* Above y the fields are the same but for y2 in place of y.
ChangedAt(m2, y, y2) ==
  /\ y \in InUse /\ y2 \in Pointer
  /\ \A x \in InUse \ Subtree(link, y), d \in Dir :
       m2[x][d] = IF link[x][d] = y THEN y2 ELSE link[x][d]
  /\ \A t \in Tree : m2[t]["root"] = IF link[t]["root"] = y THEN y2 ELSE link[t]["root"]

ChangeOf(f, f2, y, u, v, x) ==
  IF y \in Range(f[x]) THEN Replaced(u, v, f[x], f2[x]) ELSE f2[x] = f[x]

\* What happened to the sequence of y happens to all sequences with y.
LEMMA ChangeAbove ==
  ASSUME IInv, NoLoops(link), NEW f, Sequenced(InUse, link, f),
         NEW m2, NEW y, NEW y2, ChangedAt(m2, y, y2),
         NEW f2, Sequenced(InUse \ Subtree(link, y), m2, f2),
         NEW u \in Nodes, NEW v \in Nodes, Replaced(u, v, f[y], f2[y2])
  PROVE  \A x \in (InUse \ Subtree(link, y)) \cup {NULL} : ChangeOf(f, f2, y, u, v, x)
<1> DEFINE C == InUse \ Subtree(link, y)
           S == {x \in Pointer : x \in C \cup {NULL} => ChangeOf(f, f2, y, u, v, x)}
<1>1. InUseTree /\ Apart(InUse, link, f)
  BY InUseIsTree, SequencedSpans, RangesApart
<1>2. y \in InUse /\ y2 \in Pointer /\ f \in [Pointer -> Nodes] /\ f2 \in [Pointer -> Nodes]
  BY DEF ChangedAt, Sequenced
<1>3. \A x \in C, d \in Dir : link[x][d] \in C \cup {NULL, y}
  BY <1>1, <1>2, SubtreeInUse DEF InUseTree
<1>4. NULL \in S
  <2>1. f[NULL] = None /\ f2[NULL] = None /\ y \notin Range(None)
    BY RangeFacts DEF Sequenced
  <2> QED
    BY <2>1 DEF Pointer, ChangeOf
<1>5. y \in Range(f[y]) /\ y # NULL
  BY <1>1, <1>2, SequencedSpans, RangeIsSubtree, SubtreeInUse DEF InUseTree
<1>6. ASSUME NEW n \in Node, link[n]["left"] \in S, link[n]["right"] \in S
      PROVE  n \in S
  <2> SUFFICES ASSUME n \in C
               PROVE  ChangeOf(f, f2, y, u, v, n)
    BY DistinctAddresses DEF Pointer
  <2> DEFINE l  == link[n]["left"]
             r  == link[n]["right"]
             L  == f[l]
             R  == f[r]
             L2 == f2[m2[n]["left"]]
             R2 == f2[m2[n]["right"]]
  <2>1. ASSUME NEW d \in Dir, link[n][d] \in S
        PROVE  IF y \in Range(f[link[n][d]])
               THEN Replaced(u, v, f[link[n][d]], f2[m2[n][d]])
               ELSE f2[m2[n][d]] = f[link[n][d]]
    <3>1. CASE link[n][d] = y
      BY <3>1, <1>5 DEF ChangedAt
    <3>2. CASE link[n][d] # y
      <4>1. m2[n][d] = link[n][d] /\ link[n][d] \in C \cup {NULL}
        BY <3>2, <1>3 DEF ChangedAt
      <4> QED
        BY <4>1, <2>1 DEF ChangeOf
    <3> QED
      BY <3>1, <3>2
  <2>2. /\ IF y \in Range(L) THEN Replaced(u, v, L, L2) ELSE L2 = L
        /\ IF y \in Range(R) THEN Replaced(u, v, R, R2) ELSE R2 = R
    BY <1>6, <2>1 DEF Dir
  <2>3. f[n] = Join(L, Join(One(n), R)) /\ f2[n] = Join(L2, Join(One(n), R2))
    BY DEF Sequenced
  <2>4. n # y /\ Range(L) \cap Range(R) = {}
    BY <1>1, <1>2, SubtreeInUse DEF Apart
  <2>5. L \in Nodes /\ R \in Nodes /\ n \in InUse /\ One(n) \in Nodes
    BY <1>1, Joins DEF InUseTree, LoopFree, Sequenced, Dir
  <2>6. y \in Range(f[n]) <=> y \in Range(L) \/ y \in Range(R)
    BY <2>3, <2>4, <2>5, JoinedRange
  <2> HIDE DEF L, R, L2, R2, S
  <2>7. CASE y \in Range(L)
    <3>1. Replaced(u, v, L, L2) /\ R2 = R /\ Join(One(n), R) \in Nodes
      BY <2>2, <2>4, <2>5, <2>7, Joins
    <3>2. Replaced(u, v, Join(L, Join(One(n), R)), Join(L2, Join(One(n), R)))
      BY <3>1, ReplacedWithin
    <3> QED
      BY <3>1, <3>2, <2>3, <2>6, <2>7 DEF ChangeOf
  <2>8. CASE y \in Range(R)
    <3>1. Replaced(u, v, R, R2) /\ L2 = L
      BY <2>2, <2>4, <2>8
    <3>2. Replaced(u, v, Join(One(n), R), Join(One(n), R2))
      BY <3>1, <2>5, ReplacedWithin
    <3>3. Replaced(u, v, Join(L, Join(One(n), R)), Join(L, Join(One(n), R2)))
      BY <3>2, <2>5, ReplacedWithin
    <3> QED
      BY <3>1, <3>3, <2>3, <2>6, <2>8 DEF ChangeOf
  <2>9. CASE y \notin Range(L) /\ y \notin Range(R)
    BY <2>2, <2>3, <2>6, <2>9 DEF ChangeOf
  <2> QED
    BY <2>7, <2>8, <2>9 DEF ChangeOf
<1>7. Pointer \subseteq S
  <2> HIDE DEF S
  <2> QED
    BY <1>1, <1>4, <1>6, TreeInduction DEF InUseTree
<1> QED
  BY <1>1, <1>7 DEF Pointer, InUseTree

\* The change is one of the sequence of the tree of y.
LEMMA OneTreeChanges ==
  ASSUME IInv, NoLoops(link), NEW f, Sequenced(InUse, link, f),
         NEW m2, NEW y, NEW y2, ChangedAt(m2, y, y2),
         NEW f2, Sequenced(InUse \ Subtree(link, y), m2, f2),
         NEW u \in Nodes, NEW v \in Nodes, Replaced(u, v, f[y], f2[y2])
  PROVE  /\ owner[y] \in Tree
         /\ Replaced(u, v, f[link[owner[y]]["root"]], f2[m2[owner[y]]["root"]])
         /\ \A t \in Tree : t # owner[y] => f2[m2[t]["root"]] = f[link[t]["root"]]
<1>1. InUseTree /\ y \in InUse /\ y \in Subtree(link, y)
  BY InUseIsTree, SubtreeInUse DEF ChangedAt
<1>2. \A x \in (InUse \ Subtree(link, y)) \cup {NULL} : ChangeOf(f, f2, y, u, v, x)
  BY ChangeAbove
<1>3. owner[y] \in Tree
  BY <1>1, InUseFacts DEF Owners, InUse, Owned
<1>4. ASSUME NEW t \in Tree
      PROVE  IF t = owner[y]
             THEN Replaced(u, v, f[link[t]["root"]], f2[m2[t]["root"]])
             ELSE f2[m2[t]["root"]] = f[link[t]["root"]]
  <2> DEFINE r == link[t]["root"]
  <2>1. r \in InUse \cup {NULL} /\ Range(f[r]) = {n \in InUse : owner[n] = t}
    BY <1>1, SequencedSpans, TreeNodes DEF InUseTree
  <2>2. y \in Range(f[r]) <=> t = owner[y]
    BY <2>1, <1>1
  <2>3. CASE r = y
    <3>1. y \in Range(f[y])
      BY <1>1, SequencedSpans, RangeIsSubtree
    <3>2. m2[t]["root"] = y2
      BY <2>3 DEF ChangedAt
    <3> QED
      BY <3>1, <3>2, <2>2, <2>3
  <2>4. CASE r # y
    <3>1. m2[t]["root"] = r
      BY <2>4 DEF ChangedAt
    <3>2. r \notin Subtree(link, y)
      <4>1. ASSUME r \in Subtree(link, y)
            PROVE  FALSE
        <5>1. PICK z \in Subtree(link, y), e \in Dir : link[z][e] = r
          BY <4>1, <2>4, ParentInSubtree
        <5>2. z \in InUse /\ r # NULL
          BY <5>1, <4>1, <1>1, SubtreeInUse DEF InUseTree
        <5> QED
          BY <5>1, <5>2, ChildNoRoot
      <4> QED
        BY <4>1
    <3> QED
      BY <3>1, <3>2, <2>1, <2>2, <1>2 DEF ChangeOf
  <2> QED
    BY <2>3, <2>4
<1> QED
  BY <1>3, <1>4

-----------------------------------------------------------------------------
(* What the operations do to the sequences *)

\* Of tree t the part u is replaced by v, the other trees keep their sequences.
OneReplaced(t, u, v, f, m, f2, m2) ==
  /\ t \in Tree
  /\ Replaced(u, v, f[m[t]["root"]], f2[m2[t]["root"]])
  /\ \A x \in Tree : x # t => f2[m2[x]["root"]] = f[m[x]["root"]]

\* n directly before p, or directly after it.
Beside(d, n, p) == IF d = "left" THEN Join(One(n), One(p)) ELSE Join(One(p), One(n))

\* c_rbnode_link puts the node beside its parent.
LEMMA LinkChanges ==
  ASSUME IInv, NoLoops(link), NEW f, Sequenced(InUse, link, f),
         NEW f2, Sequenced(InUse', link', f2),
         NEW p \in Node, NEW d \in Dir, NEW n \in Node, Link(p, d, n)
  PROVE  OneReplaced(owner[p], One(p), Beside(d, n, p), f, link, f2, link')
<1>1. /\ owner[n] = NULL /\ owner[p] # NULL /\ link[p][d] = NULL
      /\ link' = [link EXCEPT ![n] = NoLinks, ![p][d] = n]
      /\ owner' = [owner EXCEPT ![n] = owner[p]]
  BY DEF Link
<1>2. /\ p \in InUse /\ n \notin InUse /\ p # n /\ InUseTree /\ p \in Pointer /\ n \in Pointer
      /\ Other(d) \in Dir /\ Other(d) # d /\ Dir \subseteq Side /\ (\A b \in Dir : b = d \/ b = Other(d))
      /\ "left" \in Dir /\ "right" \in Dir
  BY <1>1, InUseIsTree, Sides DEF InUse, Owned, Pointer, Dir
<1>3. InUse' = InUse \cup {n}
  BY <1>1, <1>2, InUseFacts, DistinctAddresses DEF InUse, Owned, Owners
<1>4. /\ \A x \in InUse, b \in Dir : link'[x][b] = IF x = p /\ b = d THEN n ELSE link[x][b]
      /\ \A b \in Dir : link'[n][b] = NULL
      /\ \A t \in Tree : link'[t]["root"] = link[t]["root"]
  <2>1. link \in Memory /\ p \in Node \cup Tree /\ n \in Node \cup Tree /\ d \in Side
    BY <1>2 DEF InUseTree
  <2>2. \A t \in Tree : t # n /\ t # p
    BY DistinctAddresses
  <2>3. \A b \in Dir : NoLinks[b] = NULL
    BY <1>2 DEF NoLinks
  <2> QED
    BY <2>1, <2>2, <2>3, <1>1, <1>2 DEF Memory, InUseTree
<1>5. f \in [Pointer -> Nodes] /\ f2 \in [Pointer -> Nodes] /\ f[NULL] = None /\ f2[NULL] = None
  BY DEF Sequenced
<1>6. /\ One(n) \in Nodes /\ One(p) \in Nodes /\ None \in Nodes
      /\ Join(One(n), One(p)) \in Nodes /\ Join(One(p), One(n)) \in Nodes
  BY Joins
<1>7. f2[n] = One(n)
  <2>1. f2[n] = Join(f2[link'[n]["left"]], Join(One(n), f2[link'[n]["right"]]))
    BY <1>3 DEF Sequenced
  <2>2. f2[n] = Join(None, Join(One(n), None))
    BY <2>1, <1>2, <1>4, <1>5
  <2> QED
    BY <2>2, <1>6, Joins
<1>8. ChangedAt(link', p, p)
  <2>1. p \in Subtree(link, p)
    BY <1>2, SubtreeInUse
  <2> QED
    BY <2>1, <1>2, <1>4 DEF ChangedAt
<1>9. Sequenced(InUse \ Subtree(link, p), link', f2)
  BY <1>3 DEF Sequenced
<1> DEFINE o == Other(d)
           B == f[link[p][o]]
<1>10. link[p][o] \in InUse \cup {NULL} /\ B \in Nodes
  BY <1>2, <1>5 DEF InUseTree, Pointer
<1>11. f2[link[p][o]] = B
  <2>1. Subtree(link, link[p][o]) \subseteq InUse /\ p \notin Subtree(link, link[p][o])
    BY <1>2, <1>10, SubtreeInUse, SubtreeFacts, NotBelowItself, DistinctAddresses
  <2>2. \A z \in Subtree(link, link[p][o]), b \in Dir : link'[z][b] = link[z][b]
    BY <2>1, <1>4
  <2>3. Sequenced(Subtree(link, link[p][o]), link', f2)
    BY <2>1, <1>3 DEF Sequenced
  <2> QED
    BY <2>2, <2>3, <1>10, SameBelow
<1>12. link'[p][d] = n /\ link'[p][o] = link[p][o]
  BY <1>2, <1>4
<1>13. /\ f[p] = Join(f[link[p]["left"]], Join(One(p), f[link[p]["right"]]))
       /\ f2[p] = Join(f2[link'[p]["left"]], Join(One(p), f2[link'[p]["right"]]))
  BY <1>2, <1>3 DEF Sequenced
<1>14. Replaced(One(p), Beside(d, n, p), f[p], f2[p])
  <2>1. CASE d = "left"
    <3>1. o = "right"
      BY <2>1 DEF Other
    <3>2. f[p] = Join(None, Join(One(p), B)) /\ f2[p] = Join(One(n), Join(One(p), B))
      BY <2>1, <3>1, <1>1, <1>5, <1>7, <1>11, <1>12, <1>13
    <3> HIDE DEF B
    <3>3. f2[p] = Join(None, Join(Join(One(n), One(p)), B))
      <4>1. Join(Join(One(n), One(p)), B) = Join(One(n), Join(One(p), B))
        BY <1>6, <1>10, Joins
      <4>2. Join(Join(One(n), One(p)), B) \in Nodes
        BY <1>6, <1>10, Joins
      <4> QED
        BY <3>2, <4>1, <4>2, Joins
    <3> QED
      BY <2>1, <3>2, <3>3, <1>6, <1>10 DEF Replaced, Beside
  <2>2. CASE d = "right"
    <3>1. o = "left"
      BY <2>2 DEF Other
    <3>2. f[p] = Join(B, Join(One(p), None)) /\ f2[p] = Join(B, Join(One(p), One(n)))
      BY <2>2, <3>1, <1>1, <1>5, <1>7, <1>11, <1>12, <1>13
    <3> HIDE DEF B
    <3>3. f2[p] = Join(B, Join(Join(One(p), One(n)), None))
      BY <3>2, <1>6, Joins
    <3> QED
      BY <2>2, <3>2, <3>3, <1>6, <1>10 DEF Replaced, Beside
  <2> QED
    BY <2>1, <2>2 DEF Dir
<1>15. Beside(d, n, p) \in Nodes
  BY <1>6 DEF Beside
<1> QED
  BY <1>6, <1>8, <1>9, <1>14, <1>15, OneTreeChanges DEF OneReplaced

\* Where the fields of the nodes in use stay, so do their sequences.
LEMMA SameFields ==
  ASSUME IInv, NoLoops(link), NEW f, Sequenced(InUse, link, f), NEW m2, NEW f2,
         NEW U \in SUBSET InUse, Sequenced(U, m2, f2),
         \A x \in U, d \in Dir : m2[x][d] = link[x][d] /\ link[x][d] \in U \cup {NULL}
  PROVE  SameOn(U, f, f2)
<1>1. LoopFree(link) /\ U \in SUBSET Node
  BY InUseIsTree DEF InUseTree
<1>2. Sequenced(U, link, f)
  BY DEF Sequenced
<1>3. Sequenced(U, link, f2)
  BY DEF Sequenced, Dir
<1>4. \A x \in U, d \in Dir : link[x][d] \in U \cup {NULL}
  OBVIOUS
<1> QED
  BY <1>1, <1>2, <1>3, <1>4, OneSequence

\* c_rbtree_add without a parent makes the sequence of one node.
LEMMA AddRootChanges ==
  ASSUME IInv, NoLoops(link), NEW f, Sequenced(InUse, link, f),
         NEW f2, Sequenced(InUse', link', f2),
         NEW t \in Tree, NEW n \in Node, AddRoot(t, n)
  PROVE  /\ f[link[t]["root"]] = None /\ f2[link'[t]["root"]] = One(n)
         /\ \A x \in Tree : x # t => f2[link'[x]["root"]] = f[link[x]["root"]]
<1>1. /\ owner[n] = NULL /\ link[t]["root"] = NULL
      /\ link' = [link EXCEPT ![n] = NoLinks, ![t]["root"] = n]
      /\ owner' = [owner EXCEPT ![n] = t]
  BY DEF AddRoot
<1>2. n \notin InUse /\ InUseTree /\ n \in Pointer /\ "left" \in Dir /\ "right" \in Dir /\ t # NULL
  BY <1>1, InUseIsTree, DistinctAddresses DEF InUse, Owned, Pointer, Dir
<1>3. InUse' = InUse \cup {n}
  BY <1>1, <1>2, InUseFacts DEF InUse, Owned, Owners
<1>4. /\ \A x \in InUse, b \in Dir : link'[x][b] = link[x][b]
      /\ \A b \in Dir : link'[n][b] = NULL
      /\ \A x \in Tree : link'[x]["root"] = IF x = t THEN n ELSE link[x]["root"]
  <2>1. link \in Memory /\ n \in Node \cup Tree /\ t \in Node \cup Tree /\ "root" \in Side /\ Dir \subseteq Side
    BY <1>2, Sides DEF InUseTree, Side
  <2>2. \A x \in InUse : x # n /\ x # t /\ x \in Node \cup Tree
    BY <1>2, DistinctAddresses DEF InUseTree
  <2>3. \A x \in Tree : x # n
    BY DistinctAddresses
  <2>4. \A b \in Dir : NoLinks[b] = NULL
    BY <2>1 DEF NoLinks
  <2> QED
    BY <2>1, <2>2, <2>3, <2>4, <1>1, <1>2 DEF Memory
<1>5. f2[NULL] = None /\ f[NULL] = None
  BY DEF Sequenced
<1>6. f2[n] = One(n)
  <2>1. f2[n] = Join(f2[link'[n]["left"]], Join(One(n), f2[link'[n]["right"]]))
    BY <1>3 DEF Sequenced
  <2>2. f2[n] = Join(None, Join(One(n), None))
    BY <2>1, <1>2, <1>4, <1>5
  <2> QED
    BY <2>2, Joins
<1>7. SameOn(InUse, f, f2)
  <2>1. Sequenced(InUse, link', f2)
    BY <1>3 DEF Sequenced
  <2>2. \A x \in InUse, d \in Dir : link'[x][d] = link[x][d] /\ link[x][d] \in InUse \cup {NULL}
    BY <1>2, <1>4 DEF InUseTree
  <2>3. InUse \in SUBSET InUse
    OBVIOUS
  <2> QED
    BY <2>1, <2>2, <2>3, SameFields
<1>8. \A x \in Tree : link[x]["root"] \in InUse \cup {NULL}
  BY <1>2 DEF InUseTree
<1>9. f[link[t]["root"]] = None /\ f2[link'[t]["root"]] = One(n)
  BY <1>1, <1>4, <1>5, <1>6
<1>10. ASSUME NEW x \in Tree, x # t
       PROVE  f2[link'[x]["root"]] = f[link[x]["root"]]
  <2>1. link'[x]["root"] = link[x]["root"]
    BY <1>4, <1>10
  <2>2. f2[link[x]["root"]] = f[link[x]["root"]]
    BY <1>7, <1>8 DEF SameOn
  <2> QED
    BY <2>1, <2>2
<1> QED
  BY <1>9, <1>10

\* c is the only child of n, or NULL if n has none, and takes its place.
TakesPlace(n, c, m2) ==
  /\ \E d \in Dir : link[n][d] = c /\ link[n][Other(d)] = NULL
  /\ m2 = PutInPlace(link, pf, n, c)

\* A node whose place is taken by NULL or its only child leaves the sequence.
LEMMA ReplaceChanges ==
  ASSUME IInv, NoLoops(link), NEW f, Sequenced(InUse, link, f),
         NEW n \in InUse, NEW c, NEW m2, TakesPlace(n, c, m2),
         NEW f2, Sequenced(InUse \ {n}, m2, f2)
  PROVE  OneReplaced(owner[n], One(n), None, f, link, f2, m2)
<1>0. PICK d \in Dir : link[n][d] = c /\ link[n][Other(d)] = NULL
  BY DEF TakesPlace
<1>1. /\ InUseTree /\ n \in Node /\ c \in InUse \cup {NULL} /\ c \in Pointer /\ Dir \subseteq Side
      /\ Other(d) \in Dir /\ "left" \in Dir /\ "right" \in Dir
  BY <1>0, InUseIsTree, Sides DEF InUseTree, Pointer, Dir
<1>2. PICK g \in Holder(owner), t \in Side :
           /\ g = pf[n].raw /\ link[g][t] = n /\ (t = "root" <=> g \in Tree)
           /\ g \notin Subtree(link, n) /\ g # n
           /\ \A m \in Memory : m[g] = link[g] => PutInPlace(m, pf, n, c) = Put(m, g, t, c)
  BY InPlaceAt
<1>3. g \in Node \cup Tree /\ link \in Memory
  BY <1>1 DEF Holder, Owned, InUseTree
<1>4. \A a \in Node \cup Tree, b \in Side : m2[a][b] = IF a = g /\ b = t THEN c ELSE link[a][b]
  <2>1. m2 = Put(link, g, t, c)
    BY <1>2, <1>3 DEF TakesPlace
  <2>2. \A a \in Node \cup Tree, b \in Side :
          Put(link, g, t, c)[a][b] = IF a = g /\ b = t THEN c ELSE link[a][b]
    BY <1>1, <1>3, PutFacts
  <2> QED
    BY <2>1, <2>2
<1>5. /\ \A a \in InUse, b \in Dir : link[a][b] = n => a = g /\ b = t
      /\ \A a \in Tree : link[a]["root"] = n => a = g
  BY <1>2, OnlyParent
<1>6. ChangedAt(m2, n, c)
  <2>1. ASSUME NEW x \in InUse, NEW b \in Dir
        PROVE  m2[x][b] = IF link[x][b] = n THEN c ELSE link[x][b]
    BY <1>1, <1>2, <1>4, <1>5 DEF InUseTree
  <2>2. ASSUME NEW x \in Tree
        PROVE  m2[x]["root"] = IF link[x]["root"] = n THEN c ELSE link[x]["root"]
    BY <1>2, <1>4, <1>5 DEF Side
  <2> QED
    BY <2>1, <2>2, <1>1 DEF ChangedAt
<1>7. n \in Subtree(link, n) /\ n \notin Subtree(link, c) /\ Subtree(link, c) \subseteq Subtree(link, n)
      /\ Subtree(link, n) \subseteq InUse
  <2>1. n \in Subtree(link, n) /\ Subtree(link, n) \subseteq InUse /\ n \notin Subtree(link, c)
    BY <1>0, <1>1, SubtreeInUse, NotBelowItself
  <2>2. c = NULL \/ c \in Subtree(link, n)
    <3>1. Closed(link, Subtree(link, n))
      BY SubtreeFacts
    <3> QED
      BY <3>1, <2>1, <1>0, <1>1 DEF Closed, InUseTree
  <2>3. Subtree(link, c) \subseteq Subtree(link, n)
    BY <2>2, SubtreeWithin, SubtreeFacts, DistinctAddresses
  <2> QED
    BY <2>1, <2>3
<1>8. Sequenced(InUse \ Subtree(link, n), m2, f2) /\ Sequenced(Subtree(link, c), m2, f2)
  BY <1>7 DEF Sequenced
<1>9. f2[c] = f[c]
  <2>1. \A z \in Subtree(link, c), b \in Dir : m2[z][b] = link[z][b]
    BY <1>1, <1>2, <1>4, <1>7 DEF InUseTree
  <2> QED
    BY <2>1, <1>1, <1>8, SameBelow
<1>10. /\ f[n] = Join(f[link[n]["left"]], Join(One(n), f[link[n]["right"]]))
       /\ f[NULL] = None /\ f[c] \in Nodes /\ One(n) \in Nodes /\ None \in Nodes
  BY <1>1, Joins DEF Sequenced
<1>11. Replaced(One(n), None, f[n], f2[c])
  <2> DEFINE B == f[c]
  <2>1. f2[c] = Join(B, Join(None, None)) /\ f2[c] = Join(None, Join(None, B))
    BY <1>9, <1>10, Joins
  <2>2. CASE d = "left"
    <3>1. f[n] = Join(B, Join(One(n), None))
      BY <2>2, <1>0, <1>10 DEF Other
    <3> QED
      BY <2>1, <3>1, <1>10 DEF Replaced
  <2>3. CASE d = "right"
    <3>1. f[n] = Join(None, Join(One(n), B))
      BY <2>3, <1>0, <1>10 DEF Other
    <3> QED
      BY <2>1, <3>1, <1>10 DEF Replaced
  <2> QED
    BY <2>2, <2>3 DEF Dir
<1> QED
  BY <1>6, <1>8, <1>10, <1>11, OneTreeChanges DEF OneReplaced

\* c_rbnode_unlink_stale of a node with one child or none.
LEMMA UnlinkChanges ==
  ASSUME IInv, NoLoops(link), NEW f, Sequenced(InUse, link, f),
         NEW f2, Sequenced(InUse', link', f2), NEW n \in Node, NEW api,
         UnlinkLeaf(api, n) \/ \E d \in Dir : UnlinkOneChild(api, n, d)
  PROVE  n \in InUse /\ OneReplaced(owner[n], One(n), None, f, link, f2, link')
<1>1. n \in InUse /\ Detach(n)
  BY RemovableInUse DEF UnlinkLeaf, UnlinkOneChild, InUse
<1>2. Sequenced(InUse \ {n}, link', f2)
  BY <1>1, DetachedFromUse
<1>3. \E c : TakesPlace(n, c, link')
  <2>1. CASE UnlinkLeaf(api, n)
    <3>1. "left" \in Dir /\ Other("left") \in Dir
      BY DEF Dir, Other
    <3> QED
      BY <2>1, <3>1 DEF UnlinkLeaf, TakesPlace
  <2>2. CASE \E d \in Dir : UnlinkOneChild(api, n, d)
    BY <2>2 DEF UnlinkOneChild, TakesPlace
  <2> QED
    BY <2>1, <2>2
<1> QED
  BY <1>1, <1>2, <1>3, ReplaceChanges

\* Where the successor and the node it replaces are not below y, nothing changes.
LEMMA SplicedElsewhere ==
  ASSUME IInv, NoLoops(link), NEW f, Sequenced(InUse, link, f),
         NEW n \in InUse, NEW s \in InUse, NEW m2, NEW p, NEW g, NEW t, Spliced(m2, n, s, p, g, t),
         NEW f2, Sequenced(InUse \ {n}, m2, f2),
         NEW y \in InUse \cup {NULL}, s \notin Subtree(link, y), n \notin Subtree(link, y)
  PROVE  f2[y] = f[y]
<1> DEFINE C == Subtree(link, y)
<1>1. C \subseteq InUse /\ Closed(link, C) /\ InUseTree /\ Dir \subseteq Side /\ "left" \in Dir
  <2>1. Subtree(link, NULL) = {}
    BY SubtreeFacts, DistinctAddresses
  <2> QED
    BY <2>1, SubtreeFacts, SubtreeInUse, InUseIsTree, Sides DEF Dir
<1>2. g \notin C
  <2> SUFFICES ASSUME g \in C
               PROVE  FALSE
    OBVIOUS
  <2>1. g \in Node /\ g \notin Tree /\ n \in Node
    BY <1>1, DistinctAddresses DEF InUseTree
  <2>2. link[g][t] = n /\ t \in Dir
    BY <2>1 DEF Spliced, Side, Dir
  <2> QED
    BY <2>1, <2>2, <1>1 DEF Closed
<1>3. s # link[n]["right"] => p \notin C
  <2> SUFFICES ASSUME s # link[n]["right"], p \in C
               PROVE  FALSE
    OBVIOUS
  <2>1. link[p]["left"] = s /\ s \in Node
    BY <1>1 DEF Spliced, InUseTree
  <2> QED
    BY <2>1, <1>1 DEF Closed
<1>4. \A z \in C, d \in Dir : m2[z][d] = link[z][d]
  <2>1. \A z \in C : z \in Node \cup Tree /\ z # g /\ z # s /\ (s # link[n]["right"] => z # p)
    BY <1>1, <1>2, <1>3 DEF InUseTree
  <2> QED
    BY <2>1, <1>1 DEF Spliced
<1>5. Sequenced(C, m2, f2)
  BY <1>1 DEF Sequenced
<1> HIDE DEF C
<1> QED
  BY <1>4, <1>5, SameBelow DEF C

\* The successor is on the left of every node that the search for it passed; the
\* node to remove is not below any of them.
LEMMA PassedAbove ==
  ASSUME IInv, NoLoops(link), SearchBelow, pc = "successor",
         NEW A \in SUBSET InUse, Passed(A)
  PROVE  /\ cur \in Subtree(link, link[victim]["right"])
         /\ \A a \in A : cur \in Subtree(link, link[a]["left"]) /\ victim \notin Subtree(link, a)
<1>1. /\ InUseTree /\ victim \in InUse /\ cur \in InUse /\ "left" \in Dir /\ "right" \in Dir
      /\ cur \in Subtree(link, link[victim]["right"])
  BY InUseIsTree DEF IInv, Searching, SearchBelow, Dir
<1>2. /\ A \in SUBSET Node /\ \A a \in A : link[a]["left"] \in A \cup {cur}
      /\ link[victim]["right"] \in A \cup {cur} /\ victim \notin A
  BY <1>1 DEF Passed, InUseTree
<1>3. ASSUME NEW a \in A, NEW d \in Dir
      PROVE  Subtree(link, link[a][d]) \subseteq Subtree(link, a)
  <2>1. Closed(link, Subtree(link, a)) /\ a \in Subtree(link, a)
    BY <1>2, SubtreeFacts
  <2>2. link[a][d] \in Subtree(link, a) \/ link[a][d] = NULL
    BY <2>1, <1>1, <1>2 DEF Closed, InUseTree
  <2> QED
    BY <2>2, SubtreeWithin, SubtreeFacts, DistinctAddresses
<1>4. \A a \in A : cur \in Subtree(link, link[a]["left"])
  <2> DEFINE B == {a \in A : cur \notin Subtree(link, link[a]["left"])}
  <2>1. ASSUME NEW a \in B
        PROVE  link[a]["left"] \in B
    <3>1. cur \in Subtree(link, cur)
      BY <1>1, SubtreeInUse
    <3>2. link[a]["left"] \in A
      BY <3>1, <1>2
    <3>3. Subtree(link, link[link[a]["left"]]["left"]) \subseteq Subtree(link, link[a]["left"])
      BY <3>2, <1>1, <1>3
    <3> QED
      BY <3>2, <3>3
  <2>2. B = {}
    BY <2>1, <1>1, <1>2 DEF NoLoops
  <2> QED
    BY <2>2
<1>5. \A a \in A : victim \notin Subtree(link, a)
  <2> DEFINE B == {a \in A : victim \in Subtree(link, a)}
  <2>1. ASSUME NEW a \in B
        PROVE  link[a]["left"] \in B
    <3>1. PICK d \in Dir : victim \in Subtree(link, link[a][d])
      BY <1>2, SubtreeParts
    <3>2. cur \in Subtree(link, link[a][d])
      <4>1. Subtree(link, victim) \subseteq Subtree(link, link[a][d])
        BY <3>1, SubtreeWithin
      <4>2. Subtree(link, link[victim]["right"]) \subseteq Subtree(link, victim)
        <5>1. Closed(link, Subtree(link, victim)) /\ victim \in Subtree(link, victim)
          BY <1>1, SubtreeFacts DEF InUseTree
        <5>2. link[victim]["right"] \in Node
          BY <1>1, SubtreeFacts
        <5>3. link[victim]["right"] \in Subtree(link, victim)
          BY <5>1, <5>2, <1>1 DEF Closed
        <5> QED
          BY <5>3, SubtreeWithin
      <4> QED
        BY <4>1, <4>2, <1>1
    <3>3. d = "left"
      <4>1. a \in Node /\ Other("left") = "right"
        BY <1>2 DEF Other
      <4>2. Subtree(link, link[a]["left"]) \cap Subtree(link, link[a]["right"]) = {}
        BY <4>1, <1>1, SidesApart
      <4> QED
        BY <4>2, <3>2, <1>4 DEF Dir
    <3>4. link[a]["left"] # cur
      <4>1. ASSUME link[a]["left"] = cur
            PROVE  FALSE
        <5>1. victim \in Subtree(link, cur)
          BY <4>1, <3>1, <3>3
        <5>2. victim \in Subtree(link, link[victim]["right"])
          BY <5>1, <1>1, SubtreeWithin
        <5> QED
          BY <5>2, <1>1, NotBelowItself DEF InUseTree
      <4> QED
        BY <4>1
    <3> QED
      BY <3>1, <3>3, <3>4, <1>2
  <2>2. B = {}
    BY <2>1, <1>1, <1>2 DEF NoLoops
  <2> QED
    BY <2>2
<1> QED
  BY <1>1, <1>4, <1>5

\* A has the nodes above s up to the right child of n, all of them have s on
\* their left.
Above(A, n, s) ==
  /\ link[n]["right"] \in A \cup {s} /\ n \notin A /\ s \notin A
  /\ s \in Subtree(link, link[n]["right"]) /\ link[s]["left"] = NULL
  /\ \A a \in A : /\ link[a]["left"] \in A \cup {s}
                  /\ s \in Subtree(link, link[a]["left"]) /\ n \notin Subtree(link, a)

\* The successor leaves the sequence of each node passed, where it was the first.
LEMMA PassedChange ==
  ASSUME IInv, NoLoops(link), NEW f, Sequenced(InUse, link, f),
         NEW n \in InUse, NEW s \in InUse, NEW m2, NEW p, NEW g, NEW t, Spliced(m2, n, s, p, g, t),
         NEW f2, Sequenced(InUse \ {n}, m2, f2),
         NEW A \in SUBSET InUse, Above(A, n, s), s # link[n]["right"]
  PROVE  \A a \in A : f[a] = Join(One(s), f2[a])
<1>1. /\ InUseTree /\ "left" \in Dir /\ "right" \in Dir /\ Dir \subseteq Side /\ "left" # "right"
      /\ "left" \in Side /\ "right" \in Side
      /\ f \in [Pointer -> Nodes] /\ f2 \in [Pointer -> Nodes] /\ f[NULL] = None /\ f2[NULL] = None
  BY InUseIsTree, Sides DEF Dir, Sequenced, Side
<1>2. /\ A \in SUBSET Node /\ s \in Node /\ n \in Node /\ s # n /\ One(s) \in Nodes /\ p \in InUse /\ p # s
      /\ link[p]["left"] = s
  BY <1>1, Joins, NotBelowItself DEF InUseTree, Above, Spliced
<1>3. n \notin Subtree(link, s)
  <2>1. n \notin Subtree(link, link[n]["right"])
    BY <1>1, <1>2, NotBelowItself
  <2> QED
    BY <2>1, SubtreeWithin DEF Above
<1>4. \A a \in A : link[a]["left"] # s => link[a]["left"] \in A
  BY DEF Above
<1> DEFINE B == {a \in A : f[a] # Join(One(s), f2[a])}
           x == link[s]["right"]
<1>5. f[s] = Join(One(s), f2[x]) /\ x \in InUse \cup {NULL}
  <2>1. x \in InUse \cup {NULL} /\ s \notin Subtree(link, x) /\ n \notin Subtree(link, x)
    <3>1. x \in InUse \cup {NULL} /\ s \notin Subtree(link, x)
      BY <1>1, <1>2, NotBelowItself DEF InUseTree
    <3>2. Closed(link, Subtree(link, s)) /\ s \in Subtree(link, s)
      BY <1>2, SubtreeFacts
    <3>3. x = NULL \/ x \in Subtree(link, s)
      BY <3>1, <3>2, <1>1 DEF Closed, InUseTree
    <3> QED
      BY <3>1, <3>3, <1>3, SubtreeWithin, SubtreeFacts, DistinctAddresses
  <2>2. f2[x] = f[x] /\ f[x] \in Nodes
    <3>1. x \in Pointer
      BY <2>1, <1>1 DEF InUseTree, Pointer
    <3> QED
      BY <2>1, <3>1, <1>1, SplicedElsewhere
  <2>3. f[s] = Join(f[link[s]["left"]], Join(One(s), f[x]))
    BY DEF Sequenced
  <2>4. f[s] = Join(None, Join(One(s), f[x])) /\ Join(One(s), f[x]) \in Nodes
    BY <2>2, <2>3, <1>1, <1>2, Joins DEF Above
  <2> QED
    BY <2>1, <2>2, <2>4, Joins
<1> HIDE DEF x
<1>6. ASSUME NEW a \in A, link[a]["left"] \notin B
      PROVE  f[a] = Join(One(s), f2[a])
  <2>1. a \in InUse /\ a \in Node /\ a # n /\ a # s /\ n \notin Subtree(link, a)
    BY <1>2 DEF Above
  <2>2. Closed(link, Subtree(link, a)) /\ a \in Subtree(link, a)
    BY <2>1, SubtreeFacts
  <2>3. a # g
    <3>1. ASSUME a = g
          PROVE  FALSE
      <4>1. link[g][t] = n /\ t \in Dir
        BY <2>1, <3>1, DistinctAddresses DEF Spliced, Side, Dir
      <4> QED
        BY <4>1, <3>1, <2>1, <2>2, <1>2 DEF Closed
    <3> QED
      BY <3>1
  <2>4. m2[a]["left"] = IF a = p THEN x ELSE link[a]["left"]
    BY <2>1, <2>3, <1>1 DEF Spliced, x
  <2>5. m2[a]["right"] = link[a]["right"]
    BY <2>1, <2>3, <1>1 DEF Spliced
  <2> DEFINE R  == f[link[a]["right"]]
             L2 == f2[m2[a]["left"]]
  <2>6. link[a]["right"] \in InUse \cup {NULL} /\ link[a]["left"] \in InUse \cup {NULL}
    BY <1>1, <2>1 DEF InUseTree
  <2>7. f2[link[a]["right"]] = R
    <3>1. s \notin Subtree(link, link[a]["right"])
      <4>1. Other("left") = "right"
        BY DEF Other
      <4>2. Subtree(link, link[a]["left"]) \cap Subtree(link, link[a]["right"]) = {}
        BY <4>1, <2>1, <1>1, SidesApart
      <4> QED
        BY <4>2 DEF Above
    <3>2. link[a]["right"] = NULL \/ link[a]["right"] \in Subtree(link, a)
      BY <2>2, <2>6, <1>1 DEF Closed, InUseTree
    <3>3. n \notin Subtree(link, link[a]["right"])
      BY <3>2, <2>1, SubtreeWithin, SubtreeFacts, DistinctAddresses
    <3> QED
      BY <3>1, <3>3, <2>6, SplicedElsewhere
  <2>8. f[link[a]["left"]] = Join(One(s), L2)
    <3>1. CASE a = p
      BY <3>1, <2>4, <1>2, <1>5
    <3>2. CASE a # p
      <4>1. link[a]["left"] # s
        BY <3>2, <2>1, <1>1, <1>2, DistinctAddresses DEF InUseTree
      <4>2. link[a]["left"] \in A
        BY <4>1, <1>4
      <4> QED
        BY <4>2, <3>2, <2>4, <1>6
    <3> QED
      BY <3>1, <3>2
  <2>9. /\ f[a] = Join(f[link[a]["left"]], Join(One(a), R))
        /\ f2[a] = Join(L2, Join(One(a), R))
    <3>1. f[a] = Join(f[link[a]["left"]], Join(One(a), f[link[a]["right"]]))
      BY <2>1 DEF Sequenced
    <3>2. f2[a] = Join(f2[m2[a]["left"]], Join(One(a), f2[m2[a]["right"]]))
      BY <2>1 DEF Sequenced
    <3> QED
      BY <3>1, <3>2, <2>5, <2>7
  <2>10. L2 \in Nodes /\ Join(One(a), R) \in Nodes
    <3>1. m2[a]["left"] \in Pointer /\ link[a]["right"] \in Pointer
      BY <2>4, <2>6, <1>1, <1>5 DEF InUseTree, Pointer
    <3> QED
      BY <3>1, <2>1, <1>1, Joins
  <2> HIDE DEF L2, R, B
  <2> QED
    BY <2>8, <2>9, <2>10, <1>2, Joins
<1>7. B = {}
  <2>1. \A a \in B : link[a]["left"] \in B
    <3> HIDE DEF B
    <3>1. B \subseteq A /\ \A a \in B : f[a] # Join(One(s), f2[a])
      BY DEF B
    <3> QED
      BY <3>1, <1>6
  <2>2. B \in SUBSET Node
    BY <1>2
  <2> HIDE DEF B
  <2> QED
    BY <2>1, <2>2, <1>1 DEF NoLoops
<1> QED
  BY <1>7

\* c_rbnode_unlink_stale of a node with two children, its successor in its place.
LEMMA SpliceChanges ==
  ASSUME IInv, NoLoops(link), SearchBelow, SearchLeft, NEW f, Sequenced(InUse, link, f),
         NEW f2, Sequenced(InUse', link', f2), SpliceSuccessor
  PROVE  OneReplaced(owner[victim], One(victim), None, f, link, f2, link')
<1> DEFINE n == victim
           s == cur
           l == link[n]["left"]
           r == link[n]["right"]
<1>1. pc = "successor" /\ link[s]["left"] = NULL /\ Detach(n)
  BY DEF SpliceSuccessor
<1>2. /\ InUseTree /\ n \in InUse /\ s \in InUse /\ "left" \in Dir /\ "right" \in Dir
      /\ Dir \subseteq Side /\ "left" \in Side /\ "right" \in Side /\ n \in Node /\ s \in Node
  BY <1>1, InUseIsTree, Sides DEF IInv, Searching, Dir, Side, InUseTree
<1>3. PICK A \in SUBSET InUse : Passed(A)
  BY <1>1 DEF SearchLeft
<1>4. Above(A, n, s)
  <2>1. s \notin A
    <3>1. \A a \in A : link[a]["left"] \in A \cup {s}
      BY <1>3 DEF Passed
    <3> QED
      BY <3>1, <1>1, <1>2 DEF InUseTree
  <2> QED
    BY <2>1, <1>1, <1>3, PassedAbove DEF Above, Passed
<1>5. PICK g, t, p : Spliced(link', n, s, p, g, t)
  BY SpliceFields
<1>6. Sequenced(InUse \ {n}, link', f2)
  BY <1>1, <1>2, DetachedFromUse
<1> HIDE DEF n, s, l, r
<1>7. s \in Subtree(link, r) /\ n \in InUse /\ s \in InUse
  BY <1>2, <1>4 DEF Above, r
<1>21. ASSUME NEW y \in InUse \cup {NULL}, s \notin Subtree(link, y), n \notin Subtree(link, y)
       PROVE  f2[y] = f[y]
  <2>1. n \in InUse /\ s \in InUse
    BY <1>7
  <2> QED
    BY <1>5, <1>6, <1>21, <2>1, SplicedElsewhere
<1>22. s # r => \A a \in A : f[a] = Join(One(s), f2[a])
  BY <1>4, <1>5, <1>6, <1>7, PassedChange DEF r
<1>8. /\ n \in Subtree(link, n) /\ Subtree(link, n) \subseteq InUse /\ Closed(link, Subtree(link, n))
      /\ l \in InUse \cup {NULL} /\ r \in InUse \cup {NULL}
      /\ n \notin Subtree(link, l) /\ n \notin Subtree(link, r)
  BY <1>2, SubtreeFacts, SubtreeInUse, NotBelowItself DEF InUseTree, l, r
<1>9. s # n /\ s \in Subtree(link, n) /\ s \notin Subtree(link, l)
  <2>1. Other("left") = "right"
    BY DEF Other
  <2>2. Subtree(link, l) \cap Subtree(link, r) = {}
    BY <2>1, <1>2, SidesApart DEF l, r
  <2>3. r \in Subtree(link, n)
    BY <1>2, <1>7, <1>8, SubtreeFacts DEF Closed, r
  <2>4. Subtree(link, r) \subseteq Subtree(link, n)
    BY <2>3, SubtreeWithin
  <2> QED
    BY <2>2, <2>4, <1>7, <1>8
<1>10. g \notin Subtree(link, n) /\ (s # r => p \in Subtree(link, n))
  <2>1. /\ g \in Holder(owner) /\ t \in Side /\ link[g][t] = n /\ (t = "root" <=> g \in Tree)
        /\ s # r => p \in InUse /\ link[p]["left"] = s
    BY <1>5 DEF Spliced, r
  <2>2. g \in Node => g \notin Subtree(link, n)
    <3> SUFFICES ASSUME g \in Node
                 PROVE  g \notin Subtree(link, n)
      OBVIOUS
    <3>1. t \in Dir
      BY <2>1, DistinctAddresses DEF Side, Dir
    <3>2. g \notin Subtree(link, link[g][t])
      BY <3>1, <1>2, NotBelowItself
    <3> QED
      BY <3>2, <2>1
  <2>3. Subtree(link, n) \in SUBSET Node
    BY SubtreeFacts
  <2>4. s # r => p \in Subtree(link, n)
    <3> SUFFICES ASSUME s # r
                 PROVE  p \in Subtree(link, n)
      OBVIOUS
    <3>1. p \in InUse /\ link[p]["left"] = s
      BY <2>1
    <3> QED
      BY <3>1, <1>2, <1>9, SubtreeInUse
  <2> QED
    BY <2>2, <2>3, <2>4
<1>11. /\ \A a \in InUse, b \in Dir : link[a][b] = n => a = g /\ b = t
       /\ \A a \in Tree : link[a]["root"] = n => a = g
       /\ link[g][t] = n /\ (t = "root" <=> g \in Tree) /\ t \in Side
  <2>1. /\ g \in Holder(owner) /\ t \in Side /\ link[g][t] = n /\ (t = "root" <=> g \in Tree)
    BY <1>5 DEF Spliced
  <2>2. g = pf[n].raw
    <3>1. Consistent(owner, link, pf) /\ n # NULL
      BY <1>2, InUseFacts DEF Sound
    <3> QED
      BY <2>1, <3>1 DEF Consistent, ChildrenKnowParent, c_rbnode_raw
  <2> QED
    BY <2>1, <2>2, <1>2, OnlyParent
<1>12. /\ \A a \in InUse \ Subtree(link, n), b \in Dir : link'[a][b] = IF link[a][b] = n THEN s ELSE link[a][b]
       /\ \A a \in Tree : link'[a]["root"] = IF link[a]["root"] = n THEN s ELSE link[a]["root"]
  <2>1. \A a \in Node \cup Tree, b \in Side :
          link'[a][b] = IF a = g /\ b = t THEN s
                        ELSE IF a = s /\ b = "left" THEN l
                        ELSE IF s # r /\ a = s /\ b = "right" THEN r
                        ELSE IF s # r /\ a = p /\ b = "left" THEN link[s]["right"]
                        ELSE link[a][b]
    BY <1>5 DEF Spliced, l, r
  <2>2. ASSUME NEW a \in InUse \ Subtree(link, n), NEW b \in Dir
        PROVE  link'[a][b] = IF link[a][b] = n THEN s ELSE link[a][b]
    BY <2>1, <1>2, <1>9, <1>10, <1>11 DEF InUseTree
  <2>3. ASSUME NEW a \in Tree
        PROVE  link'[a]["root"] = IF link[a]["root"] = n THEN s ELSE link[a]["root"]
    BY <2>1, <1>11 DEF Side
  <2> QED
    BY <2>2, <2>3
<1>13. ChangedAt(link', n, s)
  BY <1>2, <1>12 DEF ChangedAt, InUseTree, Pointer
<1>14. Sequenced(InUse \ Subtree(link, n), link', f2)
  BY <1>6, <1>8 DEF Sequenced
<1> DEFINE R2 == f2[link'[s]["right"]]
<1>15. link'[s]["left"] = l /\ link'[s]["right"] = IF s # r THEN r ELSE link[s]["right"]
  BY <1>2, <1>5, <1>9, <1>10 DEF Spliced, l, r
<1>16. f2[l] = f[l] /\ f[l] \in Nodes
  <2>1. f2[l] = f[l]
    BY <1>8, <1>9, <1>21
  <2> QED
    BY <2>1, <1>8, <1>2 DEF Sequenced, Pointer, InUseTree
<1>17. f[r] = Join(One(s), R2) /\ R2 \in Nodes
  <2>1. CASE s # r
    <3>1. r \in A /\ r \in Pointer /\ link'[s]["right"] = r
      BY <2>1, <1>4, <1>8, <1>15, <1>2 DEF Above, r, InUseTree, Pointer
    <3>2. f[r] = Join(One(s), f2[r])
      BY <2>1, <3>1, <1>22
    <3> QED
      BY <3>1, <3>2 DEF Sequenced
  <2>2. CASE s = r
    <3> DEFINE x == link[s]["right"]
    <3>1. x \in InUse \cup {NULL} /\ s \notin Subtree(link, x) /\ x \in Pointer
      BY <1>2, NotBelowItself DEF InUseTree, Pointer
    <3>2. n \notin Subtree(link, x)
      <4>1. Closed(link, Subtree(link, s)) /\ s \in Subtree(link, s)
        BY <1>2, SubtreeFacts
      <4>2. x = NULL \/ x \in Subtree(link, s)
        BY <3>1, <4>1, <1>2 DEF Closed, InUseTree
      <4> QED
        BY <4>2, <2>2, <1>8, SubtreeWithin, SubtreeFacts, DistinctAddresses
    <3>3. f2[x] = f[x]
      BY <3>1, <3>2, <1>21
    <3>4. f[s] = Join(f[link[s]["left"]], Join(One(s), f[x])) /\ f[NULL] = None
          /\ f[x] \in Nodes /\ f2[x] \in Nodes
      BY <3>1, <1>2 DEF Sequenced
    <3>5. Join(None, Join(One(s), f[x])) = Join(One(s), f[x])
      BY <3>4, <1>2, Joins
    <3>6. R2 = f2[x]
      BY <2>2, <1>15
    <3> HIDE DEF R2, x
    <3> QED
      BY <2>2, <3>3, <3>4, <3>5, <3>6, <1>1 DEF s
  <2> QED
    BY <2>1, <2>2
<1>18. /\ f[n] = Join(f[l], Join(One(n), f[r]))
       /\ f2[s] = Join(f[l], Join(One(s), R2))
  <2>1. f[n] = Join(f[l], Join(One(n), f[r]))
    BY <1>2 DEF Sequenced, l, r
  <2>2. f2[s] = Join(f2[link'[s]["left"]], Join(One(s), f2[link'[s]["right"]]))
    BY <1>2, <1>6, <1>9 DEF Sequenced
  <2> QED
    BY <2>1, <2>2, <1>15, <1>16
<1> HIDE DEF R2
<1>19. One(n) \in Nodes /\ None \in Nodes /\ f[r] \in Nodes
  BY <1>2, <1>17, Joins
<1>20. Replaced(One(n), None, f[n], f2[s])
  <2>1. Join(None, f[r]) = f[r]
    BY <1>19, Joins
  <2>2. f2[s] = Join(f[l], Join(None, f[r]))
    BY <2>1, <1>17, <1>18
  <2> QED
    BY <2>2, <1>16, <1>18, <1>19 DEF Replaced
<1> QED
  BY <1>13, <1>14, <1>19, <1>20, OneTreeChanges DEF OneReplaced, n

-----------------------------------------------------------------------------
(* The linear orders *)

\* A concatenation falls into its parts.
LEMMA Halves ==
  ASSUME NEW a \in Nodes, NEW c \in Nodes
  PROVE  /\ Len(a) \in Nat /\ Len(Join(a, c)) = Len(a) + Len(c)
         /\ SubSeq(Join(a, c), 1, Len(a)) = a
         /\ SubSeq(Join(a, c), Len(a) + 1, Len(Join(a, c))) = c
<1>1. a \in Seq(Node) /\ c \in Seq(Node) /\ Len(a) \in Nat /\ Len(c) \in Nat
  BY DEF Nodes
<1>2. Len(a \o c) = Len(a) + Len(c)
  BY <1>1, ConcatProperties
<1>3. SubSeq(a \o c, 1, Len(a)) = a
  <2>1. CASE Len(a) = 0
    <3>1. SubSeq(a \o c, 1, 0) = <<>>
      BY SubSeqEmpty
    <3>2. a = <<>>
      BY <1>1, <2>1, EmptySeq
    <3> QED
      BY <2>1, <3>1, <3>2
  <2>2. CASE Len(a) # 0
    <3>1. SubSeq(a \o c, 1, Len(a)) = SubSeq(a, 1, Len(a))
      BY <1>1, <2>2, SubSeqOfConcat1
    <3> QED
      BY <3>1, <1>1, SubSeqFull
  <2> QED
    BY <2>1, <2>2
<1>4. SubSeq(a \o c, Len(a) + 1, Len(a) + Len(c)) = c
  <2>1. CASE Len(c) = 0
    <3>1. SubSeq(a \o c, Len(a) + 1, Len(a)) = <<>>
      BY <1>1, SubSeqEmpty
    <3>2. c = <<>> /\ Len(a) + Len(c) = Len(a)
      BY <1>1, <2>1, EmptySeq
    <3> QED
      BY <3>1, <3>2
  <2>2. CASE Len(c) # 0
    <3>1. SubSeq(a \o c, Len(a) + 1, Len(a) + Len(c))
            = SubSeq(c, Len(a) + 1 - Len(a), Len(a) + Len(c) - Len(a))
      BY <1>1, <2>2, SubSeqOfConcat2
    <3>2. Len(a) + 1 - Len(a) = 1 /\ Len(a) + Len(c) - Len(a) = Len(c)
      BY <1>1
    <3> QED
      BY <3>1, <3>2, <1>1, SubSeqFull
  <2> QED
    BY <2>1, <2>2
<1> QED
  BY <1>1, <1>2, <1>3, <1>4 DEF Join

\* The node after a, at its index.
Placed(q, i, n, a, b) ==
  /\ i \in 1 .. Len(q) /\ q[i] = n
  /\ SubSeq(q, 1, i - 1) = a /\ SubSeq(q, i, Len(q)) = Join(One(n), b)
  /\ SubSeq(q, 1, i) = Join(a, One(n)) /\ SubSeq(q, i + 1, Len(q)) = b

\* It is where its index says.
LEMMA NodeAt ==
  ASSUME NEW n \in Node, NEW a \in Nodes, NEW b \in Nodes
  PROVE  Placed(Join(a, Join(One(n), b)), Len(a) + 1, n, a, b)
<1> DEFINE q == Join(a, Join(One(n), b))
           i == Len(a) + 1
<1>1. One(n) \in Nodes /\ Join(a, One(n)) \in Nodes /\ Join(One(n), b) \in Nodes
  BY Joins
<1>2. q = Join(Join(a, One(n)), b)
  BY <1>1, Joins
<1>3. Len(One(n)) = 1
  BY DEF One
<1>4. Len(Join(a, One(n))) = i /\ Len(a) \in Nat /\ i - 1 = Len(a)
  <2>1. Len(Join(a, One(n))) = Len(a) + Len(One(n)) /\ Len(a) \in Nat
    BY <1>1, Halves
  <2> QED
    BY <2>1, <1>3
<1>5. SubSeq(q, 1, Len(a)) = a /\ SubSeq(q, Len(a) + 1, Len(q)) = Join(One(n), b)
  BY <1>1, Halves
<1>6. SubSeq(q, 1, i) = Join(a, One(n)) /\ SubSeq(q, i + 1, Len(q)) = b
  <2> DEFINE c == Join(a, One(n))
  <2>1. SubSeq(Join(c, b), 1, Len(c)) = c /\ SubSeq(Join(c, b), Len(c) + 1, Len(Join(c, b))) = b
    BY <1>1, Halves
  <2> HIDE DEF c
  <2>2. Len(c) = i /\ q = Join(c, b)
    BY <1>2, <1>4 DEF c
  <2>3. SubSeq(q, 1, i) = c /\ SubSeq(q, i + 1, Len(q)) = b
    <3> HIDE DEF q, i
    <3> QED
      BY <2>1, <2>2
  <2> QED
    BY <2>3 DEF c
<1>7. Len(q) = i + Len(b) /\ Len(b) \in Nat
  <2>1. Len(Join(Join(a, One(n)), b)) = Len(Join(a, One(n))) + Len(b)
    BY <1>1, Halves
  <2>2. Len(b) \in Nat
    BY <1>1, Halves
  <2> QED
    BY <2>1, <2>2, <1>2, <1>4
<1>8. i \in 1 .. Len(q)
  BY <1>4, <1>7
<1>9. q[i] = n
  <2>1. \A s, t \in Seq(Node) : \A j \in 1 .. Len(s) + Len(t) :
          (s \o t)[j] = IF j <= Len(s) THEN s[j] ELSE t[j - Len(s)]
    BY ConcatProperties
  <2>2. b \in Seq(Node) /\ <<n>> \in Seq(Node) /\ a \in Seq(Node) /\ (<<n>> \o b) \in Seq(Node)
    BY <1>1 DEF Nodes, Join, One
  <2>3. Len(<<n>>) = 1 /\ Len(<<n>> \o b) = 1 + Len(b) /\ Len(a) \in Nat /\ Len(b) \in Nat
    BY <2>2, ConcatProperties
  <2>4. (<<n>> \o b)[1] = n
    BY <2>1, <2>2, <2>3
  <2>5. (a \o (<<n>> \o b))[Len(a) + 1] = (<<n>> \o b)[Len(a) + 1 - Len(a)]
    BY <2>1, <2>2, <2>3
  <2>6. Len(a) + 1 - Len(a) = 1
    BY <2>3
  <2> QED
    BY <2>4, <2>5, <2>6 DEF Join, One
<1> HIDE DEF q, i
<1> QED
  BY <1>4, <1>5, <1>6, <1>8, <1>9 DEF q, i, Placed

\* Where a sequence loses n, n is taken out.
LEMMA Removes ==
  ASSUME NEW n \in Node, NEW q, NEW r, Replaced(One(n), None, q, r)
  PROVE  \E i \in 1 .. Len(q) : q[i] = n /\ r = RemoveAt(q, i)
<1>1. PICK a \in Nodes, b \in Nodes : q = Join(a, Join(One(n), b)) /\ r = Join(a, Join(None, b))
  BY DEF Replaced
<1>2. r = a \o b
  BY <1>1, Joins DEF Join
<1>3. /\ Len(a) + 1 \in 1 .. Len(q) /\ q[Len(a) + 1] = n
      /\ SubSeq(q, 1, (Len(a) + 1) - 1) = a /\ SubSeq(q, (Len(a) + 1) + 1, Len(q)) = b
  <2>1. Placed(q, Len(a) + 1, n, a, b)
    BY <1>1, NodeAt
  <2> QED
    BY <2>1 DEF Placed
<1>4. RemoveAt(q, Len(a) + 1) = r
  BY <1>2, <1>3 DEF RemoveAt
<1> QED
  BY <1>3, <1>4

\* Where a sequence gets n beside p, n is inserted at the index of p or after it.
LEMMA Inserts ==
  ASSUME NEW n \in Node, NEW p \in Node, NEW d \in Dir, NEW q, NEW r,
         Replaced(One(p), Beside(d, n, p), q, r)
  PROVE  \E i \in 1 .. Len(q) : q[i] = p /\ r = InsertAt(q, IF d = "left" THEN i ELSE i + 1, n)
<1>1. PICK a \in Nodes, b \in Nodes :
        q = Join(a, Join(One(p), b)) /\ r = Join(a, Join(Beside(d, n, p), b))
  BY DEF Replaced
<1> DEFINE i == Len(a) + 1
<1>2. /\ i \in 1 .. Len(q) /\ q[i] = p /\ i \in Int /\ (i + 1) - 1 = i
      /\ SubSeq(q, 1, i - 1) = a /\ SubSeq(q, i, Len(q)) = Join(One(p), b)
      /\ SubSeq(q, 1, i) = Join(a, One(p)) /\ SubSeq(q, i + 1, Len(q)) = b
  <2>1. Placed(q, i, p, a, b)
    BY <1>1, NodeAt
  <2>2. i \in Int
    BY <1>1, Halves
  <2> HIDE DEF i
  <2>3. (i + 1) - 1 = i
    BY <2>2
  <2> QED
    BY <2>1, <2>2, <2>3 DEF Placed
<1> HIDE DEF i
<1>3. /\ One(p) \in Nodes /\ One(n) \in Nodes /\ Join(One(p), b) \in Nodes /\ Join(One(n), b) \in Nodes
  BY <1>1, Joins
<1>4. CASE d = "left"
  <2>1. Join(Join(One(n), One(p)), b) = Join(One(n), Join(One(p), b))
    BY <1>1, <1>3, Joins
  <2>2. Join(a, Join(One(n), Join(One(p), b))) = Join(Join(a, One(n)), Join(One(p), b))
    BY <1>1, <1>3, Joins
  <2>3. r = Join(Join(a, One(n)), Join(One(p), b))
    BY <2>1, <2>2, <1>1, <1>4 DEF Beside
  <2>4. InsertAt(q, i, n) = (a \o <<n>>) \o (Join(One(p), b))
    BY <1>2 DEF InsertAt
  <2> QED
    BY <2>3, <2>4, <1>2, <1>4 DEF Join, One
<1>5. CASE d = "right"
  <2>1. Join(Join(One(p), One(n)), b) = Join(One(p), Join(One(n), b))
    BY <1>1, <1>3, Joins
  <2>2. Join(a, Join(One(p), Join(One(n), b))) = Join(Join(a, One(p)), Join(One(n), b))
    BY <1>1, <1>3, Joins
  <2>3. Join(Join(Join(a, One(p)), One(n)), b) = Join(Join(a, One(p)), Join(One(n), b))
    <3>1. Join(a, One(p)) \in Nodes
      BY <1>1, <1>3, Joins
    <3> QED
      BY <3>1, <1>1, <1>3, Joins
  <2>4. r = Join(Join(Join(a, One(p)), One(n)), b)
    BY <2>1, <2>2, <2>3, <1>1, <1>5 DEF Beside
  <2>5. InsertAt(q, i + 1, n) = (Join(a, One(p)) \o <<n>>) \o b
    BY <1>2 DEF InsertAt
  <2> QED
    BY <2>4, <2>5, <1>2, <1>5 DEF Join, One
<1> QED
  BY <1>4, <1>5 DEF Dir

\* What the orders are, in every state.
OrdersKnown ==
  /\ Sequenced(InUse, link, InOrder)
  /\ Orders \in [Tree -> Nodes]
  /\ \A t \in Tree : Orders[t] = InOrder[link[t]["root"]]

\* The invariant says it in every state.
LEMMA OrdersAreKnown ==
  ASSUME IInv, NoLoops(link)
  PROVE  OrdersKnown
<1>1. Sequenced(InUse, link, InOrder)
  BY InUseIsTree, InOrderFacts DEF Sequenced, InUseTree
<1>2. \A t \in Tree : InOrder[link[t]["root"]] \in Nodes
  BY <1>1, InUseIsTree DEF Sequenced, InUseTree, Pointer
<1> QED
  BY <1>1, <1>2 DEF OrdersKnown, Orders

\* Where the sequences of the roots stay, the orders stay.
LEMMA OrdersStay ==
  ASSUME OrdersKnown, OrdersKnown',
         \A t \in Tree : InOrder'[link'[t]["root"]] = InOrder[link[t]["root"]]
  PROVE  Orders' = Orders
<1>1. Orders \in [Tree -> Nodes] /\ Orders' \in [Tree -> Nodes]
  BY DEF OrdersKnown
<1>2. \A t \in Tree : Orders'[t] = Orders[t]
  BY DEF OrdersKnown
<1> QED
  BY <1>1, <1>2

\* A change of one sequence is a change of one order.
LEMMA OneOrderChanges ==
  ASSUME OrdersKnown, OrdersKnown', NEW t, NEW u, NEW v,
         OneReplaced(t, u, v, InOrder, link, InOrder', link')
  PROVE  /\ t \in Tree /\ Replaced(u, v, Orders[t], Orders'[t])
         /\ Orders' = [Orders EXCEPT ![t] = Orders'[t]]
<1>1. /\ Orders \in [Tree -> Nodes] /\ Orders' \in [Tree -> Nodes]
      /\ \A x \in Tree : Orders[x] = InOrder[link[x]["root"]]
      /\ \A x \in Tree : Orders'[x] = InOrder'[link'[x]["root"]]
  BY DEF OrdersKnown
<1>2. t \in Tree /\ Replaced(u, v, Orders[t], Orders'[t])
  BY <1>1 DEF OneReplaced
<1>3. \A x \in Tree : x # t => Orders'[x] = Orders[x]
  BY <1>1 DEF OneReplaced
<1> QED
  BY <1>1, <1>2, <1>3

\* The members of the orders are the nodes in use.
LEMMA MembersInUse ==
  ASSUME IInv, NoLoops(link), NEW n \in Node, n \notin InUse
  PROVE  ~LO!Member(n)
<1>1. \A t \in Tree : n \notin {Orders[t][i] : i \in 1 .. Len(Orders[t])}
  BY OrderIsComplete DEF OrderComplete
<1> QED
  BY <1>1 DEF LO!Member, LO!Contains

\* A node that leaves the sequence of its tree is taken out of its order.
LEMMA LeavingTakesOut ==
  ASSUME OrdersKnown, OrdersKnown', NEW n \in Node,
         OneReplaced(owner[n], One(n), None, InOrder, link, InOrder', link')
  PROVE  LO!Next
<1> DEFINE t == owner[n]
<1>1. /\ t \in Tree /\ Replaced(One(n), None, Orders[t], Orders'[t])
      /\ Orders' = [Orders EXCEPT ![t] = Orders'[t]]
  BY OneOrderChanges
<1>2. PICK i \in 1 .. Len(Orders[t]) : Orders[t][i] = n /\ Orders'[t] = RemoveAt(Orders[t], i)
  BY <1>1, Removes
<1>3. Orders' = [Orders EXCEPT ![t] = RemoveAt(@, i)]
  BY <1>1, <1>2
<1>4. LO!TakeOut(t, n)
  BY <1>2, <1>3 DEF LO!TakeOut, LO!RemoveAt, RemoveAt
<1> QED
  BY <1>1, <1>4 DEF LO!Next

\* c_rbnode_link puts the node into the order of its parent.
LEMMA LinkInserts ==
  ASSUME IInv, NoLoops(link), OrdersKnown, OrdersKnown',
         NEW p \in Node, NEW d \in Dir, NEW n \in Node, Link(p, d, n)
  PROVE  LO!Next
<1> DEFINE t == owner[p]
<1>1. OneReplaced(t, One(p), Beside(d, n, p), InOrder, link, InOrder', link')
  BY LinkChanges DEF OrdersKnown
<1>2. /\ t \in Tree /\ Replaced(One(p), Beside(d, n, p), Orders[t], Orders'[t])
      /\ Orders' = [Orders EXCEPT ![t] = Orders'[t]]
  BY <1>1, OneOrderChanges
<1>3. PICK i \in 1 .. Len(Orders[t]) :
        Orders[t][i] = p /\ Orders'[t] = InsertAt(Orders[t], IF d = "left" THEN i ELSE i + 1, n)
  BY <1>2, Inserts
<1>4. \/ Orders' = [Orders EXCEPT ![t] = InsertAt(@, i, n)]
      \/ Orders' = [Orders EXCEPT ![t] = InsertAt(@, i + 1, n)]
  <2>1. CASE d = "left"
    BY <2>1, <1>2, <1>3
  <2>2. CASE d # "left"
    BY <2>2, <1>2, <1>3
  <2> QED
    BY <2>1, <2>2
<1>5. ~LO!Member(n)
  <2>1. n \notin InUse
    BY DEF Link, InUse, Owned
  <2> QED
    BY <2>1, MembersInUse
<1>6. LO!InsertNextTo(t, i, n)
  BY <1>4, <1>5 DEF LO!InsertNextTo, LO!InsertAt, InsertAt
<1> QED
  BY <1>2, <1>6 DEF LO!Next

\* c_rbtree_add of the first node of a tree.
LEMMA AddRootInserts ==
  ASSUME IInv, NoLoops(link), OrdersKnown, OrdersKnown',
         NEW t \in Tree, NEW n \in Node, AddRoot(t, n)
  PROVE  LO!Next
<1>1. /\ Orders \in [Tree -> Nodes] /\ Orders' \in [Tree -> Nodes]
      /\ \A x \in Tree : Orders[x] = InOrder[link[x]["root"]]
      /\ \A x \in Tree : Orders'[x] = InOrder'[link'[x]["root"]]
  BY DEF OrdersKnown
<1>2. /\ InOrder[link[t]["root"]] = None /\ InOrder'[link'[t]["root"]] = One(n)
      /\ \A x \in Tree : x # t => InOrder'[link'[x]["root"]] = InOrder[link[x]["root"]]
  BY AddRootChanges DEF OrdersKnown
<1>3. Orders[t] = <<>> /\ Orders' = [Orders EXCEPT ![t] = <<n>>]
  <2>1. Orders[t] = <<>>
    BY <1>1, <1>2 DEF None
  <2>2. \A x \in Tree : Orders'[x] = IF x = t THEN <<n>> ELSE Orders[x]
    BY <1>1, <1>2 DEF One
  <2> QED
    BY <1>1, <2>1, <2>2
<1>4. ~LO!Member(n)
  <2>1. n \notin InUse
    BY DEF AddRoot, InUse, Owned
  <2> QED
    BY <2>1, MembersInUse
<1>5. LO!InsertFirst(t, n)
  BY <1>3, <1>4 DEF LO!InsertFirst
<1> QED
  BY <1>5 DEF LO!Next

\* c_rbtree_move: the sequence changes its tree.
LEMMA MoveMoves ==
  ASSUME IInv, NoLoops(link), OrdersKnown, OrdersKnown',
         NEW to \in Tree, NEW from \in Tree, c_rbtree_move(to, from)
  PROVE  LO!Next
<1> DEFINE r == link[from]["root"]
<1>1. /\ link[to]["root"] = NULL /\ r # NULL /\ to # from
      /\ link' = [link EXCEPT ![to]["root"] = r, ![from]["root"] = NULL]
      /\ owner' = [n \in Node |-> IF owner[n] = from THEN to ELSE owner[n]]
  BY DEF c_rbtree_move
<1>2. InUseTree /\ "root" \in Side /\ NULL \notin Tree /\ owner \in Owners
  BY InUseIsTree, InUseFacts, DistinctAddresses DEF Side
<1>3. InUse' = InUse
  BY <1>1, <1>2 DEF InUse, Owned, Owners
<1>4. /\ \A x \in InUse, d \in Dir : link'[x][d] = link[x][d]
      /\ \A x \in Tree : link'[x]["root"] = IF x = to THEN r ELSE IF x = from THEN NULL
                                            ELSE link[x]["root"]
  <2>1. \A x \in InUse : x # to /\ x # from /\ x \in Node \cup Tree
    BY <1>2, DistinctAddresses DEF InUseTree
  <2>2. link \in [Node \cup Tree -> [Side -> Pointer]]
    BY <1>2 DEF InUseTree, Memory
  <2> HIDE DEF r
  <2> QED
    BY <1>1, <1>2, <2>1, <2>2
<1>5. SameOn(InUse, InOrder, InOrder')
  <2>1. Sequenced(InUse, link, InOrder) /\ Sequenced(InUse, link', InOrder')
    BY <1>3 DEF OrdersKnown
  <2>2. \A x \in InUse, d \in Dir : link'[x][d] = link[x][d] /\ link[x][d] \in InUse \cup {NULL}
    BY <1>2, <1>4 DEF InUseTree
  <2>3. InUse \in SUBSET InUse
    OBVIOUS
  <2> QED
    BY <2>1, <2>2, <2>3, SameFields
<1>6. \A x \in Tree : link[x]["root"] \in InUse \cup {NULL}
  BY <1>2 DEF InUseTree
<1>7. /\ Orders \in [Tree -> Nodes] /\ Orders' \in [Tree -> Nodes]
      /\ \A x \in Tree : Orders[x] = InOrder[link[x]["root"]]
      /\ \A x \in Tree : Orders'[x] = InOrder'[link'[x]["root"]]
      /\ InOrder[NULL] = None /\ InOrder'[NULL] = None
  BY DEF OrdersKnown, Sequenced
<1>8. Orders[to] = <<>> /\ Orders[from] # <<>>
  <2>1. Orders[to] = <<>>
    BY <1>1, <1>7 DEF None
  <2>2. r \in Subtree(link, r)
    BY <1>1, <1>6, SubtreeInUse
  <2>3. Range(Orders[from]) = Subtree(link, r)
    BY <1>6, <1>7, SequencedSpans, RangeIsSubtree DEF OrdersKnown
  <2> QED
    BY <2>1, <2>2, <2>3, RangeFacts DEF None
<1>9. \A x \in Tree : Orders'[x] = IF x = to THEN Orders[from] ELSE IF x = from THEN <<>> ELSE Orders[x]
  <2>1. InOrder'[r] = InOrder[r]
    BY <1>5, <1>6 DEF SameOn
  <2>2. \A x \in Tree : InOrder'[link[x]["root"]] = InOrder[link[x]["root"]]
    BY <1>5, <1>6 DEF SameOn
  <2> HIDE DEF r
  <2>3. Orders[from] = InOrder[r]
    BY <1>7 DEF r
  <2> QED
    BY <2>1, <2>2, <2>3, <1>4, <1>7 DEF None
<1>10. Orders' = [Orders EXCEPT ![to] = Orders[from], ![from] = <<>>]
  BY <1>1, <1>7, <1>9
<1>11. LO!Move(to, from)
  BY <1>8, <1>10 DEF LO!Move
<1> QED
  BY <1>11 DEF LO!Next

\* c_rbtree_init of a tree with nodes gives up its sequence.
LEMMA TreeInitClears ==
  ASSUME IInv, NoLoops(link), OrdersKnown, OrdersKnown', NEW t \in Tree, c_rbtree_init(t)
  PROVE  LO!Next
<1>1. /\ link[t]["root"] # NULL /\ link' = [link EXCEPT ![t] = NoLinks]
      /\ owner' = [n \in Node |-> IF owner[n] = t THEN NULL ELSE owner[n]]
  BY DEF c_rbtree_init
<1>2. InUseTree /\ "root" \in Side /\ Dir \subseteq Side /\ owner \in Owners /\ NoLinks["root"] = NULL
  BY InUseIsTree, InUseFacts, Sides DEF Side, NoLinks
<1> DEFINE U == {n \in InUse : owner[n] # t}
<1>3. InUse' = U /\ U \in SUBSET InUse
  BY <1>1, <1>2, DistinctAddresses DEF InUse, Owned, Owners
<1>4. /\ \A x \in InUse, d \in Dir : link'[x][d] = link[x][d]
      /\ \A x \in Tree : link'[x]["root"] = IF x = t THEN NULL ELSE link[x]["root"]
  <2>1. \A x \in InUse : x # t /\ x \in Node \cup Tree
    BY <1>2, DistinctAddresses DEF InUseTree
  <2>2. link \in [Node \cup Tree -> [Side -> Pointer]]
    BY <1>2 DEF InUseTree, Memory
  <2> QED
    BY <1>1, <1>2, <2>1, <2>2
<1>5. /\ \A x \in InUse, d \in Dir : link[x][d] # NULL => owner[link[x][d]] = owner[x]
      /\ \A x \in Tree : link[x]["root"] # NULL => owner[link[x]["root"]] = x
  <2>1. Consistent(owner, link, pf)
    BY InUseFacts DEF Sound
  <2>2. \A x \in InUse : x \in Holder(owner) /\ x \notin Tree
    BY <1>2, InUseFacts, DistinctAddresses DEF Holder, InUseTree
  <2>3. \A x \in Tree : x \in Holder(owner)
    BY DEF Holder
  <2> QED
    BY <2>1, <2>2, <2>3, <1>2 DEF Consistent, ChildrenKnowParent, Home
<1>6. \A x \in U, d \in Dir : link'[x][d] = link[x][d] /\ link[x][d] \in U \cup {NULL}
  BY <1>2, <1>4, <1>5 DEF InUseTree
<1> HIDE DEF U
<1>7. SameOn(U, InOrder, InOrder')
  <2>1. Sequenced(InUse, link, InOrder) /\ Sequenced(U, link', InOrder')
    BY <1>3 DEF OrdersKnown
  <2> QED
    BY <2>1, <1>3, <1>6, SameFields
<1>8. /\ Orders \in [Tree -> Nodes] /\ Orders' \in [Tree -> Nodes]
      /\ \A x \in Tree : Orders[x] = InOrder[link[x]["root"]]
      /\ \A x \in Tree : Orders'[x] = InOrder'[link'[x]["root"]]
      /\ InOrder[NULL] = None /\ InOrder'[NULL] = None
  BY DEF OrdersKnown, Sequenced
<1>9. Orders[t] # <<>>
  <2>1. link[t]["root"] \in InUse
    BY <1>1, <1>2 DEF InUseTree
  <2>2. link[t]["root"] \in Subtree(link, link[t]["root"])
    BY <2>1, SubtreeInUse
  <2>3. Range(Orders[t]) = Subtree(link, link[t]["root"])
    BY <2>1, <1>8, SequencedSpans, RangeIsSubtree DEF OrdersKnown
  <2> QED
    BY <2>2, <2>3, RangeFacts DEF None
<1>10. \A x \in Tree : Orders'[x] = IF x = t THEN <<>> ELSE Orders[x]
  <2>1. \A x \in Tree : x # t => link[x]["root"] \in U \cup {NULL}
    BY <1>2, <1>5 DEF InUseTree, U
  <2>2. \A x \in Tree : x # t => InOrder'[link[x]["root"]] = InOrder[link[x]["root"]]
    BY <2>1, <1>7 DEF SameOn
  <2> QED
    BY <2>2, <1>4, <1>8 DEF None
<1>11. Orders' = [Orders EXCEPT ![t] = <<>>]
  BY <1>8, <1>10
<1>12. LO!Clear(t)
  BY <1>9, <1>11 DEF LO!Clear
<1> QED
  BY <1>12 DEF LO!Next

\* A step that leaves the fields of the nodes in use and the roots alone.
LEMMA QuietKeepsOrders ==
  ASSUME IInv, NoLoops(link), OrdersKnown, OrdersKnown', owner' = owner,
         \/ link' = link
         \/ \E n \in Node : n \notin InUse /\ link' = [link EXCEPT ![n] = NoLinks]
  PROVE  Orders' = Orders
<1>1. InUseTree /\ Dir \subseteq Side /\ "root" \in Side
  BY InUseIsTree, Sides DEF Side
<1>2. InUse' = InUse
  BY DEF InUse, Owned
<1>3. /\ \A x \in InUse : link'[x] = link[x]
      /\ \A x \in Tree : link'[x] = link[x]
  <2>1. InUse \subseteq Node /\ \A n \in Node : n \notin Tree
    BY <1>1, DistinctAddresses DEF InUseTree
  <2>2. link \in [Node \cup Tree -> [Side -> Pointer]]
    BY <1>1 DEF InUseTree, Memory
  <2> QED
    BY <2>1, <2>2
<1>4. SameOn(InUse, InOrder, InOrder')
  <2>1. Sequenced(InUse, link, InOrder) /\ Sequenced(InUse, link', InOrder')
    BY <1>2 DEF OrdersKnown
  <2>2. \A x \in InUse, d \in Dir : link'[x][d] = link[x][d] /\ link[x][d] \in InUse \cup {NULL}
    BY <1>1, <1>3 DEF InUseTree
  <2>3. InUse \in SUBSET InUse
    OBVIOUS
  <2> QED
    BY <2>1, <2>2, <2>3, SameFields
<1>5. \A t \in Tree : InOrder'[link'[t]["root"]] = InOrder[link[t]["root"]]
  BY <1>1, <1>3, <1>4 DEF SameOn, InUseTree
<1> QED
  BY <1>5, OrdersStay

\* The rotations leave every order alone.
LEMMA RotatingKeepsOrders ==
  ASSUME IInv, NoLoops(link), OrdersKnown, OrdersKnown', LoopFree(link'), InUseTree', Rotating
  PROVE  Orders' = Orders
<1>1. Rearranged(link') /\ owner' = owner
  BY RotatingTurns
<1>2. InUseTree /\ InUse' = InUse
  BY <1>1, InUseIsTree DEF InUse, Owned
<1>3. HasOrders(InUse, link, Orders)
  <2>1. \A t \in Tree : link[t]["root"] \in Pointer
    BY <1>2 DEF InUseTree, Pointer
  <2>2. Sequenced(InUse, link, InOrder) /\ \A t \in Tree : InOrder[link[t]["root"]] = Orders[t]
    BY DEF OrdersKnown
  <2> QED
    BY <2>1, <2>2 DEF HasOrders
<1>4. HasOrders(InUse, link', Orders)
  BY <1>1, <1>3, RearrangedKeepsOrders
<1>5. PICK f : Sequenced(InUse, link', f) /\ \A t \in Tree : f[link'[t]["root"]] = Orders[t]
  BY <1>4 DEF HasOrders
<1>6. /\ \A n \in InUse, d \in Dir : link'[n][d] \in InUse \cup {NULL}
      /\ \A t \in Tree : link'[t]["root"] \in InUse \cup {NULL}
      /\ Sequenced(InUse, link', InOrder') /\ InUse \in SUBSET Node
  BY <1>2 DEF InUseTree, OrdersKnown
<1>7. SameOn(InUse, f, InOrder')
  BY <1>5, <1>6, OneSequence
<1>8. \A t \in Tree : InOrder'[link'[t]["root"]] = Orders[t]
  BY <1>5, <1>6, <1>7 DEF SameOn
<1>9. \A t \in Tree : InOrder'[link'[t]["root"]] = InOrder[link[t]["root"]]
  BY <1>8 DEF OrdersKnown
<1> QED
  BY <1>9, OrdersStay

\* Every step changes the orders as LinearOrder says, or not at all.
LEMMA NextChangesOrders ==
  ASSUME IInv, NoLoops(link), SearchBelow, SearchLeft, OrdersKnown,
         OrdersKnown', LoopFree(link'), InUseTree', [Next]_vars
  PROVE  LO!Next \/ Orders' = Orders
<1>1. ASSUME NEW n \in Node, NEW t \in Tree, AddRoot(t, n)
      PROVE  LO!Next
  BY <1>1, AddRootInserts
<1>2. ASSUME NEW n \in Node, NEW p \in Node, NEW d \in Dir, Link(p, d, n)
      PROVE  LO!Next
  BY <1>2, LinkInserts
<1>3. Sequenced(InUse, link, InOrder) /\ Sequenced(InUse', link', InOrder')
  BY DEF OrdersKnown
<1>4. ASSUME NEW n \in Node, Unlink(n)
      PROVE  LO!Next \/ Orders' = Orders
  <2>1. PICK api \in APICall : \/ UnlinkLeaf(api, n) \/ UnlinkFull(api, n)
                               \/ \E d \in Dir : UnlinkOneChild(api, n, d)
    BY <1>4 DEF Unlink
  <2>2. CASE UnlinkFull(api, n)
    <3>1. link' = link /\ owner' = owner
      BY <2>2 DEF UnlinkFull, memory, caller
    <3> QED
      BY <3>1, QuietKeepsOrders
  <2>3. CASE UnlinkLeaf(api, n) \/ \E d \in Dir : UnlinkOneChild(api, n, d)
    <3>1. OneReplaced(owner[n], One(n), None, InOrder, link, InOrder', link')
      BY <2>3, <1>3, UnlinkChanges
    <3> QED
      BY <3>1, LeavingTakesOut
  <2> QED
    BY <2>1, <2>2, <2>3
<1>5. ASSUME NEW n \in Node, c_rbnode_init(n)
      PROVE  Orders' = Orders
  <2>1. n \notin InUse /\ owner' = owner /\ link' = [link EXCEPT ![n] = NoLinks]
    BY <1>5 DEF c_rbnode_init, InUse, Owned
  <2> QED
    BY <2>1, QuietKeepsOrders
<1>6. ASSUME NEW to \in Tree, NEW from \in Tree, c_rbtree_move(to, from)
      PROVE  LO!Next
  BY <1>6, MoveMoves
<1>7. ASSUME NEW t \in Tree, c_rbtree_init(t)
      PROVE  LO!Next
  BY <1>7, TreeInitClears
<1>8. CASE Step
  <2>1. CASE \/ PaintRoot \/ PaintDone \/ PaintRecolor \/ WalkLeft
             \/ RebalanceEnd \/ RebalanceRecolor \/ RebalanceFound \/ RotateRecolor
    <3>1. link' = link /\ owner' = owner
      BY <2>1 DEF PaintRoot, PaintDone, PaintRecolor, WalkLeft, RebalanceEnd, RebalanceRecolor,
         RebalanceFound, RotateRecolor, memory, caller
    <3> QED
      BY <3>1, QuietKeepsOrders
  <2>2. CASE Rotating
    BY <2>2, RotatingKeepsOrders
  <2>3. CASE SpliceSuccessor
    <3>1. OneReplaced(owner[victim], One(victim), None, InOrder, link, InOrder', link')
      BY <2>3, <1>3, SpliceChanges
    <3>2. victim \in Node
      BY <2>3, InUseFacts DEF SpliceSuccessor, IInv, Searching
    <3> QED
      BY <3>1, <3>2, LeavingTakesOut
  <2>4. CASE Reinit
    <3>1. victim \in Node /\ victim \notin InUse /\ owner' = owner
          /\ link' = [link EXCEPT ![victim] = NoLinks]
      BY <2>4 DEF Reinit, IInv, Initialising, InUse, Owned
    <3> QED
      BY <3>1, QuietKeepsOrders
  <2> QED
    BY <1>8, <2>1, <2>2, <2>3, <2>4 DEF Step, Rotating
<1>9. CASE UNCHANGED vars
  <2>1. link' = link /\ owner' = owner
    BY <1>9 DEF vars
  <2> QED
    BY <2>1, QuietKeepsOrders
<1> QED
  BY <1>1, <1>2, <1>4, <1>5, <1>6, <1>7, <1>8, <1>9 DEF Next, Move

\* In every state the fields make no loops and the search for a successor is
\* where it should be.
THEOREM SearchInvariance == Spec => [](IInv /\ NoLoops(link) /\ SearchBelow /\ SearchLeft)
<1> DEFINE I == IInv /\ NoLoops(link) /\ SearchBelow /\ SearchLeft
<1>1. Init => I
  <2>1. ASSUME Init
        PROVE  NoLoops(link) /\ SearchBelow /\ SearchLeft
    BY <2>1, DistinctAddresses DEF Init, NoLoops, NoLinks, Dir, Side, SearchBelow, SearchLeft
  <2> QED
    BY <2>1, InitHolds
<1>2. I /\ [Next]_vars => I'
  BY NextKeeps, NextMakesNoLoop, SearchStays, SearchLeftStays
<1> QED
  BY <1>1, <1>2, PTL DEF Spec

\* Every step of a call, rebalancing included, changes the linear orders as
\* LinearOrder allows, or not at all; OrdersComplete says which nodes are in them.
THEOREM ImplementsOrders == Spec => ImplementsLinearOrder
<1> DEFINE I == IInv /\ NoLoops(link) /\ SearchBelow /\ SearchLeft
           K == OrdersKnown /\ LoopFree(link) /\ InUseTree
<1>1. I => K
  BY OrdersAreKnown, InUseIsTree DEF InUseTree
<1>2. I /\ K /\ K' /\ [Next]_vars => [LO!Next]_Orders
  <2>1. SUFFICES ASSUME I, K, K', [Next]_vars
                 PROVE  [LO!Next]_Orders
    OBVIOUS
  <2>2. OrdersKnown' /\ LoopFree(link') /\ InUseTree'
    BY <2>1 DEF LoopFree
  <2> QED
    BY <2>1, <2>2, NextChangesOrders
<1>3. Init /\ I /\ K => LO!Init
  <2>1. SUFFICES ASSUME Init, OrdersKnown
                 PROVE  LO!Init
    OBVIOUS
  <2>2. \A t \in Tree : link[t]["root"] = NULL
    BY <2>1 DEF Init, NoLinks, Side
  <2>3. InOrder[NULL] = <<>>
    BY <2>1 DEF OrdersKnown, Sequenced, None
  <2>4. \A t \in Tree : Orders[t] = <<>>
    BY <2>1, <2>2, <2>3 DEF OrdersKnown
  <2> QED
    BY <2>1, <2>4 DEF LO!Init, OrdersKnown
<1>4. Spec => []I
  BY SearchInvariance
<1> HIDE DEF I, K
<1> QED
  BY <1>1, <1>2, <1>3, <1>4, PTL DEF Spec, ImplementsLinearOrder, LO!Spec

-----------------------------------------------------------------------------
(* Functions that follow one field *)

\* What is computed by going from node to node is well-defined, also where the
\* way has no end.
LEMMA ChainRecursion ==
  ASSUME NEW U \in SUBSET Node, NEW up \in [U -> U \cup {NULL}], NEW V, NEW stop \in [U -> V]
  PROVE  \E g \in [U -> V] : \A n \in U : g[n] = IF up[n] = NULL THEN stop[n] ELSE g[up[n]]
<1> DEFINE Endless == {n \in U : \E S \in SUBSET U : n \in S /\ \A x \in S : up[x] \in S}
           m == [n \in Node |-> [d \in Dir |-> IF d = "left" /\ n \in U \ Endless
                                               THEN up[n] ELSE NULL]]
<1>1. CASE U = {}
  <2>1. [n \in U |-> stop[n]] \in [U -> V]
    OBVIOUS
  <2> QED
    BY <1>1, <2>1
<1>2. CASE U # {}
  <2>0. PICK v : v \in V
    BY <1>2
  <2>1. NULL \notin U /\ U \subseteq Node /\ "left" \in Dir /\ "right" \in Dir
    BY DistinctAddresses DEF Dir
  <2>2. /\ \A n \in Node, d \in Dir :
             m[n][d] = IF d = "left" /\ n \in U \ Endless THEN up[n] ELSE NULL
        /\ \A n \in Endless : n \in U /\ up[n] \in Endless
        /\ \A S \in SUBSET U : (\A x \in S : up[x] \in S) => S \subseteq Endless
    OBVIOUS
  <2> HIDE DEF m, Endless
  <2>3. LoopFree(m)
    <3>1. \A n \in Node, d \in Dir : m[n][d] \in Pointer
      BY <2>1, <2>2 DEF Pointer
    <3>2. ASSUME NEW S \in SUBSET Node, S # {}, \A n \in S : \E d \in Dir : m[n][d] \in S
          PROVE  FALSE
      <4>1. NULL \notin S
        BY DistinctAddresses
      <4>2. \A n \in S : n \in U \ Endless /\ up[n] \in S
        <5>1. SUFFICES ASSUME NEW n \in S
                       PROVE  n \in U \ Endless /\ up[n] \in S
          OBVIOUS
        <5>2. PICK e \in Dir : m[n][e] \in S
          BY <3>2
        <5>3. m[n][e] = IF e = "left" /\ n \in U \ Endless THEN up[n] ELSE NULL
          BY <2>2
        <5> QED
          BY <5>2, <5>3, <4>1
      <4>3. S \in SUBSET U
        BY <4>2
      <4>4. S \subseteq Endless
        BY <4>2, <4>3, <2>2
      <4> QED
        BY <4>2, <4>4, <3>2
    <3>3. NoLoops(m)
      BY <3>2 DEF NoLoops
    <3> QED
      BY <3>1, <3>3 DEF LoopFree
  <2> DEFINE Value(n, p) == IF n \notin U \/ n \in Endless THEN v
                            ELSE IF up[n] = NULL THEN stop[n] ELSE p[1]
             step == [n \in Node |-> [p \in V \X V |-> Value(n, p)]]
  <2>4. step \in [Node -> [V \X V -> V]]
    <3>1. \A n \in Node, p \in V \X V : Value(n, p) \in V
      BY <2>0
    <3> HIDE DEF Value
    <3> QED
      BY <3>1
  <2>5. \A n \in Node, a, b \in V : step[n][<<a, b>>] = Value(n, <<a, b>>)
    <3> HIDE DEF Value
    <3> QED
      OBVIOUS
  <2> HIDE DEF step
  <2>6. PICK f \in [Pointer -> V] : Computed(m, v, step, f)
    BY <2>0, <2>3, <2>4, Recursion DEF OnlySolution
  <2> DEFINE g == [n \in U |-> f[n]]
  <2>7. g \in [U -> V]
    BY DEF Pointer
  <2>8. ASSUME NEW n \in Node
        PROVE  f[n] = IF n \notin U \/ n \in Endless THEN v
                      ELSE IF up[n] = NULL THEN stop[n] ELSE f[m[n]["left"]]
    <3>1. f[n] = step[n][<<f[m[n]["left"]], f[m[n]["right"]]>>]
      BY <2>6 DEF Computed
    <3>2. f[m[n]["left"]] \in V /\ f[m[n]["right"]] \in V
      BY <2>1, <2>3 DEF LoopFree
    <3>3. f[n] = Value(n, <<f[m[n]["left"]], f[m[n]["right"]]>>)
      BY <3>1, <3>2, <2>5
    <3> QED
      BY <3>3
  <2>9. ASSUME NEW n \in U
        PROVE  g[n] = IF up[n] = NULL THEN stop[n] ELSE g[up[n]]
    <3>1. n \in Node /\ up[n] \in U \cup {NULL}
      OBVIOUS
    <3>2. CASE n \in Endless
      <4>1. up[n] \in Endless /\ up[n] \in U /\ up[n] # NULL /\ up[n] \in Node
        BY <3>2, <2>1, <2>2
      <4> QED
        BY <4>1, <3>1, <3>2, <2>8
    <3>3. CASE n \notin Endless
      <4>1. m[n]["left"] = up[n]
        BY <3>1, <3>3, <2>1, <2>2
      <4> QED
        BY <4>1, <3>1, <3>3, <2>8
    <3> QED
      BY <3>2, <3>3
  <2> QED
    BY <2>7, <2>9
<1> QED
  BY <1>1, <1>2

\* c_rbnode_leftmost and c_rbnode_rightmost.
LEMMA MostFacts ==
  ASSUME link \in Memory, NEW d \in Dir
  PROVE  \A n \in Pointer :
           c_rbnode_most(d)[n] = IF n = NULL \/ link[n][d] = NULL THEN n
                                 ELSE c_rbnode_most(d)[link[n][d]]
<1> DEFINE Body(f) == [n \in Pointer |-> IF n = NULL \/ link[n][d] = NULL THEN n ELSE f[link[n][d]]]
           up   == [n \in Node |-> link[n][d]]
           stop == [n \in Node |-> n]
<1>1. c_rbnode_most(d) = CHOOSE f : f = Body(f)
  BY DEF c_rbnode_most
<1>2. up \in [Node -> Node \cup {NULL}] /\ stop \in [Node -> Node]
  BY Sides DEF Memory, Pointer
<1>3. PICK g \in [Node -> Node] : \A n \in Node : g[n] = IF up[n] = NULL THEN stop[n] ELSE g[up[n]]
  <2>1. Node \in SUBSET Node
    OBVIOUS
  <2> HIDE DEF up, stop
  <2> QED
    BY <2>1, <1>2, ChainRecursion
<1> DEFINE f == [n \in Pointer |-> IF n = NULL THEN NULL ELSE g[n]]
<1>4. f = Body(f)
  <2>1. ASSUME NEW n \in Pointer
        PROVE  f[n] = IF n = NULL \/ link[n][d] = NULL THEN n ELSE f[link[n][d]]
    <3>1. CASE n = NULL
      BY <3>1
    <3>2. CASE n # NULL
      <4>1. n \in Node /\ link[n][d] \in Pointer
        BY <3>2, Sides DEF Memory, Pointer
      <4>2. g[n] = IF link[n][d] = NULL THEN n ELSE g[link[n][d]]
        BY <4>1, <1>3
      <4> QED
        BY <3>2, <4>1, <4>2
    <3> QED
      BY <3>1, <3>2
  <2> QED
    BY <2>1
<1> HIDE DEF f
<1>5. c_rbnode_most(d) = Body(c_rbnode_most(d))
  <2> HIDE DEF Body
  <2> QED
    BY <1>1, <1>4
<1> QED
  BY <1>5

\* c_rbnode_leftdeepest and c_rbnode_rightdeepest.
LEMMA DeepestFacts ==
  ASSUME link \in Memory, NEW d \in Dir
  PROVE  \A n \in Pointer :
           c_rbnode_deepest(d)[n] =
             IF n = NULL THEN n
             ELSE IF link[n][d] # NULL THEN c_rbnode_deepest(d)[link[n][d]]
             ELSE IF link[n][Other(d)] # NULL THEN c_rbnode_deepest(d)[link[n][Other(d)]]
             ELSE n
<1> DEFINE Body(f) == [n \in Pointer |->
                         IF n = NULL THEN n
                         ELSE IF link[n][d] # NULL THEN f[link[n][d]]
                         ELSE IF link[n][Other(d)] # NULL THEN f[link[n][Other(d)]]
                         ELSE n]
           up   == [n \in Node |-> IF link[n][d] # NULL THEN link[n][d] ELSE link[n][Other(d)]]
           stop == [n \in Node |-> n]
<1>0. \A n \in Node : link[n][d] \in Pointer /\ link[n][Other(d)] \in Pointer
  BY Sides DEF Memory
<1>1. c_rbnode_deepest(d) = CHOOSE f : f = Body(f)
  BY DEF c_rbnode_deepest
<1>2. up \in [Node -> Node \cup {NULL}] /\ stop \in [Node -> Node]
  BY <1>0 DEF Pointer
<1>3. PICK g \in [Node -> Node] : \A n \in Node : g[n] = IF up[n] = NULL THEN stop[n] ELSE g[up[n]]
  <2>1. Node \in SUBSET Node
    OBVIOUS
  <2> HIDE DEF up, stop
  <2> QED
    BY <2>1, <1>2, ChainRecursion
<1> DEFINE f == [n \in Pointer |-> IF n = NULL THEN NULL ELSE g[n]]
<1>4. f = Body(f)
  <2>1. ASSUME NEW n \in Pointer
        PROVE  f[n] = IF n = NULL THEN n
                      ELSE IF link[n][d] # NULL THEN f[link[n][d]]
                      ELSE IF link[n][Other(d)] # NULL THEN f[link[n][Other(d)]]
                      ELSE n
    <3>1. CASE n = NULL
      BY <3>1
    <3>2. CASE n # NULL
      <4>1. n \in Node
        BY <3>2 DEF Pointer
      <4>2. g[n] = IF up[n] = NULL THEN n ELSE g[up[n]]
        BY <4>1, <1>3
      <4>3. up[n] = IF link[n][d] # NULL THEN link[n][d] ELSE link[n][Other(d)]
        BY <4>1
      <4> HIDE DEF up
      <4>4. link[n][d] \in Pointer /\ link[n][Other(d)] \in Pointer
        BY <4>1, <1>0
      <4> QED
        BY <3>2, <4>1, <4>2, <4>3, <4>4
    <3> QED
      BY <3>1, <3>2
  <2> QED
    BY <2>1
<1> HIDE DEF f
<1>5. c_rbnode_deepest(d) = Body(c_rbnode_deepest(d))
  <2> HIDE DEF Body
  <2> QED
    BY <1>1, <1>4
<1> QED
  BY <1>5

\* The loop of c_rbnode_next and c_rbnode_prev.
LEMMA ClimbFacts ==
  ASSUME IInv, NEW d \in Dir
  PROVE  \A n \in Node :
           ClimbFrom(d)[n] = IF c_rbnode_parent(pf, n) # NULL /\ n = link[c_rbnode_parent(pf, n)][d]
                             THEN ClimbFrom(d)[c_rbnode_parent(pf, n)]
                             ELSE c_rbnode_parent(pf, n)
<1> DEFINE P(n) == c_rbnode_parent(pf, n)
           Goes(n) == P(n) # NULL /\ n = link[P(n)][d]
           Body(f) == [n \in Node |-> IF Goes(n) THEN f[P(n)] ELSE P(n)]
           up   == [n \in Node |-> IF Goes(n) THEN P(n) ELSE NULL]
           stop == [n \in Node |-> P(n)]
<1>1. ClimbFrom(d) = CHOOSE f : f = Body(f)
  BY DEF ClimbFrom
<1>2. \A n \in Node : P(n) \in Node \cup Tree \cup {NULL} /\ (Goes(n) => P(n) \in Node)
  <2>1. pf \in [Node -> Word] /\ \A t \in Tree : link[t][d] = NULL
    BY InUseFacts DEF Sound, Shaped
  <2>2. \A n \in Node : P(n) \in Node \cup Tree \cup {NULL}
    BY <2>1 DEF c_rbnode_parent, Word
  <2> HIDE DEF P
  <2> QED
    BY <2>1, <2>2, DistinctAddresses
<1> DEFINE V == Node \cup Tree \cup {NULL}
<1> HIDE DEF P
<1>3. up \in [Node -> Node \cup {NULL}] /\ stop \in [Node -> V]
  BY <1>2
<1>4. PICK g \in [Node -> V] : \A n \in Node : g[n] = IF up[n] = NULL THEN stop[n] ELSE g[up[n]]
  <2>1. Node \in SUBSET Node
    OBVIOUS
  <2> HIDE DEF up, stop, V
  <2> QED
    BY <2>1, <1>3, ChainRecursion
<1>5. g = Body(g)
  <2>1. ASSUME NEW n \in Node
        PROVE  g[n] = IF Goes(n) THEN g[P(n)] ELSE P(n)
    BY <1>2, <1>4, DistinctAddresses
  <2> HIDE DEF Goes
  <2> QED
    BY <2>1
<1>6. ClimbFrom(d) = Body(ClimbFrom(d))
  <2> HIDE DEF Body
  <2> QED
    BY <1>1, <1>5
<1> QED
  BY <1>6 DEF P

\* Where the parent of a node in use is.
LEMMA ParentOf ==
  ASSUME IInv, NEW n \in InUse
  PROVE  \/ /\ c_rbnode_parent(pf, n) = NULL /\ owner[n] \in Tree /\ link[owner[n]]["root"] = n
         \/ /\ c_rbnode_parent(pf, n) \in InUse
            /\ \E d \in Dir : link[c_rbnode_parent(pf, n)][d] = n
<1>1. /\ Sound(owner, link, pf) /\ InUse = Owned(owner) /\ owner \in Owners /\ n # NULL
  BY InUseFacts
<1>2. PICK s \in Side : pf[n].raw \in Holder(owner) /\ link[pf[n].raw][s] = n
  BY <1>1 DEF Sound, Consistent, ParentsKnowChild, c_rbnode_raw
<1>3. /\ owner[n] = Home(owner, pf[n].raw)
      /\ s = "root" <=> c_rbnode_is_root(pf, n)
      /\ s = "root" <=> pf[n].raw \in Tree
  BY <1>1, <1>2 DEF Sound, Consistent, ChildrenKnowParent
<1>4. CASE s = "root"
  BY <1>2, <1>3, <1>4 DEF c_rbnode_parent, Home
<1>5. CASE s # "root"
  <2>1. s \in Dir /\ pf[n].raw \in InUse
    BY <1>1, <1>2, <1>3, <1>5 DEF Side, Dir, Holder
  <2> QED
    BY <2>1, <1>2, <1>3, <1>5 DEF c_rbnode_parent
<1> QED
  BY <1>4, <1>5

\* The loop of c_rbnode_prev_postorder.
LEMMA SiblingFacts ==
  ASSUME IInv
  PROVE  \A n \in InUse :
           LET p == c_rbnode_parent(pf, n)
           IN  LeftSiblingFrom[n] =
                 IF p = NULL THEN NULL
                 ELSE IF link[p]["left"] # NULL /\ n # link[p]["left"] THEN link[p]["left"]
                 ELSE LeftSiblingFrom[p]
<1> DEFINE P(n) == c_rbnode_parent(pf, n)
           AtLeft(n) == P(n) # NULL /\ link[P(n)]["left"] # NULL /\ n # link[P(n)]["left"]
           Body(f) == [n \in InUse |-> IF P(n) = NULL THEN NULL
                                       ELSE IF link[P(n)]["left"] # NULL /\ n # link[P(n)]["left"]
                                       THEN link[P(n)]["left"]
                                       ELSE f[P(n)]]
           up   == [n \in InUse |-> IF AtLeft(n) THEN NULL ELSE P(n)]
           stop == [n \in InUse |-> IF P(n) = NULL THEN NULL ELSE link[P(n)]["left"]]
<1>1. LeftSiblingFrom = CHOOSE f : f = Body(f)
  BY DEF LeftSiblingFrom
<1>2. InUse \in SUBSET Node /\ NULL \notin InUse /\ "left" \in Dir /\ link \in Memory /\ "left" \in Side
  BY InUseFacts DEF Dir, Side
<1>3. \A n \in InUse : P(n) \in InUse \cup {NULL}
  BY ParentOf
<1> HIDE DEF P
<1>4. \A n \in InUse : P(n) # NULL => link[P(n)]["left"] \in Pointer
  BY <1>2, <1>3 DEF Memory
<1>5. up \in [InUse -> InUse \cup {NULL}] /\ stop \in [InUse -> Pointer]
  BY <1>3, <1>4 DEF Pointer
<1>6. PICK g \in [InUse -> Pointer] :
           \A n \in InUse : g[n] = IF up[n] = NULL THEN stop[n] ELSE g[up[n]]
  <2> HIDE DEF up, stop
  <2> QED
    BY <1>2, <1>5, ChainRecursion
<1>7. g = Body(g)
  <2>1. ASSUME NEW n \in InUse
        PROVE  g[n] = IF P(n) = NULL THEN NULL
                      ELSE IF link[P(n)]["left"] # NULL /\ n # link[P(n)]["left"]
                      THEN link[P(n)]["left"]
                      ELSE g[P(n)]
    <3>1. up[n] = IF AtLeft(n) THEN NULL ELSE P(n)
      OBVIOUS
    <3>2. stop[n] = IF P(n) = NULL THEN NULL ELSE link[P(n)]["left"]
      OBVIOUS
    <3>3. g[n] = IF up[n] = NULL THEN stop[n] ELSE g[up[n]]
      BY <1>6
    <3> HIDE DEF up, stop
    <3> QED
      BY <3>1, <3>2, <3>3
  <2> QED
    BY <2>1
<1>8. LeftSiblingFrom = Body(LeftSiblingFrom)
  <2> HIDE DEF Body
  <2> QED
    BY <1>1, <1>7
<1> QED
  BY <1>8 DEF P

-----------------------------------------------------------------------------
(* Sequences in other orders *)

\* What PostOrder computes.
LEMMA PostOrderFacts ==
  ASSUME LoopFree(link)
  PROVE  /\ PostOrder \in [Pointer -> Nodes] /\ PostOrder[NULL] = None
         /\ \A n \in Node :
              PostOrder[n] = Join(PostOrder[link[n]["left"]],
                                  Join(PostOrder[link[n]["right"]], One(n)))
<1> DEFINE Joined(n, a, b) == a \o b \o <<n>>
           step == [n \in Node |-> [p \in Nodes \X Nodes |-> Joined(n, p[1], p[2])]]
           Body(g) == [x \in Pointer |->
                         IF x = NULL THEN None
                         ELSE Joined(x, g[link[x]["left"]], g[link[x]["right"]])]
<1>1. \A n \in Node, a, b \in Nodes : Joined(n, a, b) = Join(a, Join(b, One(n)))
  <2>1. \A n \in Node, a, b \in Nodes : Join(a, Join(b, One(n))) = Join(Join(a, b), One(n))
    BY Joins
  <2> QED
    BY <2>1 DEF Join, One
<1>2. \A n \in Node, a, b \in Nodes : Joined(n, a, b) \in Nodes
  <2> HIDE DEF Joined
  <2> QED
    BY <1>1, Joins
<1>3. step \in [Node -> [Nodes \X Nodes -> Nodes]]
  <2> HIDE DEF Joined
  <2>1. \A p \in Nodes \X Nodes : p[1] \in Nodes /\ p[2] \in Nodes
    OBVIOUS
  <2> QED
    BY <1>2, <2>1
<1>4. \A n \in Node, a, b \in Nodes : step[n][<<a, b>>] = Joined(n, a, b)
  <2> HIDE DEF Joined
  <2> QED
    OBVIOUS
<1>5. PostOrder = CHOOSE g : g = Body(g)
  BY DEF PostOrder, None
<1> HIDE DEF step, Joined
<1>6. PICK f : Builds(step, f)
  BY <1>3, SomeBuilds
<1>7. \A n \in Node : link[n]["left"] \in Pointer /\ link[n]["right"] \in Pointer
  BY DEF LoopFree, Dir
<1>8. f = Body(f)
  <2>1. ASSUME NEW x \in Pointer
        PROVE  f[x] = IF x = NULL THEN None ELSE Joined(x, f[link[x]["left"]], f[link[x]["right"]])
    <3>1. CASE x = NULL
      BY <3>1, <1>6 DEF Builds
    <3>2. CASE x # NULL
      <4>1. x \in Node
        BY <3>2 DEF Pointer
      <4>2. f[link[x]["left"]] \in Nodes /\ f[link[x]["right"]] \in Nodes
        BY <4>1, <1>6, <1>7 DEF Builds
      <4>3. f[x] = step[x][<<f[link[x]["left"]], f[link[x]["right"]]>>]
        BY <4>1, <1>6 DEF Builds
      <4> QED
        BY <3>2, <4>1, <4>2, <4>3, <1>4
    <3> QED
      BY <3>1, <3>2
  <2>2. f = [x \in Pointer |-> f[x]]
    BY <1>6 DEF Builds
  <2> QED
    BY <2>1, <2>2
<1>9. PostOrder = Body(PostOrder)
  <2> HIDE DEF Body
  <2> QED
    BY <1>5, <1>8
<1>10. Builds(step, PostOrder)
  <2>1. PostOrder = [x \in Pointer |-> PostOrder[x]] /\ PostOrder[NULL] = None
    BY <1>9 DEF Pointer
  <2>2. \A n \in Node : PostOrder[n] = Joined(n, PostOrder[link[n]["left"]], PostOrder[link[n]["right"]])
    BY <1>9, DistinctAddresses DEF Pointer
  <2> HIDE DEF Body
  <2>3. ASSUME NEW n \in Node,
               PostOrder[link[n]["left"]] \in Nodes /\ PostOrder[link[n]["right"]] \in Nodes
        PROVE  PostOrder[n] = step[n][<<PostOrder[link[n]["left"]], PostOrder[link[n]["right"]]>>]
    BY <1>4, <2>2, <2>3
  <2> QED
    BY <1>3, <2>1, <2>3, BuildsSequences
<1>11. ASSUME NEW n \in Node
       PROVE  PostOrder[n] = Join(PostOrder[link[n]["left"]], Join(PostOrder[link[n]["right"]], One(n)))
  <2>1. PostOrder[link[n]["left"]] \in Nodes /\ PostOrder[link[n]["right"]] \in Nodes
    BY <1>7, <1>10 DEF Builds
  <2>2. PostOrder[n] = step[n][<<PostOrder[link[n]["left"]], PostOrder[link[n]["right"]]>>]
    BY <1>10 DEF Builds
  <2> QED
    BY <2>1, <2>2, <1>1, <1>4
<1> QED
  BY <1>10, <1>11 DEF Builds

\* What PreOrder computes.
LEMMA PreOrderFacts ==
  ASSUME LoopFree(link)
  PROVE  /\ PreOrder \in [Pointer -> Nodes] /\ PreOrder[NULL] = None
         /\ \A n \in Node :
              PreOrder[n] = Join(One(n), Join(PreOrder[link[n]["left"]], PreOrder[link[n]["right"]]))
<1> DEFINE Joined(n, a, b) == <<n>> \o a \o b
           step == [n \in Node |-> [p \in Nodes \X Nodes |-> Joined(n, p[1], p[2])]]
           Body(g) == [x \in Pointer |->
                         IF x = NULL THEN None
                         ELSE Joined(x, g[link[x]["left"]], g[link[x]["right"]])]
<1>1. \A n \in Node, a, b \in Nodes : Joined(n, a, b) = Join(One(n), Join(a, b))
  <2>1. \A n \in Node, a, b \in Nodes : Join(One(n), Join(a, b)) = Join(Join(One(n), a), b)
    BY Joins
  <2> QED
    BY <2>1 DEF Join, One
<1>2. \A n \in Node, a, b \in Nodes : Joined(n, a, b) \in Nodes
  <2> HIDE DEF Joined
  <2> QED
    BY <1>1, Joins
<1>3. step \in [Node -> [Nodes \X Nodes -> Nodes]]
  <2> HIDE DEF Joined
  <2>1. \A p \in Nodes \X Nodes : p[1] \in Nodes /\ p[2] \in Nodes
    OBVIOUS
  <2> QED
    BY <1>2, <2>1
<1>4. \A n \in Node, a, b \in Nodes : step[n][<<a, b>>] = Joined(n, a, b)
  <2> HIDE DEF Joined
  <2> QED
    OBVIOUS
<1>5. PreOrder = CHOOSE g : g = Body(g)
  BY DEF PreOrder, None
<1> HIDE DEF step, Joined
<1>6. PICK f : Builds(step, f)
  BY <1>3, SomeBuilds
<1>7. \A n \in Node : link[n]["left"] \in Pointer /\ link[n]["right"] \in Pointer
  BY DEF LoopFree, Dir
<1>8. f = Body(f)
  <2>1. ASSUME NEW x \in Pointer
        PROVE  f[x] = IF x = NULL THEN None ELSE Joined(x, f[link[x]["left"]], f[link[x]["right"]])
    <3>1. CASE x = NULL
      BY <3>1, <1>6 DEF Builds
    <3>2. CASE x # NULL
      <4>1. x \in Node
        BY <3>2 DEF Pointer
      <4>2. f[link[x]["left"]] \in Nodes /\ f[link[x]["right"]] \in Nodes
        BY <4>1, <1>6, <1>7 DEF Builds
      <4>3. f[x] = step[x][<<f[link[x]["left"]], f[link[x]["right"]]>>]
        BY <4>1, <1>6 DEF Builds
      <4> QED
        BY <3>2, <4>1, <4>2, <4>3, <1>4
    <3> QED
      BY <3>1, <3>2
  <2>2. f = [x \in Pointer |-> f[x]]
    BY <1>6 DEF Builds
  <2> QED
    BY <2>1, <2>2
<1>9. PreOrder = Body(PreOrder)
  <2> HIDE DEF Body
  <2> QED
    BY <1>5, <1>8
<1>10. Builds(step, PreOrder)
  <2>1. PreOrder = [x \in Pointer |-> PreOrder[x]] /\ PreOrder[NULL] = None
    BY <1>9 DEF Pointer
  <2>2. \A n \in Node : PreOrder[n] = Joined(n, PreOrder[link[n]["left"]], PreOrder[link[n]["right"]])
    BY <1>9, DistinctAddresses DEF Pointer
  <2> HIDE DEF Body
  <2>3. ASSUME NEW n \in Node,
               PreOrder[link[n]["left"]] \in Nodes /\ PreOrder[link[n]["right"]] \in Nodes
        PROVE  PreOrder[n] = step[n][<<PreOrder[link[n]["left"]], PreOrder[link[n]["right"]]>>]
    BY <1>4, <2>2, <2>3
  <2> QED
    BY <1>3, <2>1, <2>3, BuildsSequences
<1>11. ASSUME NEW n \in Node
       PROVE  PreOrder[n] = Join(One(n), Join(PreOrder[link[n]["left"]], PreOrder[link[n]["right"]]))
  <2>1. PreOrder[link[n]["left"]] \in Nodes /\ PreOrder[link[n]["right"]] \in Nodes
    BY <1>7, <1>10 DEF Builds
  <2>2. PreOrder[n] = step[n][<<PreOrder[link[n]["left"]], PreOrder[link[n]["right"]]>>]
    BY <1>10 DEF Builds
  <2> QED
    BY <2>1, <2>2, <1>1, <1>4
<1> QED
  BY <1>10, <1>11 DEF Builds

-----------------------------------------------------------------------------
(* The ends of a sequence and of its parts *)

FirstOf(q) == At(q, 1)
LastOf(q)  == At(q, Len(q))

\* What is at an index of a concatenation.
LEMMA AtJoin ==
  ASSUME NEW q \in Nodes, NEW r \in Nodes, NEW i \in Int
  PROVE  /\ Len(q) \in Nat /\ Len(r) \in Nat /\ Len(Join(q, r)) = Len(q) + Len(r)
         /\ i <= Len(q) => At(Join(q, r), i) = At(q, i)
         /\ i > Len(q) => At(Join(q, r), i) = At(r, i - Len(q))
<1>1. q \in Seq(Node) /\ r \in Seq(Node) /\ Len(q) \in Nat /\ Len(r) \in Nat
  BY DEF Nodes
<1>2. /\ Len(q \o r) = Len(q) + Len(r)
      /\ \A k \in 1 .. Len(q) + Len(r) : (q \o r)[k] = IF k <= Len(q) THEN q[k] ELSE r[k - Len(q)]
  BY <1>1, ConcatProperties
<1> DEFINE c == q \o r
           l == Len(q)
           k == Len(r)
<1>3. /\ Len(c) = l + k /\ l \in Nat /\ k \in Nat
      /\ \A j \in 1 .. l + k : c[j] = IF j <= l THEN q[j] ELSE r[j - l]
  BY <1>1, <1>2
<1> HIDE DEF c, l, k
<1>4. i <= l => At(c, i) = IF i \in 1 .. l THEN q[i] ELSE NULL
  BY <1>3 DEF At
<1>5. i > l => At(c, i) = IF i - l \in 1 .. k THEN r[i - l] ELSE NULL
  BY <1>3 DEF At
<1> QED
  BY <1>1, <1>2, <1>4, <1>5 DEF c, l, k, At, Join

\* Only the empty sequence has no ends.
LEMMA EndsExist ==
  /\ FirstOf(None) = NULL /\ LastOf(None) = NULL /\ Len(None) = 0
  /\ \A n \in Node : FirstOf(One(n)) = n /\ LastOf(One(n)) = n /\ One(n) # None /\ Len(One(n)) = 1
  /\ \A q \in Nodes : Len(q) \in Nat /\ (Len(q) = 0 => q = None)
<1>1. Len(<<>>) = 0 /\ \A n \in Node : Len(<<n>>) = 1 /\ <<n>>[1] = n
  OBVIOUS
<1>2. \A q \in Seq(Node) : Len(q) \in Nat /\ (Len(q) = 0 => q = <<>>)
  BY EmptySeq
<1>3. At(<<>>, 1) = NULL /\ At(<<>>, 0) = NULL
  BY <1>1 DEF At
<1>4. \A n \in Node : At(<<n>>, 1) = n /\ <<n>> # <<>>
  BY <1>1 DEF At
<1> QED
  BY <1>1, <1>2, <1>3, <1>4 DEF FirstOf, LastOf, None, One, Nodes

\* The ends of a concatenation.
LEMMA EndsOfJoin ==
  ASSUME NEW q \in Nodes, NEW r \in Nodes
  PROVE  /\ FirstOf(Join(q, r)) = IF q = None THEN FirstOf(r) ELSE FirstOf(q)
         /\ LastOf(Join(q, r)) = IF r = None THEN LastOf(q) ELSE LastOf(r)
         /\ Join(q, r) = None => q = None /\ r = None
<1>1. /\ Len(q) \in Nat /\ Len(r) \in Nat /\ (Len(q) = 0 => q = None) /\ (Len(r) = 0 => r = None)
  BY EndsExist
<1>2. Join(None, r) = r /\ Join(q, None) = q /\ Join(q, r) \in Nodes
  BY Joins
<1>3. Len(Join(q, r)) = Len(q) + Len(r)
  BY AtJoin, 1 \in Int
<1>4. FirstOf(Join(q, r)) = IF q = None THEN FirstOf(r) ELSE FirstOf(q)
  <2>1. CASE q = None
    BY <1>2, <2>1
  <2>2. CASE q # None
    <3>1. Len(q) # 0 /\ 1 <= Len(q)
      BY <1>1, <2>2
    <3>2. At(Join(q, r), 1) = At(q, 1)
      BY <3>1, AtJoin
    <3> QED
      BY <2>2, <3>2 DEF FirstOf
  <2> QED
    BY <2>1, <2>2
<1>5. LastOf(Join(q, r)) = IF r = None THEN LastOf(q) ELSE LastOf(r)
  <2>1. CASE r = None
    BY <1>2, <2>1
  <2>2. CASE r # None
    <3> DEFINE i == Len(q) + Len(r)
    <3>1. i \in Int /\ i > Len(q) /\ i - Len(q) = Len(r)
      BY <1>1, <2>2
    <3>2. At(Join(q, r), i) = At(r, i - Len(q))
      BY <3>1, AtJoin
    <3> QED
      BY <1>3, <2>2, <3>1, <3>2 DEF LastOf
  <2> QED
    BY <2>1, <2>2
<1>6. ASSUME Join(q, r) = None
      PROVE  q = None /\ r = None
  <2>1. Len(q) + Len(r) = 0
    BY <1>3, <1>6, EndsExist
  <2> QED
    BY <1>1, <2>1
<1> QED
  BY <1>4, <1>5, <1>6

\* s is a part of q; u is the node before it and v the node after it.
PartOf(q, s, u, v) ==
  \E a, b \in Nodes : q = Join(a, Join(s, b)) /\ LastOf(a) = u /\ FirstOf(b) = v

\* The node before a part that x precedes, where u precedes the whole; the node
\* after a part that y follows.
Before(x, u) == IF x = None THEN u ELSE LastOf(x)
Behind(y, v)  == IF y = None THEN v ELSE FirstOf(y)

\* A part of a part is a part.
LEMMA PartOfPart ==
  ASSUME NEW q, NEW s, NEW u, NEW v, PartOf(q, s, u, v),
         NEW r \in Nodes, NEW x \in Nodes, NEW y \in Nodes, s = Join(x, Join(r, y))
  PROVE  PartOf(q, r, Before(x, u), Behind(y, v))
<1>1. PICK a \in Nodes, b \in Nodes : q = Join(a, Join(s, b)) /\ LastOf(a) = u /\ FirstOf(b) = v
  BY DEF PartOf
<1>2. /\ Join(a, x) \in Nodes /\ Join(y, b) \in Nodes /\ Join(r, y) \in Nodes
      /\ Join(r, Join(y, b)) \in Nodes
  BY Joins
<1>3. q = Join(Join(a, x), Join(r, Join(y, b)))
  <2>1. Join(s, b) = Join(x, Join(Join(r, y), b))
    BY <1>2, Joins
  <2>2. Join(Join(r, y), b) = Join(r, Join(y, b))
    BY Joins
  <2>3. Join(a, Join(x, Join(r, Join(y, b)))) = Join(Join(a, x), Join(r, Join(y, b)))
    BY <1>2, Joins
  <2> QED
    BY <1>1, <2>1, <2>2, <2>3
<1>4. LastOf(Join(a, x)) = Before(x, u) /\ FirstOf(Join(y, b)) = Behind(y, v)
  BY <1>1, EndsOfJoin DEF Before, Behind
<1> QED
  BY <1>2, <1>3, <1>4 DEF PartOf

-----------------------------------------------------------------------------
(* Sequences without repetition *)

Distinct(q) == \A i, j \in 1 .. Len(q) : q[i] = q[j] => i = j

\* Concatenating sequences that share no node repeats none.
LEMMA DistinctFacts ==
  /\ Distinct(None)
  /\ \A n \in Node : Distinct(One(n))
  /\ \A q, r \in Nodes :
       Distinct(q) /\ Distinct(r) /\ Range(q) \cap Range(r) = {} => Distinct(Join(q, r))
<1>1. Distinct(None) /\ \A n \in Node : Distinct(One(n))
  BY EndsExist DEF Distinct
<1>2. ASSUME NEW q \in Nodes, NEW r \in Nodes, Distinct(q), Distinct(r), Range(q) \cap Range(r) = {},
             NEW i \in 1 .. Len(Join(q, r)), NEW j \in 1 .. Len(Join(q, r)),
             Join(q, r)[i] = Join(q, r)[j]
      PROVE  i = j
  <2>1. q \in Seq(Node) /\ r \in Seq(Node) /\ Len(q) \in Nat /\ Len(r) \in Nat
    BY DEF Nodes
  <2> DEFINE c == Join(q, r)
             l == Len(q)
             k == Len(r)
  <2>2. /\ Len(c) = l + k
        /\ \A h \in 1 .. l + k : c[h] = IF h <= l THEN q[h] ELSE r[h - l]
    BY <2>1, ConcatProperties DEF Join
  <2>3. /\ \A h \in 1 .. l : q[h] \in Range(q)
        /\ \A h \in 1 .. k : r[h] \in Range(r)
    BY RangeFacts
  <2>4. l \in Nat /\ k \in Nat /\ i \in 1 .. l + k /\ j \in 1 .. l + k /\ c[i] = c[j]
    BY <1>2, <2>1, <2>2
  <2>5. /\ \A g, h \in 1 .. l : q[g] = q[h] => g = h
        /\ \A g, h \in 1 .. k : r[g] = r[h] => g = h
    BY <1>2 DEF Distinct
  <2>6. \A g \in 1 .. l, h \in 1 .. k : q[g] # r[h]
    BY <1>2, <2>3
  <2> HIDE DEF c, l, k
  <2>7. CASE i <= l /\ j <= l
    BY <2>2, <2>4, <2>5, <2>7
  <2>8. CASE i > l /\ j > l
    <3>1. i - l \in 1 .. k /\ j - l \in 1 .. k /\ r[i - l] = r[j - l]
      BY <2>2, <2>4, <2>8
    <3>2. i - l = j - l
      BY <2>5, <3>1
    <3> QED
      BY <2>4, <3>2
  <2>9. CASE i <= l /\ j > l
    BY <2>2, <2>4, <2>6, <2>9
  <2>10. CASE i > l /\ j <= l
    BY <2>2, <2>4, <2>6, <2>10
  <2> QED
    BY <2>4, <2>7, <2>8, <2>9, <2>10
<1> QED
  BY <1>1, <1>2 DEF Distinct

\* The neighbours of a part that is one node are the neighbours of the node.
LEMMA Neighbours ==
  ASSUME NEW q \in Nodes, Distinct(q), NEW i \in 1 .. Len(q),
         NEW u, NEW v, PartOf(q, One(q[i]), u, v)
  PROVE  u = At(q, i - 1) /\ v = At(q, i + 1)
<1> DEFINE n == q[i]
<1>1. PICK a \in Nodes, b \in Nodes : q = Join(a, Join(One(n), b)) /\ LastOf(a) = u /\ FirstOf(b) = v
  BY DEF PartOf
<1>2. n \in Node
  BY DEF Nodes
<1> HIDE DEF n
<1>3. One(n) \in Nodes /\ Join(One(n), b) \in Nodes /\ Len(One(n)) = 1
  BY <1>2, Joins, EndsExist
<1>4. Len(a) + 1 \in 1 .. Len(q) /\ q[Len(a) + 1] = n
  BY <1>1, <1>2, NodeAt DEF Placed
<1>5. i = Len(a) + 1
  BY <1>4 DEF Distinct, n
<1>6. Len(a) \in Nat /\ i \in Int /\ i - 1 = Len(a) /\ i + 1 = Len(a) + 2
  <2>1. Len(a) \in Nat
    BY EndsExist
  <2>2. \A k \in Nat : k + 1 \in Int /\ (k + 1) - 1 = k /\ (k + 1) + 1 = k + 2
    OBVIOUS
  <2> QED
    BY <1>5, <2>1, <2>2
<1>7. u = At(q, i - 1)
  <2>1. At(q, Len(a)) = At(a, Len(a))
    <3>1. \A k \in Int : k <= Len(a) => At(q, k) = At(a, k)
      BY <1>1, <1>3, AtJoin
    <3>2. Len(a) \in Int /\ Len(a) <= Len(a)
      BY <1>6
    <3> QED
      BY <3>1, <3>2
  <2> QED
    BY <1>1, <1>6, <2>1 DEF LastOf
<1>8. v = At(q, i + 1)
  <2>1. /\ Len(a) + 2 \in Int /\ Len(a) + 2 > Len(a) /\ Len(a) + 2 - Len(a) = 2
    BY <1>6
  <2>2. At(q, Len(a) + 2) = At(Join(One(n), b), 2)
    <3>1. \A k \in Int : k > Len(a) => At(q, k) = At(Join(One(n), b), k - Len(a))
      BY <1>1, <1>3, AtJoin
    <3> QED
      BY <2>1, <3>1
  <2>3. At(Join(One(n), b), 2) = At(b, 1)
    <3>1. 2 \in Int /\ 2 > Len(One(n)) /\ 2 - Len(One(n)) = 1
      BY <1>3
    <3>2. At(Join(One(n), b), 2) = At(b, 2 - Len(One(n)))
      BY <1>3, <3>1, AtJoin
    <3> QED
      BY <3>1, <3>2
  <2> QED
    BY <1>1, <1>6, <2>2, <2>3 DEF FirstOf
<1> QED
  BY <1>7, <1>8

-----------------------------------------------------------------------------
(* The neighbours of a subtree *)

\* A child knows its parent, and is its child on one side only.
LEMMA ChildOf ==
  ASSUME IInv, NEW p \in InUse, NEW d \in Dir, link[p][d] # NULL
  PROVE  /\ link[p][d] \in InUse /\ c_rbnode_parent(pf, link[p][d]) = p
         /\ owner[link[p][d]] = owner[p] /\ owner[p] \in Tree
         /\ \A e \in Dir : link[p][e] = link[p][d] => e = d
<1>1. /\ Sound(owner, link, pf) /\ InUse = Owned(owner) /\ p \in Node /\ p \notin Tree
      /\ owner \in Owners /\ owner[p] # NULL
  BY InUseFacts, DistinctAddresses DEF InUse, Owned
<1>2. d \in Side /\ d # "root" /\ p \in Holder(owner)
  BY <1>1 DEF Dir, Side, Holder
<1>3. link[p][d] \in InUse
  BY <1>2, InUseClosed
<1>4. /\ owner[link[p][d]] = Home(owner, p) /\ c_rbnode_raw(pf, link[p][d]) = p
      /\ ~c_rbnode_is_root(pf, link[p][d])
      /\ \A e \in Side : link[p][e] = link[p][d] => e = d
  BY <1>1, <1>2 DEF Sound, Consistent, ChildrenKnowParent
<1> QED
  BY <1>1, <1>3, <1>4 DEF Home, c_rbnode_parent, c_rbnode_raw, Side, Dir, Owners

\* The root of a tree has no parent.
LEMMA RootHasNone ==
  ASSUME IInv, NEW t \in Tree, link[t]["root"] # NULL
  PROVE  /\ link[t]["root"] \in InUse /\ owner[link[t]["root"]] = t
         /\ c_rbnode_parent(pf, link[t]["root"]) = NULL
<1>1. Sound(owner, link, pf) /\ "root" \in Side /\ t \in Holder(owner)
  BY InUseFacts DEF Side, Holder
<1>2. link[t]["root"] \in InUse
  BY <1>1, InUseClosed
<1>3. owner[link[t]["root"]] = Home(owner, t) /\ c_rbnode_is_root(pf, link[t]["root"])
  BY <1>1 DEF Sound, Consistent, ChildrenKnowParent
<1> QED
  BY <1>2, <1>3 DEF Home, c_rbnode_parent

\* The sequence f[n] of each node is part of that of its parent, bef and aft give
\* the nodes before and after it in the sequence of the whole tree.
Nested(f, bef, aft) ==
  /\ f \in [Pointer -> Nodes]
  /\ \A n \in InUse : c_rbnode_parent(pf, n) = NULL => bef[n] = NULL /\ aft[n] = NULL
  /\ \A p \in InUse, d \in Dir :
       link[p][d] # NULL =>
         \E x, y \in Nodes :
           /\ f[p] = Join(x, Join(f[link[p][d]], y))
           /\ bef[link[p][d]] = Before(x, bef[p])
           /\ aft[link[p][d]] = Behind(y, aft[p])

\* Then the sequence of every node is part of that of its tree.
LEMMA NestedParts ==
  ASSUME IInv, NoLoops(link), NEW f, NEW bef, NEW aft, Nested(f, bef, aft), NEW n \in InUse
  PROVE  owner[n] \in Tree /\ PartOf(f[link[owner[n]]["root"]], f[n], bef[n], aft[n])
<1> DEFINE t == owner[n]
           r == link[t]["root"]
           S == {x \in InUse : PartOf(f[r], f[x], bef[x], aft[x])}
<1>1. t \in Tree
  BY InUseFacts DEF InUse, Owned, Owners
<1>2. n \in Subtree(link, r)
  BY <1>1, BelowRoot
<1>3. r # NULL
  BY <1>2, SubtreeFacts, DistinctAddresses
<1>4. r \in InUse /\ c_rbnode_parent(pf, r) = NULL
  BY <1>1, <1>3, RootHasNone
<1> HIDE DEF r, t
<1>5. r \in S
  <2>1. f[r] \in Nodes /\ bef[r] = NULL /\ aft[r] = NULL
    BY <1>4, InUseFacts DEF Nested, Pointer
  <2>2. None \in Nodes /\ f[r] = Join(None, Join(f[r], None)) /\ LastOf(None) = NULL /\ FirstOf(None) = NULL
    BY <2>1, Joins, EndsExist
  <2> QED
    BY <1>4, <2>1, <2>2 DEF PartOf
<1>6. ASSUME NEW p \in S, NEW d \in Dir, link[p][d] \in Node
      PROVE  link[p][d] \in S
  <2>1. link[p][d] # NULL /\ p \in InUse /\ PartOf(f[r], f[p], bef[p], aft[p])
    BY <1>6, DistinctAddresses
  <2>2. link[p][d] \in InUse
    BY <2>1, ChildOf
  <2>3. PICK x \in Nodes, y \in Nodes :
           /\ f[p] = Join(x, Join(f[link[p][d]], y))
           /\ bef[link[p][d]] = Before(x, bef[p])
           /\ aft[link[p][d]] = Behind(y, aft[p])
    BY <2>1 DEF Nested
  <2>4. f[link[p][d]] \in Nodes
    BY <2>2, InUseFacts DEF Nested, Pointer
  <2>5. PartOf(f[r], f[link[p][d]], Before(x, bef[p]), Behind(y, aft[p]))
    BY <2>1, <2>3, <2>4, PartOfPart
  <2> QED
    BY <2>2, <2>3, <2>5
<1>7. n \in S
  <2>1. S \in SUBSET Node
    BY InUseFacts
  <2>2. Closed(link, S)
    BY <1>6 DEF Closed
  <2> HIDE DEF S
  <2> QED
    BY <1>2, <1>5, <2>1, <2>2, SubtreeFacts
<1> QED
  BY <1>1, <1>7 DEF r, t

\* The same for a node alone: pre and post give the nodes before and after it.
Single(f, bef, aft, pre, post) ==
  \A n \in InUse :
    \E x, y \in Nodes :
      /\ f[n] = Join(x, Join(One(n), y))
      /\ pre[n] = Before(x, bef[n])
      /\ post[n] = Behind(y, aft[n])

\* Then pre and post step through the sequence of every tree.
LEMMA Stepping ==
  ASSUME IInv, NoLoops(link), NEW f, Spans(InUse, link, f), NEW bef, NEW aft, Nested(f, bef, aft),
         NEW pre, NEW post, Single(f, bef, aft, pre, post),
         NEW t \in Tree, Distinct(f[link[t]["root"]]),
         NEW i \in 1 .. Len(f[link[t]["root"]])
  PROVE  /\ f[link[t]["root"]][i] \in InUse
         /\ pre[f[link[t]["root"]][i]] = At(f[link[t]["root"]], i - 1)
         /\ post[f[link[t]["root"]][i]] = At(f[link[t]["root"]], i + 1)
<1> DEFINE q == f[link[t]["root"]]
           n == q[i]
<1>1. q \in Nodes
  BY InUseIsTree DEF InUseTree, Nested, Pointer
<1>2. n \in InUse /\ owner[n] = t
  <2>1. n \in Range(q)
    BY <1>1, RangeFacts
  <2> QED
    BY <2>1, TreeNodes
<1>3. PartOf(q, f[n], bef[n], aft[n])
  BY <1>2, NestedParts
<1>4. PICK x \in Nodes, y \in Nodes :
         f[n] = Join(x, Join(One(n), y)) /\ pre[n] = Before(x, bef[n]) /\ post[n] = Behind(y, aft[n])
  BY <1>2 DEF Single
<1> HIDE DEF q, n
<1>5. One(n) \in Nodes
  BY <1>2, InUseFacts, Joins
<1>6. PartOf(q, One(n), pre[n], post[n])
  <2>1. PartOf(q, One(n), Before(x, bef[n]), Behind(y, aft[n]))
    BY <1>3, <1>4, <1>5, PartOfPart
  <2> QED
    BY <1>4, <2>1
<1>7. Distinct(q) /\ i \in 1 .. Len(q) /\ n = q[i]
  BY DEF q, n
<1>8. pre[n] = At(q, i - 1) /\ post[n] = At(q, i + 1)
  BY <1>1, <1>6, <1>7, Neighbours
<1> QED
  BY <1>2, <1>8 DEF q, n

\* A node is followed or preceded by the sequences of its two children, which
\* share no node with each other: no node comes twice.
LEMMA NoneTwice ==
  ASSUME IInv, NoLoops(link), NEW f, Spans(InUse, link, f),
         \A n \in InUse :
           \/ f[n] = Join(f[link[n]["left"]], Join(One(n), f[link[n]["right"]]))
           \/ f[n] = Join(f[link[n]["left"]], Join(f[link[n]["right"]], One(n)))
  PROVE  \A x \in InUse \cup {NULL} : Distinct(f[x])
<1> DEFINE S == {x \in Pointer : x \in InUse \cup {NULL} => Distinct(f[x])}
<1>1. InUseTree /\ Apart(InUse, link, f)
  BY InUseIsTree, RangesApart
<1>2. NULL \in S
  BY DistinctFacts DEF Spans, Pointer
<1>3. ASSUME NEW n \in Node, link[n]["left"] \in S, link[n]["right"] \in S
      PROVE  n \in S
  <2> SUFFICES ASSUME n \in InUse
               PROVE  Distinct(f[n])
    BY DistinctAddresses DEF Pointer
  <2> DEFINE a == f[link[n]["left"]]
             b == f[link[n]["right"]]
  <2>1. /\ link[n]["left"] \in InUse \cup {NULL} /\ link[n]["right"] \in InUse \cup {NULL}
        /\ link[n]["left"] \in Pointer /\ link[n]["right"] \in Pointer
    BY <1>1 DEF InUseTree, Dir, Pointer
  <2>2. a \in Nodes /\ b \in Nodes /\ One(n) \in Nodes
    BY <2>1, Joins DEF Spans
  <2>3. Distinct(a) /\ Distinct(b) /\ Distinct(One(n))
    BY <1>3, <2>1, DistinctFacts
  <2>4. n \notin Range(a) /\ n \notin Range(b) /\ Range(a) \cap Range(b) = {}
    BY <1>1 DEF Apart
  <2>5. f[n] = Join(a, Join(One(n), b)) \/ f[n] = Join(a, Join(b, One(n)))
    OBVIOUS
  <2> HIDE DEF a, b
  <2>6. /\ Range(One(n)) = {n}
        /\ Range(Join(One(n), b)) = Range(One(n)) \cup Range(b)
        /\ Range(Join(b, One(n))) = Range(b) \cup Range(One(n))
    BY <2>2, RangeFacts
  <2>7. Join(One(n), b) \in Nodes /\ Join(b, One(n)) \in Nodes
    BY <2>2, Joins
  <2>8. Distinct(Join(One(n), b)) /\ Distinct(Join(b, One(n)))
    BY <2>2, <2>3, <2>4, <2>6, DistinctFacts
  <2>9. Distinct(Join(a, Join(One(n), b)))
    <3>1. Range(a) \cap Range(Join(One(n), b)) = {}
      BY <2>4, <2>6
    <3> QED
      BY <2>2, <2>3, <2>7, <2>8, <3>1, DistinctFacts
  <2>10. Distinct(Join(a, Join(b, One(n))))
    <3>1. Range(a) \cap Range(Join(b, One(n))) = {}
      BY <2>4, <2>6
    <3> QED
      BY <2>2, <2>3, <2>7, <2>8, <3>1, DistinctFacts
  <2> QED
    BY <2>5, <2>9, <2>10
<1>4. Pointer \subseteq S
  <2> HIDE DEF S
  <2> QED
    BY <1>1, <1>2, <1>3, TreeInduction DEF InUseTree
<1> QED
  BY <1>1, <1>4 DEF InUseTree, Pointer

-----------------------------------------------------------------------------
(* In order *)

\* The most functions reach the ends of a subtree.
LEMMA MostAreEnds ==
  ASSUME LoopFree(link), link \in Memory
  PROVE  \A x \in Pointer : /\ InOrder[x] \in Nodes
                            /\ InOrder[x] = None <=> x = NULL
                            /\ c_rbnode_leftmost(x) = FirstOf(InOrder[x])
                            /\ c_rbnode_rightmost(x) = LastOf(InOrder[x])
<1> DEFINE S == {x \in Pointer : /\ InOrder[x] = None <=> x = NULL
                                 /\ c_rbnode_leftmost(x) = FirstOf(InOrder[x])
                                 /\ c_rbnode_rightmost(x) = LastOf(InOrder[x])}
<1>1. Sequenced(Node, link, InOrder)
  BY InOrderFacts
<1>2. "left" \in Dir /\ "right" \in Dir
  BY DEF Dir
<1>3. \A x \in Pointer :
        /\ c_rbnode_leftmost(x) = IF x = NULL \/ link[x]["left"] = NULL THEN x
                                  ELSE c_rbnode_leftmost(link[x]["left"])
        /\ c_rbnode_rightmost(x) = IF x = NULL \/ link[x]["right"] = NULL THEN x
                                   ELSE c_rbnode_rightmost(link[x]["right"])
  BY <1>2, MostFacts DEF c_rbnode_leftmost, c_rbnode_rightmost
<1>4. NULL \in S
  BY <1>1, <1>3, EndsExist DEF Sequenced, Pointer
<1>5. ASSUME NEW n \in Node, link[n]["left"] \in S, link[n]["right"] \in S
      PROVE  n \in S
  <2> DEFINE a == InOrder[link[n]["left"]]
             b == InOrder[link[n]["right"]]
  <2>1. n \in Pointer /\ n # NULL /\ link[n]["left"] \in Pointer /\ link[n]["right"] \in Pointer
    BY <1>5, DistinctAddresses DEF Pointer
  <2>2. InOrder[n] = Join(a, Join(One(n), b)) /\ a \in Nodes /\ b \in Nodes
    BY <1>1, <2>1 DEF Sequenced
  <2>3. /\ a = None <=> link[n]["left"] = NULL
        /\ b = None <=> link[n]["right"] = NULL
        /\ link[n]["left"] # NULL => c_rbnode_leftmost(n) = FirstOf(a)
        /\ link[n]["left"] = NULL => c_rbnode_leftmost(n) = n
        /\ link[n]["right"] # NULL => c_rbnode_rightmost(n) = LastOf(b)
        /\ link[n]["right"] = NULL => c_rbnode_rightmost(n) = n
    BY <1>3, <1>5, <2>1
  <2> HIDE DEF a, b
  <2>4. One(n) \in Nodes /\ Join(One(n), b) \in Nodes
    BY <2>2, Joins
  <2>5. One(n) # None /\ FirstOf(One(n)) = n /\ LastOf(One(n)) = n
    BY EndsExist
  <2>6. /\ FirstOf(Join(One(n), b)) = n /\ Join(One(n), b) # None
        /\ LastOf(Join(One(n), b)) = IF b = None THEN n ELSE LastOf(b)
    BY <2>2, <2>4, <2>5, EndsOfJoin
  <2>7. /\ FirstOf(Join(a, Join(One(n), b))) = IF a = None THEN n ELSE FirstOf(a)
        /\ LastOf(Join(a, Join(One(n), b))) = IF b = None THEN n ELSE LastOf(b)
        /\ Join(a, Join(One(n), b)) # None
    BY <2>2, <2>4, <2>6, EndsOfJoin
  <2> QED
    BY <2>1, <2>2, <2>3, <2>7
<1>6. Pointer \subseteq S
  <2> HIDE DEF S
  <2> QED
    BY <1>4, <1>5, TreeInduction
<1> QED
  BY <1>1, <1>6 DEF Sequenced

\* Climbing goes to the node before and after a subtree.
LEMMA ClimbingNests ==
  ASSUME IInv, NoLoops(link)
  PROVE  Nested(InOrder, ClimbFrom("left"), ClimbFrom("right"))
<1>1. Sequenced(Node, link, InOrder) /\ InUse \in SUBSET Node /\ "left" \in Dir /\ "right" \in Dir
  BY InUseIsTree, InOrderFacts DEF InUseTree, Dir
<1>2. \A d \in Dir, n \in InUse :
         ClimbFrom(d)[n] = IF c_rbnode_parent(pf, n) # NULL /\ n = link[c_rbnode_parent(pf, n)][d]
                           THEN ClimbFrom(d)[c_rbnode_parent(pf, n)]
                           ELSE c_rbnode_parent(pf, n)
  BY <1>1, ClimbFacts
<1>3. ASSUME NEW p \in InUse, NEW d \in Dir, link[p][d] # NULL
      PROVE  \E x, y \in Nodes :
               /\ InOrder[p] = Join(x, Join(InOrder[link[p][d]], y))
               /\ ClimbFrom("left")[link[p][d]] = Before(x, ClimbFrom("left")[p])
               /\ ClimbFrom("right")[link[p][d]] = Behind(y, ClimbFrom("right")[p])
  <2> DEFINE c == link[p][d]
             a == InOrder[link[p]["left"]]
             b == InOrder[link[p]["right"]]
  <2>1. /\ c \in InUse /\ c_rbnode_parent(pf, c) = p /\ p # NULL /\ p \in Node
        /\ \A e \in Dir : link[p][e] = c => e = d
    BY <1>3, ChildOf, InUseFacts
  <2>2. link[p]["left"] \in Pointer /\ link[p]["right"] \in Pointer
    BY InUseIsTree DEF InUseTree, Dir, Pointer
  <2>3. InOrder[p] = Join(a, Join(One(p), b)) /\ a \in Nodes /\ b \in Nodes
    BY <1>1, <2>2 DEF Sequenced
  <2>4. ClimbFrom(d)[c] = ClimbFrom(d)[p]
    BY <1>2, <2>1
  <2>5. \A e \in Dir : e # d => ClimbFrom(e)[c] = p
    BY <1>2, <2>1
  <2>6. CASE d = "left"
    <3> DEFINE y == Join(One(p), b)
    <3>1. c = link[p]["left"] /\ InOrder[c] = a
      BY <2>6
    <3> HIDE DEF a, b, c
    <3>2. One(p) \in Nodes /\ y \in Nodes /\ Join(a, y) \in Nodes /\ None \in Nodes
      BY <2>1, <2>3, Joins
    <3>3. InOrder[p] = Join(None, Join(InOrder[c], y))
      BY <2>3, <3>1, <3>2, Joins
    <3>4. FirstOf(y) = p /\ y # None
      <4>1. One(p) # None /\ FirstOf(One(p)) = p
        BY <2>1, EndsExist
      <4> QED
        BY <2>3, <3>2, <4>1, EndsOfJoin
    <3>5. ClimbFrom("left")[c] = Before(None, ClimbFrom("left")[p])
      BY <2>4, <2>6 DEF Before
    <3>6. ClimbFrom("right")[c] = Behind(y, ClimbFrom("right")[p])
      BY <1>1, <2>5, <2>6, <3>4 DEF Behind
    <3> HIDE DEF y
    <3> QED
      BY <3>2, <3>3, <3>5, <3>6 DEF c
  <2>7. CASE d = "right"
    <3> DEFINE x == Join(a, One(p))
    <3>1. c = link[p]["right"] /\ InOrder[c] = b
      BY <2>7
    <3> HIDE DEF a, b, c
    <3>2. One(p) \in Nodes /\ x \in Nodes /\ Join(One(p), b) \in Nodes /\ None \in Nodes
      BY <2>1, <2>3, Joins
    <3>3. InOrder[p] = Join(x, Join(InOrder[c], None))
      <4>1. Join(x, b) = Join(a, Join(One(p), b)) /\ Join(b, None) = b
        BY <2>3, <3>2, Joins
      <4> QED
        BY <2>3, <3>1, <4>1
    <3>4. LastOf(x) = p /\ x # None
      <4>1. One(p) # None /\ LastOf(One(p)) = p
        BY <2>1, EndsExist
      <4> QED
        BY <2>3, <3>2, <4>1, EndsOfJoin
    <3>5. ClimbFrom("left")[c] = Before(x, ClimbFrom("left")[p])
      BY <1>1, <2>5, <2>7, <3>4 DEF Before
    <3>6. ClimbFrom("right")[c] = Behind(None, ClimbFrom("right")[p])
      BY <2>4, <2>7 DEF Behind
    <3> HIDE DEF x
    <3> QED
      BY <3>2, <3>3, <3>5, <3>6 DEF c
  <2> QED
    BY <2>6, <2>7 DEF Dir
<1>4. \A d \in Dir, n \in InUse : c_rbnode_parent(pf, n) = NULL => ClimbFrom(d)[n] = NULL
  BY <1>2
<1>5. InOrder \in [Pointer -> Nodes]
  BY <1>1 DEF Sequenced
<1> QED
  BY <1>1, <1>3, <1>4, <1>5 DEF Nested

\* c_rbnode_prev and c_rbnode_next as functions of the nodes in use.
PrevOf == [n \in InUse |-> c_rbnode_prev(n)]
NextOf == [n \in InUse |-> c_rbnode_next(n)]

\* They go to the node before and after a node.
LEMMA PrevAndNext ==
  ASSUME IInv, NoLoops(link)
  PROVE  Single(InOrder, ClimbFrom("left"), ClimbFrom("right"), PrevOf, NextOf)
<1>1. InUseTree /\ Sequenced(Node, link, InOrder)
  BY InUseIsTree, InOrderFacts DEF InUseTree
<1>2. \A x \in Pointer : /\ InOrder[x] \in Nodes
                         /\ InOrder[x] = None <=> x = NULL
                         /\ c_rbnode_leftmost(x) = FirstOf(InOrder[x])
                         /\ c_rbnode_rightmost(x) = LastOf(InOrder[x])
  BY <1>1, MostAreEnds DEF InUseTree
<1> SUFFICES ASSUME NEW n \in InUse
             PROVE  \E x, y \in Nodes :
                      /\ InOrder[n] = Join(x, Join(One(n), y))
                      /\ PrevOf[n] = Before(x, ClimbFrom("left")[n])
                      /\ NextOf[n] = Behind(y, ClimbFrom("right")[n])
  BY DEF Single
<1> DEFINE l == link[n]["left"]
           r == link[n]["right"]
<1>3. l \in Pointer /\ r \in Pointer /\ n \in Node /\ n # NULL
  BY <1>1 DEF InUseTree, Dir, Pointer
<1>4. InOrder[n] = Join(InOrder[l], Join(One(n), InOrder[r]))
  BY <1>1, <1>3 DEF Sequenced
<1>5. Linked(n)
  BY <1>3, CallsAreSafe DEF CallsSafe, Linked
<1>6. PrevOf[n] = IF l # NULL THEN c_rbnode_rightmost(l) ELSE ClimbFrom("left")[n]
  BY <1>5 DEF PrevOf, c_rbnode_prev
<1>7. NextOf[n] = IF r # NULL THEN c_rbnode_leftmost(r) ELSE ClimbFrom("right")[n]
  BY <1>5 DEF NextOf, c_rbnode_next
<1> HIDE DEF l, r
<1>8. PrevOf[n] = Before(InOrder[l], ClimbFrom("left")[n])
  BY <1>2, <1>3, <1>6 DEF Before
<1>9. NextOf[n] = Behind(InOrder[r], ClimbFrom("right")[n])
  BY <1>2, <1>3, <1>7 DEF Behind
<1> QED
  BY <1>2, <1>3, <1>4, <1>8, <1>9

\* So they step through the tree.
LEMMA StepsInOrder ==
  ASSUME IInv, NoLoops(link)
  PROVE  TraversesInOrder
<1>1. InUseTree /\ Sequenced(Node, link, InOrder) /\ Sequenced(InUse, link, InOrder)
  BY InUseIsTree, InOrderFacts DEF InUseTree, Sequenced
<1>2. Spans(InUse, link, InOrder)
  BY <1>1, SequencedSpans
<1>3. \A x \in InUse \cup {NULL} : Distinct(InOrder[x])
  BY <1>1, <1>2, NoneTwice DEF Sequenced
<1>4. ASSUME NEW t \in Tree
      PROVE  /\ c_rbtree_first(t) = At(InOrder[link[t]["root"]], 1)
             /\ c_rbtree_last(t) = At(InOrder[link[t]["root"]], Len(InOrder[link[t]["root"]]))
  <2>1. link[t]["root"] \in Pointer /\ link \in Memory /\ LoopFree(link)
    BY <1>1 DEF InUseTree, Pointer
  <2> QED
    BY <2>1, MostAreEnds DEF c_rbtree_first, c_rbtree_last, FirstOf, LastOf
<1>5. ASSUME NEW t \in Tree, NEW i \in 1 .. Len(InOrder[link[t]["root"]])
      PROVE  /\ c_rbnode_next(InOrder[link[t]["root"]][i]) = At(InOrder[link[t]["root"]], i + 1)
             /\ c_rbnode_prev(InOrder[link[t]["root"]][i]) = At(InOrder[link[t]["root"]], i - 1)
  <2>1. Distinct(InOrder[link[t]["root"]])
    BY <1>1, <1>3 DEF InUseTree
  <2>2. /\ InOrder[link[t]["root"]][i] \in InUse
        /\ PrevOf[InOrder[link[t]["root"]][i]] = At(InOrder[link[t]["root"]], i - 1)
        /\ NextOf[InOrder[link[t]["root"]][i]] = At(InOrder[link[t]["root"]], i + 1)
    BY <1>2, <2>1, ClimbingNests, PrevAndNext, Stepping
  <2> QED
    BY <2>2 DEF PrevOf, NextOf
<1> QED
  BY <1>4, <1>5 DEF TraversesInOrder, Traverses

\* Between calls c_rbtree_first, c_rbnode_next, c_rbtree_last and c_rbnode_prev
\* visit the nodes of every tree in its linear order, forwards and backwards.
THEOREM TraversesForwardsAndBackwards == Spec => []TraversesInOrder
<1>1. IInv /\ NoLoops(link) => TraversesInOrder
  BY StepsInOrder
<1> QED
  BY <1>1, Invariance, FieldsMakeNoLoops, PTL

-----------------------------------------------------------------------------
(* In post-order *)

\* The deepest functions reach the ends of a subtree in post-order and in
\* pre-order.
LEMMA DeepestAreEnds ==
  ASSUME LoopFree(link), link \in Memory
  PROVE  \A x \in Pointer : /\ PostOrder[x] \in Nodes /\ PreOrder[x] \in Nodes
                            /\ PostOrder[x] = None <=> x = NULL
                            /\ c_rbnode_leftdeepest(x) = FirstOf(PostOrder[x])
                            /\ x = LastOf(PostOrder[x])
                            /\ c_rbnode_rightdeepest(x) = LastOf(PreOrder[x])
<1> DEFINE S == {x \in Pointer : /\ PostOrder[x] = None <=> x = NULL
                                 /\ PreOrder[x] = None <=> x = NULL
                                 /\ c_rbnode_leftdeepest(x) = FirstOf(PostOrder[x])
                                 /\ x = LastOf(PostOrder[x])
                                 /\ c_rbnode_rightdeepest(x) = LastOf(PreOrder[x])}
<1>1. /\ PostOrder \in [Pointer -> Nodes] /\ PostOrder[NULL] = None
      /\ \A n \in Node :
           PostOrder[n] = Join(PostOrder[link[n]["left"]], Join(PostOrder[link[n]["right"]], One(n)))
  BY PostOrderFacts
<1>2. /\ PreOrder \in [Pointer -> Nodes] /\ PreOrder[NULL] = None
      /\ \A n \in Node :
           PreOrder[n] = Join(One(n), Join(PreOrder[link[n]["left"]], PreOrder[link[n]["right"]]))
  BY PreOrderFacts
<1>3. "left" \in Dir /\ "right" \in Dir /\ Other("left") = "right" /\ Other("right") = "left"
  BY DEF Dir, Other
<1>4. \A x \in Pointer :
        /\ c_rbnode_leftdeepest(x) =
             IF x = NULL THEN x
             ELSE IF link[x]["left"] # NULL THEN c_rbnode_leftdeepest(link[x]["left"])
             ELSE IF link[x]["right"] # NULL THEN c_rbnode_leftdeepest(link[x]["right"])
             ELSE x
        /\ c_rbnode_rightdeepest(x) =
             IF x = NULL THEN x
             ELSE IF link[x]["right"] # NULL THEN c_rbnode_rightdeepest(link[x]["right"])
             ELSE IF link[x]["left"] # NULL THEN c_rbnode_rightdeepest(link[x]["left"])
             ELSE x
  <2>1. \A x \in Pointer :
          c_rbnode_deepest("left")[x] =
             IF x = NULL THEN x
             ELSE IF link[x]["left"] # NULL THEN c_rbnode_deepest("left")[link[x]["left"]]
             ELSE IF link[x]["right"] # NULL THEN c_rbnode_deepest("left")[link[x]["right"]]
             ELSE x
    BY <1>3, DeepestFacts
  <2>2. \A x \in Pointer :
          c_rbnode_deepest("right")[x] =
             IF x = NULL THEN x
             ELSE IF link[x]["right"] # NULL THEN c_rbnode_deepest("right")[link[x]["right"]]
             ELSE IF link[x]["left"] # NULL THEN c_rbnode_deepest("right")[link[x]["left"]]
             ELSE x
    BY <1>3, DeepestFacts
  <2> QED
    BY <2>1, <2>2 DEF c_rbnode_leftdeepest, c_rbnode_rightdeepest
<1>5. NULL \in S
  BY <1>1, <1>2, <1>4, EndsExist DEF Pointer
<1>6. ASSUME NEW n \in Node, link[n]["left"] \in S, link[n]["right"] \in S
      PROVE  n \in S
  <2> DEFINE l == link[n]["left"]
             r == link[n]["right"]
  <2>1. n \in Pointer /\ n # NULL /\ l \in Pointer /\ r \in Pointer
    BY <1>6, DistinctAddresses DEF Pointer
  <2>2. /\ PostOrder[l] = None <=> l = NULL
        /\ PostOrder[r] = None <=> r = NULL
        /\ PreOrder[l] = None <=> l = NULL
        /\ PreOrder[r] = None <=> r = NULL
        /\ c_rbnode_leftdeepest(l) = FirstOf(PostOrder[l])
        /\ c_rbnode_leftdeepest(r) = FirstOf(PostOrder[r])
        /\ c_rbnode_rightdeepest(l) = LastOf(PreOrder[l])
        /\ c_rbnode_rightdeepest(r) = LastOf(PreOrder[r])
    BY <1>6
  <2>3. One(n) \in Nodes /\ One(n) # None /\ FirstOf(One(n)) = n /\ LastOf(One(n)) = n
    BY EndsExist, Joins
  <2>4. /\ PostOrder[n] # None
        /\ LastOf(PostOrder[n]) = n
        /\ FirstOf(PostOrder[n]) = IF PostOrder[l] = None
                                   THEN IF PostOrder[r] = None THEN n ELSE FirstOf(PostOrder[r])
                                   ELSE FirstOf(PostOrder[l])
    <3> DEFINE a == PostOrder[l]
               b == PostOrder[r]
    <3>1. PostOrder[n] = Join(a, Join(b, One(n))) /\ a \in Nodes /\ b \in Nodes
      BY <1>1, <2>1
    <3> HIDE DEF a, b
    <3>2. /\ Join(b, One(n)) \in Nodes /\ Join(b, One(n)) # None
          /\ LastOf(Join(b, One(n))) = n
          /\ FirstOf(Join(b, One(n))) = IF b = None THEN n ELSE FirstOf(b)
      BY <2>3, <3>1, Joins, EndsOfJoin
    <3>3. /\ PostOrder[n] # None /\ LastOf(PostOrder[n]) = n
          /\ FirstOf(PostOrder[n]) = IF a = None THEN IF b = None THEN n ELSE FirstOf(b) ELSE FirstOf(a)
      BY <3>1, <3>2, EndsOfJoin
    <3> QED
      BY <3>3 DEF a, b
  <2>5. /\ PreOrder[n] # None
        /\ LastOf(PreOrder[n]) = IF PreOrder[r] = None
                                 THEN IF PreOrder[l] = None THEN n ELSE LastOf(PreOrder[l])
                                 ELSE LastOf(PreOrder[r])
    <3> DEFINE a == PreOrder[l]
               b == PreOrder[r]
    <3>1. PreOrder[n] = Join(One(n), Join(a, b)) /\ a \in Nodes /\ b \in Nodes
      BY <1>2, <2>1
    <3> HIDE DEF a, b
    <3>2. /\ Join(a, b) \in Nodes
          /\ LastOf(Join(a, b)) = IF b = None THEN LastOf(a) ELSE LastOf(b)
          /\ Join(a, b) = None <=> a = None /\ b = None
      BY <3>1, Joins, EndsOfJoin
    <3>3. /\ PreOrder[n] # None
          /\ LastOf(PreOrder[n]) = IF Join(a, b) = None THEN n ELSE LastOf(Join(a, b))
      BY <2>3, <3>1, <3>2, EndsOfJoin
    <3>4. LastOf(PreOrder[n]) = IF b = None THEN IF a = None THEN n ELSE LastOf(a) ELSE LastOf(b)
      BY <3>2, <3>3
    <3> QED
      BY <3>3, <3>4 DEF a, b
  <2>6. /\ c_rbnode_leftdeepest(n) = IF l # NULL THEN c_rbnode_leftdeepest(l)
                                     ELSE IF r # NULL THEN c_rbnode_leftdeepest(r) ELSE n
        /\ c_rbnode_rightdeepest(n) = IF r # NULL THEN c_rbnode_rightdeepest(r)
                                      ELSE IF l # NULL THEN c_rbnode_rightdeepest(l) ELSE n
    BY <1>4, <2>1
  <2> HIDE DEF l, r
  <2> QED
    BY <2>1, <2>2, <2>4, <2>5, <2>6
<1>7. Pointer \subseteq S
  <2> HIDE DEF S
  <2> QED
    BY <1>5, <1>6, TreeInduction
<1> QED
  BY <1>1, <1>2, <1>7

\* c_rbnode_prev_postorder and c_rbnode_next_postorder as functions of the nodes
\* in use.
PrevPostorderOf == [n \in InUse |-> c_rbnode_prev_postorder(n)]
NextPostorderOf == [n \in InUse |-> c_rbnode_next_postorder(n)]

\* What they are on nodes in use.
LEMMA PostorderSteps ==
  ASSUME IInv, NEW n \in InUse
  PROVE  /\ NextPostorderOf[n] =
              IF /\ c_rbnode_parent(pf, n) # NULL
                 /\ n = link[c_rbnode_parent(pf, n)]["left"]
                 /\ link[c_rbnode_parent(pf, n)]["right"] # NULL
              THEN c_rbnode_leftdeepest(link[c_rbnode_parent(pf, n)]["right"])
              ELSE c_rbnode_parent(pf, n)
         /\ PrevPostorderOf[n] =
              IF link[n]["right"] # NULL THEN link[n]["right"]
              ELSE IF link[n]["left"] # NULL THEN link[n]["left"]
              ELSE LeftSiblingFrom[n]
<1>1. Linked(n)
  BY CallsAreSafe, InUseFacts DEF CallsSafe, Linked
<1> QED
  BY <1>1 DEF NextPostorderOf, PrevPostorderOf, c_rbnode_next_postorder, c_rbnode_prev_postorder

\* The nodes before and after a subtree in post-order.
LEMMA SiblingsNest ==
  ASSUME IInv, NoLoops(link)
  PROVE  Nested(PostOrder, LeftSiblingFrom, NextPostorderOf)
<1>1. InUseTree
  BY InUseIsTree
<1>2. /\ PostOrder \in [Pointer -> Nodes]
      /\ \A n \in Node :
           PostOrder[n] = Join(PostOrder[link[n]["left"]], Join(PostOrder[link[n]["right"]], One(n)))
  BY <1>1, PostOrderFacts DEF InUseTree
<1>3. \A x \in Pointer : /\ PostOrder[x] = None <=> x = NULL
                         /\ c_rbnode_leftdeepest(x) = FirstOf(PostOrder[x])
                         /\ x = LastOf(PostOrder[x])
  BY <1>1, DeepestAreEnds DEF InUseTree
<1>4. ASSUME NEW n \in InUse, c_rbnode_parent(pf, n) = NULL
      PROVE  LeftSiblingFrom[n] = NULL /\ NextPostorderOf[n] = NULL
  BY <1>4, SiblingFacts, PostorderSteps
<1>5. ASSUME NEW p \in InUse, NEW d \in Dir, link[p][d] # NULL
      PROVE  \E x, y \in Nodes :
               /\ PostOrder[p] = Join(x, Join(PostOrder[link[p][d]], y))
               /\ LeftSiblingFrom[link[p][d]] = Before(x, LeftSiblingFrom[p])
               /\ NextPostorderOf[link[p][d]] = Behind(y, NextPostorderOf[p])
  <2> DEFINE c == link[p][d]
             l == link[p]["left"]
             r == link[p]["right"]
  <2>1. /\ c \in InUse /\ c_rbnode_parent(pf, c) = p /\ p # NULL /\ p \in Node
        /\ \A e \in Dir : link[p][e] = c => e = d
    BY <1>5, ChildOf, InUseFacts
  <2>2. l \in Pointer /\ r \in Pointer
    BY <1>1 DEF InUseTree, Dir, Pointer
  <2>3. /\ PostOrder[p] = Join(PostOrder[l], Join(PostOrder[r], One(p)))
        /\ PostOrder[l] \in Nodes /\ PostOrder[r] \in Nodes
    BY <1>2, <2>1, <2>2
  <2>4. LeftSiblingFrom[c] = IF l # NULL /\ c # l THEN l ELSE LeftSiblingFrom[p]
    BY <2>1, SiblingFacts
  <2>5. NextPostorderOf[c] = IF c = l /\ r # NULL THEN c_rbnode_leftdeepest(r) ELSE p
    BY <2>1, PostorderSteps
  <2>6. One(p) \in Nodes /\ One(p) # None /\ FirstOf(One(p)) = p /\ None \in Nodes
    BY <2>1, EndsExist, Joins
  <2>7. CASE d = "left"
    <3> DEFINE y == Join(PostOrder[r], One(p))
    <3>1. c = l
      BY <2>7
    <3> HIDE DEF c, l, r
    <3>2. y \in Nodes /\ Join(PostOrder[l], y) \in Nodes
      BY <2>3, <2>6, Joins
    <3>3. PostOrder[p] = Join(None, Join(PostOrder[c], y))
      BY <2>3, <3>1, <3>2, Joins
    <3>4. FirstOf(y) = (IF r = NULL THEN p ELSE c_rbnode_leftdeepest(r)) /\ y # None
      <4>1. /\ FirstOf(y) = IF PostOrder[r] = None THEN FirstOf(One(p)) ELSE FirstOf(PostOrder[r])
            /\ y # None
        BY <2>3, <2>6, EndsOfJoin
      <4> QED
        BY <1>3, <2>2, <2>6, <4>1
    <3>5. LeftSiblingFrom[c] = Before(None, LeftSiblingFrom[p])
      BY <2>4, <3>1 DEF Before
    <3>6. NextPostorderOf[c] = Behind(y, NextPostorderOf[p])
      BY <2>5, <3>1, <3>4 DEF Behind
    <3> HIDE DEF y
    <3> QED
      BY <2>6, <3>2, <3>3, <3>5, <3>6 DEF c
  <2>8. CASE d = "right"
    <3>1. c = r /\ c # l
      BY <2>1, <2>8 DEF Dir
    <3> HIDE DEF c, l, r
    <3>2. PostOrder[p] = Join(PostOrder[l], Join(PostOrder[c], One(p)))
      BY <2>3, <3>1
    <3>3. LeftSiblingFrom[c] = Before(PostOrder[l], LeftSiblingFrom[p])
      BY <1>3, <2>2, <2>4, <3>1 DEF Before
    <3>4. NextPostorderOf[c] = Behind(One(p), NextPostorderOf[p])
      BY <2>5, <2>6, <3>1 DEF Behind
    <3> QED
      BY <2>3, <2>6, <3>2, <3>3, <3>4 DEF c
  <2> QED
    BY <2>7, <2>8 DEF Dir
<1> QED
  BY <1>2, <1>4, <1>5 DEF Nested

\* The nodes before and after a node in post-order.
LEMMA PostorderNeighbours ==
  ASSUME IInv, NoLoops(link)
  PROVE  Single(PostOrder, LeftSiblingFrom, NextPostorderOf, PrevPostorderOf, NextPostorderOf)
<1>1. InUseTree
  BY InUseIsTree
<1>2. /\ PostOrder \in [Pointer -> Nodes]
      /\ \A n \in Node :
           PostOrder[n] = Join(PostOrder[link[n]["left"]], Join(PostOrder[link[n]["right"]], One(n)))
  BY <1>1, PostOrderFacts DEF InUseTree
<1>3. \A x \in Pointer : (PostOrder[x] = None <=> x = NULL) /\ x = LastOf(PostOrder[x])
  BY <1>1, DeepestAreEnds DEF InUseTree
<1> SUFFICES ASSUME NEW n \in InUse
             PROVE  \E x, y \in Nodes :
                      /\ PostOrder[n] = Join(x, Join(One(n), y))
                      /\ PrevPostorderOf[n] = Before(x, LeftSiblingFrom[n])
                      /\ NextPostorderOf[n] = Behind(y, NextPostorderOf[n])
  BY DEF Single
<1> DEFINE l == link[n]["left"]
           r == link[n]["right"]
           x == Join(PostOrder[l], PostOrder[r])
<1>4. l \in Pointer /\ r \in Pointer /\ n \in Node
  BY <1>1 DEF InUseTree, Dir, Pointer
<1>5. /\ PostOrder[n] = Join(PostOrder[l], Join(PostOrder[r], One(n)))
      /\ PostOrder[l] \in Nodes /\ PostOrder[r] \in Nodes
  BY <1>2, <1>4
<1>6. PrevPostorderOf[n] = IF r # NULL THEN r ELSE IF l # NULL THEN l ELSE LeftSiblingFrom[n]
  BY PostorderSteps
<1> HIDE DEF l, r
<1>7. None \in Nodes /\ One(n) \in Nodes /\ x \in Nodes
  BY <1>4, <1>5, Joins
<1>8. PostOrder[n] = Join(x, Join(One(n), None))
  <2>1. Join(One(n), None) = One(n) /\ Join(x, One(n)) = Join(PostOrder[l], Join(PostOrder[r], One(n)))
    BY <1>5, <1>7, Joins
  <2> QED
    BY <1>5, <2>1
<1>9. PrevPostorderOf[n] = Before(x, LeftSiblingFrom[n])
  <2>1. /\ LastOf(x) = IF PostOrder[r] = None THEN LastOf(PostOrder[l]) ELSE LastOf(PostOrder[r])
        /\ x = None => PostOrder[l] = None /\ PostOrder[r] = None
    BY <1>5, EndsOfJoin
  <2>2. Join(None, None) = None
    BY Joins
  <2> QED
    BY <1>3, <1>4, <1>6, <2>1, <2>2 DEF Before
<1>10. NextPostorderOf[n] = Behind(None, NextPostorderOf[n])
  BY DEF Behind
<1> HIDE DEF x
<1> QED
  BY <1>7, <1>8, <1>9, <1>10

\* Post-order has the nodes below each node, none of them twice.
LEMMA PostOrderSpans ==
  ASSUME IInv, NoLoops(link)
  PROVE  Spans(InUse, link, PostOrder) /\ \A x \in InUse \cup {NULL} : Distinct(PostOrder[x])
<1>1. InUseTree
  BY InUseIsTree
<1>2. /\ PostOrder \in [Pointer -> Nodes] /\ PostOrder[NULL] = None
      /\ \A n \in Node :
           PostOrder[n] = Join(PostOrder[link[n]["left"]], Join(PostOrder[link[n]["right"]], One(n)))
  BY <1>1, PostOrderFacts DEF InUseTree
<1>3. ASSUME NEW n \in InUse
      PROVE  Range(PostOrder[n]) = Range(PostOrder[link[n]["left"]]) \cup {n}
                                     \cup Range(PostOrder[link[n]["right"]])
  <2> DEFINE a == PostOrder[link[n]["left"]]
             b == PostOrder[link[n]["right"]]
  <2>1. n \in Node /\ link[n]["left"] \in Pointer /\ link[n]["right"] \in Pointer
    BY <1>1 DEF InUseTree, Dir, Pointer
  <2>2. PostOrder[n] = Join(a, Join(b, One(n))) /\ a \in Nodes /\ b \in Nodes
    BY <1>2, <2>1
  <2> HIDE DEF a, b
  <2>3. One(n) \in Nodes /\ Join(b, One(n)) \in Nodes
    BY <2>1, <2>2, Joins
  <2>4. Range(Join(b, One(n))) = Range(b) \cup {n}
    <3>1. Range(Join(b, One(n))) = Range(b) \cup Range(One(n)) /\ Range(One(n)) = {n}
      BY <2>1, <2>2, <2>3, RangeFacts
    <3> QED
      BY <3>1
  <2>5. Range(PostOrder[n]) = Range(a) \cup Range(Join(b, One(n)))
    BY <2>2, <2>3, RangeFacts
  <2> QED
    BY <2>4, <2>5 DEF a, b
<1>4. Spans(InUse, link, PostOrder)
  BY <1>2, <1>3 DEF Spans
<1>5. \A x \in InUse \cup {NULL} : Distinct(PostOrder[x])
  BY <1>1, <1>2, <1>4, NoneTwice DEF InUseTree
<1> QED
  BY <1>4, <1>5

\* So they step through the tree.
LEMMA StepsInPostOrder ==
  ASSUME IInv, NoLoops(link)
  PROVE  TraversesPostOrder
<1>1. InUseTree
  BY InUseIsTree
<1>2. Spans(InUse, link, PostOrder)
  BY PostOrderSpans
<1>3. \A x \in InUse \cup {NULL} : Distinct(PostOrder[x])
  BY PostOrderSpans
<1>4. ASSUME NEW t \in Tree
      PROVE  /\ c_rbtree_first_postorder(t) = At(PostOrder[link[t]["root"]], 1)
             /\ c_rbtree_last_postorder(t)
                  = At(PostOrder[link[t]["root"]], Len(PostOrder[link[t]["root"]]))
  <2>1. link[t]["root"] \in Pointer /\ link \in Memory /\ LoopFree(link)
    BY <1>1 DEF InUseTree, Pointer
  <2>2. /\ c_rbnode_leftdeepest(link[t]["root"]) = FirstOf(PostOrder[link[t]["root"]])
        /\ link[t]["root"] = LastOf(PostOrder[link[t]["root"]])
    BY <2>1, DeepestAreEnds
  <2> QED
    BY <2>2 DEF c_rbtree_first_postorder, c_rbtree_last_postorder, FirstOf, LastOf
<1>5. ASSUME NEW t \in Tree, NEW i \in 1 .. Len(PostOrder[link[t]["root"]])
      PROVE  /\ c_rbnode_next_postorder(PostOrder[link[t]["root"]][i])
                  = At(PostOrder[link[t]["root"]], i + 1)
             /\ c_rbnode_prev_postorder(PostOrder[link[t]["root"]][i])
                  = At(PostOrder[link[t]["root"]], i - 1)
  <2>1. Distinct(PostOrder[link[t]["root"]])
    BY <1>1, <1>3 DEF InUseTree
  <2>2. /\ PostOrder[link[t]["root"]][i] \in InUse
        /\ PrevPostorderOf[PostOrder[link[t]["root"]][i]] = At(PostOrder[link[t]["root"]], i - 1)
        /\ NextPostorderOf[PostOrder[link[t]["root"]][i]] = At(PostOrder[link[t]["root"]], i + 1)
    BY <1>2, <2>1, SiblingsNest, PostorderNeighbours, Stepping
  <2> QED
    BY <2>2 DEF PrevPostorderOf, NextPostorderOf
<1> QED
  BY <1>4, <1>5 DEF TraversesPostOrder, Traverses

\* Between calls c_rbtree_first_postorder, c_rbnode_next_postorder and their
\* counterparts visit the nodes of every tree in post-order, forwards and
\* backwards: a node never before its children.
THEOREM TraversesChildrenFirst == Spec => []TraversesPostOrder
<1>1. IInv /\ NoLoops(link) => TraversesPostOrder
  BY StepsInPostOrder
<1> QED
  BY <1>1, Invariance, FieldsMakeNoLoops, PTL

\* From every node in a tree the most and deepest functions reach the ends of
\* the node's subtree.
THEOREM SubtreeEndsReached == Spec => []SubtreeEnds
<1>1. IInv /\ NoLoops(link) => SubtreeEnds
  <2> SUFFICES ASSUME IInv, NoLoops(link)
               PROVE  SubtreeEnds
    OBVIOUS
  <2>1. LoopFree(link) /\ link \in Memory /\ InUse \subseteq Pointer
    BY InUseIsTree DEF InUseTree, Pointer
  <2> QED
    BY <2>1, MostAreEnds, DeepestAreEnds DEF SubtreeEnds, FirstOf, LastOf
<1> QED
  BY <1>1, Invariance, FieldsMakeNoLoops, PTL

\* From NULL and from a node in no tree that was not removed with
\* c_rbnode_unlink_stale, every step function returns NULL.
THEOREM NoStepFromUnlinked == Spec => []StepsFromUnlinked
<1>1. IInv => StepsFromUnlinked
  <2> SUFFICES ASSUME IInv
               PROVE  StepsFromUnlinked
    OBVIOUS
  <2>1. \A n \in (Node \ (InUse \cup stale)) \cup {NULL} : ~Linked(n)
    <3>1. ASSUME NEW n \in Node \ (InUse \cup stale)
          PROVE  ~c_rbnode_is_linked(pf, n)
      BY FlagTells
    <3> QED
      BY <3>1 DEF Linked
  <2> QED
    BY <2>1 DEF StepsFromUnlinked, c_rbnode_next, c_rbnode_prev,
                c_rbnode_next_postorder, c_rbnode_prev_postorder
<1> QED
  BY <1>1, Invariance, PTL

-----------------------------------------------------------------------------
(* Where a new node goes *)

IndexIn(q, n) == CHOOSE i \in 1 .. Len(q) : q[i] = n

\* A node between a and b has one index.
LEMMA IndexOfNode ==
  ASSUME NEW n \in Node, NEW a \in Nodes, NEW b \in Nodes, NEW q,
         q = Join(a, Join(One(n), b)), Distinct(q)
  PROVE  IndexIn(q, n) = Len(a) + 1
<1> DEFINE i == Len(a) + 1
<1>1. i \in 1 .. Len(q) /\ q[i] = n
  BY NodeAt DEF Placed
<1>2. \A j \in 1 .. Len(q) : q[j] = n => j = i
  BY <1>1 DEF Distinct
<1> HIDE DEF i
<1>3. IndexIn(q, n) = i
  BY <1>1, <1>2 DEF IndexIn
<1> QED
  BY <1>3 DEF i

\* A node put beside its parent has the index before or after it.
LEMMA IndexBeside ==
  ASSUME NEW n \in Node, NEW p \in Node, NEW d \in Dir, NEW q, NEW r,
         Replaced(One(p), Beside(d, n, p), q, r), Distinct(r)
  PROVE  IndexIn(r, n) = IndexIn(r, p) + (IF d = "left" THEN -1 ELSE 1)
<1>1. PICK a \in Nodes, b \in Nodes : r = Join(a, Join(Beside(d, n, p), b))
  BY DEF Replaced
<1>2. Len(a) \in Nat /\ One(n) \in Nodes /\ One(p) \in Nodes /\ Len(One(n)) = 1 /\ Len(One(p)) = 1
  BY Joins, EndsExist
<1>3. ASSUME NEW x \in Node, NEW y \in Node, Beside(d, n, p) = Join(One(x), One(y)),
             One(x) \in Nodes, One(y) \in Nodes, Len(One(x)) = 1
      PROVE  IndexIn(r, x) = Len(a) + 1 /\ IndexIn(r, y) = Len(a) + 2
  <2>1. Join(One(y), b) \in Nodes /\ Join(a, One(x)) \in Nodes
    BY <1>3, Joins
  <2>2. r = Join(a, Join(One(x), Join(One(y), b)))
    BY <1>1, <1>3, Joins
  <2>3. r = Join(Join(a, One(x)), Join(One(y), b))
    BY <1>3, <2>1, <2>2, Joins
  <2>4. Len(Join(a, One(x))) = Len(a) + 1
    BY <1>3, AtJoin, 1 \in Int
  <2>5. IndexIn(r, x) = Len(a) + 1
    BY <2>1, <2>2, IndexOfNode
  <2>6. IndexIn(r, y) = Len(Join(a, One(x))) + 1
    BY <2>1, <2>3, IndexOfNode
  <2> QED
    BY <1>2, <2>4, <2>5, <2>6
<1>4. CASE d = "left"
  <2>1. Beside(d, n, p) = Join(One(n), One(p))
    BY <1>4 DEF Beside
  <2>2. IndexIn(r, n) = Len(a) + 1 /\ IndexIn(r, p) = Len(a) + 2
    BY <1>2, <1>3, <2>1
  <2> QED
    BY <1>2, <1>4, <2>2
<1>5. CASE d # "left"
  <2>1. Beside(d, n, p) = Join(One(p), One(n))
    BY <1>5 DEF Beside
  <2>2. IndexIn(r, p) = Len(a) + 1 /\ IndexIn(r, n) = Len(a) + 2
    BY <1>2, <1>3, <2>1
  <2> QED
    BY <1>2, <1>5, <2>2
<1> QED
  BY <1>4, <1>5

\* No order has a node twice.
OrdersDistinct == \A t \in Tree : Distinct(Orders[t])

\* The invariant says it in every state.
LEMMA OrdersAreDistinct ==
  ASSUME IInv, NoLoops(link)
  PROVE  OrdersDistinct
<1>1. InUseTree /\ Sequenced(InUse, link, InOrder)
  BY InUseIsTree, InOrderFacts DEF InUseTree, Sequenced
<1>2. \A x \in InUse \cup {NULL} : Distinct(InOrder[x])
  BY <1>1, SequencedSpans, NoneTwice DEF Sequenced
<1> QED
  BY <1>1, <1>2 DEF OrdersDistinct, Orders, InUseTree

\* c_rbnode_link puts a node directly before or after its parent, as the
\* field it is linked in says.
THEOREM LinksNextToParent == Spec => LinkedNextToParent
<1> DEFINE I == IInv /\ NoLoops(link)
           K == OrdersKnown /\ OrdersDistinct
           NextToParent == \A p, n \in Node, d \in Dir :
                       Link(p, d, n) =>
                         Index(owner[p], n)' = Index(owner[p], p)' + (IF d = "left" THEN -1 ELSE 1)
<1>1. I => K
  BY OrdersAreKnown, OrdersAreDistinct
<1>2. I /\ K /\ K' => NextToParent
  <2>1. SUFFICES ASSUME IInv, NoLoops(link), OrdersKnown, OrdersKnown', OrdersDistinct',
                        NEW p \in Node, NEW n \in Node, NEW d \in Dir, Link(p, d, n)
                 PROVE  Index(owner[p], n)' = Index(owner[p], p)' + (IF d = "left" THEN -1 ELSE 1)
    OBVIOUS
  <2> DEFINE t == owner[p]
             r == Orders'[t]
  <2>2. OneReplaced(t, One(p), Beside(d, n, p), InOrder, link, InOrder', link')
    BY LinkChanges, <2>1 DEF OrdersKnown
  <2>3. t \in Tree /\ Replaced(One(p), Beside(d, n, p), Orders[t], r)
    BY <2>1, <2>2, OneOrderChanges
  <2>4. Distinct(r)
    BY <2>1, <2>3 DEF OrdersDistinct
  <2>5. owner'[p] = t
    BY <2>1 DEF Link
  <2>6. IndexIn(r, n) = IndexIn(r, p) + (IF d = "left" THEN -1 ELSE 1)
    BY <2>3, <2>4, IndexBeside
  <2>7. Index(owner[p], n)' = IndexIn(r, n) /\ Index(owner[p], p)' = IndexIn(r, p)
    BY <2>5 DEF Index, IndexIn
  <2> QED
    BY <2>6, <2>7
<1>3. Spec => []I
  BY Invariance, FieldsMakeNoLoops, PTL
<1>4. [Next]_vars /\ I /\ K /\ K' => [NextToParent]_vars
  BY <1>2
<1> HIDE DEF I, K
<1>5. LinkedNextToParent <=> [][NextToParent]_vars
  BY DEF LinkedNextToParent
<1> HIDE DEF NextToParent
<1> QED
  BY <1>1, <1>3, <1>4, <1>5, PTL DEF Spec
=============================================================================
