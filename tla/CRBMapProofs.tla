---------------------------- MODULE CRBMapProofs ----------------------------
(***************************************************************************)
(* Lookups in a tree that is modified, for any number of nodes, trees and  *)
(* readers.                                                                *)
(*                                                                         *)
(* Without a lock: the stores of each function lead, one by one and        *)
(* without a loop on the way, to the memory the function produces.  That   *)
(* no memory has a loop is then used for what follows, the order of the    *)
(* keys: no rotation, splice or insertion breaks it, so the searches of    *)
(* c-rbtree.h find every key that is there and refuse it a second place.   *)
(***************************************************************************)
EXTENDS CRBLockless, CRBTreeProofs, SequenceTheorems, FiniteSetTheorems

-----------------------------------------------------------------------------
(* Sequences of stores *)

\* Stores of nodes of V, or of NULL.
StoreOf(V) == [obj : Node \cup Tree, field : Side, val : V \cup {NULL}]

\* Memory m when store s is visible.
Stored(m, s) == Put(m, s.obj, s.field, s.val)

\* st is a and then r.
Follows(st, a, r) ==
  Len(st) = Len(r) + 1 /\ st[1] = a /\ \A i \in 1 .. Len(r) : st[i + 1] = r[i]

\* The memories on the way from m to l, none of them with a loop.
Path(m, st, l) ==
  \E mem \in [0 .. Len(st) -> Memory] :
    /\ mem[0] = m /\ mem[Len(st)] = l
    /\ \A i \in 0 .. Len(st) : NoLoops(mem[i])
    /\ \A i \in 1 .. Len(st) : mem[i] = Stored(mem[i - 1], st[i])

StoresTo(st, x, s) == {i \in 1 .. Len(st) : st[i].obj = x /\ st[i].field = s}

\* Each field of l holds what was last stored to it.
Produces(m, st, l) ==
  \A x \in Node \cup Tree, s \in Side :
    \/ StoresTo(st, x, s) = {} /\ m[x][s] = l[x][s]
    \/ \E i \in StoresTo(st, x, s) : /\ \A j \in StoresTo(st, x, s) : j <= i
                                     /\ st[i].val = l[x][s]

\* The stores st of nodes of V lead from m to l.
Leads(V, m, st, l) == st \in Seq(StoreOf(V)) /\ Path(m, st, l) /\ Produces(m, st, l)

\* Making a store visible.
LEMMA StoredFacts ==
  ASSUME NEW m \in Memory, NEW V \in SUBSET Node, NEW a \in StoreOf(V)
  PROVE  /\ a.obj \in Node \cup Tree /\ a.field \in Side /\ a.val \in Pointer
         /\ Stored(m, a) \in Memory
         /\ \A n \in Node \cup Tree, s \in Side :
              Stored(m, a)[n][s] = IF n = a.obj /\ s = a.field THEN a.val ELSE m[n][s]
<1>1. a.obj \in Node \cup Tree /\ a.field \in Side /\ a.val \in Pointer
  BY DEF StoreOf, Pointer
<1> QED
  BY <1>1, PutFacts DEF Stored

\* No store, no change.
LEMMA LeadsNowhere ==
  ASSUME NEW m \in Memory, NoLoops(m), NEW V \in SUBSET Node
  PROVE  Leads(V, m, <<>>, m)
<1>1. Path(m, <<>>, m)
  <2> DEFINE mem == [i \in 0 .. 0 |-> m]
  <2>1. mem \in [0 .. Len(<<>>) -> Memory] /\ mem[0] = m /\ mem[Len(<<>>)] = m
    OBVIOUS
  <2>2. /\ \A i \in 0 .. Len(<<>>) : NoLoops(mem[i])
        /\ 1 .. Len(<<>>) = {}
    OBVIOUS
  <2> HIDE DEF mem
  <2> QED
    BY <2>1, <2>2 DEF Path
<1>2. Produces(m, <<>>, m) /\ <<>> \in Seq(StoreOf(V))
  BY DEF Produces, StoresTo
<1> QED
  BY <1>1, <1>2 DEF Leads

\* A first store, and where the others lead.
LEMMA LeadsOn ==
  ASSUME NEW m \in Memory, NoLoops(m), NEW V \in SUBSET Node, NEW a \in StoreOf(V),
         NEW r, NEW l, Leads(V, Stored(m, a), r, l),
         NEW st \in Seq(StoreOf(V)), Follows(st, a, r)
  PROVE  Leads(V, m, st, l)
<1> DEFINE m1 == Stored(m, a)
<1>1. r \in Seq(StoreOf(V)) /\ Path(m1, r, l) /\ Produces(m1, r, l)
  BY DEF Leads
<1>2. Len(r) \in Nat /\ Len(st) = Len(r) + 1
  BY <1>1 DEF Follows
<1>3. Path(m, st, l)
  <2>1. PICK mem \in [0 .. Len(r) -> Memory] :
          /\ mem[0] = m1 /\ mem[Len(r)] = l
          /\ \A i \in 0 .. Len(r) : NoLoops(mem[i])
          /\ \A i \in 1 .. Len(r) : mem[i] = Stored(mem[i - 1], r[i])
    BY <1>1 DEF Path
  <2> HIDE DEF m1
  <2> DEFINE mem2 == [i \in 0 .. Len(st) |-> IF i = 0 THEN m ELSE mem[i - 1]]
  <2>2. mem2 \in [0 .. Len(st) -> Memory] /\ mem2[0] = m /\ mem2[Len(st)] = l
    BY <2>1, <1>2
  <2>3. \A i \in 0 .. Len(st) : NoLoops(mem2[i])
    BY <2>1, <1>2
  <2>4. ASSUME NEW i \in 1 .. Len(st)
        PROVE  mem2[i] = Stored(mem2[i - 1], st[i])
    <3>1. mem2[i] = mem[i - 1] /\ i - 1 \in 0 .. Len(r)
      BY <1>2
    <3>2. CASE i = 1
      <4>1. mem2[0] = m /\ st[1] = a /\ mem[0] = m1
        BY <2>1, <2>2 DEF Follows
      <4> QED
        BY <4>1, <3>1, <3>2 DEF m1
    <3>3. CASE i # 1
      <4>1. i - 1 \in 1 .. Len(r) /\ st[(i - 1) + 1] = r[i - 1]
        BY <1>2, <3>3 DEF Follows
      <4>2. mem2[i - 1] = mem[(i - 1) - 1]
        BY <4>1, <1>2
      <4> QED
        BY <4>1, <4>2, <3>1, <2>1
    <3> QED
      BY <3>2, <3>3
  <2> HIDE DEF mem2
  <2> QED
    BY <2>2, <2>3, <2>4 DEF Path
<1>4. ASSUME NEW x \in Node \cup Tree, NEW s \in Side
      PROVE  \/ StoresTo(st, x, s) = {} /\ m[x][s] = l[x][s]
             \/ \E i \in StoresTo(st, x, s) : /\ \A j \in StoresTo(st, x, s) : j <= i
                                              /\ st[i].val = l[x][s]
  <2>1. \A i \in 1 .. Len(r) : i \in StoresTo(r, x, s) <=> i + 1 \in StoresTo(st, x, s)
    BY <1>2 DEF StoresTo, Follows
  <2>2. \A j \in StoresTo(st, x, s) : j = 1 \/ (j - 1 \in 1 .. Len(r) /\ j = (j - 1) + 1)
    BY <1>2 DEF StoresTo
  <2>3. 1 \in StoresTo(st, x, s) <=> a.obj = x /\ a.field = s
    BY <1>2 DEF StoresTo, Follows
  <2>4. m1[x][s] = IF x = a.obj /\ s = a.field THEN a.val ELSE m[x][s]
    BY StoredFacts
  <2>5. \/ StoresTo(r, x, s) = {} /\ m1[x][s] = l[x][s]
        \/ \E i \in StoresTo(r, x, s) : /\ \A j \in StoresTo(r, x, s) : j <= i
                                        /\ r[i].val = l[x][s]
    BY <1>1 DEF Produces
  <2> HIDE DEF m1
  <2>6. CASE StoresTo(r, x, s) = {} /\ m1[x][s] = l[x][s]
    <3>1. \A j \in StoresTo(st, x, s) : j = 1
      BY <2>1, <2>2, <2>6
    <3>2. CASE a.obj = x /\ a.field = s
      BY <3>1, <3>2, <2>3, <2>4, <2>6 DEF Follows
    <3>3. CASE ~(a.obj = x /\ a.field = s)
      <4>1. StoresTo(st, x, s) = {}
        BY <3>1, <3>3, <2>3
      <4> QED
        BY <4>1, <3>3, <2>4, <2>6
    <3> QED
      BY <3>2, <3>3
  <2>7. ASSUME NEW i \in StoresTo(r, x, s), \A j \in StoresTo(r, x, s) : j <= i,
               r[i].val = l[x][s]
        PROVE  \E k \in StoresTo(st, x, s) : /\ \A j \in StoresTo(st, x, s) : j <= k
                                             /\ st[k].val = l[x][s]
    <3>1. i \in 1 .. Len(r) /\ i + 1 \in StoresTo(st, x, s) /\ st[i + 1].val = l[x][s]
      BY <2>1, <2>7 DEF StoresTo, Follows
    <3>2. ASSUME NEW j \in StoresTo(st, x, s)
          PROVE  j <= i + 1
      <4>1. CASE j = 1
        BY <4>1, <3>1, <1>2
      <4>2. CASE j # 1
        <5>1. j - 1 \in 1 .. Len(r) /\ j = (j - 1) + 1
          BY <4>2, <2>2
        <5>2. j - 1 \in StoresTo(r, x, s)
          BY <5>1, <2>1
        <5>3. j - 1 <= i
          BY <5>2, <2>7
        <5> QED
          BY <5>1, <5>3, <3>1, <1>2
      <4> QED
        BY <4>1, <4>2
    <3> QED
      BY <3>1, <3>2
  <2> QED
    BY <2>5, <2>6, <2>7
<1> QED
  BY <1>3, <1>4 DEF Leads, Produces

\* One, two and three stores.
LEMMA LeadsOne ==
  ASSUME NEW V \in SUBSET Node, NEW m \in Memory, NoLoops(m),
         NEW a \in StoreOf(V), NoLoops(Stored(m, a))
  PROVE  Leads(V, m, <<a>>, Stored(m, a))
<1>1. Leads(V, Stored(m, a), <<>>, Stored(m, a))
  BY LeadsNowhere, StoredFacts
<1>2. Follows(<<a>>, a, <<>>) /\ <<a>> \in Seq(StoreOf(V))
  BY DEF Follows
<1> QED
  BY <1>1, <1>2, LeadsOn

\* Two stores.
LEMMA LeadsTwo ==
  ASSUME NEW V \in SUBSET Node, NEW m \in Memory, NoLoops(m),
         NEW a \in StoreOf(V), NEW b \in StoreOf(V),
         NoLoops(Stored(m, a)), NoLoops(Stored(Stored(m, a), b))
  PROVE  Leads(V, m, <<a, b>>, Stored(Stored(m, a), b))
<1>1. Leads(V, Stored(m, a), <<b>>, Stored(Stored(m, a), b))
  BY LeadsOne, StoredFacts
<1>2. Follows(<<a, b>>, a, <<b>>) /\ <<a, b>> \in Seq(StoreOf(V))
  BY DEF Follows
<1> QED
  BY <1>1, <1>2, LeadsOn

\* Three stores and where others lead.
LEMMA LeadsThree ==
  ASSUME NEW V \in SUBSET Node, NEW m \in Memory, NoLoops(m),
         NEW a \in StoreOf(V), NEW b \in StoreOf(V), NEW c \in StoreOf(V),
         NoLoops(Stored(m, a)), NoLoops(Stored(Stored(m, a), b)),
         NoLoops(Stored(Stored(Stored(m, a), b), c))
  PROVE  Leads(V, m, <<a, b, c>>, Stored(Stored(Stored(m, a), b), c))
<1>1. Leads(V, Stored(m, a), <<b, c>>, Stored(Stored(Stored(m, a), b), c))
  BY LeadsTwo, StoredFacts
<1>2. Follows(<<a, b, c>>, a, <<b, c>>) /\ <<a, b, c>> \in Seq(StoreOf(V))
  BY DEF Follows
<1> QED
  BY <1>1, <1>2, LeadsOn

\* The ends of a path.
LEMMA LeadsFacts ==
  ASSUME NEW V, NEW m, NEW st, NEW l, Leads(V, m, st, l)
  PROVE  st \in Seq(StoreOf(V)) /\ m \in Memory /\ NoLoops(m) /\ l \in Memory /\ NoLoops(l)
<1>1. st \in Seq(StoreOf(V)) /\ Path(m, st, l)
  BY DEF Leads
<1>2. 0 \in 0 .. Len(st) /\ Len(st) \in 0 .. Len(st)
  BY <1>1
<1> QED
  BY <1>1, <1>2 DEF Path

\* The rest of a path.
LEMMA PathRest ==
  ASSUME NEW m, NEW V, NEW st \in Seq(StoreOf(V)), NEW a, NEW r \in Seq(StoreOf(V)),
         NEW l, Follows(st, a, r), Path(m, st, l)
  PROVE  Path(Stored(m, a), r, l) /\ NoLoops(Stored(m, a))
<1>1. PICK mem \in [0 .. Len(st) -> Memory] :
          /\ mem[0] = m /\ mem[Len(st)] = l
          /\ \A i \in 0 .. Len(st) : NoLoops(mem[i])
          /\ \A i \in 1 .. Len(st) : mem[i] = Stored(mem[i - 1], st[i])
  BY DEF Path
<1>2. Len(r) \in Nat /\ Len(st) = Len(r) + 1 /\ st[1] = a
  BY DEF Follows
<1> DEFINE mem2 == [i \in 0 .. Len(r) |-> mem[i + 1]]
<1>3. mem[1] = Stored(m, a) /\ NoLoops(mem[1])
  <2>1. 1 \in 1 .. Len(st) /\ 1 \in 0 .. Len(st) /\ 1 - 1 = 0
    BY <1>2
  <2> QED
    BY <2>1, <1>1, <1>2
<1>4. mem2 \in [0 .. Len(r) -> Memory] /\ mem2[0] = Stored(m, a) /\ mem2[Len(r)] = l
  BY <1>1, <1>2, <1>3
<1>5. \A i \in 0 .. Len(r) : NoLoops(mem2[i])
  BY <1>1, <1>2
<1>6. ASSUME NEW i \in 1 .. Len(r)
      PROVE  mem2[i] = Stored(mem2[i - 1], r[i])
  <2>1. mem2[i] = mem[i + 1] /\ mem2[i - 1] = mem[i] /\ (i + 1) - 1 = i
        /\ i + 1 \in 1 .. Len(st) /\ st[i + 1] = r[i]
    BY <1>2 DEF Follows
  <2> QED
    BY <2>1, <1>1
<1> HIDE DEF mem2
<1> QED
  BY <1>3, <1>4, <1>5, <1>6 DEF Path

\* A sequence without its element at i.
LEMMA RemoveAtFacts ==
  ASSUME NEW S, NEW s \in Seq(S), NEW i \in 1 .. Len(s)
  PROVE  /\ RemoveAt(s, i) \in Seq(S) /\ Len(RemoveAt(s, i)) = Len(s) - 1
         /\ \A j \in 1 .. Len(s) - 1 : RemoveAt(s, i)[j] = IF j < i THEN s[j] ELSE s[j + 1]
<1> DEFINE a == SubSeq(s, 1, i - 1)
           b == SubSeq(s, i + 1, Len(s))
<1>0. Len(s) \in Nat /\ i \in Int /\ 1 <= i /\ i <= Len(s) /\ \A j \in 1 .. Len(s) : s[j] \in S
  OBVIOUS
<1>1. a \in Seq(S) /\ Len(a) = i - 1 /\ \A j \in 1 .. i - 1 : a[j] = s[j]
  <2>1. \A j \in 1 .. i - 1 : s[j] \in S
    BY <1>0
  <2>2. /\ a \in Seq(S) /\ Len(a) = IF 1 <= i - 1 THEN i - 1 - 1 + 1 ELSE 0
        /\ \A j \in 1 .. i - 1 - 1 + 1 : a[j] = s[1 + j - 1]
    BY <1>0, <2>1, SubSeqProperties
  <2> HIDE DEF a
  <2>3. \A j \in 1 .. i - 1 : 1 + j - 1 = j /\ j \in 1 .. i - 1 - 1 + 1
    BY <1>0
  <2> QED
    BY <1>0, <2>2, <2>3
<1>2. b \in Seq(S) /\ Len(b) = Len(s) - i /\ \A j \in 1 .. Len(s) - i : b[j] = s[i + j]
  <2>1. \A j \in i + 1 .. Len(s) : s[j] \in S
    BY <1>0
  <2>2. /\ b \in Seq(S) /\ Len(b) = IF i + 1 <= Len(s) THEN Len(s) - (i + 1) + 1 ELSE 0
        /\ \A j \in 1 .. Len(s) - (i + 1) + 1 : b[j] = s[i + 1 + j - 1]
    BY <1>0, <2>1, SubSeqProperties
  <2> HIDE DEF b
  <2>3. \A j \in 1 .. Len(s) - i : i + 1 + j - 1 = i + j /\ j \in 1 .. Len(s) - (i + 1) + 1
    BY <1>0
  <2> QED
    BY <1>0, <2>2, <2>3
<1> HIDE DEF a, b
<1>3. /\ a \o b \in Seq(S) /\ Len(a \o b) = Len(a) + Len(b)
      /\ \A j \in 1 .. Len(a) + Len(b) :
           (a \o b)[j] = IF j <= Len(a) THEN a[j] ELSE b[j - Len(a)]
  BY <1>1, <1>2, ConcatProperties
<1>4. RemoveAt(s, i) = a \o b
  BY DEF RemoveAt, a, b
<1>5. ASSUME NEW j \in 1 .. Len(s) - 1
      PROVE  (a \o b)[j] = IF j < i THEN s[j] ELSE s[j + 1]
  <2>1. j \in 1 .. Len(a) + Len(b)
    BY <1>0, <1>1, <1>2
  <2>2. CASE j < i
    BY <2>1, <2>2, <1>0, <1>1, <1>3
  <2>3. CASE ~(j < i)
    <3>1. ~(j <= Len(a)) /\ j - Len(a) \in 1 .. Len(s) - i /\ i + (j - Len(a)) = j + 1
      BY <2>3, <1>0, <1>1
    <3> QED
      BY <3>1, <2>1, <2>3, <1>2, <1>3
  <2> QED
    BY <2>2, <2>3
<1> QED
  BY <1>0, <1>1, <1>2, <1>3, <1>4, <1>5

\* A store that is behind no other to its field becomes visible.
LEMMA VisibleProduces ==
  ASSUME NEW V \in SUBSET Node, NEW m \in Memory, NEW st \in Seq(StoreOf(V)), NEW l,
         Produces(m, st, l), NEW i \in 1 .. Len(st),
         \A j \in 1 .. i - 1 : <<st[j].obj, st[j].field>> # <<st[i].obj, st[i].field>>
  PROVE  Produces(Stored(m, st[i]), RemoveAt(st, i), l)
<1> DEFINE st2 == RemoveAt(st, i)
           m2 == Stored(m, st[i])
           up(j) == IF j < i THEN j ELSE j + 1
<1>1. /\ Len(st) \in Nat /\ st2 \in Seq(StoreOf(V)) /\ Len(st2) = Len(st) - 1
      /\ \A j \in 1 .. Len(st2) : up(j) \in 1 .. Len(st) /\ st2[j] = st[up(j)] /\ up(j) # i
  BY RemoveAtFacts
<1>2. \A k \in 1 .. Len(st) : k # i => \E j \in 1 .. Len(st2) : k = up(j)
  <2> SUFFICES ASSUME NEW k \in 1 .. Len(st), k # i
               PROVE  \E j \in 1 .. Len(st2) : k = up(j)
    OBVIOUS
  <2>1. CASE k < i
    BY <2>1, <1>1
  <2>2. CASE k > i
    <3>1. k - 1 \in 1 .. Len(st2) /\ k = up(k - 1)
      BY <2>2, <1>1
    <3> QED
      BY <3>1
  <2> QED
    BY <2>1, <2>2, <1>1
<1>3. \A j, k \in 1 .. Len(st2) : up(j) <= up(k) => j <= k
  BY <1>1
<1> HIDE DEF up, st2
<1> SUFFICES ASSUME NEW x \in Node \cup Tree, NEW s \in Side
             PROVE  \/ StoresTo(st2, x, s) = {} /\ m2[x][s] = l[x][s]
                    \/ \E j \in StoresTo(st2, x, s) : /\ \A k \in StoresTo(st2, x, s) : k <= j
                                                      /\ st2[j].val = l[x][s]
  BY DEF Produces, st2
<1>4. \A j \in 1 .. Len(st2) : j \in StoresTo(st2, x, s) <=> up(j) \in StoresTo(st, x, s)
  BY <1>1 DEF StoresTo
<1>5. st[i] \in StoreOf(V)
  BY <1>1
<1>6. m2[x][s] = IF x = st[i].obj /\ s = st[i].field THEN st[i].val ELSE m[x][s]
  BY <1>5, StoredFacts
<1>7. x = st[i].obj /\ s = st[i].field <=> i \in StoresTo(st, x, s)
  BY DEF StoresTo
<1> HIDE DEF m2
<1>8. CASE StoresTo(st, x, s) = {} /\ m[x][s] = l[x][s]
  <2>1. StoresTo(st2, x, s) = {}
    BY <1>4, <1>8 DEF StoresTo
  <2> QED
    BY <2>1, <1>6, <1>7, <1>8
<1>9. ASSUME NEW k \in StoresTo(st, x, s), \A j \in StoresTo(st, x, s) : j <= k,
             st[k].val = l[x][s]
      PROVE  \/ StoresTo(st2, x, s) = {} /\ m2[x][s] = l[x][s]
             \/ \E j \in StoresTo(st2, x, s) : /\ \A j2 \in StoresTo(st2, x, s) : j2 <= j
                                               /\ st2[j].val = l[x][s]
  <2>0. k \in 1 .. Len(st)
    BY DEF StoresTo
  <2>1. CASE k = i
    <3>1. ASSUME NEW j \in StoresTo(st2, x, s)
          PROVE  FALSE
      <4>1. j \in 1 .. Len(st2)
        BY DEF StoresTo
      <4>2. up(j) \in StoresTo(st, x, s) /\ up(j) \in 1 .. Len(st) /\ up(j) # i /\ up(j) <= i
        BY <4>1, <1>1, <1>4, <1>9, <2>1
      <4>3. up(j) \in 1 .. i - 1
        BY <4>2, <1>1
      <4>4. st[up(j)].obj = st[i].obj /\ st[up(j)].field = st[i].field
        BY <4>2, <2>1 DEF StoresTo
      <4> QED
        BY <4>3, <4>4
    <3> QED
      BY <3>1, <2>1, <1>6, <1>7, <1>9
  <2>2. CASE k # i
    <3>1. PICK j \in 1 .. Len(st2) : k = up(j)
      BY <2>0, <2>2, <1>2
    <3>2. j \in StoresTo(st2, x, s) /\ st2[j].val = l[x][s]
      BY <3>1, <1>1, <1>4, <1>9
    <3>3. ASSUME NEW j2 \in StoresTo(st2, x, s)
          PROVE  j2 <= j
      <4>1. j2 \in 1 .. Len(st2)
        BY DEF StoresTo
      <4>2. up(j2) <= up(j)
        BY <4>1, <3>1, <1>4, <1>9
      <4> QED
        BY <4>1, <4>2, <3>1, <1>3
    <3> QED
      BY <3>2, <3>3
  <2> QED
    BY <2>1, <2>2
<1>10. \/ StoresTo(st, x, s) = {} /\ m[x][s] = l[x][s]
       \/ \E k \in StoresTo(st, x, s) : /\ \A j \in StoresTo(st, x, s) : j <= k
                                        /\ st[k].val = l[x][s]
  BY DEF Produces
<1> QED
  BY <1>8, <1>9, <1>10

\* The first store becomes visible.
LEMMA FirstVisible ==
  ASSUME NEW V, NEW m, NEW st \in Seq(StoreOf(V)), NEW l, Path(m, st, l), 1 \in 1 .. Len(st)
  PROVE  Path(Stored(m, st[1]), RemoveAt(st, 1), l)
<1>1. /\ RemoveAt(st, 1) \in Seq(StoreOf(V)) /\ Len(RemoveAt(st, 1)) = Len(st) - 1
      /\ \A j \in 1 .. Len(st) - 1 : RemoveAt(st, 1)[j] = IF j < 1 THEN st[j] ELSE st[j + 1]
  BY RemoveAtFacts
<1>2. Follows(st, st[1], RemoveAt(st, 1))
  BY <1>1 DEF Follows
<1> QED
  BY <1>1, <1>2, PathRest

-----------------------------------------------------------------------------
(* The stores of each function *)

\* What the pointers of all trees say of the nodes in use.
LEMMA InUseClosed ==
  ASSUME IInv
  PROVE  /\ InUse \in SUBSET Node /\ Closed(link, InUse) /\ link \in Memory
         /\ \A x \in Holder(owner), s \in Side : link[x][s] \in InUse \cup {NULL}
         /\ \A p \in InUse, e \in Dir : link[p][e] # NULL =>
              \A n \in InUse, d \in Dir : link[n][d] = link[p][e] => n = p /\ d = e
<1>1. Sound(owner, link, pf) /\ InUse = Owned(owner) /\ link \in Memory
  BY InUseFacts
<1>2. \A x \in Holder(owner), s \in Side : link[x][s] \in InUse \cup {NULL}
  <2> SUFFICES ASSUME NEW x \in Holder(owner), NEW s \in Side, link[x][s] # NULL
               PROVE  link[x][s] \in InUse
    OBVIOUS
  <2>1. link[x][s] \in Node /\ (x \notin Tree => owner[x] # NULL)
    BY <1>1 DEF Memory, Holder, Owned, Pointer
  <2>2. owner[link[x][s]] = Home(owner, x)
    BY <1>1 DEF Sound, Consistent, ChildrenKnowParent
  <2> QED
    BY <2>1, <2>2, <1>1, DistinctAddresses DEF Home, Owned
<1>3. Closed(link, InUse)
  BY <1>1, <1>2, Sides, DistinctAddresses DEF Closed, Holder
<1>4. ASSUME NEW p \in InUse, NEW e \in Dir, link[p][e] # NULL,
             NEW n \in InUse, NEW d \in Dir, link[n][d] = link[p][e]
      PROVE  n = p /\ d = e
  <2>1. n = p
    BY <1>1, <1>4, ChildFacts
  <2>2. link[p][e] # link[p][Other(e)]
    BY <1>1, <1>4, ChildFacts
  <2> QED
    BY <2>1, <2>2, <1>4, Sides
<1> QED
  BY <1>1, <1>2, <1>3, <1>4 DEF InUse, Owned

\* The object and the field that hold a node n; StoreInPlace writes where
\* PutInPlace does.
LEMMA InPlaceAt ==
  ASSUME IInv, NoLoops(link), NEW n \in InUse, NEW new
  PROVE  \E g \in Holder(owner), t \in Side :
           /\ g = pf[n].raw /\ link[g][t] = n /\ (t = "root" <=> g \in Tree)
           /\ g \notin Subtree(link, n) /\ g # n
           /\ StoreInPlace(link, n, new) = Store(g, t, new)
           /\ \A m \in Memory : m[g] = link[g] =>
                PutInPlace(m, pf, n, new) = Put(m, g, t, new)
<1> DEFINE g == pf[n].raw
<1>1. Sound(owner, link, pf) /\ InUse = Owned(owner) /\ link \in Memory
  BY InUseFacts
<1>2. g \in Holder(owner) /\ \E s \in Side : link[g][s] = n
  BY <1>1 DEF Sound, Consistent, ParentsKnowChild, c_rbnode_raw
<1>3. PICK t \in Side : link[g][t] = n
  BY <1>2
<1>4. n # NULL /\ n \in Node
  BY <1>1, DistinctAddresses DEF Owned
<1>5. /\ t = "root" <=> c_rbnode_is_root(pf, n)
      /\ t = "root" <=> g \in Tree
      /\ \A e \in Side : link[g][e] = n => e = t
  BY <1>1, <1>2, <1>3, <1>4 DEF Sound, Consistent, ChildrenKnowParent
<1>6. StoreInPlace(link, n, new) = Store(g, t, new)
  BY <1>3, <1>5 DEF StoreInPlace, SideOf, Side
<1>7. ASSUME NEW m \in Memory, m[g] = link[g]
      PROVE  PutInPlace(m, pf, n, new) = Put(m, g, t, new)
  BY <1>3, <1>5, <1>7 DEF PutInPlace, SideOf, Side, Put
<1>8. g \notin Subtree(link, n)
  <2>1. CASE g \in Tree
    BY <2>1, SubtreeFacts, DistinctAddresses
  <2>2. CASE g \notin Tree
    <3>1. t \in Dir /\ g \in Node
      BY <2>2, <1>2, <1>5 DEF Side, Dir, Holder, Owned
    <3> HIDE DEF g
    <3> QED
      BY <3>1, <1>3, NotBelowItself
  <2> QED
    BY <2>1, <2>2
<1>9. g # n
  BY <1>4, <1>8, SubtreeFacts
<1> QED
  BY <1>2, <1>3, <1>5, <1>6, <1>7, <1>8, <1>9

\* A rotation of s, the child of p on side e, above p, where g holds p.
LEMMA RotationLeads ==
  ASSUME NEW m \in Memory, NoLoops(m), NEW U, NEW p, NEW e, NEW s, Held(m, U, p, e, s),
         NEW g \in Node \cup Tree, NEW t \in Side, g \notin Subtree(m, p)
  PROVE  /\ Leads(U, m, <<Store(p, e, m[s][Other(e)]), Store(s, Other(e), p), Store(g, t, s)>>,
                  Put(Opened(m, p, e, s), g, t, s))
<1> DEFINE a1 == Store(p, e, m[s][Other(e)])
           a2 == Store(s, Other(e), p)
           a3 == Store(g, t, s)
           m1 == HalfOpened(m, p, e, s)
           m2 == Opened(m, p, e, s)
<1>1. /\ m1 \in Memory /\ m2 \in Memory /\ NoLoops(m1) /\ NoLoops(m2)
      /\ Closed(m2, Subtree(m, p)) /\ s \in Subtree(m, p)
      /\ m[s][Other(e)] \in U \cup {NULL}
  BY RotationOpens
<1>2. U \in SUBSET Node /\ p \in U /\ s \in U /\ e \in Side /\ Other(e) \in Side
  BY Sides DEF Held
<1>3. a1 \in StoreOf(U) /\ a2 \in StoreOf(U) /\ a3 \in StoreOf(U)
  BY <1>1, <1>2 DEF Store, StoreOf
<1>4. m1 = Stored(m, a1) /\ m2 = Stored(m1, a2) /\ Put(m2, g, t, s) = Stored(m2, a3)
  BY DEF Stored, Store, HalfOpened, Opened
<1> HIDE DEF m1, m2, a1, a2, a3
<1>5. NoLoops(Put(m2, g, t, s))
  BY <1>1, InPlaceMakesNoLoop
<1>6. Leads(U, m, <<a1, a2, a3>>, Put(m2, g, t, s))
  BY <1>1, <1>2, <1>3, <1>4, <1>5, LeadsThree
<1> QED
  BY <1>6 DEF a1, a2, a3, m2

\* A node in use that is a child of another one.
LEMMA HeldInUse ==
  ASSUME IInv, NEW p \in InUse, NEW e \in Dir, link[p][e] # NULL
  PROVE  Held(link, InUse, p, e, link[p][e])
<1>1. link[p][e] \in InUse
  BY InUseClosed, Sides DEF Holder, InUse
<1> QED
  BY <1>1, InUseClosed DEF Held

\* The stores of a rotation.
LEMMA RotateLeads ==
  ASSUME IInv, NoLoops(link), NEW p \in InUse, NEW e \in Dir, link[p][e] # NULL
  PROVE  Leads(InUse, link, RotateStores(link, p, link[p][e], e),
               PutInPlace(Opened(link, p, e, link[p][e]), pf, p, link[p][e]))
<1> DEFINE s == link[p][e]
           m2 == Opened(link, p, e, s)
<1>1. Held(link, InUse, p, e, s)
  BY HeldInUse
<1> HIDE DEF s, m2
<1>2. PICK g \in Holder(owner), t \in Side :
           /\ g \notin Subtree(link, p) /\ g # p
           /\ StoreInPlace(link, p, s) = Store(g, t, s)
           /\ \A m \in Memory : m[g] = link[g] => PutInPlace(m, pf, p, s) = Put(m, g, t, s)
  BY InPlaceAt
<1>3. link \in Memory /\ g \in Node \cup Tree
  BY InUseFacts DEF Holder, Owned
<1>4. m2 \in Memory /\ m2[g] = link[g]
  <2>1. m2 \in Memory /\ s \in Subtree(link, p)
    BY <1>1, <1>3, RotationOpens DEF m2
  <2>2. g # s /\ g # p
    BY <2>1, <1>2
  <2>3. OpenedFields(link, m2, p, e, s)
    BY <1>1, <1>3, RotationOpens DEF m2
  <2> QED
    BY <2>1, <2>2, <2>3, <1>3 DEF Memory, OpenedFields
<1>5. PutInPlace(m2, pf, p, s) = Put(m2, g, t, s)
  BY <1>2, <1>4
<1>6. Leads(InUse, link, <<Store(p, e, link[s][Other(e)]), Store(s, Other(e), p), Store(g, t, s)>>,
            Put(m2, g, t, s))
  BY <1>1, <1>2, <1>3, RotationLeads DEF m2
<1>7. RotateStores(link, p, s, e)
        = <<Store(p, e, link[s][Other(e)]), Store(s, Other(e), p), Store(g, t, s)>>
  BY <1>2 DEF RotateStores
<1> QED
  BY <1>5, <1>6, <1>7 DEF s, m2

\* c_rbtree_paint_terminal with an outer grandchild.
LEMMA PaintRotateLeads ==
  ASSUME IInv, NoLoops(link), PaintRotate
  PROVE  Leads(InUse, link, PaintStores, link')
<1> DEFINE p == c_rbnode_parent(pf, cur)
           g == Grandparent(cur)
           d == SideOf(link, g, p)
<1>1. pc = "paint" /\ RedParent(cur) /\ link' = RotateGrandparentLink(link, p, g, d)
  BY DEF PaintRotate
<1>2. g \in InUse /\ d \in Dir /\ link[g][d] = p /\ p # NULL
  BY <1>1, PaintNeighbours, InUseFacts
<1>3. PaintStores = RotateStores(link, g, p, d)
  BY DEF PaintStores
<1>4. RotateGrandparentLink(link, p, g, d) = PutInPlace(Opened(link, g, d, p), pf, g, p)
  BY DEF RotateGrandparentLink, Opened, HalfOpened, Put
<1> HIDE DEF p, g, d
<1> QED
  BY <1>1, <1>2, <1>3, <1>4, RotateLeads

\* c_rbnode_rebalance_terminal, where the sibling is rotated above the parent.
LEMMA RotateSiblingLeads ==
  ASSUME IInv, NoLoops(link), RotateRedSibling \/ RotateSibling
  PROVE  Leads(InUse, link, SiblingStores, link')
<1> DEFINE d == HoleSide
           s == Sibling
<1>1. pc = "rotate" /\ link' = RotateSiblingLink(link, cur, s, d)
  BY DEF RotateRedSibling, RotateSibling
<1>2. cur # NULL
  BY <1>1 DEF IInv, Rebalancing
<1>3. /\ cur \in InUse /\ Other(d) \in Dir /\ Other(Other(d)) = d
      /\ link[cur][Other(d)] = s /\ s # NULL
  BY <1>1, <1>2, HoleNeighbours, InUseFacts
<1>4. SiblingStores = RotateStores(link, cur, s, Other(d))
  BY DEF SiblingStores
<1> HIDE DEF d, s
<1>5. RotateSiblingLink(link, cur, s, d) = PutInPlace(Opened(link, cur, Other(d), s), pf, cur, s)
  BY <1>3 DEF RotateSiblingLink, Opened, HalfOpened, Put
<1> QED
  BY <1>1, <1>3, <1>4, <1>5, RotateLeads

\* Two or three stores before three others.
LEMMA LeadsFive ==
  ASSUME NEW V \in SUBSET Node, NEW m \in Memory, NoLoops(m),
         NEW a \in StoreOf(V), NEW b \in StoreOf(V), NEW c \in StoreOf(V),
         NEW d \in StoreOf(V), NEW e \in StoreOf(V), NEW l,
         NoLoops(Stored(m, a)), NoLoops(Stored(Stored(m, a), b)),
         Leads(V, Stored(Stored(m, a), b), <<c, d, e>>, l)
  PROVE  Leads(V, m, <<a, b, c, d, e>>, l)
<1>1. Follows(<<b, c, d, e>>, b, <<c, d, e>>) /\ <<b, c, d, e>> \in Seq(StoreOf(V))
  BY DEF Follows
<1>2. Leads(V, Stored(m, a), <<b, c, d, e>>, l)
  BY <1>1, LeadsOn, StoredFacts
<1>3. Follows(<<a, b, c, d, e>>, a, <<b, c, d, e>>) /\ <<a, b, c, d, e>> \in Seq(StoreOf(V))
  BY DEF Follows
<1> QED
  BY <1>2, <1>3, LeadsOn

\* Three stores before three others.
LEMMA LeadsSix ==
  ASSUME NEW V \in SUBSET Node, NEW m \in Memory, NoLoops(m),
         NEW a \in StoreOf(V), NEW b \in StoreOf(V), NEW c \in StoreOf(V),
         NEW d \in StoreOf(V), NEW e \in StoreOf(V), NEW f \in StoreOf(V), NEW l,
         NoLoops(Stored(m, a)), NoLoops(Stored(Stored(m, a), b)),
         NoLoops(Stored(Stored(Stored(m, a), b), c)),
         Leads(V, Stored(Stored(Stored(m, a), b), c), <<d, e, f>>, l)
  PROVE  Leads(V, m, <<a, b, c, d, e, f>>, l)
<1>1. Leads(V, Stored(m, a), <<b, c, d, e, f>>, l)
  BY LeadsFive, StoredFacts
<1>2. Follows(<<a, b, c, d, e, f>>, a, <<b, c, d, e, f>>)
      /\ <<a, b, c, d, e, f>> \in Seq(StoreOf(V))
  BY DEF Follows
<1> QED
  BY <1>1, <1>2, LeadsOn

\* What a subtree contains stays within it when only nodes of it are stored.
LEMMA SubtreeStaysClosed ==
  ASSUME NEW m, NEW C \in SUBSET Node, Closed(m, C), NEW x \in Node \cup Tree, NEW s \in Side,
         NEW v, v \in Node /\ x \in C => v \in C,
         m \in Memory
  PROVE  Closed(Put(m, x, s, v), C)
BY Sides DEF Closed, Put, Memory

\* c_rbtree_paint_terminal with an inner grandchild.
LEMMA PaintRotateTwiceLeads ==
  ASSUME IInv, NoLoops(link), PaintRotateTwice
  PROVE  Leads(InUse, link, PaintTwiceStores, link')
<1> DEFINE n == cur
           p == c_rbnode_parent(pf, n)
           g == Grandparent(n)
           d == SideOf(link, g, p)
           e == Other(d)
           x == link[n][d]
           c == link[n][e]
           m1 == HalfOpened(link, p, e, n)
           m2 == Opened(link, p, e, n)
           m3 == Put(m2, g, d, c)
           m4 == Put(m3, n, e, g)
           M1 == [link EXCEPT ![p][e] = x, ![n][d] = p]
<1>1. /\ pc = "paint" /\ RedParent(n) /\ n = link[p][e]
      /\ link' = PutInPlace([M1 EXCEPT ![g][d] = M1[n][e], ![n][e] = g], pf, g, n)
      /\ PaintTwiceStores = <<Store(p, e, x), Store(n, d, p), Store(g, d, c), Store(n, e, g),
                              StoreInPlace(link, g, n)>>
  BY DEF PaintRotateTwice, RotateGrandparentLink, PaintTwiceStores
<1>2. /\ n \in InUse /\ p \in InUse /\ g \in InUse /\ d \in Dir /\ e \in Dir
      /\ link[g][d] = p /\ Other(e) = d /\ d # e
      /\ p # NULL /\ n # NULL /\ link \in Memory
      /\ d \in Side /\ e \in Side
  BY <1>1, PaintNeighbours, InUseFacts, Sides
<1>3. M1 = m2
  BY <1>2, SMTT(20) DEF Opened, HalfOpened, Put
<1> HIDE DEF n, p, g, d
<1>4. Held(link, InUse, p, e, n)
  BY <1>1, <1>2, HeldInUse
<1>5. /\ m1 \in Memory /\ m2 \in Memory /\ NoLoops(m1) /\ NoLoops(m2)
      /\ Closed(m2, InUse \ {n}) /\ Closed(m2, Subtree(link, p)) /\ n \in Subtree(link, p)
      /\ p # n /\ x \in InUse \cup {NULL}
      /\ OpenedFields(link, m2, p, e, n)
  BY <1>2, <1>4, RotationOpens
<1>6. n \in Node /\ p \in Node /\ g \in Node /\ InUse \in SUBSET Node
  BY <1>2, InUseFacts
<1> HIDE DEF e, m1, m2, M1
<1>7. c \in InUse \cup {NULL} /\ c \in Pointer /\ c # n
      /\ (c \in Node => c \in Subtree(link, p))
  <2>1. c \in Pointer
    BY <1>2, <1>6 DEF Memory
  <2>2. c \in Node => c \in InUse /\ c \in Subtree(link, p)
    BY <1>2, <1>5, InUseClosed, SubtreeFacts DEF Closed
  <2>3. c = n => c \in Subtree(link, link[n][e])
    BY <1>6, SubtreeFacts
  <2> QED
    BY <2>1, <2>2, <2>3, <1>2, <1>6, NotBelowItself DEF Pointer
<1>8. g \notin Subtree(link, p) /\ Subtree(link, p) \in SUBSET Node /\ g # n
  BY <1>2, <1>5, <1>6, NotBelowItself, SubtreeFacts
<1> HIDE DEF c, x
<1>9. m3 \in Memory /\ NoLoops(m3)
  BY <1>2, <1>5, <1>6, <1>7, <1>8, PutFacts, PutMakesNoLoop, DistinctAddresses DEF Pointer
<1>10. Closed(m3, InUse \ {n})
  BY <1>2, <1>5, <1>6, <1>7, SubtreeStaysClosed, DistinctAddresses
<1> HIDE DEF m3
<1>11. m4 \in Memory /\ NoLoops(m4)
  <2>1. \E C \in SUBSET Node : Closed(m3, C) /\ g \in C /\ n \notin C
    BY <1>2, <1>6, <1>8, <1>10
  <2> QED
    BY <2>1, <1>2, <1>6, <1>9, PutFacts, PutMakesNoLoop DEF Pointer
<1>12. Closed(m4, Subtree(link, g)) /\ n \in Subtree(link, g)
  <2> DEFINE C == Subtree(link, g)
  <2>1. /\ Closed(link, C) /\ C \in SUBSET Node /\ g \in C /\ p \in C
        /\ Subtree(link, p) \subseteq C
    BY <1>2, <1>6, SubtreeFacts, SubtreeWithin DEF Closed
  <2>2. n \in C /\ (x \in Node => x \in C) /\ (c \in Node => c \in C)
    BY <2>1, <1>2, <1>5, <1>7 DEF Closed, x
  <2> HIDE DEF C
  <2>3. Closed(m1, C)
    BY <2>1, <2>2, <1>2, <1>6, SubtreeStaysClosed DEF m1, HalfOpened, x
  <2>4. Closed(m2, C)
    BY <2>1, <2>2, <2>3, <1>2, <1>5, <1>6, SubtreeStaysClosed DEF m1, m2, Opened
  <2>5. Closed(m3, C)
    BY <2>1, <2>2, <2>4, <1>2, <1>5, <1>6, SubtreeStaysClosed DEF m3
  <2>6. Closed(m4, C)
    BY <2>1, <2>2, <2>5, <1>2, <1>9, <1>6, SubtreeStaysClosed
  <2> QED
    BY <2>2, <2>6 DEF C
<1>13. PICK gg \in Holder(owner), t \in Side :
           /\ gg \notin Subtree(link, g) /\ gg # g
           /\ StoreInPlace(link, g, n) = Store(gg, t, n)
           /\ \A m \in Memory : m[gg] = link[gg] => PutInPlace(m, pf, g, n) = Put(m, gg, t, n)
  BY <1>2, InPlaceAt
<1>14. gg \in Node \cup Tree
  BY DEF Holder, Owned
<1>15. m4[gg] = link[gg]
  <2>1. gg # n /\ gg # p
    BY <1>2, <1>12, <1>13, <1>6, SubtreeFacts DEF Closed
  <2>2. m4[gg] = m2[gg]
    BY <2>1, <1>13, <1>14, <1>5, <1>9, <1>6 DEF m4, m3, Put, Memory
  <2>3. \A s \in Side : m2[gg][s] = link[gg][s]
    BY <2>1, <1>5, <1>14 DEF OpenedFields
  <2> QED
    BY <2>2, <2>3, <1>2, <1>5, <1>14 DEF Memory
<1>16. link' = Put(m4, gg, t, n)
  <2>1. M1[n][e] = c
    BY <1>3, <1>5, <1>2, <1>6 DEF OpenedFields, c
  <2>2. m4 = [M1 EXCEPT ![g][d] = M1[n][e], ![n][e] = g]
    BY <2>1, <1>3 DEF m4, m3, Put
  <2> QED
    BY <2>2, <1>1, <1>11, <1>13, <1>15
<1>17. NoLoops(Put(m4, gg, t, n))
  BY <1>11, <1>12, <1>13, <1>14, InPlaceMakesNoLoop
<1> DEFINE a1 == Store(p, e, x)
           a2 == Store(n, d, p)
           a3 == Store(g, d, c)
           a4 == Store(n, e, g)
           a5 == Store(gg, t, n)
<1>18. /\ a1 \in StoreOf(InUse) /\ a2 \in StoreOf(InUse) /\ a3 \in StoreOf(InUse)
       /\ a4 \in StoreOf(InUse) /\ a5 \in StoreOf(InUse)
  BY <1>2, <1>5, <1>6, <1>7, <1>14 DEF Store, StoreOf
<1>19. /\ m1 = Stored(link, a1) /\ m2 = Stored(m1, a2) /\ m3 = Stored(m2, a3)
       /\ m4 = Stored(m3, a4) /\ Put(m4, gg, t, n) = Stored(m4, a5)
  BY <1>2 DEF Stored, Store, m1, m2, m3, HalfOpened, Opened, x
<1> HIDE DEF a1, a2, a3, a4, a5, m4
<1>20. Leads(InUse, m2, <<a3, a4, a5>>, link')
  BY <1>5, <1>6, <1>9, <1>11, <1>16, <1>17, <1>18, <1>19, LeadsThree
<1>21. Leads(InUse, link, <<a1, a2, a3, a4, a5>>, link')
  BY <1>2, <1>5, <1>6, <1>18, <1>19, <1>20, LeadsFive
<1> QED
  BY <1>1, <1>13, <1>21 DEF a1, a2, a3, a4, a5

\* c_rbnode_rebalance_terminal, where the near nephew is rotated up twice.
LEMMA RotateNephewLeads ==
  ASSUME IInv, NoLoops(link), RotateNephew
  PROVE  Leads(InUse, link, NephewStores, link')
<1> DEFINE p == cur
           d == HoleSide
           s == Sibling
           y == NearNephew
           e == Other(d)
           x == link[y][e]
           m1 == HalfOpened(link, s, d, y)
           m2 == Opened(link, s, d, y)
           m3 == Put(m2, p, e, y)
           M1 == [link EXCEPT ![s][d] = x, ![y][e] = s, ![p][e] = y]
           m5 == Opened(m3, p, e, y)
<1>1. /\ pc = "rotate" /\ y # NULL /\ y = link[s][d] /\ s = link[p][e]
      /\ link' = PutInPlace([M1 EXCEPT ![p][e] = M1[y][d], ![y][d] = p], pf, p, y)
      /\ NephewStores = <<Store(s, d, x), Store(y, e, s), Store(p, e, y),
                          Store(p, e, link[y][d]), Store(y, d, p), StoreInPlace(link, p, y)>>
  BY DEF RotateNephew, RotateSiblingLink, NephewStores, RedNode, NearNephew, Sibling
<1>2. p # NULL
  BY <1>1 DEF IInv, Rebalancing
<1>3. /\ p \in InUse /\ s \in InUse /\ s # p /\ d \in Dir /\ e \in Dir /\ Other(e) = d /\ d # e
      /\ d \in Side /\ e \in Side /\ link \in Memory
  BY <1>1, <1>2, HoleNeighbours, InUseFacts, Sides DEF InUse
<1>5. M1 = m3
  BY <1>3 DEF Opened, HalfOpened, Put
<1> HIDE DEF p, d, s, y
<1>4. Held(link, InUse, s, d, y) /\ y \in InUse
  <2>1. Held(link, InUse, s, d, y)
    BY <1>1, <1>3, HeldInUse
  <2> QED
    BY <2>1 DEF Held
<1>6. p \in Node /\ s \in Node /\ y \in Node /\ InUse \in SUBSET Node
  BY <1>3, <1>4, InUseFacts
<1> HIDE DEF e, m1, m2, M1
<1>7. /\ m1 \in Memory /\ m2 \in Memory /\ NoLoops(m1) /\ NoLoops(m2)
      /\ Closed(m2, InUse \ {y}) /\ Closed(m2, Subtree(link, s)) /\ y \in Subtree(link, s)
      /\ s # y /\ x \in InUse \cup {NULL}
      /\ OpenedFields(link, m2, s, d, y)
  BY <1>3, <1>4, RotationOpens DEF m1, m2, e
<1> HIDE DEF x
<1>8. p \notin Subtree(link, s) /\ p # y
  BY <1>1, <1>3, <1>6, <1>7, NotBelowItself
<1>9. m3 \in Memory /\ NoLoops(m3)
  BY <1>3, <1>6, <1>7, <1>8, PutFacts, InPlaceMakesNoLoop DEF Pointer
<1>10. \A n \in Node \cup Tree, b \in Side :
         m3[n][b] = IF n = p /\ b = e THEN y
                    ELSE IF n = s /\ b = d THEN x
                    ELSE IF n = y /\ b = e THEN s
                    ELSE link[n][b]
  BY <1>3, <1>6, <1>7, <1>8 DEF OpenedFields, m3, Put, Memory, e, x
<1>11. y \in Subtree(link, p) /\ s \in Subtree(link, p) /\ Subtree(m3, p) \subseteq Subtree(link, p)
  <2> DEFINE C == Subtree(link, p)
  <2>1. /\ Closed(link, C) /\ C \in SUBSET Node /\ p \in C /\ s \in C
    BY <1>1, <1>6, <1>3, SubtreeFacts DEF Closed
  <2>2. y \in C /\ (x \in Node => x \in C)
    BY <2>1, <1>1, <1>3, <1>6 DEF Closed, x
  <2> HIDE DEF C
  <2>3. Closed(m3, C)
    BY <2>1, <2>2, <1>10, <1>3, Sides DEF Closed
  <2>4. Subtree(m3, p) \subseteq C
    BY <2>1, <2>3, SubtreeFacts
  <2> QED
    BY <2>1, <2>2, <2>4, SMTT(20) DEF C
<1>12. Held(m3, InUse, p, e, y)
  <2>1. ASSUME NEW n \in InUse, NEW b \in Dir, m3[n][b] = y
        PROVE  n = p /\ b = e
    <3>1. n \in Node /\ b \in Side /\ n \in Node \cup Tree
      BY <1>6, Sides
    <3>2. ~(n = s /\ b = d) => link[n][b] # y
      BY <1>4, <3>1 DEF Held
    <3>3. x # y
      BY <1>3, <1>4, <1>7, Sides DEF Held, x
    <3> QED
      BY <3>1, <3>2, <3>3, <2>1, <1>10, <1>7
  <2>2. Closed(m3, InUse)
    <3>1. \A n \in InUse, b \in Dir : link[n][b] \in InUse \cup {NULL}
      BY InUseClosed, Sides DEF Holder, InUse
    <3>2. \A n \in InUse, b \in Dir : m3[n][b] \in InUse \cup {NULL}
      BY <3>1, <1>3, <1>4, <1>6, <1>7, <1>10, Sides
    <3> QED
      BY <3>2, DistinctAddresses DEF Closed
  <2> QED
    BY <2>1, <2>2, <1>3, <1>4, <1>6, <1>10 DEF Held
<1>13. PICK gg \in Holder(owner), t \in Side :
           /\ gg \notin Subtree(link, p) /\ gg # p
           /\ StoreInPlace(link, p, y) = Store(gg, t, y)
           /\ \A m \in Memory : m[gg] = link[gg] => PutInPlace(m, pf, p, y) = Put(m, gg, t, y)
  BY <1>3, InPlaceAt
<1>14. gg \in Node \cup Tree
  BY DEF Holder, Owned
<1> HIDE DEF m3
<1>15. m5 \in Memory /\ OpenedFields(m3, m5, p, e, y)
  BY <1>9, <1>12, RotationOpens
<1>16. m5[gg] = link[gg]
  <2>1. gg # y /\ gg # p /\ gg # s
    BY <1>11, <1>13, <1>1, <1>3, <1>6, SubtreeFacts DEF Closed
  <2>2. \A b \in Side : m5[gg][b] = link[gg][b]
    BY <2>1, <1>10, <1>14, <1>15 DEF OpenedFields
  <2> QED
    BY <2>2, <1>3, <1>14, <1>15 DEF Memory
<1>17. m3[y][d] = link[y][d]
  BY <1>3, <1>6, <1>7, <1>8, <1>10
<1>18. link' = Put(m5, gg, t, y)
  <2>1. m5 = [M1 EXCEPT ![p][e] = M1[y][d], ![y][d] = p]
    BY <1>3, <1>5 DEF Opened, HalfOpened, Put
  <2> QED
    BY <2>1, <1>1, <1>13, <1>15, <1>16
<1> DEFINE a1 == Store(s, d, x)
           a2 == Store(y, e, s)
           a3 == Store(p, e, y)
           a4 == Store(p, e, link[y][d])
           a5 == Store(y, d, p)
           a6 == Store(gg, t, y)
<1>19. Leads(InUse, m3, <<a4, a5, a6>>, link')
  <2>1. gg \notin Subtree(m3, p)
    BY <1>11, <1>13
  <2> QED
    BY <2>1, <1>3, <1>9, <1>12, <1>14, <1>17, <1>18, RotationLeads
<1>20. /\ a1 \in StoreOf(InUse) /\ a2 \in StoreOf(InUse) /\ a3 \in StoreOf(InUse)
       /\ a4 \in StoreOf(InUse) /\ a5 \in StoreOf(InUse) /\ a6 \in StoreOf(InUse)
  <2>1. link[y][d] \in InUse \cup {NULL}
    BY <1>4, <1>3, InUseClosed DEF Holder, InUse
  <2> QED
    BY <2>1, <1>3, <1>4, <1>6, <1>7, <1>14 DEF Store, StoreOf
<1>21. m1 = Stored(link, a1) /\ m2 = Stored(m1, a2) /\ m3 = Stored(m2, a3)
  BY <1>3 DEF Stored, Store, m1, m2, m3, HalfOpened, Opened, x, e
<1> HIDE DEF a1, a2, a3, a4, a5, a6
<1>22. Leads(InUse, link, <<a1, a2, a3, a4, a5, a6>>, link')
  BY <1>3, <1>6, <1>7, <1>9, <1>19, <1>20, <1>21, LeadsSix
<1> QED
  BY <1>1, <1>13, <1>22 DEF a1, a2, a3, a4, a5, a6

\* What is below a node in use is in use, and so is the way there.
LEMMA SubtreeInUse ==
  ASSUME IInv, NEW n \in InUse
  PROVE  /\ n \in Subtree(link, n) /\ Subtree(link, n) \subseteq InUse
         /\ \A p \in InUse, d \in Dir :
              link[p][d] \in Subtree(link, n) /\ link[p][d] # n => p \in Subtree(link, n)
<1>1. n \in Subtree(link, n) /\ Subtree(link, n) \subseteq InUse
  BY SubtreeFacts, InUseClosed
<1>2. ASSUME NEW p \in InUse, NEW d \in Dir, link[p][d] \in Subtree(link, n), link[p][d] # n
      PROVE  p \in Subtree(link, n)
  <2>1. PICK z \in Subtree(link, n), e \in Dir : link[z][e] = link[p][d]
    BY <1>2, ParentInSubtree
  <2>2. z \in InUse /\ link[p][d] # NULL
    BY <1>1, <1>2, SubtreeFacts, DistinctAddresses
  <2> QED
    BY <2>1, <2>2, InUseClosed
<1> QED
  BY <1>1, <1>2

\* Nothing is below both children of a node.
LEMMA SidesApart ==
  ASSUME IInv, NoLoops(link), NEW n \in InUse, NEW d \in Dir
  PROVE  Subtree(link, link[n][d]) \cap Subtree(link, link[n][Other(d)]) = {}
<1> DEFINE x == link[n][d]
           z == link[n][Other(d)]
           D == Subtree(link, x) \cap Subtree(link, z)
<1>0. CASE x = NULL \/ z = NULL
  BY <1>0, SubtreeFacts, DistinctAddresses
<1>1. CASE x # NULL /\ z # NULL
  <2>1. n \in Node /\ Other(d) \in Dir /\ Other(d) # d
    BY InUseFacts, Sides
  <2>2. x \in InUse /\ z \in InUse /\ x # z
    BY <1>1, <2>1, InUseClosed, Sides DEF Holder, InUse
  <2>3. n \notin Subtree(link, x) /\ n \notin Subtree(link, z)
    BY <2>1, NotBelowItself
  <2> HIDE DEF x, z
  <2>4. x \notin Subtree(link, z)
    BY <2>1, <2>2, <2>3, SubtreeInUse DEF x
  <2>5. Closed(link, Subtree(link, x) \ D)
    <3> SUFFICES ASSUME NEW y \in Subtree(link, x) \ D, NEW e \in Dir, link[y][e] \in Node,
                        link[y][e] \in Subtree(link, z)
                 PROVE  FALSE
      BY SubtreeFacts DEF Closed
    <3>1. y \in InUse /\ y \notin Subtree(link, z)
      BY <2>2, SubtreeInUse
    <3>2. link[y][e] = z
      BY <3>1, <2>2, SubtreeInUse
    <3>3. y = n
      BY <3>1, <3>2, <2>1, <2>2, InUseClosed, DistinctAddresses DEF z
    <3> QED
      BY <3>3, <2>3
  <2>6. x \in Subtree(link, x) \ D /\ Subtree(link, x) \ D \in SUBSET Node
    BY <2>2, <2>4, SubtreeInUse, SubtreeFacts
  <2>7. Subtree(link, x) \subseteq Subtree(link, x) \ D
    BY <2>5, <2>6, SubtreeFacts
  <2> QED
    BY <2>7 DEF x, z
<1> QED
  BY <1>0, <1>1

\* The search for the successor is below the right child.
SearchBelow ==
  pc = "successor" => cur \in Subtree(link, link[victim]["right"])

\* c_rbnode_unlink_stale, where the successor takes the place of the node.
LEMMA SpliceLeads ==
  ASSUME IInv, NoLoops(link), SearchBelow, SpliceSuccessor
  PROVE  Leads(InUse, link, SpliceStores, link')
<1> DEFINE n == victim
           s == cur
           p == IF s = link[n]["right"] THEN s ELSE c_rbnode_parent(pf, s)
           l == link[n]["left"]
           r == link[n]["right"]
           x == link[s]["right"]
           C == Subtree(link, n)
<1>1. pc = "successor" /\ link[s]["left"] = NULL /\ link' = SpliceLink(link, n, s, p)
  BY DEF SpliceSuccessor
<1>2. /\ n \in InUse /\ s \in InUse /\ s # n /\ l # NULL /\ r # NULL /\ s # l
      /\ s # r => p \in InUse /\ link[p]["left"] = s /\ p = c_rbnode_parent(pf, s)
  <2>1. /\ Spliceable(owner, link, pf, n, s, p, IF s = r THEN "right" ELSE "left")
        /\ p = s <=> s = r
    BY <1>1, SuccessorFound
  <2> QED
    BY <2>1 DEF Spliceable, InUse
<1>3. s \in Subtree(link, r)
  BY <1>1 DEF SearchBelow
<1>4. link \in Memory /\ "left" \in Dir /\ "right" \in Dir /\ "left" \in Side /\ "right" \in Side
      /\ Other("right") = "left"
  BY InUseFacts DEF Dir, Side, Other
<1>5. SpliceStores = IF s = r
                     THEN <<Store(s, "left", l), StoreInPlace(link, n, s)>>
                     ELSE <<Store(c_rbnode_parent(pf, s), "left", x), Store(s, "right", r),
                            Store(s, "left", l), StoreInPlace(link, n, s)>>
  BY DEF SpliceStores
<1>6. link' = PutInPlace(IF s = r THEN Put(link, s, "left", l)
                         ELSE Put(Put(Put(link, p, "left", x), s, "right", r), s, "left", l),
                         pf, n, s)
  BY <1>1 DEF SpliceLink, Put
<1> HIDE DEF n, s
<1>7. /\ l \in InUse /\ r \in InUse /\ (x \in InUse \/ x = NULL) /\ x # s
      /\ n \in Node /\ s \in Node /\ InUse \in SUBSET Node /\ Closed(link, InUse)
  BY <1>2, <1>4, InUseFacts, InUseClosed, ChildFacts DEF Holder, InUse
<1>8. s \notin Subtree(link, l)
  BY <1>2, <1>3, <1>4, SidesApart
<1>9. /\ Closed(link, C) /\ C \in SUBSET Node /\ n \in C /\ l \in C /\ r \in C /\ s \in C
      /\ x \in Node => x \in C
      /\ C \subseteq InUse
  <2>1. Closed(link, C) /\ C \in SUBSET Node /\ n \in C /\ C \subseteq InUse
    BY <1>2, SubtreeFacts, SubtreeInUse
  <2>2. l \in C /\ r \in C
    BY <2>1, <1>4, <1>7 DEF Closed
  <2>3. s \in C
    BY <2>2, <1>3, SubtreeWithin
  <2> QED
    BY <2>1, <2>2, <2>3, <1>4 DEF Closed
<1>10. PICK g \in Holder(owner), t \in Side :
           /\ g \notin C /\ g # n
           /\ StoreInPlace(link, n, s) = Store(g, t, s)
           /\ \A m \in Memory : m[g] = link[g] => PutInPlace(m, pf, n, s) = Put(m, g, t, s)
  BY <1>2, InPlaceAt
<1>11. g \in Node \cup Tree /\ g # s
  BY <1>9, <1>10 DEF Holder, Owned
<1> DEFINE a3 == Store(s, "left", l)
           a4 == Store(g, t, s)
<1>12. a3 \in StoreOf(InUse) /\ a4 \in StoreOf(InUse)
  BY <1>2, <1>4, <1>7, <1>11 DEF Store, StoreOf
<1> HIDE DEF C
<1>13. CASE s = r
  <2> DEFINE m3 == Put(link, s, "left", l)
  <2>1. m3 \in Memory /\ NoLoops(m3)
    <3>1. \E D \in SUBSET Node : Closed(link, D) /\ l \in D /\ s \notin D
      BY <1>7, <1>8, SubtreeFacts
    <3> QED
      BY <3>1, <1>4, <1>7, PutFacts, PutMakesNoLoop DEF Pointer
  <2>2. m3[g] = link[g]
    BY <1>4, <1>11 DEF Put, Memory
  <2>3. Closed(m3, C)
    BY <1>4, <1>7, <1>9, SubtreeStaysClosed
  <2>4. link' = Put(m3, g, t, s)
    BY <1>6, <1>10, <1>13, <2>1, <2>2
  <2>5. NoLoops(Put(m3, g, t, s))
    BY <1>9, <1>10, <1>11, <2>1, <2>3, InPlaceMakesNoLoop DEF C
  <2>6. m3 = Stored(link, a3) /\ Put(m3, g, t, s) = Stored(m3, a4)
    BY DEF Stored, Store
  <2> HIDE DEF m3, a3, a4
  <2>7. Leads(InUse, link, <<a3, a4>>, link')
    BY <1>4, <1>7, <1>12, <2>1, <2>4, <2>5, <2>6, LeadsTwo
  <2> QED
    BY <1>5, <1>10, <1>13, <2>7 DEF a3, a4
<1>14. CASE s # r
  <2> DEFINE m1 == Put(link, p, "left", x)
             m2 == Put(m1, s, "right", r)
             m3 == Put(m2, s, "left", l)
             a1 == Store(p, "left", x)
             a2 == Store(s, "right", r)
  <2>1. p \in InUse /\ p \in Node /\ link[p]["left"] = s /\ p = c_rbnode_parent(pf, s)
    BY <1>2, <1>7, <1>14
  <2> HIDE DEF p
  <2>2. p \in C
    <3>1. s \in C /\ s # n
      BY <1>2, <1>9
    <3> QED
      BY <3>1, <2>1, <1>2, <1>4, SubtreeInUse DEF C
  <2>3. m1 \in Memory /\ NoLoops(m1)
    <3>1. p \notin Subtree(link, s)
      BY <2>1, <1>4, NotBelowItself
    <3>2. Closed(link, Subtree(link, s)) /\ Subtree(link, s) \in SUBSET Node /\ s \in Subtree(link, s)
      BY <1>7, SubtreeFacts
    <3>3. x = NULL \/ \E D \in SUBSET Node : Closed(link, D) /\ x \in D /\ p \notin D
      BY <3>1, <3>2, <1>4, <1>7 DEF Closed
    <3> QED
      BY <3>3, <2>1, <1>4, <1>7, PutFacts, PutMakesNoLoop DEF Pointer
  <2>4. Closed(m1, InUse \ {s})
    <3>1. ASSUME NEW k \in InUse \ {s}, NEW b \in Dir, m1[k][b] \in Node
          PROVE  m1[k][b] \in InUse \ {s}
      <4>1. CASE k = p /\ b = "left"
        BY <4>1, <3>1, <2>1, <1>4, <1>7, DistinctAddresses DEF Put, Memory
      <4>2. CASE ~(k = p /\ b = "left")
        <5>1. m1[k][b] = link[k][b]
          BY <4>2, <2>1, <1>4, <1>7, Sides DEF Put, Memory
        <5>2. link[k][b] # s
          BY <4>2, <2>1, <1>4, <1>2, InUseClosed, <1>7, DistinctAddresses
        <5> QED
          BY <5>1, <5>2, <3>1, <1>7 DEF Closed
      <4> QED
        BY <4>1, <4>2
    <3> QED
      BY <3>1 DEF Closed
  <2> HIDE DEF m1
  <2>5. m2 \in Memory /\ NoLoops(m2)
    <3>1. \E D \in SUBSET Node : Closed(m1, D) /\ r \in D /\ s \notin D
      BY <2>4, <1>7, <1>14
    <3> QED
      BY <3>1, <2>3, <1>4, <1>7, PutFacts, PutMakesNoLoop DEF Pointer
  <2>6. Closed(m2, InUse \ {s})
    BY <2>3, <2>4, <1>4, <1>7, SubtreeStaysClosed
  <2> HIDE DEF m2
  <2>7. m3 \in Memory /\ NoLoops(m3)
    <3>1. \E D \in SUBSET Node : Closed(m2, D) /\ l \in D /\ s \notin D
      BY <2>6, <1>7, <1>2
    <3> QED
      BY <3>1, <2>5, <1>4, <1>7, PutFacts, PutMakesNoLoop DEF Pointer
  <2>8. Closed(m3, C)
    <3>1. Closed(m1, C)
      BY <1>4, <1>9, <2>1, SubtreeStaysClosed DEF m1
    <3>2. Closed(m2, C)
      BY <3>1, <1>4, <1>7, <1>9, <2>3, SubtreeStaysClosed DEF m2
    <3> QED
      BY <3>2, <1>4, <1>7, <1>9, <2>5, SubtreeStaysClosed
  <2>9. m3[g] = link[g]
    <3>1. g # p
      BY <2>2, <1>10
    <3>2. m1[g] = link[g]
      BY <3>1, <2>1, <1>4, <1>11 DEF m1, Put, Memory
    <3>3. m2[g] = m1[g]
      BY <2>3, <1>4, <1>7, <1>11 DEF m2, Put, Memory
    <3>4. m3[g] = m2[g]
      BY <2>5, <1>4, <1>7, <1>11 DEF m3, Put, Memory
    <3> QED
      BY <3>2, <3>3, <3>4
  <2>10. link' = Put(m3, g, t, s)
    BY <1>6, <1>10, <1>14, <2>7, <2>9 DEF m1, m2
  <2>11. NoLoops(Put(m3, g, t, s))
    BY <1>9, <1>10, <1>11, <2>7, <2>8, InPlaceMakesNoLoop DEF C
  <2>12. a1 \in StoreOf(InUse) /\ a2 \in StoreOf(InUse)
    BY <1>2, <1>4, <1>7, <2>1 DEF Store, StoreOf
  <2>13. /\ m1 = Stored(link, a1) /\ m2 = Stored(m1, a2) /\ m3 = Stored(m2, a3)
         /\ Put(m3, g, t, s) = Stored(m3, a4)
    BY DEF Stored, Store, m1, m2
  <2> HIDE DEF m3, a1, a2, a3, a4
  <2>14. Leads(InUse, m1, <<a2, a3, a4>>, link')
    BY <1>7, <1>12, <2>3, <2>5, <2>7, <2>10, <2>11, <2>12, <2>13, LeadsThree
  <2>15. Follows(<<a1, a2, a3, a4>>, a1, <<a2, a3, a4>>) /\ <<a1, a2, a3, a4>> \in Seq(StoreOf(InUse))
    BY <1>12, <2>12 DEF Follows
  <2>16. Leads(InUse, link, <<a1, a2, a3, a4>>, link')
    BY <1>4, <1>7, <2>12, <2>13, <2>14, <2>15, LeadsOn
  <2> QED
    BY <1>5, <1>10, <1>14, <2>1, <2>16 DEF a1, a2, a3, a4
<1> QED
  BY <1>13, <1>14

\* c_rbnode_unlink_stale, where NULL or the only child c takes the place of n.
LEMMA ReplaceLeads ==
  ASSUME IInv, NoLoops(link), NEW n \in InUse, NEW c \in Pointer,
         c = NULL \/ \E d \in Dir : c = link[n][d]
  PROVE  Leads(InUse, link, <<StoreInPlace(link, n, c)>>, PutInPlace(link, pf, n, c))
<1>1. PICK g \in Holder(owner), t \in Side :
           /\ g \notin Subtree(link, n) /\ g # n
           /\ StoreInPlace(link, n, c) = Store(g, t, c)
           /\ \A m \in Memory : m[g] = link[g] => PutInPlace(m, pf, n, c) = Put(m, g, t, c)
  BY InPlaceAt
<1>2. g \in Node \cup Tree /\ link \in Memory /\ InUse \in SUBSET Node /\ n \in Node
  BY InUseFacts DEF Holder, Owned
<1>3. c \in Subtree(link, n) \cup {NULL} /\ c \in InUse \cup {NULL}
        /\ Closed(link, Subtree(link, n))
  BY <1>2, SubtreeFacts, SubtreeInUse DEF Closed, Pointer
<1>4. NoLoops(Put(link, g, t, c))
  BY <1>1, <1>2, <1>3, InPlaceMakesNoLoop
<1>5. PutInPlace(link, pf, n, c) = Stored(link, Store(g, t, c))
  BY <1>1, <1>2 DEF Stored, Store
<1>6. Store(g, t, c) \in StoreOf(InUse)
  BY <1>2, <1>3 DEF Store, StoreOf
<1>7. Leads(InUse, link, <<Store(g, t, c)>>, Put(link, g, t, c))
  <2>1. Put(link, g, t, c) = Stored(link, Store(g, t, c))
    BY DEF Stored, Store
  <2> QED
    BY <2>1, <1>2, <1>4, <1>6, LeadsOne
<1> QED
  BY <1>1, <1>2, <1>7

\* Resetting the fields of a node, in either order.
LEMMA ResetLeads ==
  ASSUME NEW m \in Memory, NoLoops(m), NEW V \in SUBSET Node, NEW n \in Node,
         m[n]["root"] = NULL
  PROVE  \A st \in InitStores(n) : Leads(V, m, st, [m EXCEPT ![n] = NoLinks])
<1> DEFINE a(s) == Store(n, s, NULL)
<1>1. "left" \in Side /\ "right" \in Side /\ NULL \in Pointer
  BY DEF Side, Pointer
<1>2. \A s \in Side : a(s) \in StoreOf(V)
  BY DEF Store, StoreOf
<1>3. ASSUME NEW m1 \in Memory, NoLoops(m1), NEW s \in Side
      PROVE  Stored(m1, a(s)) \in Memory /\ NoLoops(Stored(m1, a(s)))
  <2>1. Stored(m1, a(s)) = Put(m1, n, s, NULL)
    BY DEF Stored, Store
  <2> QED
    BY <2>1, <1>1, <1>3, PutFacts, PutMakesNoLoop
<1>4. /\ Stored(Stored(m, a("left")), a("right")) = [m EXCEPT ![n] = NoLinks]
      /\ Stored(Stored(m, a("right")), a("left")) = [m EXCEPT ![n] = NoLinks]
  <2>1. \A s \in Side : s = "left" \/ s = "right" \/ s = "root"
    BY DEF Side
  <2>2. m[n] \in [Side -> Pointer]
    BY DEF Memory
  <2>3. [[m[n] EXCEPT !["left"] = NULL] EXCEPT !["right"] = NULL] = NoLinks
    BY <2>1, <2>2 DEF NoLinks
  <2>4. [[m[n] EXCEPT !["right"] = NULL] EXCEPT !["left"] = NULL] = NoLinks
    BY <2>1, <2>2 DEF NoLinks
  <2> QED
    BY <2>3, <2>4 DEF Stored, Store, Put, Memory
<1> HIDE DEF a
<1>5. \A s, b \in Side : Leads(V, m, <<a(s), a(b)>>, Stored(Stored(m, a(s)), a(b)))
  BY <1>2, <1>3, LeadsTwo
<1>6. InitStores(n) = {<<a("left"), a("right")>>, <<a("right"), a("left")>>}
  BY DEF InitStores, a
<1> QED
  BY <1>1, <1>4, <1>5, <1>6

\* c_rbnode_link and c_rbtree_add: the node is reset and stored in field s of x.
LEMMA LinkLeads ==
  ASSUME IInv, NoLoops(link), NEW n \in Node, owner[n] = NULL,
         NEW x \in Holder(owner), NEW s \in Side
  PROVE  Leads(InUse \cup {n}, link, LinkStores(x, s, n),
               [link EXCEPT ![n] = NoLinks, ![x][s] = n])
<1> DEFINE V == InUse \cup {n}
           a1 == Store(n, "left", NULL)
           a2 == Store(n, "right", NULL)
           a3 == Store(x, s, n)
           m1 == Stored(link, a1)
           m2 == [link EXCEPT ![n] = NoLinks]
           l  == [link EXCEPT ![n] = NoLinks, ![x][s] = n]
<1>1. /\ link \in Memory /\ x \in Node \cup Tree /\ V \in SUBSET Node /\ link[n]["root"] = NULL
      /\ "left" \in Side /\ "right" \in Side /\ x # n /\ NULL \in Pointer
  BY InUseFacts, DistinctAddresses DEF Sound, Shaped, Holder, Owned, InUse, Side, Pointer
<1>2. a1 \in StoreOf(V) /\ a2 \in StoreOf(V) /\ a3 \in StoreOf(V)
  BY <1>1 DEF Store, StoreOf
<1>3. m1 \in Memory /\ NoLoops(m1)
  BY <1>1, PutFacts, PutMakesNoLoop DEF Stored, Store
<1>4. m2 = Stored(m1, a2) /\ m2 \in Memory /\ NoLoops(m2)
  <2>1. <<a1, a2>> \in InitStores(n)
    BY DEF InitStores
  <2>2. m2 = Stored(m1, a2)
    <3>1. \A b \in Side : b = "left" \/ b = "right" \/ b = "root"
      BY DEF Side
    <3>2. link[n] \in [Side -> Pointer]
      BY <1>1 DEF Memory
    <3>3. [[link[n] EXCEPT !["left"] = NULL] EXCEPT !["right"] = NULL] = NoLinks
      BY <1>1, <3>1, <3>2 DEF NoLinks
    <3> QED
      BY <3>3, <1>1 DEF Stored, Store, Put, Memory
  <2>3. Leads(V, link, <<a1, a2>>, m2)
    BY <2>1, <1>1, ResetLeads
  <2> QED
    BY <2>2, <2>3, LeadsFacts
<1>5. l = Put(m2, x, s, n) /\ l = Stored(m2, a3)
  BY DEF Put, Stored, Store
<1>6. NoLoops(l)
  <2>1. Closed(m2, {n})
    BY <1>1, Sides, DistinctAddresses DEF Closed, NoLinks, Memory
  <2>2. \E C \in SUBSET Node : Closed(m2, C) /\ n \in C /\ x \notin C
    BY <2>1, <1>1
  <2>3. n \in Pointer
    BY DEF Pointer
  <2> HIDE DEF m2, l
  <2> QED
    BY <2>2, <2>3, <1>1, <1>4, <1>5, PutMakesNoLoop
<1>7. LinkStores(x, s, n) = <<a1, a2, a3>>
  BY DEF LinkStores
<1> HIDE DEF V, a1, a2, a3, m1, m2, l
<1>8. Leads(V, link, <<a1, a2, a3>>, l)
  BY <1>1, <1>2, <1>3, <1>4, <1>5, <1>6, LeadsThree DEF m1
<1> QED
  BY <1>7, <1>8 DEF V, l

\* c_rbtree_move, in either order of its plain assignments.
LEMMA MoveLeads ==
  ASSUME IInv, NoLoops(link), NEW to \in Tree, NEW from \in Tree, c_rbtree_move(to, from),
         NEW st \in MoveStores(to, from)
  PROVE  Leads(InUse, link, st, link')
<1> DEFINE r == link[from]["root"]
           a(x, v) == Store(x, "root", v)
<1>1. /\ link' = [link EXCEPT ![to]["root"] = r, ![from]["root"] = NULL]
      /\ link[to]["root"] = NULL /\ r # NULL
  BY DEF c_rbtree_move
<1>2. /\ link \in Memory /\ "root" \in Side /\ to \in Node \cup Tree /\ from \in Node \cup Tree
      /\ r \in InUse /\ InUse \in SUBSET Node /\ to # from
  BY <1>1, InUseClosed DEF Side, Holder
<1> HIDE DEF r
<1>3. \A x \in {to, from}, v \in {r, NULL} : a(x, v) \in StoreOf(InUse)
  BY <1>2 DEF Store, StoreOf
<1>4. ASSUME NEW m1 \in Memory, NoLoops(m1), NEW x \in {to, from}, NEW v \in {r, NULL}
      PROVE  Stored(m1, a(x, v)) \in Memory /\ NoLoops(Stored(m1, a(x, v)))
  <2>1. Stored(m1, a(x, v)) = Put(m1, x, "root", v)
    BY DEF Stored, Store
  <2>2. v \in Pointer /\ x \in Tree
    BY <1>2 DEF Pointer
  <2> QED
    BY <2>1, <2>2, <1>2, <1>4, PutFacts, PutMakesNoLoop
<1>5. /\ Stored(Stored(Stored(link, a(to, r)), a(from, NULL)), a(to, r)) = link'
      /\ Stored(Stored(Stored(link, a(from, NULL)), a(to, r)), a(to, r)) = link'
  BY <1>1, <1>2 DEF Stored, Store, Put, Memory
<1> HIDE DEF a
<1>6. \A x, y, z \in {to, from}, v, v2, v3 \in {r, NULL} :
        Leads(InUse, link, <<a(x, v), a(y, v2), a(z, v3)>>,
              Stored(Stored(Stored(link, a(x, v)), a(y, v2)), a(z, v3)))
  BY <1>2, <1>3, <1>4, LeadsThree
<1>7. MoveStores(to, from) = {<<a(to, r), a(from, NULL), a(to, r)>>,
                              <<a(from, NULL), a(to, r), a(to, r)>>}
  BY DEF MoveStores, a, r
<1> QED
  BY <1>5, <1>6, <1>7

\* c_rbtree_init.
LEMMA TreeInitLeads ==
  ASSUME IInv, NoLoops(link), NEW t \in Tree, c_rbtree_init(t)
  PROVE  Leads(InUse, link, <<Store(t, "root", NULL)>>, link')
<1> DEFINE a == Store(t, "root", NULL)
<1>1. link \in Memory /\ Shaped(link) /\ InUse \in SUBSET Node /\ "root" \in Side
      /\ NULL \in Pointer
  BY InUseFacts DEF Sound, Side, Pointer
<1>2. link' = Put(link, t, "root", NULL)
  <2>1. \A b \in Side : b = "left" \/ b = "right" \/ b = "root"
    BY DEF Side
  <2>2. link[t] \in [Side -> Pointer] /\ link[t]["left"] = NULL /\ link[t]["right"] = NULL
    BY <1>1 DEF Memory, Shaped, Dir
  <2>3. [link[t] EXCEPT !["root"] = NULL] = NoLinks
    BY <2>1, <2>2 DEF NoLinks
  <2> QED
    BY <2>3, <1>1 DEF c_rbtree_init, Put, Memory
<1>3. link' = Stored(link, a)
  BY <1>2 DEF Stored, Store
<1>4. NoLoops(link') /\ a \in StoreOf(InUse)
  BY <1>1, <1>2, PutMakesNoLoop DEF Store, StoreOf
<1> HIDE DEF a
<1>5. Leads(InUse, link, <<a>>, link')
  BY <1>1, <1>3, <1>4, LeadsOne
<1> QED
  BY <1>5 DEF a

\* The nodes whose fields readers may come to: those in use, and those that are
\* leaving.
Seen == InUse \cup leaving

\* More nodes are in use or leaving than any store is about.
LEMMA MoreSeen ==
  ASSUME NEW V, NEW W, V \subseteq W, NEW m, NEW st, NEW l, Leads(V, m, st, l)
  PROVE  Leads(W, m, st, l)
<1>1. st \in Seq(StoreOf(V)) /\ StoreOf(V) \subseteq StoreOf(W)
  BY DEF Leads, StoreOf
<1> QED
  BY <1>1 DEF Leads

\* What was in use is in use or leaving.
LEMMA SeenGrows ==
  ASSUME IInv, NoteRemoved
  PROVE  InUse \subseteq Seen' /\ InUse' \subseteq Seen'
BY DEF NoteRemoved, Seen, InUse, Owned

\* The search for the successor stays below the right child.
LEMMA SearchStays ==
  ASSUME IInv, SearchBelow, [Next]_vars
  PROVE  SearchBelow'
<1>1. SUFFICES ASSUME pc' = "successor"
               PROVE  cur' \in Subtree(link', link'[victim']["right"])
  BY DEF SearchBelow
<1>2. CASE WalkLeft
  <2>1. /\ pc = "successor" /\ link[cur]["left"] # NULL /\ cur' = link[cur]["left"]
        /\ link' = link /\ victim' = victim
    BY <1>2 DEF WalkLeft, Continue, memory
  <2>2. cur \in InUse /\ "left" \in Dir /\ "left" \in Side
    BY <2>1 DEF IInv, Searching, Dir, Side
  <2>3. cur' \in Node
    BY <2>1, <2>2, InUseClosed DEF Holder, InUse
  <2> QED
    BY <2>1, <2>2, <2>3, SubtreeFacts DEF SearchBelow, Closed
<1>3. ASSUME NEW n \in Node, NEW api \in APICall, UnlinkFull(api, n)
      PROVE  cur' \in Subtree(link', link'[victim']["right"])
  <2>1. /\ cur' = link[n]["right"] /\ link' = link /\ victim' = n /\ link[n]["right"] # NULL
        /\ n \in InUse
    BY <1>3, RemovableInUse DEF UnlinkFull, memory, Dir, InUse
  <2>2. cur' \in Node
    BY <2>1, InUseClosed DEF Holder, InUse, Side
  <2> QED
    BY <2>1, <2>2, SubtreeFacts
<1>4. CASE UNCHANGED vars
  BY <1>1, <1>4 DEF vars, SearchBelow
<1>5. \A n \in Node : (\E t \in Tree : AddRoot(t, n)) \/ (\E p \in Node, d \in Dir : Link(p, d, n)) => FALSE
  BY <1>1 DEF AddRoot, Link, Continue
<1>6. \A n \in Node : \A api \in APICall :
        UnlinkLeaf(api, n) \/ (\E d \in Dir : UnlinkOneChild(api, n, d)) => FALSE
  BY <1>1 DEF UnlinkLeaf, UnlinkOneChild, Unlinked, RebalanceFrom, Return
<1>7. ~Move /\ (\A n \in Node : ~c_rbnode_init(n)) /\ (\A t \in Tree : ~c_rbtree_init(t))
  BY <1>1 DEF Move, c_rbtree_move, c_rbnode_init, c_rbtree_init, Idle, locals
<1>8. Step => WalkLeft
  BY <1>1 DEF Step, PaintRoot, PaintDone, PaintRecolor, PaintRotate, PaintRotateTwice,
     SpliceSuccessor, RebalanceEnd, RebalanceRecolor, RebalanceFound, RotateRedSibling,
     RotateRecolor, RotateSibling, RotateNephew, Reinit, Unlinked, RebalanceFrom, Return, Continue
<1> QED
  BY <1>2, <1>3, <1>4, <1>5, <1>6, <1>7, <1>8 DEF Next, Unlink

\* Every step of the writer is one of CRBTree.
LEMMA WriterSteps ==
  ASSUME WriterCall \/ WriterStep
  PROVE  Next
BY DEF WriterCall, WriterInsert, WriterRemove, WriterInit, WriterMove, WriterTreeInit, Insert,
   WriterStep, Next, Step, Unlink, Move

\* The stores of a call that begins lead to the memory it produces.
LEMMA CallLeads ==
  ASSUME IInv, NoLoops(link), WriterCall
  PROVE  Leads(Seen', link, stores', link')
<1>0. NoteRemoved
  BY DEF WriterCall
<1>1. InUse \subseteq Seen' /\ InUse' \subseteq Seen' /\ link \in Memory /\ InUse \in SUBSET Node
  BY <1>0, SeenGrows, InUseFacts
<1>2. ASSUME NEW n \in Node, NEW t \in Tree, WriterInsert(t, n)
      PROVE  Leads(Seen', link, stores', link')
  <2>1. ASSUME NEW x \in Holder(owner), NEW s \in Side, owner[n] = NULL,
               link' = [link EXCEPT ![n] = NoLinks, ![x][s] = n],
               owner' = [owner EXCEPT ![n] = Home(owner, x)],
               stores' = LinkStores(x, s, n)
        PROVE  Leads(Seen', link, stores', link')
    <3>1. Leads(InUse \cup {n}, link, stores', link')
      BY <2>1, LinkLeads
    <3>2. n \in InUse'
      <4>1. Home(owner, x) # NULL
        BY DistinctAddresses DEF Home, Holder, Owned
      <4>2. owner'[n] = Home(owner, x)
        BY <2>1, InUseFacts DEF Owners
      <4> QED
        BY <4>1, <4>2 DEF InUse, Owned
    <3> QED
      BY <3>1, <3>2, <1>1, MoreSeen
  <2>2. CASE \E u \in Tree : c_rbtree_find_slot(t, KeyOf[n]) = RootSlot(u) /\ AddRoot(u, n)
    <3>1. PICK u \in Tree : c_rbtree_find_slot(t, KeyOf[n]) = RootSlot(u) /\ AddRoot(u, n)
      BY <2>2
    <3>2. stores' = LinkStores(u, "root", n)
      BY <3>1, <1>2 DEF WriterInsert, Emit, RootSlot
    <3>3. u \in Holder(owner) /\ "root" \in Side /\ Home(owner, u) = u
      BY DEF Holder, Side, Home
    <3> QED
      BY <3>1, <3>2, <3>3, <2>1 DEF AddRoot
  <2>3. CASE \E p \in Node, d \in Dir :
               c_rbtree_find_slot(t, KeyOf[n]) = [p |-> p, l |-> d] /\ Link(p, d, n)
    <3>1. PICK p \in Node, d \in Dir :
               c_rbtree_find_slot(t, KeyOf[n]) = [p |-> p, l |-> d] /\ Link(p, d, n)
      BY <2>3
    <3>2. stores' = LinkStores(p, d, n)
      BY <3>1, <1>2 DEF WriterInsert, Emit
    <3>3. p \in Holder(owner) /\ d \in Side /\ Home(owner, p) = owner[p]
      BY <3>1, Sides, DistinctAddresses DEF Holder, Owned, Home, Link
    <3> QED
      BY <3>1, <3>2, <3>3, <2>1 DEF Link
  <2> QED
    BY <2>2, <2>3, <1>2 DEF WriterInsert, Insert
<1>3. ASSUME NEW n \in Node, NEW api \in APICall, WriterRemove(api, n)
      PROVE  Leads(Seen', link, stores', link')
  <2>1. n \in InUse
    BY <1>3, RemovableInUse DEF WriterRemove, UnlinkLeaf, UnlinkOneChild, UnlinkFull, InUse
  <2>2. CASE UnlinkLeaf(api, n) /\ Emit(<<StoreInPlace(link, n, NULL)>>)
    <3>1. NULL \in Pointer /\ link' = PutInPlace(link, pf, n, NULL)
          /\ stores' = <<StoreInPlace(link, n, NULL)>>
      BY <2>2 DEF UnlinkLeaf, Emit, Pointer
    <3> QED
      BY <3>1, <2>1, <1>1, ReplaceLeads, MoreSeen
  <2>3. CASE \E d \in Dir : UnlinkOneChild(api, n, d) /\ Emit(<<StoreInPlace(link, n, link[n][d])>>)
    <3>1. PICK d \in Dir : UnlinkOneChild(api, n, d) /\ Emit(<<StoreInPlace(link, n, link[n][d])>>)
      BY <2>3
    <3>2. /\ link[n][d] \in Pointer /\ link' = PutInPlace(link, pf, n, link[n][d])
          /\ stores' = <<StoreInPlace(link, n, link[n][d])>>
      BY <3>1, <1>1, Sides DEF UnlinkOneChild, Emit, Memory
    <3> QED
      BY <3>2, <2>1, <1>1, ReplaceLeads, MoreSeen
  <2>4. CASE UnlinkFull(api, n) /\ Emit(<<>>)
    <3>1. link' = link /\ stores' = <<>>
      BY <2>4 DEF UnlinkFull, Emit, memory
    <3> QED
      BY <3>1, <1>1, LeadsNowhere, MoreSeen
  <2> QED
    BY <2>2, <2>3, <2>4, <1>3 DEF WriterRemove
<1>4. ASSUME NEW n \in Node, WriterInit(n)
      PROVE  Leads(Seen', link, stores', link')
  <2>1. link' = [link EXCEPT ![n] = NoLinks] /\ stores' \in InitStores(n)
    BY <1>4 DEF WriterInit, c_rbnode_init, Emit
  <2>2. link[n]["root"] = NULL
    BY InUseFacts DEF Sound, Shaped
  <2> QED
    BY <2>1, <2>2, <1>1, ResetLeads, MoreSeen
<1>5. ASSUME NEW to \in Tree, NEW from \in Tree, WriterMove(to, from)
      PROVE  Leads(Seen', link, stores', link')
  <2>1. c_rbtree_move(to, from) /\ stores' \in MoveStores(to, from)
    BY <1>5 DEF WriterMove, Emit
  <2> QED
    BY <2>1, <1>1, MoveLeads, MoreSeen
<1>6. ASSUME NEW t \in Tree, WriterTreeInit(t)
      PROVE  Leads(Seen', link, stores', link')
  <2>1. c_rbtree_init(t) /\ stores' = <<Store(t, "root", NULL)>>
    BY <1>6 DEF WriterTreeInit, Emit
  <2> QED
    BY <2>1, <1>1, TreeInitLeads, MoreSeen
<1> QED
  BY <1>2, <1>3, <1>4, <1>5, <1>6 DEF WriterCall

\* And so do the stores of a step of a call.
LEMMA StepLeads ==
  ASSUME IInv, NoLoops(link), SearchBelow, WriterStep
  PROVE  Leads(Seen', link, stores', link')
<1>0. NoteRemoved
  BY DEF WriterStep
<1>1. InUse \subseteq Seen' /\ link \in Memory /\ InUse \in SUBSET Node
  BY <1>0, SeenGrows, InUseFacts
<1>2. SUFFICES ASSUME stores' # <<>> \/ link' # link
               PROVE  Leads(InUse, link, stores', link')
  BY <1>1, LeadsNowhere, MoreSeen
<1>3. ~/\ \/ PaintRoot \/ PaintDone \/ PaintRecolor \/ WalkLeft
          \/ RebalanceEnd \/ RebalanceRecolor \/ RebalanceFound \/ RotateRecolor
       /\ Emit(<<>>)
  BY <1>2 DEF PaintRoot, PaintDone, PaintRecolor, WalkLeft, RebalanceEnd, RebalanceRecolor,
     RebalanceFound, RotateRecolor, Emit, memory
<1>4. CASE PaintRotate /\ Emit(PaintStores)
  BY <1>4, PaintRotateLeads DEF Emit
<1>5. CASE PaintRotateTwice /\ Emit(PaintTwiceStores)
  BY <1>5, PaintRotateTwiceLeads DEF Emit
<1>6. CASE SpliceSuccessor /\ Emit(SpliceStores)
  BY <1>6, SpliceLeads DEF Emit
<1>7. CASE (RotateRedSibling \/ RotateSibling) /\ Emit(SiblingStores)
  BY <1>7, RotateSiblingLeads DEF Emit
<1>8. CASE RotateNephew /\ Emit(NephewStores)
  BY <1>8, RotateNephewLeads DEF Emit
<1>9. CASE Reinit /\ \E s \in InitStores(victim) : Emit(s)
  <2>1. /\ link' = [link EXCEPT ![victim] = NoLinks] /\ stores' \in InitStores(victim)
        /\ victim \in Node
    BY <1>9 DEF Reinit, Emit, IInv, Initialising
  <2>2. link[victim]["root"] = NULL
    BY <2>1, InUseFacts DEF Sound, Shaped
  <2> QED
    BY <2>1, <2>2, <1>1, ResetLeads
<1> QED
  BY <1>3, <1>4, <1>5, <1>6, <1>7, <1>8, <1>9 DEF WriterStep

-----------------------------------------------------------------------------
(* What readers see of the writer *)

VisInv ==
  /\ NoLoops(link)
  /\ SearchBelow
  /\ leaving \in SUBSET Node
  /\ vis \in Memory
  /\ stores \in Seq(StoreOf(Seen))
  /\ Produces(vis, stores, link)
  /\ InOrderStores => Path(vis, stores, link)

LInv == IInv /\ VisInv

\* Memory that no store separates from another is that one.
LEMMA NoStoresLeft ==
  ASSUME NEW v \in Memory, NEW m \in Memory, Produces(v, <<>>, m)
  PROVE  v = m
<1>1. \A x \in Node \cup Tree, s \in Side : v[x][s] = m[x][s]
  BY DEF Produces, StoresTo
<1> QED
  BY <1>1 DEF Memory

\* With no store pending the readers' memory is the finished one.
LEMMA AllVisible ==
  ASSUME IInv, VisInv, stores = <<>>
  PROVE  vis = link
BY NoStoresLeft, InUseFacts DEF VisInv

\* The memory at the start has no pointers.
LEMMA LInitHolds ==
  ASSUME LInit
  PROVE  LInv
<1>1. IInv
  BY InitHolds DEF LInit
<1>2. NoLoops(link)
  <2>1. \A n \in Node, d \in Dir : link[n][d] = NULL
    BY Sides DEF LInit, Init, NoLinks
  <2> QED
    BY <2>1, DistinctAddresses DEF NoLoops
<1>3. SearchBelow /\ leaving \in SUBSET Node /\ vis = link /\ link \in Memory /\ stores = <<>>
  BY <1>1, InUseFacts DEF LInit, Init, SearchBelow
<1>4. Seen \in SUBSET Node
  BY <1>3 DEF Seen, InUse, Owned
<1>5. Leads(Seen, link, stores, link)
  BY <1>2, <1>3, <1>4, LeadsNowhere
<1> QED
  BY <1>1, <1>2, <1>3, <1>5 DEF LInv, VisInv, Leads

\* The writer goes on when all its stores are visible.
LEMMA WriterKeepsVis ==
  ASSUME IInv, VisInv, WriterCall \/ WriterStep
  PROVE  VisInv'
<1>1. stores = <<>> /\ vis' = vis /\ NoteRemoved
  BY DEF WriterCall, WriterInsert, WriterRemove, WriterInit, WriterMove, WriterTreeInit,
     WriterStep, Emit
<1>2. NoLoops(link) /\ SearchBelow
  BY DEF VisInv
<1>3. Leads(Seen', vis', stores', link')
  BY <1>1, <1>2, CallLeads, StepLeads, AllVisible
<1>4. SearchBelow'
  BY <1>2, SearchStays, WriterSteps
<1>5. leaving' \in SUBSET Node
  BY <1>1 DEF NoteRemoved, InUse, Owned
<1>6. NoLoops(link') /\ vis' \in Memory
  BY <1>3, LeadsFacts
<1> QED
  BY <1>3, <1>4, <1>5, <1>6 DEF VisInv, Leads

\* A store becomes visible.
LEMMA VisibleKeepsVis ==
  ASSUME IInv, VisInv, NEW i \in 1 .. Len(stores), Visible(i)
  PROVE  VisInv'
<1>1. /\ InUse' = InUse /\ link' = link /\ pc' = pc /\ cur' = cur /\ victim' = victim
      /\ vis' = Stored(vis, stores[i]) /\ stores' = RemoveAt(stores, i)
      /\ leaving' = IF Len(stores) = 1 THEN {} ELSE leaving
      /\ InOrderStores => i = 1
      /\ \A j \in 1 .. i - 1 : <<stores[j].obj, stores[j].field>>
                                 # <<stores[i].obj, stores[i].field>>
  BY DEF Visible, vars, InUse, Stored, Put
<1>2. /\ NoLoops(link) /\ SearchBelow /\ leaving \in SUBSET Node /\ vis \in Memory
      /\ stores \in Seq(StoreOf(Seen)) /\ Produces(vis, stores, link)
      /\ InOrderStores => Path(vis, stores, link)
      /\ Seen \in SUBSET Node
  BY InUseFacts DEF VisInv, Seen
<1>3. NoLoops(link') /\ SearchBelow' /\ leaving' \in SUBSET Node
  BY <1>1, <1>2 DEF SearchBelow
<1>4. stores[i] \in StoreOf(Seen)
  BY <1>2
<1>5. vis' \in Memory
  BY <1>1, <1>2, <1>4, StoredFacts
<1>6. stores' \in Seq(StoreOf(Seen'))
  <2>1. stores' \in Seq(StoreOf(Seen)) /\ Len(stores') = Len(stores) - 1
    BY <1>1, <1>2, RemoveAtFacts
  <2>2. CASE Len(stores) = 1
    BY <2>1, <2>2
  <2>3. CASE Len(stores) # 1
    BY <2>1, <2>3, <1>1 DEF Seen
  <2> QED
    BY <2>2, <2>3
<1>7. Produces(vis', stores', link')
  BY <1>1, <1>2, VisibleProduces
<1>8. InOrderStores => Path(vis', stores', link')
  BY <1>1, <1>2, FirstVisible
<1> QED
  BY <1>3, <1>5, <1>6, <1>7, <1>8 DEF VisInv

\* Readers do not write.
LEMMA ReadersKeepVis ==
  ASSUME VisInv, UNCHANGED <<vars, shared>>
  PROVE  VisInv'
BY DEF VisInv, SearchBelow, Seen, InUse, vars, shared

\* Every step keeps the invariant.
LEMMA LNextKeeps ==
  ASSUME LInv, [LNext]_lvars
  PROVE  LInv'
<1>1. CASE WriterCall \/ WriterStep
  BY <1>1, WriterSteps, NextKeeps, WriterKeepsVis DEF LInv
<1>2. CASE Propagate
  <2>1. UNCHANGED vars
    BY <1>2 DEF Propagate, Visible
  <2> QED
    BY <2>1, <1>2, NextKeeps, VisibleKeepsVis DEF LInv, Propagate
<1>3. CASE UNCHANGED <<vars, shared>>
  BY <1>3, NextKeeps, ReadersKeepVis DEF LInv
<1> QED
  BY <1>1, <1>2, <1>3 DEF LNext, LookupStart, LookupStep, LookupEnd, lvars

\* The stores of each function, in the order of the source or in another the
\* compiler or the processor may choose, produce the memory that the steps of
\* CRBTree give.
THEOREM StoresProduceTrees == LSpec => []StoresProduceTree
<1>1. LInit => LInv
  BY LInitHolds
<1>2. LInv /\ [LNext]_lvars => LInv'
  BY LNextKeeps
<1>3. LInv => StoresProduceTree
  BY DEF LInv, VisInv, Produces, StoresTo, StoresProduceTree, Pending
<1> QED
  BY <1>1, <1>2, <1>3, PTL DEF LSpec

\* In the order of the source, no store shows readers a loop.
LEMMA NoLoopSeen ==
  ASSUME InOrderStores, LInv
  PROVE  NoLoops(vis)
<1>1. Path(vis, stores, link) /\ Len(stores) \in Nat
  BY DEF LInv, VisInv
<1>2. 0 \in 0 .. Len(stores)
  BY <1>1
<1> QED
  BY <1>1, <1>2 DEF Path

\* Where the order of the source is kept, readers never see a loop: what the
\* comment of c_rbtree_store promises.
THEOREM ReadersSeeNoLoops == InOrderStores => (LSpec => []NoVisibleLoops)
<1> SUFFICES ASSUME InOrderStores
             PROVE  LSpec => []NoVisibleLoops
  OBVIOUS
<1>1. LInit => LInv
  BY LInitHolds
<1>2. LInv /\ [LNext]_lvars => LInv'
  BY LNextKeeps
<1>3. LInv => NoVisibleLoops
  BY NoLoopSeen DEF NoVisibleLoops
<1> QED
  BY <1>1, <1>2, <1>3, PTL DEF LSpec

-----------------------------------------------------------------------------
(* Where lookups get to *)

\* The node that is being inserted, as long as stores to its own fields are not
\* visible: nothing that readers see holds it, and its fields may be garbage.
Unborn ==
  {n \in Node : pc = "paint" /\ n = cur /\ \E i \in 1 .. Len(stores) : stores[i].obj = n}

\* The nodes a lookup may be at, if those of R left a tree since it began.
Within(R) == R \cup (InUse \ Unborn)

\* No tree and no node a lookup may be at leads to another node.
ClosedFor(R) ==
  \A x \in Tree \cup Within(R), s \in Side : vis[x][s] \in Within(R) \cup {NULL}

\* A node is complete before it is stored.
CompleteFirst ==
  pc = "paint" =>
    \A i, j \in 1 .. Len(stores) : i <= j /\ stores[i].val = cur => stores[j].obj # cur

Lookup == [running : BOOLEAN, i : Pointer, k : Key \cup {NoLookup.k}]

ReadersOK ==
  /\ reader \in [Reader -> Lookup]
  /\ removed \in [Reader -> SUBSET Node]
  /\ \A r \in Reader :
       /\ ~reader[r].running => reader[r].i = NULL
       /\ reader[r].running =>
            /\ leaving \subseteq removed[r]
            /\ ClosedFor(removed[r])
            /\ reader[r].i \in Within(removed[r]) \cup {NULL}

ReadInv == CompleteFirst /\ ClosedFor(leaving) /\ ReadersOK

\* No lookup is running at the start.
LEMMA ReadInit ==
  ASSUME LInit
  PROVE  ReadInv
<1>1. NoLookup \in Lookup /\ NoLookup.i = NULL /\ ~NoLookup.running
  BY DEF NoLookup, Lookup, Pointer
<1>2. ReadersOK
  BY <1>1 DEF LInit, ReadersOK
<1>3. \A x \in Node \cup Tree, s \in Side : vis[x][s] = NULL
  BY DEF LInit, Init, NoLinks
<1>4. Within(leaving) \subseteq Node
  BY DEF LInit, Within, InUse, Owned
<1> QED
  BY <1>2, <1>3, <1>4 DEF ReadInv, CompleteFirst, ClosedFor, LInit, Init

\* A node that is inserted was in no tree; every other node stays in use or is
\* leaving.
LEMMA UnbornIsNew ==
  ASSUME IInv, VisInv, WriterCall \/ WriterStep
  PROVE  /\ Unborn = {} /\ leaving' \subseteq InUse
         /\ InUse' \ Unborn' \subseteq InUse
         /\ InUse \subseteq leaving' \cup (InUse' \ Unborn')
         /\ CompleteFirst'
<1>1. stores = <<>> /\ NoteRemoved
  BY DEF WriterCall, WriterStep
<1>2. Unborn = {}
  BY <1>1 DEF Unborn
<1>3. leaving' = {n \in InUse : owner'[n] = NULL}
  BY <1>1 DEF NoteRemoved
<1>4. CASE InUse' \subseteq InUse /\ Unborn' = {} /\ CompleteFirst'
  BY <1>2, <1>3, <1>4 DEF InUse, Owned
<1>5. CASE \E n \in Node, x \in Node \cup Tree, s \in Side :
             /\ x # n /\ owner[n] = NULL /\ pc' = "paint" /\ cur' = n
             /\ stores' = LinkStores(x, s, n)
             /\ \A k \in Node : k # n => owner'[k] = owner[k]
  <2>1. PICK n \in Node, x \in Node \cup Tree, s \in Side :
             /\ x # n /\ owner[n] = NULL /\ pc' = "paint" /\ cur' = n
             /\ stores' = LinkStores(x, s, n)
             /\ \A k \in Node : k # n => owner'[k] = owner[k]
    BY <1>5
  <2>2. /\ Len(stores') = 3
        /\ stores'[1] = Store(n, "left", NULL) /\ stores'[2] = Store(n, "right", NULL)
        /\ stores'[3] = Store(x, s, n)
    BY <2>1 DEF LinkStores
  <2>3. /\ stores'[1].obj = n /\ stores'[1].val = NULL /\ stores'[2].val = NULL
        /\ stores'[3].obj = x
    BY <2>2 DEF Store
  <2>4. Unborn' = {n}
    BY <2>1, <2>2, <2>3 DEF Unborn
  <2>5. InUse' \ {n} \subseteq InUse
    BY <2>1 DEF InUse, Owned
  <2>6. CompleteFirst'
    <3>1. n # NULL
      BY DistinctAddresses
    <3>2. \A i \in 1 .. 3 : i = 1 \/ i = 2 \/ i = 3
      OBVIOUS
    <3> QED
      BY <2>1, <2>2, <2>3, <3>1, <3>2 DEF CompleteFirst
  <2>7. n \notin InUse
    BY <2>1 DEF InUse, Owned
  <2> QED
    BY <1>2, <1>3, <2>1, <2>4, <2>5, <2>6, <2>7 DEF InUse, Owned
<1>6. ASSUME NEW n \in Node, NEW t \in Tree, WriterInsert(t, n)
      PROVE  \E x \in Node \cup Tree, s \in Side :
               /\ x # n /\ owner[n] = NULL /\ pc' = "paint" /\ cur' = n
               /\ stores' = LinkStores(x, s, n)
               /\ \A k \in Node : k # n => owner'[k] = owner[k]
  <2>0. owner \in Owners
    BY InUseFacts
  <2>1. CASE \E u \in Tree : c_rbtree_find_slot(t, KeyOf[n]) = RootSlot(u) /\ AddRoot(u, n)
    <3>1. PICK u \in Tree : c_rbtree_find_slot(t, KeyOf[n]) = RootSlot(u) /\ AddRoot(u, n)
      BY <2>1
    <3>2. stores' = LinkStores(u, "root", n) /\ "root" \in Side /\ u # n
      BY <3>1, <1>6, DistinctAddresses DEF WriterInsert, Emit, Side, RootSlot
    <3>3. /\ owner[n] = NULL /\ pc' = "paint" /\ cur' = n
          /\ \A k \in Node : k # n => owner'[k] = owner[k]
      BY <3>1, <2>0 DEF AddRoot, Continue, Owners
    <3> QED
      BY <3>2, <3>3
  <2>2. CASE \E p \in Node, d \in Dir :
               c_rbtree_find_slot(t, KeyOf[n]) = [p |-> p, l |-> d] /\ Link(p, d, n)
    <3>1. PICK p \in Node, d \in Dir :
               c_rbtree_find_slot(t, KeyOf[n]) = [p |-> p, l |-> d] /\ Link(p, d, n)
      BY <2>2
    <3>2. stores' = LinkStores(p, d, n) /\ d \in Side
      BY <3>1, <1>6, Sides DEF WriterInsert, Emit
    <3>3. /\ p # n /\ owner[n] = NULL /\ pc' = "paint" /\ cur' = n
          /\ \A k \in Node : k # n => owner'[k] = owner[k]
      BY <3>1, <2>0 DEF Link, Continue, Owners
    <3> QED
      BY <3>2, <3>3
  <2> QED
    BY <2>1, <2>2, <1>6 DEF WriterInsert, Insert
<1>7. ASSUME \A n \in Node, t \in Tree : ~WriterInsert(t, n)
      PROVE  InUse' \subseteq InUse /\ Unborn' = {} /\ CompleteFirst'
  <2>1. pc' # "paint" \/ stores' = <<>>
    BY <1>7 DEF WriterCall, WriterRemove, UnlinkLeaf, UnlinkOneChild, UnlinkFull, WriterInit,
       c_rbnode_init, WriterMove, c_rbtree_move, WriterTreeInit, c_rbtree_init, Idle, locals,
       Unlinked, RebalanceFrom, Return, WriterStep, Emit,
       PaintRoot, PaintDone, PaintRecolor, PaintRotate, PaintRotateTwice,
       SpliceSuccessor, RotateRedSibling, RotateSibling, RotateNephew, Reinit, Continue
  <2>2. Unborn' = {} /\ CompleteFirst'
    BY <2>1 DEF Unborn, CompleteFirst
  <2>3. owner \in Owners
    BY InUseFacts
  <2>4. ASSUME NEW n \in Node, owner[n] = NULL
        PROVE  owner'[n] = NULL
    <3>1. CASE WriterStep
      BY <3>1, <2>3, <2>4 DEF WriterStep, PaintRoot, PaintDone, PaintRecolor, PaintRotate,
         PaintRotateTwice, WalkLeft, SpliceSuccessor, Detach, RebalanceEnd, RebalanceRecolor,
         RebalanceFound, RotateRedSibling, RotateRecolor, RotateSibling, RotateNephew, Reinit,
         caller, Owners
    <3>2. CASE WriterCall
      <4>1. ASSUME NEW to \in Tree, NEW from \in Tree, WriterMove(to, from)
            PROVE  owner'[n] = NULL
        BY <4>1, <2>4, DistinctAddresses DEF WriterMove, c_rbtree_move
      <4>2. ASSUME NEW t \in Tree, WriterTreeInit(t)
            PROVE  owner'[n] = NULL
        BY <4>2, <2>4 DEF WriterTreeInit, c_rbtree_init
      <4>3. ASSUME NEW k \in Node, NEW api \in APICall, WriterRemove(api, k)
            PROVE  owner'[n] = NULL
        BY <4>3, <2>3, <2>4 DEF WriterRemove, UnlinkLeaf, UnlinkOneChild, UnlinkFull, Detach,
           caller, Owners
      <4>4. ASSUME NEW k \in Node, WriterInit(k)
            PROVE  owner'[n] = NULL
        BY <4>4, <2>4 DEF WriterInit, c_rbnode_init
      <4> QED
        BY <4>1, <4>2, <4>3, <4>4, <3>2, <1>7 DEF WriterCall
    <3> QED
      BY <3>1, <3>2
  <2>5. InUse' \subseteq InUse
    BY <2>4 DEF InUse, Owned
  <2> QED
    BY <2>2, <2>5
<1> QED
  BY <1>4, <1>5, <1>6, <1>7

\* The writer's own memory leads nowhere else.
LEMMA WriterKeepsRead ==
  ASSUME IInv, VisInv, ReadInv, WriterCall \/ WriterStep
  PROVE  ReadInv'
<1>1. /\ Unborn = {} /\ leaving' \subseteq InUse
      /\ InUse' \ Unborn' \subseteq InUse
      /\ InUse \subseteq leaving' \cup (InUse' \ Unborn')
      /\ CompleteFirst'
  BY UnbornIsNew
<1>2. vis' = vis /\ vis = link /\ stores = <<>> /\ NoteRemoved /\ reader' = reader
  BY AllVisible DEF WriterCall, WriterInsert, WriterRemove, WriterInit, WriterMove,
     WriterTreeInit, WriterStep, Emit
<1>3. \A x \in Tree \cup InUse, s \in Side : vis'[x][s] \in InUse \cup {NULL}
  BY <1>2, InUseClosed DEF Holder, InUse
<1>4. ClosedFor(leaving)'
  BY <1>1, <1>3 DEF ClosedFor, Within
<1>5. ReadersOK'
  <2>1. /\ reader \in [Reader -> Lookup] /\ removed \in [Reader -> SUBSET Node]
        /\ removed' = [r \in Reader |-> IF r \in Running THEN removed[r] \cup leaving' ELSE removed[r]]
    BY <1>2 DEF ReadInv, ReadersOK, NoteRemoved
  <2>2. leaving' \subseteq Node
    BY <1>1, InUseFacts
  <2>3. removed' \in [Reader -> SUBSET Node]
    BY <2>1, <2>2
  <2>4. ASSUME NEW r \in Reader, reader[r].running
        PROVE  /\ leaving' \subseteq removed'[r]
               /\ ClosedFor(removed[r])'
               /\ reader[r].i \in Within(removed[r])' \cup {NULL}
    <3>1. /\ ClosedFor(removed[r])
          /\ reader[r].i \in Within(removed[r]) \cup {NULL}
          /\ removed'[r] = removed[r] \cup leaving'
      BY <2>1, <2>4 DEF ReadInv, ReadersOK, Running
    <3>2. Within(removed[r]) = removed[r] \cup InUse
      BY <1>1 DEF Within
    <3>3. Within(removed[r])' = removed[r] \cup leaving' \cup (InUse' \ Unborn')
      BY <3>1 DEF Within
    <3>4. Within(removed[r])' = removed[r] \cup InUse
      BY <3>3, <1>1
    <3>5. ClosedFor(removed[r])'
      BY <3>1, <3>2, <3>4, <1>2 DEF ClosedFor
    <3> QED
      BY <3>1, <3>2, <3>4, <3>5
  <2>5. \A r \in Reader : ~reader[r].running => reader[r].i = NULL
    BY DEF ReadInv, ReadersOK
  <2> QED
    BY <1>2, <2>1, <2>3, <2>4, <2>5 DEF ReadersOK
<1> QED
  BY <1>1, <1>4, <1>5 DEF ReadInv

\* A store becomes visible: what it stores is complete and in use, or leaving.
LEMMA VisibleKeepsRead ==
  ASSUME IInv, VisInv, VisInv', ReadInv, InOrderStores, NEW i \in 1 .. Len(stores), Visible(i)
  PROVE  ReadInv'
<1>1. /\ i = 1 /\ InUse' = InUse /\ link' = link /\ pc' = pc /\ cur' = cur
      /\ vis' = Stored(vis, stores[1]) /\ stores' = RemoveAt(stores, 1)
      /\ leaving' = IF Len(stores) = 1 THEN {} ELSE leaving
      /\ reader' = reader /\ removed' = removed
  BY DEF Visible, vars, readers, InUse, Stored, Put
<1>2. /\ leaving \in SUBSET Node /\ vis \in Memory /\ stores \in Seq(StoreOf(Seen))
      /\ Seen \in SUBSET Node /\ InUse \in SUBSET Node
  BY InUseFacts DEF VisInv, Seen
<1>3. /\ Len(stores) \in Nat /\ 1 \in 1 .. Len(stores)
      /\ Len(stores') = Len(stores) - 1
      /\ \A j \in 1 .. Len(stores) - 1 : stores'[j] = stores[j + 1]
  BY <1>1, <1>2, RemoveAtFacts
<1>4. stores[1] \in StoreOf(Seen)
  BY <1>2, <1>3
<1>5. CompleteFirst'
  <2>1. SUFFICES ASSUME pc = "paint", NEW j \in 1 .. Len(stores'), NEW k \in 1 .. Len(stores'),
                        j <= k, stores'[j].val = cur
                 PROVE  stores'[k].obj # cur
    BY <1>1 DEF CompleteFirst
  <2>2. /\ j + 1 \in 1 .. Len(stores) /\ k + 1 \in 1 .. Len(stores) /\ j + 1 <= k + 1
        /\ stores'[j] = stores[j + 1] /\ stores'[k] = stores[k + 1]
    BY <1>3, <2>1
  <2> QED
    BY <2>1, <2>2 DEF ReadInv, CompleteFirst
<1>6. Unborn' \subseteq Unborn
  BY <1>1, <1>3 DEF Unborn
<1>7. stores[1].val \notin Unborn'
  <2> SUFFICES ASSUME stores[1].val \in Unborn'
               PROVE  FALSE
    OBVIOUS
  <2>1. pc = "paint" /\ stores[1].val = cur /\ \E j \in 1 .. Len(stores') : stores'[j].obj = cur
    BY <1>1 DEF Unborn
  <2>2. PICK j \in 1 .. Len(stores') : stores'[j].obj = cur
    BY <2>1
  <2>3. j + 1 \in 1 .. Len(stores) /\ stores[j + 1].obj = cur /\ 1 <= j + 1
    BY <1>3, <2>2
  <2> QED
    BY <2>1, <2>3, <1>3 DEF ReadInv, CompleteFirst
<1>8. ASSUME NEW x \in Unborn, x \notin Unborn', NEW s \in Side
      PROVE  vis'[x][s] \in (InUse' \ Unborn') \cup {NULL}
  <2>1. x \in Node /\ pc = "paint" /\ x = cur
    BY <1>8 DEF Unborn
  <2>2. Unborn' = {}
    BY <1>8, <2>1, <1>1 DEF Unborn
  <2>3. StoresTo(stores', x, s) = {}
    BY <1>8, <2>1, <1>1 DEF StoresTo, Unborn
  <2>4. vis'[x][s] = link'[x][s]
    BY <2>1, <2>3 DEF VisInv, Produces
  <2>5. x \in Holder(owner)
    BY <2>1, PaintIsSafe DEF PaintSafe, Holder, InUse
  <2>6. link[x][s] \in InUse \cup {NULL}
    BY <2>5, InUseClosed
  <2> QED
    BY <1>1, <2>2, <2>4, <2>6
<1>9. ASSUME NEW R, leaving \subseteq R, R \subseteq Node, ClosedFor(R)
      PROVE  \A x \in Tree \cup R \cup (InUse' \ Unborn'), s \in Side :
               vis'[x][s] \in R \cup (InUse' \ Unborn') \cup {NULL}
  <2>1. SUFFICES ASSUME NEW x \in Tree \cup R \cup (InUse' \ Unborn'), NEW s \in Side
                 PROVE  vis'[x][s] \in R \cup (InUse' \ Unborn') \cup {NULL}
    OBVIOUS
  <2>2. x \in Node \cup Tree
    BY <2>1, <1>1, <1>2, <1>9
  <2>3. vis'[x][s] = IF x = stores[1].obj /\ s = stores[1].field THEN stores[1].val ELSE vis[x][s]
    BY <1>1, <1>2, <1>4, <2>2, StoredFacts
  <2>4. CASE x = stores[1].obj /\ s = stores[1].field
    <3>1. stores[1].val \in Seen \cup {NULL}
      BY <1>4 DEF StoreOf
    <3> QED
      BY <2>3, <2>4, <3>1, <1>1, <1>7, <1>9 DEF Seen
  <2>5. CASE ~(x = stores[1].obj /\ s = stores[1].field) /\ x \in Unborn /\ x \notin R
    <3>1. x \notin Unborn'
      BY <2>1, <2>5, DistinctAddresses DEF Unborn
    <3> QED
      BY <3>1, <2>5, <1>8
  <2>6. CASE ~(x = stores[1].obj /\ s = stores[1].field) /\ (x \notin Unborn \/ x \in R)
    <3>1. x \in Tree \cup Within(R)
      BY <2>1, <2>6, <1>1 DEF Within
    <3>2. vis[x][s] \in Within(R) \cup {NULL}
      BY <3>1, <1>9 DEF ClosedFor
    <3> QED
      BY <3>2, <2>3, <2>6, <1>1, <1>6 DEF Within
  <2> QED
    BY <2>4, <2>5, <2>6
<1>10. ClosedFor(leaving)'
  <2>1. CASE Len(stores) = 1
    <3>1. stores' = <<>> /\ leaving' = {}
      BY <2>1, <1>1, <1>2, <1>3, RemoveAtFacts
    <3>2. vis' \in Memory /\ Produces(vis', <<>>, link')
      BY <3>1 DEF VisInv
    <3>3. vis' = link'
      BY <3>2, <1>1, InUseFacts, NoStoresLeft
    <3>4. Unborn' = {}
      BY <3>1 DEF Unborn
    <3>5. \A x \in Tree \cup InUse, s \in Side : link[x][s] \in InUse \cup {NULL}
      BY InUseClosed DEF Holder, InUse
    <3> QED
      BY <3>1, <3>3, <3>4, <3>5, <1>1 DEF ClosedFor, Within
  <2>2. CASE Len(stores) # 1
    <3>1. leaving' = leaving
      BY <2>2, <1>1
    <3>2. ClosedFor(leaving)
      BY DEF ReadInv
    <3> QED
      BY <3>1, <3>2, <1>2, <1>9 DEF ClosedFor, Within
  <2> QED
    BY <2>1, <2>2
<1>11. ReadersOK'
  <2>1. reader \in [Reader -> Lookup] /\ removed \in [Reader -> SUBSET Node]
        /\ \A r \in Reader : ~reader[r].running => reader[r].i = NULL
    BY DEF ReadInv, ReadersOK
  <2>2. ASSUME NEW r \in Reader, reader[r].running
        PROVE  /\ leaving' \subseteq removed[r]
               /\ ClosedFor(removed[r])'
               /\ reader[r].i \in Within(removed[r])' \cup {NULL}
    <3>1. /\ ClosedFor(removed[r]) /\ leaving \subseteq removed[r] /\ removed[r] \subseteq Node
          /\ reader[r].i \in Within(removed[r]) \cup {NULL}
      BY <2>2, <2>1 DEF ReadInv, ReadersOK
    <3>2. \A x \in Tree \cup removed[r] \cup (InUse' \ Unborn'), s \in Side :
               vis'[x][s] \in removed[r] \cup (InUse' \ Unborn') \cup {NULL}
      BY <3>1, <1>9
    <3>3. Within(removed[r])' = removed[r] \cup (InUse' \ Unborn')
      BY <1>1 DEF Within
    <3>4. ClosedFor(removed[r])'
      BY <3>2, <3>3, <1>1 DEF ClosedFor
    <3>5. Within(removed[r]) \subseteq Within(removed[r])'
      BY <3>3, <1>1, <1>6 DEF Within
    <3> QED
      BY <3>1, <3>4, <3>5, <1>1
  <2> QED
    BY <2>1, <2>2, <1>1 DEF ReadersOK
<1> QED
  BY <1>5, <1>10, <1>11 DEF ReadInv

\* A lookup follows what it sees.
LEMMA ReadersKeepRead ==
  ASSUME ReadInv, UNCHANGED <<vars, shared>>,
         \/ UNCHANGED readers
         \/ \E r \in Reader : \/ \E t \in Tree, k \in Key : LookupStart(r, t, k)
                              \/ LookupStep(r) \/ LookupEnd(r),
         vis \in Memory, leaving \in SUBSET Node
  PROVE  ReadInv'
<1>1. /\ Unborn' = Unborn /\ InUse' = InUse /\ leaving' = leaving /\ vis' = vis
      /\ CompleteFirst'
  BY DEF ReadInv, CompleteFirst, Unborn, InUse, vars, shared
<1>2. /\ reader \in [Reader -> Lookup] /\ removed \in [Reader -> SUBSET Node]
      /\ ClosedFor(leaving)
  BY DEF ReadInv, ReadersOK
<1>3. ClosedFor(leaving)'
  BY <1>1, <1>2 DEF ClosedFor, Within
<1> DEFINE OK(l, R) ==
             /\ ~l.running => l.i = NULL
             /\ l.running => /\ leaving \subseteq R
                             /\ ClosedFor(R)
                             /\ l.i \in Within(R) \cup {NULL}
<1>4. \A r \in Reader : OK(reader[r], removed[r])
  BY DEF ReadInv, ReadersOK
<1>5. SUFFICES /\ reader' \in [Reader -> Lookup] /\ removed' \in [Reader -> SUBSET Node]
               /\ \A r \in Reader : OK(reader'[r], removed'[r])
  BY <1>1, <1>3 DEF ReadInv, ReadersOK, ClosedFor, Within
<1> HIDE DEF OK
<1>6. ASSUME NEW r \in Reader, NEW l \in Lookup, NEW R \in SUBSET Node, OK(l, R),
             reader' = [reader EXCEPT ![r] = l], removed' = [removed EXCEPT ![r] = R]
      PROVE  /\ reader' \in [Reader -> Lookup] /\ removed' \in [Reader -> SUBSET Node]
             /\ \A q \in Reader : OK(reader'[q], removed'[q])
  BY <1>2, <1>4, <1>6
<1>7. CASE UNCHANGED readers
  BY <1>2, <1>4, <1>7 DEF readers
<1>8. ASSUME NEW r \in Reader, NEW t \in Tree, NEW k \in Key, LookupStart(r, t, k)
      PROVE  /\ reader' \in [Reader -> Lookup] /\ removed' \in [Reader -> SUBSET Node]
             /\ \A q \in Reader : OK(reader'[q], removed'[q])
  <2> DEFINE l == [running |-> TRUE, i |-> vis[t]["root"], k |-> k]
  <2>1. vis[t]["root"] \in Within(leaving) \cup {NULL} /\ vis[t]["root"] \in Pointer
    BY <1>2 DEF ClosedFor, Memory, Side
  <2>2. l \in Lookup /\ OK(l, leaving)
    BY <2>1, <1>2 DEF Lookup, OK
  <2>3. reader' = [reader EXCEPT ![r] = l] /\ removed' = [removed EXCEPT ![r] = leaving]
    BY <1>8 DEF LookupStart
  <2> HIDE DEF l
  <2> QED
    BY <2>2, <2>3, <1>6
<1>9. ASSUME NEW r \in Reader, LookupStep(r)
      PROVE  /\ reader' \in [Reader -> Lookup] /\ removed' \in [Reader -> SUBSET Node]
             /\ \A q \in Reader : OK(reader'[q], removed'[q])
  <2> DEFINE s == IF reader[r].k < KeyOf[reader[r].i] THEN "left" ELSE "right"
             v == vis[reader[r].i][s]
             l == [reader[r] EXCEPT !.i = v]
  <2>1. /\ reader[r].running /\ reader[r].i # NULL
        /\ reader' = [reader EXCEPT ![r].i = v]
        /\ removed' = removed
    BY <1>9 DEF LookupStep
  <2>2. s \in Side
    BY DEF Side
  <2> HIDE DEF s
  <2>3. reader[r].i \in Within(removed[r]) /\ ClosedFor(removed[r]) /\ leaving \subseteq removed[r]
    BY <2>1, <1>4 DEF OK
  <2>4. v \in Within(removed[r]) \cup {NULL}
    BY <2>2, <2>3 DEF ClosedFor
  <2>5. v \in Pointer /\ reader[r] \in Lookup
    BY <2>1, <2>2, <1>2 DEF Lookup, Pointer, Memory
  <2> HIDE DEF v
  <2>6. /\ l \in Lookup /\ l.running = reader[r].running /\ l.i = v
        /\ reader' = [reader EXCEPT ![r] = l] /\ removed' = [removed EXCEPT ![r] = removed[r]]
    BY <2>1, <2>5, <1>2 DEF Lookup
  <2>7. OK(l, removed[r])
    BY <2>1, <2>3, <2>4, <2>6 DEF OK
  <2> HIDE DEF l
  <2> QED
    BY <2>6, <2>7, <1>2, <1>6
<1>10. ASSUME NEW r \in Reader, LookupEnd(r)
       PROVE  /\ reader' \in [Reader -> Lookup] /\ removed' \in [Reader -> SUBSET Node]
              /\ \A q \in Reader : OK(reader'[q], removed'[q])
  <2>1. NoLookup \in Lookup /\ OK(NoLookup, {})
    BY DEF NoLookup, Lookup, Pointer, OK
  <2>2. reader' = [reader EXCEPT ![r] = NoLookup] /\ removed' = [removed EXCEPT ![r] = {}]
    BY <1>10 DEF LookupEnd
  <2> QED
    BY <2>1, <2>2, <1>6
<1> QED
  BY <1>7, <1>8, <1>9, <1>10

\* Where the order of the source is kept, a lookup only comes to nodes that were
\* in a tree at some time since it began.
THEOREM LookupsStayInTrees == InOrderStores => (LSpec => []LookupsSeeMembers)
<1> SUFFICES ASSUME InOrderStores
             PROVE  LSpec => []LookupsSeeMembers
  OBVIOUS
<1>1. LInit => LInv /\ ReadInv
  BY LInitHolds, ReadInit
<1>2. LInv /\ ReadInv /\ [LNext]_lvars => (LInv /\ ReadInv)'
  <2> SUFFICES ASSUME LInv, ReadInv, [LNext]_lvars
               PROVE  (LInv /\ ReadInv)'
    OBVIOUS
  <2>1. LInv'
    BY LNextKeeps
  <2>2. IInv /\ VisInv /\ VisInv' /\ vis \in Memory /\ leaving \in SUBSET Node
    BY <2>1 DEF LInv, VisInv
  <2>3. CASE WriterCall \/ WriterStep
    BY <2>1, <2>2, <2>3, WriterKeepsRead
  <2>4. CASE Propagate
    BY <2>1, <2>2, <2>4, VisibleKeepsRead DEF Propagate
  <2>5. CASE \E r \in Reader : \/ \E t \in Tree, k \in Key : LookupStart(r, t, k)
                              \/ LookupStep(r) \/ LookupEnd(r)
    <3>1. UNCHANGED <<vars, shared>>
      BY <2>5 DEF LookupStart, LookupStep, LookupEnd
    <3> QED
      BY <2>1, <2>2, <2>5, <3>1, ReadersKeepRead
  <2>6. CASE UNCHANGED lvars
    BY <2>1, <2>2, <2>6, ReadersKeepRead DEF lvars
  <2> QED
    BY <2>3, <2>4, <2>5, <2>6 DEF LNext
<1>3. ReadInv => LookupsSeeMembers
  BY DEF ReadInv, ReadersOK, Within, LookupsSeeMembers
<1> QED
  BY <1>1, <1>2, <1>3, PTL DEF LSpec

-----------------------------------------------------------------------------
(* Ranges *)

\* Each node has a range of keys, its own key and those that may be below it.
Ranges == [Node -> SUBSET Int]

\* A search for key k may turn to side d of node n.
Admits(d, k, n) == IF d = "left" THEN k <= KeyOf[n] ELSE k >= KeyOf[n]

\* The range of a child is that part of the range of its parent, or less, which
\* is on its side of the parent.
Ordered(U, m, R) ==
  /\ R \in Ranges
  /\ \A n \in U : KeyOf[n] \in R[n]
  /\ \A n \in U, d \in Dir :
       m[n][d] # NULL => \A k \in R[m[n][d]] : k \in R[n] /\ Admits(d, k, n)

\* No field of the nodes in U leads out of U, and no two lead to the same node.
Separate(U, m) ==
  \A n \in U, d \in Dir :
    m[n][d] # NULL =>
      /\ m[n][d] \in U
      /\ \A a \in U, b \in Dir : m[a][b] = m[n][d] => a = n /\ b = d

\* The fields of the trees keep the keys in order.
InKeyOrder(U, m) == \E R \in Ranges : Ordered(U, m, R)

\* s, the child of p on side e, is rotated above p, in field t of g.
Turned(U, m, m2, g, t, p, e, s) ==
  /\ p \in U /\ e \in Dir /\ s \in U /\ m[p][e] = s
  /\ m[g][t] = p /\ (g \in U => t \in Dir) /\ (g \in Tree => t = "root")
  /\ \A a \in U, b \in Dir : m[a][b] = p => a = g /\ b = t
  /\ \A a \in Tree : m[a]["root"] # s /\ (m[a]["root"] = p => a = g)
  /\ g # s /\ g # p /\ s # p
  /\ RotatedFields(m, m2, g, t, p, e, s)

\* One rotation, or one after the other, made m2 of the fields.
RotatesTo(m, m2) ==
  Separate(InUse, m) /\ \E g, t, p, e, s : Turned(InUse, m, m2, g, t, p, e, s)
Rearranged(m2) == RotatesTo(link, m2) \/ \E m1 : RotatesTo(link, m1) /\ RotatesTo(m1, m2)

\* The keys of the nodes.
LEMMA KeysCompare ==
  /\ \A n \in Node : KeyOf[n] \in Int
  /\ \A d \in Dir, k \in Int, n \in Node : Admits(d, k, n) \/ Admits(Other(d), k, n)
  /\ \A d \in Dir, n, p \in Node : Admits(d, KeyOf[n], p) => Admits(Other(d), KeyOf[p], n)
  /\ \A d \in Dir, k \in Int, n, p \in Node :
       Admits(d, k, n) /\ Admits(d, KeyOf[n], p) => Admits(d, k, p)
BY KeysAreIntegers DEF Admits, Dir, Other

\* A rotation keeps the fields apart.
LEMMA TurnKeepsApart ==
  ASSUME NEW U \in SUBSET Node, NEW m, Separate(U, m),
         NEW m2, NEW g, NEW t, NEW p, NEW e, NEW s, Turned(U, m, m2, g, t, p, e, s)
  PROVE  Separate(U, m2)
<1> DEFINE o == Other(e)
<1>1. /\ p \in U /\ s \in U /\ p # s /\ m[p][e] = s /\ e \in Dir
      /\ o \in Dir /\ o # e /\ (\A d \in Dir : d = e \/ d = o) /\ Dir \subseteq Side
      /\ s # NULL /\ p # NULL /\ g # p /\ g # s /\ m[g][t] = p
      /\ \A a \in U, b \in Dir : m[a][b] = p => a = g /\ b = t
  BY Sides, DistinctAddresses DEF Turned, Dir
<1>2. \A a \in U, b \in Dir :
        m2[a][b] = IF a = g /\ b = t THEN s
                   ELSE IF a = p /\ b = e THEN m[s][o]
                   ELSE IF a = s /\ b = o THEN p
                   ELSE m[a][b]
  BY <1>1 DEF Turned, RotatedFields
<1>3. \A n \in U, d \in Dir :
        m[n][d] # NULL => /\ m[n][d] \in U
                          /\ \A a \in U, b \in Dir : m[a][b] = m[n][d] => a = n /\ b = d
  BY DEF Separate
<1> HIDE DEF o
<1>4. ASSUME NEW a \in U, NEW b \in Dir, m2[a][b] # NULL
      PROVE  /\ m2[a][b] \in U
             /\ \A c \in U, d \in Dir : m2[c][d] = m2[a][b] => c = a /\ d = b
  <2>1. CASE a = g /\ b = t
    BY <2>1, <1>1, <1>2, <1>3
  <2>2. CASE a = p /\ b = e
    <3>1. m2[a][b] = m[s][o] /\ m[s][o] # NULL
      BY <2>2, <1>1, <1>2, <1>4
    <3>2. m[s][o] \in U /\ m[s][o] # s /\ m[s][o] # p
      BY <3>1, <1>1, <1>3
    <3> QED
      BY <2>2, <3>1, <3>2, <1>1, <1>2, <1>3
  <2>3. CASE a = s /\ b = o
    BY <2>3, <1>1, <1>2, <1>3
  <2>4. CASE ~(a = g /\ b = t) /\ ~(a = p /\ b = e) /\ ~(a = s /\ b = o)
    <3>1. m2[a][b] = m[a][b]
      BY <2>4, <1>2
    <3>2. m[a][b] \in U /\ m[a][b] # p /\ m[a][b] # s
      BY <2>4, <3>1, <1>1, <1>3, <1>4
    <3> QED
      BY <3>1, <3>2, <2>4, <1>1, <1>2, <1>3, <1>4
  <2> QED
    BY <2>1, <2>2, <2>3, <2>4
<1> QED
  BY <1>4 DEF Separate

\* A rotation keeps the order: p gets the part of its range that is on its side
\* of s, and s gets the range of p.
LEMMA TurnKeepsOrder ==
  ASSUME NEW U \in SUBSET Node, NEW m, Separate(U, m), InKeyOrder(U, m),
         NEW m2, NEW g, NEW t, NEW p, NEW e, NEW s, Turned(U, m, m2, g, t, p, e, s)
  PROVE  InKeyOrder(U, m2)
<1>0. PICK R \in Ranges : Ordered(U, m, R)
  BY DEF InKeyOrder
<1> DEFINE o == Other(e)
           R2 == [n \in Node |-> IF n = s THEN R[p]
                                 ELSE IF n = p THEN {k \in R[p] : Admits(o, k, s)}
                                 ELSE R[n]]
<1>1. /\ p \in U /\ s \in U /\ p \in Node /\ s \in Node /\ p # s /\ m[p][e] = s /\ e \in Dir
      /\ o \in Dir /\ o # e /\ (\A d \in Dir : d = e \/ d = o) /\ Other(o) = e /\ Dir \subseteq Side
      /\ s # NULL /\ p # NULL /\ g # p /\ g # s /\ m[g][t] = p
      /\ \A a \in U, b \in Dir : m[a][b] = p => a = g /\ b = t
  BY Sides, DistinctAddresses DEF Turned, Dir
<1>2. \A a \in U, b \in Dir :
        m2[a][b] = IF a = g /\ b = t THEN s
                   ELSE IF a = p /\ b = e THEN m[s][o]
                   ELSE IF a = s /\ b = o THEN p
                   ELSE m[a][b]
  BY <1>1 DEF Turned, RotatedFields
<1>3. /\ R \in Ranges /\ \A n \in U : KeyOf[n] \in R[n]
      /\ \A n \in U, d \in Dir :
           m[n][d] # NULL => \A k \in R[m[n][d]] : k \in R[n] /\ Admits(d, k, n)
  BY <1>0 DEF Ordered
<1>4. \A n \in U, d \in Dir :
        m[n][d] # NULL => /\ m[n][d] \in U
                          /\ \A a \in U, b \in Dir : m[a][b] = m[n][d] => a = n /\ b = d
  BY DEF Separate
<1>5. R2 \in Ranges
  BY <1>1, <1>3 DEF Ranges
<1>6. /\ R2[s] = R[p] /\ R2[p] = {k \in R[p] : Admits(o, k, s)}
      /\ \A n \in Node : n # s /\ n # p => R2[n] = R[n]
  BY <1>1
<1>7. KeyOf[s] \in R[p] /\ Admits(e, KeyOf[s], p) /\ Admits(o, KeyOf[p], s)
  BY <1>1, <1>3, KeysCompare
<1> HIDE DEF R2, o
<1>8. \A n \in U : KeyOf[n] \in R2[n]
  BY <1>1, <1>3, <1>6, <1>7
<1>9. ASSUME NEW a \in U, NEW b \in Dir, m2[a][b] # NULL
      PROVE  \A k \in R2[m2[a][b]] : k \in R2[a] /\ Admits(b, k, a)
  <2>0. a \in Node
    OBVIOUS
  <2>1. CASE a = g /\ b = t
    <3>1. m2[a][b] = s /\ m[a][b] = p
      BY <2>1, <1>1, <1>2
    <3>2. \A k \in R[p] : k \in R[a] /\ Admits(b, k, a)
      BY <3>1, <1>1, <1>3
    <3>3. R2[a] = R[a]
      BY <2>0, <2>1, <1>1, <1>6
    <3> QED
      BY <2>1, <3>1, <3>2, <3>3, <1>1, <1>6
  <2>2. CASE a = p /\ b = e
    <3>1. m2[a][b] = m[s][o] /\ m[s][o] # NULL
      BY <2>2, <1>1, <1>2, <1>9
    <3>2. m[s][o] \in U /\ m[s][o] # s /\ m[s][o] # p
      BY <3>1, <1>1, <1>4
    <3>3. \A k \in R[m[s][o]] : k \in R[s] /\ Admits(o, k, s) /\ k \in R[p] /\ Admits(e, k, p)
      BY <3>1, <1>1, <1>3
    <3> QED
      BY <2>2, <3>1, <3>2, <3>3, <1>6
  <2>3. CASE a = s /\ b = o
    <3>1. m2[a][b] = p
      BY <2>3, <1>1, <1>2
    <3> QED
      BY <2>3, <3>1, <1>1, <1>6
  <2>4. CASE ~(a = g /\ b = t) /\ ~(a = p /\ b = e) /\ ~(a = s /\ b = o)
    <3>1. m2[a][b] = m[a][b]
      BY <2>4, <1>2
    <3>2. m[a][b] \in U /\ m[a][b] # p /\ m[a][b] # s
      BY <2>4, <3>1, <1>1, <1>4, <1>9
    <3>3. \A k \in R[m[a][b]] : k \in R[a] /\ Admits(b, k, a)
      BY <3>1, <1>3, <1>9
    <3>4. R2[m[a][b]] = R[m[a][b]]
      BY <3>2, <1>6
    <3>5. CASE a = s
      BY <3>1, <3>2, <3>3, <3>4, <3>5, <1>1, <1>3, <1>6
    <3>6. CASE a = p
      <4>1. b = o
        BY <3>6, <2>4, <1>1
      <4>2. \A k \in R[m[a][b]] : Admits(o, k, s)
        BY <3>3, <3>6, <4>1, <1>1, <1>3, <1>7, KeysCompare DEF Ranges
      <4> QED
        BY <3>1, <3>2, <3>3, <3>4, <3>6, <4>2, <1>6
    <3>7. CASE a # s /\ a # p
      BY <3>1, <3>2, <3>3, <3>4, <3>7, <1>6
    <3> QED
      BY <3>5, <3>6, <3>7
  <2> QED
    BY <2>1, <2>2, <2>3, <2>4
<1> QED
  BY <1>5, <1>8, <1>9 DEF InKeyOrder, Ordered

\* The field that holds a node in use is the only one.
LEMMA OnlyParent ==
  ASSUME IInv, NEW n \in InUse, NEW t \in Side, link[pf[n].raw][t] = n
  PROVE  /\ \A a \in InUse, b \in Dir : link[a][b] = n => a = pf[n].raw /\ b = t
         /\ \A a \in Tree : link[a]["root"] = n => a = pf[n].raw
<1>1. Consistent(owner, link, pf) /\ n # NULL /\ Dir \subseteq Side
  BY InUseFacts, Sides DEF Sound
<1>2. ASSUME NEW a \in InUse, NEW b \in Dir, link[a][b] = n
      PROVE  a = pf[n].raw /\ b = t
  <2>1. a \in Holder(owner) /\ b \in Side
    BY <1>1 DEF Holder, InUse
  <2> QED
    BY <2>1, <1>1, <1>2 DEF Consistent, ChildrenKnowParent, c_rbnode_raw
<1>3. \A a \in Tree : a \in Holder(owner) /\ "root" \in Side
  BY DEF Holder, Side
<1> QED
  BY <1>1, <1>2, <1>3 DEF Consistent, ChildrenKnowParent, c_rbnode_raw

\* A child is no root.
LEMMA ChildNoRoot ==
  ASSUME IInv, NEW p \in InUse, NEW e \in Dir, link[p][e] # NULL
  PROVE  \A a \in Tree : link[a]["root"] # link[p][e]
<1>1. Consistent(owner, link, pf) /\ p \in Holder(owner) /\ e \in Side /\ e # "root"
  BY InUseFacts, Sides DEF Sound, Holder, InUse, Dir
<1>2. \A a \in Tree : a \in Holder(owner) /\ "root" \in Side
  BY DEF Holder, Side
<1> QED
  BY <1>1, <1>2 DEF Consistent, ChildrenKnowParent

\* The memory after a rotation.
LEMMA RotateTurns ==
  ASSUME IInv, NoLoops(link), NEW p \in InUse, NEW e \in Dir, link[p][e] # NULL
  PROVE  \E g \in Node \cup Tree, t \in Side :
           Turned(InUse, link, PutInPlace(Opened(link, p, e, link[p][e]), pf, p, link[p][e]),
                  g, t, p, e, link[p][e])
<1> DEFINE s == link[p][e]
           m2 == Opened(link, p, e, s)
<1>1. Held(link, InUse, p, e, s)
  BY HeldInUse
<1> HIDE DEF s, m2
<1>2. PICK g \in Holder(owner), t \in Side :
           /\ g = pf[p].raw /\ link[g][t] = p /\ (t = "root" <=> g \in Tree)
           /\ g \notin Subtree(link, p) /\ g # p
           /\ \A m \in Memory : m[g] = link[g] => PutInPlace(m, pf, p, s) = Put(m, g, t, s)
  BY InPlaceAt
<1>3. link \in Memory /\ g \in Node \cup Tree /\ (g \in InUse => t \in Dir)
  BY <1>2, InUseFacts, DistinctAddresses DEF Holder, Owned, Side, Dir
<1>4. m2 \in Memory /\ s \in Subtree(link, p) /\ OpenedFields(link, m2, p, e, s) /\ p # s
  BY <1>1, <1>3, RotationOpens DEF m2
<1>5. g # s /\ g # p
  BY <1>2, <1>4
<1>6. m2[g] = link[g]
  BY <1>3, <1>4, <1>5 DEF Memory, OpenedFields
<1>7. PutInPlace(m2, pf, p, s) = Put(m2, g, t, s)
  BY <1>2, <1>4, <1>6
<1>8. RotatedFields(link, Put(m2, g, t, s), g, t, p, e, s)
  BY <1>3, <1>4, <1>5 DEF RotatedFields, OpenedFields, Put, Memory
<1>9. /\ \A a \in InUse, b \in Dir : link[a][b] = p => a = g /\ b = t
      /\ \A a \in Tree : link[a]["root"] = p => a = g
  BY <1>2, OnlyParent
<1>11. \A a \in Tree : link[a]["root"] # s
  BY ChildNoRoot DEF s
<1>10. p \in InUse /\ s \in InUse /\ e \in Dir /\ link[p][e] = s
  BY <1>1 DEF Held
<1> QED
  BY <1>2, <1>3, <1>4, <1>5, <1>7, <1>8, <1>9, <1>10, <1>11 DEF Turned, s, m2

\* The fields of nodes in use hold nodes in use, each once.
LEMMA InUseSeparate ==
  ASSUME IInv
  PROVE  InUse \in SUBSET Node /\ link \in Memory /\ Separate(InUse, link)
<1>1. /\ InUse \in SUBSET Node /\ link \in Memory
      /\ \A x \in Holder(owner), s \in Side : link[x][s] \in InUse \cup {NULL}
      /\ \A p \in InUse, e \in Dir : link[p][e] # NULL =>
           \A n \in InUse, d \in Dir : link[n][d] = link[p][e] => n = p /\ d = e
  BY InUseClosed
<1>2. InUse \subseteq Holder(owner) /\ Dir \subseteq Side
  BY Sides DEF Holder, InUse
<1> QED
  BY <1>1, <1>2 DEF Separate

\* A turn keeps the order, and so do two.
LEMMA RearrangedKeepsOrder ==
  ASSUME IInv, InKeyOrder(InUse, link), NEW m2, Rearranged(m2)
  PROVE  InKeyOrder(InUse, m2)
<1>1. InUse \in SUBSET Node
  BY InUseSeparate
<1>2. ASSUME NEW m, NEW m3, InKeyOrder(InUse, m), RotatesTo(m, m3)
      PROVE  InKeyOrder(InUse, m3)
  BY <1>1, <1>2, TurnKeepsOrder DEF RotatesTo
<1> QED
  BY <1>2 DEF Rearranged

\* What the rotations do,
LEMMA RotationTurns ==
  ASSUME IInv, NoLoops(link), NEW p \in InUse, NEW e \in Dir, link[p][e] # NULL
  PROVE  Rearranged(PutInPlace(Opened(link, p, e, link[p][e]), pf, p, link[p][e]))
BY RotateTurns, InUseSeparate DEF Rearranged, RotatesTo

\* p, below it on side d its child q, and below that on the other side n.
Zigzag(p, q, n, d) ==
  /\ p \in InUse /\ q \in InUse /\ n \in InUse /\ d \in Dir
  /\ link[p][d] = q /\ link[q][Other(d)] = n

\* n above q, and then the fields of p and n for n above p.
HalfTurned(p, q, n, d) == Put(Opened(link, q, Other(d), n), p, d, n)
TurnedTwice(p, q, n, d) == Opened(HalfTurned(p, q, n, d), p, d, n)

\* and the double rotations.
LEMMA DoubleRotationTurns ==
  ASSUME IInv, NoLoops(link), NEW p, NEW q, NEW n, NEW d, Zigzag(p, q, n, d)
  PROVE  Rearranged(PutInPlace(TurnedTwice(p, q, n, d), pf, p, n))
<1> DEFINE o == Other(d)
           m1 == Opened(link, q, o, n)
           m2 == HalfTurned(p, q, n, d)
           m3 == TurnedTwice(p, q, n, d)
<1>1. /\ p \in InUse /\ q \in InUse /\ n \in InUse /\ d \in Dir
      /\ link[p][d] = q /\ link[q][o] = n
      /\ o \in Dir /\ o # d /\ Other(o) = d /\ Dir \subseteq Side
      /\ p \in Node /\ q \in Node /\ n \in Node /\ NULL \notin Node
      /\ link \in Memory /\ Separate(InUse, link) /\ InUse \in SUBSET Node
  BY Sides, InUseSeparate, DistinctAddresses DEF Zigzag
<1>2. Held(link, InUse, q, o, n)
  BY <1>1, HeldInUse, DistinctAddresses
<1> HIDE DEF o
<1>3. m1 \in Memory /\ OpenedFields(link, m1, q, o, n) /\ q # n /\ n \in Subtree(link, q)
  BY <1>1, <1>2, RotationOpens
<1>4. p \notin Subtree(link, q) /\ q \in Subtree(link, q) /\ q \in Subtree(link, p)
      /\ n \in Subtree(link, p)
  <2>1. p \notin Subtree(link, q) /\ q \in Subtree(link, q)
    BY <1>1, NotBelowItself, SubtreeFacts
  <2>2. q \in Subtree(link, p)
    BY <1>1, SubtreeFacts DEF Closed
  <2> QED
    BY <2>1, <2>2, <1>1, SubtreeFacts DEF Closed
<1>5. p # q /\ p # n
  BY <1>3, <1>4
<1>6. m2 = Put(m1, p, d, n)
  BY DEF HalfTurned, o
<1>7. m2 \in Memory
      /\ \A a \in Node \cup Tree, b \in Side :
           m2[a][b] = IF a = p /\ b = d THEN n
                      ELSE IF a = q /\ b = o THEN link[n][d]
                      ELSE IF a = n /\ b = d THEN q
                      ELSE link[a][b]
  <2>1. n \in Pointer /\ d \in Side /\ p \in Node \cup Tree
    BY <1>1 DEF Pointer
  <2> HIDE DEF m1, m2
  <2>2. /\ m2 \in Memory
        /\ \A a \in Node \cup Tree, b \in Side : m2[a][b] = IF a = p /\ b = d THEN n ELSE m1[a][b]
    BY <2>1, <1>3, <1>6, PutFacts
  <2> QED
    BY <2>2, <1>1, <1>3 DEF OpenedFields
<1>8. Turned(InUse, link, m2, p, d, q, o, n)
  <2>1. RotatedFields(link, m2, p, d, q, o, n)
    BY <1>1, <1>7 DEF RotatedFields
  <2>2. \A a \in InUse, b \in Dir : link[a][b] = q => a = p /\ b = d
    BY <1>1 DEF Separate
  <2>3. \A a \in Tree : link[a]["root"] # n /\ link[a]["root"] # q
    BY <1>1, ChildNoRoot
  <2>4. p \notin Tree
    BY <1>1, DistinctAddresses
  <2> QED
    BY <2>1, <2>2, <2>3, <2>4, <1>1, <1>3, <1>5 DEF Turned
<1>9. Separate(InUse, m2)
  BY <1>1, <1>8, TurnKeepsApart
<1>10. PICK g \in Holder(owner), t \in Side :
           /\ g = pf[p].raw /\ link[g][t] = p /\ (t = "root" <=> g \in Tree)
           /\ g \notin Subtree(link, p) /\ g # p
           /\ \A m \in Memory : m[g] = link[g] => PutInPlace(m, pf, p, n) = Put(m, g, t, n)
  BY <1>1, InPlaceAt
<1>11. /\ g \in Node \cup Tree /\ (g \in InUse => t \in Dir) /\ g # q /\ g # n /\ g # p
  BY <1>4, <1>10, DistinctAddresses DEF Holder, Owned, InUse, Side, Dir
<1> HIDE DEF m1, m2
<1>12. m3 \in Memory
       /\ \A a \in Node \cup Tree, b \in Side :
            m3[a][b] = IF a = n /\ b = o THEN p
                       ELSE IF a = p /\ b = d THEN m2[n][o]
                       ELSE m2[a][b]
  <2>1. m3 = Put(Put(m2, p, d, m2[n][o]), n, o, p)
    BY DEF TurnedTwice, Opened, HalfOpened, o, m2
  <2> DEFINE v == m2[n][o]
  <2>2. v \in Pointer /\ p \in Pointer /\ p \in Node \cup Tree /\ n \in Node \cup Tree
        /\ d \in Side /\ o \in Side
    BY <1>1, <1>7 DEF Memory, Pointer
  <2> HIDE DEF m3, v
  <2>3. /\ Put(m2, p, d, v) \in Memory
        /\ \A a \in Node \cup Tree, b \in Side :
             Put(m2, p, d, v)[a][b] = IF a = p /\ b = d THEN v ELSE m2[a][b]
    BY <2>2, <1>7, PutFacts
  <2> DEFINE m == Put(m2, p, d, v)
  <2> HIDE DEF m
  <2>4. /\ Put(m, n, o, p) \in Memory
        /\ \A a \in Node \cup Tree, b \in Side :
             Put(m, n, o, p)[a][b] = IF a = n /\ b = o THEN p ELSE m[a][b]
    BY <2>2, <2>3, PutFacts DEF m
  <2> QED
    BY <2>1, <2>3, <2>4 DEF m, v
<1>13. m3[g] = link[g]
  BY <1>1, <1>7, <1>11, <1>12 DEF Memory
<1>14. PutInPlace(m3, pf, p, n) = Put(m3, g, t, n)
  BY <1>10, <1>12, <1>13
<1> HIDE DEF m3
<1>15. RotatedFields(m2, Put(m3, g, t, n), g, t, p, d, n)
  <2>1. \A a \in Node \cup Tree, b \in Side :
          Put(m3, g, t, n)[a][b] = IF a = g /\ b = t THEN n ELSE m3[a][b]
    <3>1. n \in Pointer /\ t \in Side
      BY <1>1 DEF Pointer
    <3> QED
      BY <3>1, <1>11, <1>12, PutFacts
  <2> QED
    BY <2>1, <1>5, <1>11, <1>12 DEF RotatedFields, o
<1>16. m2[g][t] = p /\ m2[p][d] = n
  BY <1>1, <1>7, <1>10, <1>11
<1>17. \A a \in InUse, b \in Dir : m2[a][b] = p => a = g /\ b = t
  <2>1. \A a \in InUse, b \in Dir : link[a][b] = p => a = g /\ b = t
    BY <1>1, <1>10, OnlyParent
  <2>2. link[n][d] # p
    BY <2>1, <1>1, <1>11
  <2> QED
    BY <2>1, <2>2, <1>1, <1>5, <1>7
<1>19. \A a \in Tree : m2[a]["root"] # n /\ (m2[a]["root"] = p => a = g)
  <2>1. \A a \in Tree : link[a]["root"] # n /\ (link[a]["root"] = p => a = g)
    BY <1>1, <1>10, OnlyParent, ChildNoRoot
  <2>2. \A a \in Tree : m2[a]["root"] = link[a]["root"]
    BY <1>1, <1>7 DEF Dir, Side
  <2> QED
    BY <2>1, <2>2
<1>18. Turned(InUse, m2, Put(m3, g, t, n), g, t, p, d, n)
  BY <1>1, <1>5, <1>10, <1>11, <1>15, <1>16, <1>17, <1>19 DEF Turned
<1> QED
  BY <1>1, <1>8, <1>9, <1>14, <1>18 DEF m3, Rearranged, RotatesTo

\* The last of two stores to a field counts.
LEMMA PutAgain ==
  ASSUME NEW m \in Memory, NEW x, NEW s, NEW v, NEW w
  PROVE  Put(Put(m, x, s, v), x, s, w) = Put(m, x, s, w)
BY DEF Put, Memory

\* c_rbtree_paint_terminal turns, with an outer grandchild,
LEMMA PaintRotateTurns ==
  ASSUME IInv, NoLoops(link), PaintRotate
  PROVE  Rearranged(link')
<1> DEFINE p == c_rbnode_parent(pf, cur)
           g == Grandparent(cur)
           d == SideOf(link, g, p)
<1>1. pc = "paint" /\ RedParent(cur) /\ link' = RotateGrandparentLink(link, p, g, d)
  BY DEF PaintRotate
<1>2. g \in InUse /\ d \in Dir /\ link[g][d] = p /\ p # NULL
  BY <1>1, PaintNeighbours, InUseFacts
<1>3. RotateGrandparentLink(link, p, g, d) = PutInPlace(Opened(link, g, d, p), pf, g, p)
  BY DEF RotateGrandparentLink, Opened, HalfOpened, Put
<1> HIDE DEF p, g, d
<1> QED
  BY <1>1, <1>2, <1>3, RotationTurns

\* with an inner one,
LEMMA PaintRotateTwiceTurns ==
  ASSUME IInv, NoLoops(link), PaintRotateTwice
  PROVE  Rearranged(link')
<1> DEFINE n == cur
           p == c_rbnode_parent(pf, n)
           g == Grandparent(n)
           d == SideOf(link, g, p)
           e == Other(d)
           M1 == [link EXCEPT ![p][e] = link[n][d], ![n][d] = p]
<1>1. /\ pc = "paint" /\ RedParent(n) /\ n = link[p][e]
      /\ link' = PutInPlace([M1 EXCEPT ![g][d] = M1[n][e], ![n][e] = g], pf, g, n)
  BY DEF PaintRotateTwice, RotateGrandparentLink
<1>2. /\ n \in InUse /\ p \in InUse /\ g \in InUse /\ d \in Dir /\ e \in Dir
      /\ link[g][d] = p /\ Other(e) = d /\ d # e
      /\ p # NULL /\ n # NULL /\ link \in Memory
      /\ d \in Side /\ e \in Side
  BY <1>1, PaintNeighbours, InUseFacts, Sides
<1>3. M1 = Opened(link, p, e, n)
  BY <1>2 DEF Opened, HalfOpened, Put
<1> HIDE DEF M1
<1>4. Zigzag(g, p, n, d)
  BY <1>1, <1>2 DEF Zigzag
<1>5. g # n
  <2>1. n \in Subtree(link, p)
    BY <1>1, <1>2, SubtreeFacts DEF Closed, InUse, Owned
  <2>2. g \notin Subtree(link, p)
    BY <1>2, NotBelowItself DEF InUse, Owned
  <2> QED
    BY <2>1, <2>2
<1>6. [M1 EXCEPT ![g][d] = M1[n][e], ![n][e] = g] = TurnedTwice(g, p, n, d)
  <2>1. M1 \in Memory
    BY <1>1, <1>2, <1>3, HeldInUse, RotationOpens
  <2>2. TurnedTwice(g, p, n, d)
          = Put(Put(Put(M1, g, d, n), g, d, Put(M1, g, d, n)[n][e]), n, e, g)
    BY <1>3 DEF TurnedTwice, HalfTurned, Opened, HalfOpened
  <2>3. Put(M1, g, d, n)[n][e] = M1[n][e]
    BY <2>1, <1>2, <1>5 DEF Put, Memory, InUse, Owned
  <2>4. Put(Put(M1, g, d, n), g, d, M1[n][e]) = Put(M1, g, d, M1[n][e])
    BY <2>1, PutAgain
  <2> QED
    BY <2>2, <2>3, <2>4 DEF Put
<1> QED
  BY <1>1, <1>4, <1>6, DoubleRotationTurns

\* so does c_rbnode_rebalance_terminal, where the sibling is rotated above the
\* parent,
LEMMA RotateSiblingTurns ==
  ASSUME IInv, NoLoops(link), RotateRedSibling \/ RotateSibling
  PROVE  Rearranged(link')
<1> DEFINE d == HoleSide
           s == Sibling
<1>1. pc = "rotate" /\ link' = RotateSiblingLink(link, cur, s, d)
  BY DEF RotateRedSibling, RotateSibling
<1>2. cur # NULL
  BY <1>1 DEF IInv, Rebalancing
<1>3. /\ cur \in InUse /\ Other(d) \in Dir /\ Other(Other(d)) = d
      /\ link[cur][Other(d)] = s /\ s # NULL
  BY <1>1, <1>2, HoleNeighbours, InUseFacts
<1> HIDE DEF d, s
<1>4. RotateSiblingLink(link, cur, s, d) = PutInPlace(Opened(link, cur, Other(d), s), pf, cur, s)
  BY <1>3 DEF RotateSiblingLink, Opened, HalfOpened, Put
<1> QED
  BY <1>1, <1>3, <1>4, RotationTurns

\* or the near nephew is rotated up twice.
LEMMA RotateNephewTurns ==
  ASSUME IInv, NoLoops(link), RotateNephew
  PROVE  Rearranged(link')
<1> DEFINE p == cur
           d == HoleSide
           s == Sibling
           y == NearNephew
           e == Other(d)
           M1 == [link EXCEPT ![s][d] = link[y][e], ![y][e] = s, ![p][e] = y]
<1>1. /\ pc = "rotate" /\ y # NULL /\ y = link[s][d] /\ s = link[p][e]
      /\ link' = PutInPlace([M1 EXCEPT ![p][e] = M1[y][d], ![y][d] = p], pf, p, y)
  BY DEF RotateNephew, RotateSiblingLink, RedNode, NearNephew, Sibling
<1>2. p # NULL
  BY <1>1 DEF IInv, Rebalancing
<1>3. /\ p \in InUse /\ s \in InUse /\ d \in Dir /\ e \in Dir /\ Other(e) = d
  BY <1>1, <1>2, HoleNeighbours, InUseFacts, Sides DEF InUse
<1>4. M1 = HalfTurned(p, s, y, e)
  BY <1>3 DEF HalfTurned, Opened, HalfOpened, Put
<1>5. [M1 EXCEPT ![p][e] = M1[y][d], ![y][d] = p] = TurnedTwice(p, s, y, e)
  BY <1>3, <1>4 DEF TurnedTwice, Opened, HalfOpened, Put
<1> HIDE DEF p, d, s, y, e, M1
<1>6. Held(link, InUse, s, d, y)
  BY <1>1, <1>3, HeldInUse
<1>7. Zigzag(p, s, y, e)
  BY <1>1, <1>3, <1>6 DEF Zigzag, Held
<1>8. Rearranged(PutInPlace(TurnedTwice(p, s, y, e), pf, p, y))
  BY <1>7, DoubleRotationTurns
<1> QED
  BY <1>1, <1>5, <1>8

\* The steps that rotate.
Rotating ==
  PaintRotate \/ PaintRotateTwice \/ RotateRedSibling \/ RotateSibling \/ RotateNephew

\* They turn an edge of one tree, or two in a row.
LEMMA RotatingTurns ==
  ASSUME IInv, NoLoops(link), Rotating
  PROVE  Rearranged(link') /\ owner' = owner
<1>1. owner' = owner
  BY DEF Rotating, PaintRotate, PaintRotateTwice, RotateRedSibling, RotateSibling, RotateNephew,
         caller
<1>2. CASE PaintRotate \/ PaintRotateTwice
  BY <1>1, <1>2, PaintRotateTurns, PaintRotateTwiceTurns
<1>3. CASE RotateRedSibling \/ RotateSibling \/ RotateNephew
  BY <1>1, <1>3, RotateSiblingTurns, RotateNephewTurns
<1> QED
  BY <1>2, <1>3 DEF Rotating

-----------------------------------------------------------------------------
(* Removal *)

\* A node that is taken out of its tree is the only one.
LEMMA DetachedFromUse ==
  ASSUME IInv, NEW n \in Node, Detach(n)
  PROVE  InUse' = InUse \ {n}
BY InUseFacts DEF Detach, InUse, Owned, Owners

\* NULL or the only child c takes the place of n.
LEMMA ReplaceKeepsOrder ==
  ASSUME IInv, NoLoops(link), InKeyOrder(InUse, link),
         NEW n \in InUse, NEW c \in Pointer, c = NULL \/ \E d \in Dir : c = link[n][d]
  PROVE  InKeyOrder(InUse \ {n}, PutInPlace(link, pf, n, c))
<1>1. PICK R \in Ranges : Ordered(InUse, link, R)
  BY DEF InKeyOrder
<1>2. PICK g \in Holder(owner), t \in Side :
           /\ link[g][t] = n /\ (t = "root" <=> g \in Tree)
           /\ \A m \in Memory : m[g] = link[g] => PutInPlace(m, pf, n, c) = Put(m, g, t, c)
  BY InPlaceAt, SMTT(20)
<1> DEFINE m2 == PutInPlace(link, pf, n, c)
<1>3. /\ link \in Memory /\ g \in Node \cup Tree /\ Dir \subseteq Side /\ n # NULL
      /\ (g \in InUse => t \in Dir) /\ InUse \in SUBSET Node
  BY <1>2, InUseFacts, InUseSeparate, DistinctAddresses DEF Holder, Owned, Side, Dir
<1>4. \A a \in Node \cup Tree, b \in Side : m2[a][b] = IF a = g /\ b = t THEN c ELSE link[a][b]
  BY <1>2, <1>3, PutFacts
<1> HIDE DEF m2
<1>5. ASSUME NEW a \in InUse \ {n}, NEW b \in Dir, m2[a][b] # NULL, NEW k \in R[m2[a][b]]
      PROVE  k \in R[a] /\ Admits(b, k, a)
  <2>1. CASE a = g /\ b = t
    <3>1. k \in R[c] /\ c # NULL /\ link[a][b] = n
      BY <2>1, <1>2, <1>3, <1>4, <1>5
    <3>2. k \in R[n]
      BY <3>1, <1>1 DEF Ordered
    <3> QED
      BY <3>1, <3>2, <1>1, <1>3 DEF Ordered
  <2>2. CASE ~(a = g /\ b = t)
    <3>1. m2[a][b] = link[a][b]
      BY <2>2, <1>3, <1>4
    <3> QED
      BY <3>1, <1>1, <1>5 DEF Ordered
  <2> QED
    BY <2>1, <2>2
<1> QED
  BY <1>1, <1>5 DEF InKeyOrder, Ordered, m2

\* c_rbnode_unlink_stale of a node with one child or none.
LEMMA UnlinkKeepsOrder ==
  ASSUME IInv, NoLoops(link), InKeyOrder(InUse, link), NEW n \in Node, NEW api,
         UnlinkLeaf(api, n) \/ \E d \in Dir : UnlinkOneChild(api, n, d)
  PROVE  InKeyOrder(InUse', link')
<1>1. n \in InUse /\ Detach(n)
  BY RemovableInUse DEF UnlinkLeaf, UnlinkOneChild, InUse
<1>2. \E c \in Pointer : link' = PutInPlace(link, pf, n, c) /\ (c = NULL \/ \E d \in Dir : c = link[n][d])
  <2>1. CASE UnlinkLeaf(api, n)
    BY <2>1 DEF UnlinkLeaf, Pointer
  <2>2. CASE \E d \in Dir : UnlinkOneChild(api, n, d)
    <3>1. \A d \in Dir : link[n][d] \in Pointer
      BY InUseFacts, Sides DEF Memory
    <3> QED
      BY <3>1, <2>2 DEF UnlinkOneChild
  <2> QED
    BY <2>1, <2>2
<1> QED
  BY <1>1, <1>2, DetachedFromUse, ReplaceKeepsOrder

\* The memory m after the successor s took the place of n in field t of g, where
\* p held s.
Spliced(m, n, s, p, g, t) ==
  /\ g \in Holder(owner) /\ t \in Side /\ link[g][t] = n /\ (t = "root" <=> g \in Tree)
  /\ g # n /\ g # s
  /\ s # link[n]["right"] => p \in InUse /\ p # s /\ p # g /\ link[p]["left"] = s
  /\ \A a \in Node \cup Tree, b \in Side :
       m[a][b] = IF a = g /\ b = t THEN s
                 ELSE IF a = s /\ b = "left" THEN link[n]["left"]
                 ELSE IF s # link[n]["right"] /\ a = s /\ b = "right" THEN link[n]["right"]
                 ELSE IF s # link[n]["right"] /\ a = p /\ b = "left" THEN link[s]["right"]
                 ELSE link[a][b]

\* That is what the step that splices does.
LEMMA SpliceFields ==
  ASSUME IInv, NoLoops(link), SearchBelow, SpliceSuccessor
  PROVE  \E g, t, p : Spliced(link', victim, cur, p, g, t)
<1> DEFINE n == victim
           s == cur
           p == IF s = link[n]["right"] THEN s ELSE c_rbnode_parent(pf, s)
           l == link[n]["left"]
           r == link[n]["right"]
           x == link[s]["right"]
           C == Subtree(link, n)
<1>1. pc = "successor" /\ link[s]["left"] = NULL /\ link' = SpliceLink(link, n, s, p)
  BY DEF SpliceSuccessor
<1>2. /\ n \in InUse /\ s \in InUse /\ s # n /\ l # NULL /\ r # NULL /\ s # l
      /\ s # r => p \in InUse /\ link[p]["left"] = s
  <2>1. /\ Spliceable(owner, link, pf, n, s, p, IF s = r THEN "right" ELSE "left")
        /\ p = s <=> s = r
    BY <1>1, SuccessorFound
  <2> QED
    BY <2>1 DEF Spliceable, InUse
<1>3. s \in Subtree(link, r)
  BY <1>1 DEF SearchBelow
<1>4. link \in Memory /\ "left" \in Dir /\ "right" \in Dir /\ "left" \in Side /\ "right" \in Side
  BY InUseFacts DEF Dir, Side
<1>5. link' = PutInPlace(IF s = r THEN Put(link, s, "left", l)
                         ELSE Put(Put(Put(link, p, "left", x), s, "right", r), s, "left", l),
                         pf, n, s)
  BY <1>1 DEF SpliceLink, Put
<1> HIDE DEF n, s
<1>6. /\ l \in Pointer /\ r \in Pointer /\ x \in Pointer /\ s \in Pointer
      /\ n \in Node /\ s \in Node /\ InUse \in SUBSET Node /\ s # NULL
  BY <1>2, <1>4, InUseFacts DEF Memory, Pointer
<1>7. /\ n \in C /\ s \in C /\ (s # r => p \in C /\ p # s)
  <2>1. Closed(link, C) /\ C \in SUBSET Node /\ n \in C /\ C \subseteq InUse
    BY <1>2, SubtreeFacts, SubtreeInUse
  <2>2. r \in C
    BY <2>1, <1>2, <1>4, <1>6, DistinctAddresses DEF Closed, Pointer
  <2>3. s \in C
    BY <2>2, <1>3, SubtreeWithin
  <2>4. s # r => p \in C
    <3> HIDE DEF p
    <3> QED
      BY <2>3, <1>2, <1>4, SubtreeInUse DEF C
  <2>5. s # r => p # s
    BY <1>1, <1>2, <1>6
  <2> QED
    BY <2>1, <2>3, <2>4, <2>5
<1>8. PICK g \in Holder(owner), t \in Side :
           /\ link[g][t] = n /\ (t = "root" <=> g \in Tree)
           /\ g \notin C /\ g # n
           /\ \A m \in Memory : m[g] = link[g] => PutInPlace(m, pf, n, s) = Put(m, g, t, s)
  BY <1>2, InPlaceAt
<1>9. g \in Node \cup Tree /\ g # s /\ g # n /\ (s # r => g # p)
  BY <1>7, <1>8 DEF Holder, Owned
<1> HIDE DEF C, p, l, r, x
<1>10. CASE s = r
  <2> DEFINE m3 == Put(link, s, "left", l)
  <2>0. s \in Pointer /\ t \in Side /\ g \in Node \cup Tree
    BY <1>6, <1>9
  <2>1. m3 \in Memory /\ \A a \in Node \cup Tree, b \in Side :
                           m3[a][b] = IF a = s /\ b = "left" THEN l ELSE link[a][b]
    BY <1>4, <1>6, PutFacts
  <2>2. link' = PutInPlace(m3, pf, n, s)
    BY <1>5, <1>10
  <2> HIDE DEF m3
  <2>3. m3[g] = link[g]
    BY <2>1, <1>4, <1>9 DEF Memory
  <2>4. link' = Put(m3, g, t, s)
    BY <1>8, <2>1, <2>2, <2>3
  <2>5. \A a \in Node \cup Tree, b \in Side : link'[a][b] = IF a = g /\ b = t THEN s ELSE m3[a][b]
    <3>1. \A a \in Node \cup Tree, b \in Side :
            Put(m3, g, t, s)[a][b] = IF a = g /\ b = t THEN s ELSE m3[a][b]
      BY <2>1, <2>0, PutFacts
    <3> QED
      BY <3>1, <2>4
  <2> QED
    BY <2>1, <2>5, <1>2, <1>8, <1>9, <1>10 DEF Spliced, r, l, n, s
<1>11. CASE s # r
  <2> DEFINE m1 == Put(link, p, "left", x)
             m2 == Put(m1, s, "right", r)
             m3 == Put(m2, s, "left", l)
  <2>0. s \in Pointer /\ t \in Side /\ g \in Node \cup Tree
    BY <1>6, <1>9
  <2>1. m1 \in Memory /\ \A a \in Node \cup Tree, b \in Side :
                           m1[a][b] = IF a = p /\ b = "left" THEN x ELSE link[a][b]
    BY <1>2, <1>4, <1>6, <1>11, PutFacts
  <2> HIDE DEF m1
  <2>2. m2 \in Memory /\ \A a \in Node \cup Tree, b \in Side :
                           m2[a][b] = IF a = s /\ b = "right" THEN r ELSE m1[a][b]
    BY <2>1, <1>4, <1>6, PutFacts
  <2> HIDE DEF m2
  <2>3. m3 \in Memory /\ \A a \in Node \cup Tree, b \in Side :
                           m3[a][b] = IF a = s /\ b = "left" THEN l ELSE m2[a][b]
    BY <2>2, <1>4, <1>6, PutFacts
  <2>4. link' = PutInPlace(m3, pf, n, s)
    BY <1>5, <1>11 DEF m1, m2
  <2> HIDE DEF m3
  <2>5. m3[g] = link[g]
    BY <2>1, <2>2, <2>3, <1>4, <1>9, <1>11 DEF Memory
  <2>6. link' = Put(m3, g, t, s)
    BY <1>8, <2>3, <2>4, <2>5
  <2>7. \A a \in Node \cup Tree, b \in Side : link'[a][b] = IF a = g /\ b = t THEN s ELSE m3[a][b]
    <3>1. \A a \in Node \cup Tree, b \in Side :
            Put(m3, g, t, s)[a][b] = IF a = g /\ b = t THEN s ELSE m3[a][b]
      BY <2>3, <2>0, PutFacts
    <3> QED
      BY <3>1, <2>6
  <2>8. \A a \in Node \cup Tree, b \in Side :
          link'[a][b] = IF a = g /\ b = t THEN s
                        ELSE IF a = s /\ b = "left" THEN l
                        ELSE IF a = s /\ b = "right" THEN r
                        ELSE IF a = p /\ b = "left" THEN x
                        ELSE link[a][b]
    BY <2>1, <2>2, <2>3, <2>7
  <2> QED
    BY <2>8, <1>2, <1>7, <1>8, <1>9, <1>11 DEF Spliced, r, l, x, n, s
<1> QED
  BY <1>10, <1>11

\* A has the nodes that the search for the successor passed on its way to cur.
Passed(A) ==
  /\ link[victim]["right"] \in A \cup {cur}
  /\ \A a \in A : link[a]["left"] \in A \cup {cur}
  /\ victim \notin A

SearchLeft == pc = "successor" => \E A \in SUBSET InUse : Passed(A)

\* What is below cur is right of the node to remove and left of the nodes passed.
LEMMA PassedRanges ==
  ASSUME IInv, NoLoops(link), pc = "successor", NEW R \in Ranges, Ordered(InUse, link, R),
         NEW A \in SUBSET InUse, Passed(A)
  PROVE  /\ \A a \in A, k \in R[cur] : k \in R[a] /\ k <= KeyOf[a]
         /\ \A k \in R[cur] : k \in R[victim] /\ k >= KeyOf[victim]
<1> DEFINE Fits(a) == \A k \in R[cur] : k \in R[a] /\ k <= KeyOf[a]
           B == {a \in A : ~Fits(a)}
<1>1. /\ InUse \in SUBSET Node /\ "left" \in Dir /\ "right" \in Dir
      /\ victim \in InUse /\ cur \in InUse /\ NULL \notin InUse
  BY InUseSeparate, DistinctAddresses DEF IInv, Searching, Dir
<1>2. \A n \in InUse, d \in Dir :
        link[n][d] # NULL => \A k \in R[link[n][d]] : k \in R[n] /\ Admits(d, k, n)
  BY DEF Ordered
<1>3. \A a \in B : link[a]["left"] \in B
  <2>1. SUFFICES ASSUME NEW a \in A, link[a]["left"] \notin B
                 PROVE  Fits(a)
    BY <1>1 DEF Passed
  <2>2. \A k \in R[cur] : k \in R[link[a]["left"]] /\ link[a]["left"] # NULL
    BY <2>1, <1>1 DEF Passed
  <2> QED
    BY <2>2, <1>1, <1>2 DEF Admits
<1>4. B = {}
  BY <1>1, <1>3 DEF NoLoops
<1>5. \A a \in A : Fits(a)
  BY <1>4
<1> HIDE DEF Fits, B
<1>6. \A k \in R[cur] : k \in R[victim] /\ k >= KeyOf[victim]
  <2>1. \A k \in R[cur] : k \in R[link[victim]["right"]] /\ link[victim]["right"] # NULL
    BY <1>1, <1>5 DEF Passed, Fits
  <2> QED
    BY <2>1, <1>1, <1>2 DEF Admits
<1> QED
  BY <1>5, <1>6 DEF Fits

\* c_rbnode_unlink_stale of a node n with two children: its successor s gets its
\* range, and the nodes passed on the way to s lose the keys before that of s.
LEMMA SpliceKeepsOrder ==
  ASSUME IInv, NoLoops(link), SearchBelow, SearchLeft, InKeyOrder(InUse, link), SpliceSuccessor
  PROVE  InKeyOrder(InUse', link')
<1>1. PICK R \in Ranges : Ordered(InUse, link, R)
  BY DEF InKeyOrder
<1>2. pc = "successor" /\ link[cur]["left"] = NULL /\ Detach(victim)
  BY DEF SpliceSuccessor
<1>3. PICK A \in SUBSET InUse : Passed(A)
  BY <1>2 DEF SearchLeft
<1>4. PICK g, t, p : Spliced(link', victim, cur, p, g, t)
  BY SpliceFields
<1> DEFINE n == victim
           s == cur
           m2 == link'
           l == link[n]["left"]
           r == link[n]["right"]
           x == link[s]["right"]
           R2 == [y \in Node |-> IF y = s THEN R[n]
                                 ELSE IF y \in A THEN {k \in R[y] : k >= KeyOf[s]}
                                 ELSE R[y]]
<1>5. /\ InUse \in SUBSET Node /\ "left" \in Dir /\ "right" \in Dir /\ Dir \subseteq Side
      /\ n \in InUse /\ s \in InUse /\ s # n /\ l # NULL /\ r # NULL /\ s # l
      /\ NULL \notin InUse /\ InUse' = InUse \ {n} /\ n \in Node /\ s \in Node
      /\ link \in Memory /\ Separate(InUse, link)
  <2>1. n \in InUse /\ s \in InUse /\ s # n /\ l # NULL /\ r # NULL /\ s # l
    BY <1>2 DEF IInv, Searching
  <2> QED
    BY <2>1, <1>2, InUseSeparate, DistinctAddresses, DetachedFromUse, Sides DEF Dir
<1>6. /\ \A a \in A, k \in R[s] : k \in R[a] /\ k <= KeyOf[a]
      /\ \A k \in R[s] : k \in R[n] /\ k >= KeyOf[n]
  BY <1>1, <1>2, <1>3, PassedRanges
<1>7. /\ \A y \in InUse : KeyOf[y] \in R[y]
      /\ \A y \in InUse, d \in Dir :
           link[y][d] # NULL => \A k \in R[link[y][d]] : k \in R[y] /\ Admits(d, k, y)
      /\ \A y \in Node : R[y] \subseteq Int /\ KeyOf[y] \in Int
  BY <1>1, KeysAreIntegers DEF Ordered, Ranges
<1>8. /\ r \in A \cup {s} /\ n \notin A /\ s \notin A
      /\ \A a \in A : link[a]["left"] \in A \cup {s}
  BY <1>2, <1>3, <1>5 DEF Passed
<1>9. /\ g \in Holder(owner) /\ t \in Side /\ link[g][t] = n /\ (t = "root" <=> g \in Tree)
      /\ g # n /\ g # s
      /\ s # r => p \in InUse /\ p # s /\ p # g /\ link[p]["left"] = s
      /\ \A a \in Node \cup Tree, b \in Side :
           m2[a][b] = IF a = g /\ b = t THEN s
                      ELSE IF a = s /\ b = "left" THEN l
                      ELSE IF s # r /\ a = s /\ b = "right" THEN r
                      ELSE IF s # r /\ a = p /\ b = "left" THEN x
                      ELSE link[a][b]
  BY <1>4 DEF Spliced
<1>10. R2 \in Ranges
  BY <1>5, <1>7 DEF Ranges
<1>11. /\ R2[s] = R[n]
       /\ \A y \in A : R2[y] = {k \in R[y] : k >= KeyOf[s]}
       /\ \A y \in Node : y # s => R2[y] \subseteq R[y]
       /\ \A y \in Node : y # s /\ y \notin A => R2[y] = R[y]
  BY <1>5, <1>8
<1> HIDE DEF R2, m2, n, s, l, r, x
<1>12. \A y \in InUse : KeyOf[y] \in R2[y]
  <2>1. KeyOf[s] \in R[s]
    BY <1>5, <1>7
  <2>2. \A y \in A : KeyOf[y] \in R[y] /\ KeyOf[y] >= KeyOf[s]
    BY <2>1, <1>5, <1>6, <1>7
  <2> QED
    BY <2>1, <2>2, <1>5, <1>6, <1>7, <1>11
<1>13. ASSUME NEW a \in InUse \ {n}, NEW b \in Dir, m2[a][b] # NULL, NEW k \in R2[m2[a][b]]
       PROVE  k \in R2[a] /\ Admits(b, k, a)
  <2>0. a \in Node /\ b \in Side /\ a \in Node \cup Tree
    BY <1>5
  <2>1. CASE a = g /\ b = t
    <3>1. m2[a][b] = s /\ link[a][b] = n
      BY <2>0, <2>1, <1>9
    <3>2. k \in R[n]
      BY <3>1, <1>11, <1>13
    <3>3. k \in R[a] /\ Admits(b, k, a)
      BY <3>1, <3>2, <1>5, <1>7
    <3>4. ASSUME a \in A
          PROVE  k >= KeyOf[s]
      <4>1. b = "right"
        BY <3>4, <3>1, <1>5, <1>8 DEF Dir
      <4>2. k >= KeyOf[a]
        BY <3>3, <4>1 DEF Admits
      <4>3. KeyOf[a] >= KeyOf[s]
        BY <3>4, <1>5, <1>6, <1>7
      <4>4. k \in Int /\ KeyOf[a] \in Int /\ KeyOf[s] \in Int
        BY <3>2, <1>5, <1>7
      <4> QED
        BY <4>2, <4>3, <4>4
    <3>5. a # s
      BY <2>1, <1>9
    <3> QED
      BY <3>3, <3>4, <3>5, <2>0, <1>11
  <2>2. CASE a = s /\ b = "left"
    <3>1. m2[a][b] = l
      BY <2>0, <2>2, <1>9
    <3>2. l \in InUse /\ l # s
      BY <1>5 DEF Separate, l
    <3>3. k \in R[l]
      BY <3>1, <3>2, <1>5, <1>11, <1>13
    <3>4. k \in R[n] /\ k <= KeyOf[n]
      BY <3>3, <1>5, <1>7 DEF Admits, l
    <3>5. KeyOf[n] <= KeyOf[s]
      BY <1>5, <1>6, <1>7
    <3>6. k \in Int /\ KeyOf[n] \in Int /\ KeyOf[s] \in Int
      BY <3>4, <1>5, <1>7
    <3> QED
      BY <2>2, <3>4, <3>5, <3>6, <1>11 DEF Admits
  <2>3. CASE a = s /\ b = "right" /\ s # r
    <3>1. m2[a][b] = r /\ r \in A
      BY <2>0, <2>3, <1>8, <1>9
    <3>2. k \in R[r] /\ k >= KeyOf[s]
      BY <3>1, <1>11, <1>13
    <3>3. k \in R[n]
      BY <3>2, <1>5, <1>7 DEF r
    <3> QED
      BY <2>3, <3>2, <3>3, <1>11 DEF Admits
  <2>4. CASE a = s /\ b = "right" /\ s = r
    <3>1. m2[a][b] = x
      BY <2>0, <2>4, <1>9 DEF x
    <3>2. x \in InUse /\ x # s
      BY <3>1, <2>4, <1>5, <1>13 DEF Separate, x, r
    <3>3. k \in R[x]
      BY <3>1, <3>2, <1>5, <1>11, <1>13
    <3>4. k \in R[s] /\ k >= KeyOf[s]
      BY <3>1, <3>3, <1>5, <1>7, <1>13 DEF Admits, x
    <3> QED
      BY <2>4, <3>4, <1>6, <1>11 DEF Admits
  <2>5. CASE a = p /\ b = "left" /\ s # r /\ a # s /\ ~(a = g /\ b = t)
    <3>1. m2[a][b] = x /\ link[a]["left"] = s
      BY <2>0, <2>5, <1>9
    <3>2. x \in InUse /\ x # s
      BY <3>1, <2>5, <1>5, <1>13 DEF Separate, x
    <3>3. k \in R[x]
      BY <3>1, <3>2, <1>5, <1>11, <1>13
    <3>4. k \in R[s] /\ k >= KeyOf[s]
      BY <3>1, <3>3, <1>5, <1>7, <1>13 DEF Admits, x
    <3>5. k \in R[a] /\ k <= KeyOf[a]
      BY <3>1, <3>4, <1>5, <1>7 DEF Admits
    <3> QED
      BY <2>0, <2>5, <3>4, <3>5, <1>11 DEF Admits
  <2>6. CASE a # s /\ ~(a = g /\ b = t) /\ ~(a = p /\ b = "left" /\ s # r)
    <3>1. m2[a][b] = link[a][b]
      BY <2>0, <2>6, <1>9
    <3>2. link[a][b] \in InUse
      BY <3>1, <1>5, <1>13 DEF Separate
    <3>3. link[a][b] # s
      <4>1. CASE s = r
        BY <4>1, <3>1, <1>5, <1>13 DEF Separate, r
      <4>2. CASE s # r
        <5>1. p \in InUse /\ link[p]["left"] = s
          BY <4>2, <1>9
        <5> QED
          BY <5>1, <4>2, <2>6, <3>1, <1>5, <1>13 DEF Separate
      <4> QED
        BY <4>1, <4>2
    <3>4. k \in R[link[a][b]]
      BY <3>1, <3>2, <3>3, <1>5, <1>11, <1>13
    <3>5. k \in R[a] /\ Admits(b, k, a)
      BY <3>1, <3>4, <1>7, <1>13
    <3>6. ASSUME a \in A
          PROVE  k >= KeyOf[s]
      <4>1. CASE b = "left"
        <5>1. link[a][b] \in A
          BY <3>3, <3>6, <4>1, <1>8
        <5> QED
          BY <5>1, <3>1, <1>11, <1>13
      <4>2. CASE b = "right"
        <5>1. k >= KeyOf[a]
          BY <3>5, <4>2 DEF Admits
        <5>2. KeyOf[a] >= KeyOf[s]
          BY <3>6, <1>5, <1>6, <1>7
        <5>3. k \in Int /\ KeyOf[a] \in Int /\ KeyOf[s] \in Int
          BY <3>5, <2>0, <1>5, <1>7
        <5> QED
          BY <5>1, <5>2, <5>3
      <4> QED
        BY <4>1, <4>2 DEF Dir
    <3> QED
      BY <3>5, <3>6, <2>0, <2>6, <1>11
  <2> QED
    BY <2>1, <2>2, <2>3, <2>4, <2>5, <2>6 DEF Dir
<1> QED
  BY <1>5, <1>10, <1>12, <1>13 DEF InKeyOrder, Ordered, m2, n

\* The search for the successor passes cur on its way to the left.
LEMMA SearchGoesOn ==
  ASSUME IInv, SearchLeft,
         \/ \E n \in Node, api \in APICall : UnlinkFull(api, n)
         \/ WalkLeft
         \/ pc' # "successor"
  PROVE  SearchLeft'
<1>1. CASE \E n \in Node, api \in APICall : UnlinkFull(api, n)
  <2>1. link'[victim']["right"] \in {} \cup {cur'} /\ {} \in SUBSET InUse'
    BY <1>1 DEF UnlinkFull, memory
  <2> QED
    BY <2>1 DEF SearchLeft, Passed
<1>2. CASE WalkLeft
  <2>1. /\ pc = "successor" /\ victim' = victim /\ cur' = link[cur]["left"]
        /\ link' = link /\ InUse' = InUse
    BY <1>2 DEF WalkLeft, Continue, memory, caller, InUse, Owned
  <2>2. PICK A \in SUBSET InUse : Passed(A)
    BY <2>1 DEF SearchLeft
  <2>3. cur \in InUse /\ cur # victim
    BY <2>1 DEF IInv, Searching
  <2>4. PICK B \in SUBSET InUse : B = A \cup {cur}
    BY <2>3
  <2>5. Passed(B)'
    BY <2>1, <2>2, <2>3, <2>4 DEF Passed
  <2> QED
    BY <2>1, <2>5 DEF SearchLeft
<1>3. CASE pc' # "successor"
  BY <1>3 DEF SearchLeft
<1> QED
  BY <1>1, <1>2, <1>3

-----------------------------------------------------------------------------
(* Insertion *)

\* V has the nodes above the slot z; a search for key k comes by each of them.
Way(V, k, z) ==
  /\ V \in SUBSET InUse
  /\ z.p \in Node => z.p \in V /\ z.l \in Dir /\ Admits(z.l, k, z.p)
  /\ \A a \in InUse, b \in Dir : link[a][b] \in V => a \in V /\ Admits(b, k, a)

\* A node is stored in a slot that a search for its key leads to: the range of
\* each node on the way gets the key.
LEMMA LinkKeepsOrder ==
  ASSUME IInv, InKeyOrder(InUse, link), NEW p \in Node, NEW d \in Dir, NEW n \in Node,
         Link(p, d, n), NEW V, Way(V, KeyOf[n], [p |-> p, l |-> d])
  PROVE  InKeyOrder(InUse', link')
<1>1. PICK R \in Ranges : Ordered(InUse, link, R)
  BY DEF InKeyOrder
<1> DEFINE k == KeyOf[n]
           R2 == [c \in Node |-> IF c = n THEN {k} ELSE IF c \in V THEN R[c] \cup {k} ELSE R[c]]
<1>2. /\ owner[n] = NULL /\ p \in InUse /\ link[p][d] = NULL
      /\ link' = [link EXCEPT ![n] = NoLinks, ![p][d] = n]
      /\ owner' = [owner EXCEPT ![n] = owner[p]]
  BY DEF Link, InUse, Owned
<1>3. /\ InUse \in SUBSET Node /\ link \in Memory /\ Separate(InUse, link) /\ Dir \subseteq Side
      /\ n \notin InUse /\ p # n /\ owner \in Owners /\ k \in Int
  BY <1>2, InUseSeparate, InUseFacts, Sides, KeysAreIntegers DEF InUse, Owned
<1>4. InUse' = InUse \cup {n}
  BY <1>2, <1>3 DEF InUse, Owned, Owners
<1>5. \A a \in InUse', b \in Dir :
        link'[a][b] = IF a = n THEN NULL ELSE IF a = p /\ b = d THEN n ELSE link[a][b]
  BY <1>2, <1>3, <1>4 DEF Memory, NoLinks
<1>6. /\ V \in SUBSET InUse /\ p \in V /\ Admits(d, k, p)
      /\ \A a \in InUse, b \in Dir : link[a][b] \in V => a \in V /\ Admits(b, k, a)
  BY DEF Way
<1>7. /\ R2 \in Ranges
      /\ R2[n] = {k}
      /\ \A c \in V : R2[c] = R[c] \cup {k}
      /\ \A c \in Node : c # n /\ c \notin V => R2[c] = R[c]
  BY <1>3, <1>6 DEF Ranges
<1> HIDE DEF R2, k
<1>8. \A a \in InUse' : KeyOf[a] \in R2[a]
  BY <1>1, <1>3, <1>4, <1>6, <1>7 DEF Ordered, k
<1>9. ASSUME NEW a \in InUse', NEW b \in Dir, link'[a][b] # NULL, NEW j \in R2[link'[a][b]]
      PROVE  j \in R2[a] /\ Admits(b, j, a)
  <2>1. CASE a = p /\ b = d
    BY <2>1, <1>3, <1>5, <1>6, <1>7, <1>9
  <2>2. CASE ~(a = p /\ b = d)
    <3>1. a \in InUse /\ link'[a][b] = link[a][b] /\ a # n
      BY <2>2, <1>3, <1>4, <1>5, <1>9
    <3>2. link[a][b] \in InUse /\ link[a][b] # n
      BY <3>1, <1>3, <1>9 DEF Separate
    <3>3. \A i \in R[link[a][b]] : i \in R[a] /\ Admits(b, i, a)
      BY <3>1, <1>1, <1>9 DEF Ordered
    <3>4. CASE link[a][b] \in V
      BY <3>1, <3>3, <3>4, <1>6, <1>7, <1>9
    <3>5. CASE link[a][b] \notin V
      BY <3>1, <3>2, <3>3, <3>5, <1>3, <1>7, <1>9
    <3> QED
      BY <3>4, <3>5
  <2> QED
    BY <2>1, <2>2
<1> QED
  BY <1>7, <1>8, <1>9 DEF InKeyOrder, Ordered

\* A node becomes the root of an empty tree.
LEMMA AddRootKeepsOrder ==
  ASSUME IInv, InKeyOrder(InUse, link), NEW t \in Tree, NEW n \in Node, AddRoot(t, n)
  PROVE  InKeyOrder(InUse', link')
<1>1. PICK R \in Ranges : Ordered(InUse, link, R)
  BY DEF InKeyOrder
<1> DEFINE R2 == [R EXCEPT ![n] = {KeyOf[n]}]
<1>2. /\ owner[n] = NULL
      /\ link' = [link EXCEPT ![n] = NoLinks, ![t]["root"] = n]
      /\ owner' = [owner EXCEPT ![n] = t]
  BY DEF AddRoot
<1>3. /\ InUse \in SUBSET Node /\ link \in Memory /\ Separate(InUse, link) /\ Dir \subseteq Side
      /\ n \notin InUse /\ t \notin Node /\ owner \in Owners /\ t # NULL
  BY <1>2, InUseSeparate, InUseFacts, Sides, DistinctAddresses DEF InUse, Owned
<1>4. InUse' = InUse \cup {n}
  BY <1>2, <1>3 DEF InUse, Owned, Owners
<1>5. \A a \in InUse', b \in Dir : link'[a][b] = IF a = n THEN NULL ELSE link[a][b]
  BY <1>2, <1>3, <1>4 DEF Memory, NoLinks
<1>6. R2 \in Ranges /\ R2[n] = {KeyOf[n]} /\ \A c \in InUse : R2[c] = R[c]
  BY <1>3, KeysAreIntegers DEF Ranges
<1> HIDE DEF R2
<1>7. \A a \in InUse' : KeyOf[a] \in R2[a]
  BY <1>1, <1>4, <1>6 DEF Ordered
<1>8. ASSUME NEW a \in InUse', NEW b \in Dir, link'[a][b] # NULL
      PROVE  \A j \in R2[link'[a][b]] : j \in R2[a] /\ Admits(b, j, a)
  <2>1. a \in InUse /\ link'[a][b] = link[a][b]
    BY <1>4, <1>5, <1>8
  <2>2. link[a][b] \in InUse
    BY <2>1, <1>3, <1>8 DEF Separate
  <2> QED
    BY <2>1, <2>2, <1>1, <1>6, <1>8 DEF Ordered
<1> QED
  BY <1>6, <1>7, <1>8 DEF InKeyOrder, Ordered

-----------------------------------------------------------------------------
(* The recursive searches *)

\* What is reached from x in S by the steps nxt, the points of it where the steps
\* end, and one of those.
Reached(S, nxt, x) ==
  {y \in S : \A C \in SUBSET S : x \in C /\ (\A c \in C : nxt[c] \subseteq C) => y \in C}

Stops(S, nxt, x) == {y \in Reached(S, nxt, x) : nxt[y] = {}}
Stop(S, nxt, x)  == CHOOSE y \in Stops(S, nxt, x) : TRUE

\* What is reached is the point itself and what is reached from the next ones.
LEMMA ReachedFacts ==
  ASSUME NEW S, NEW nxt \in [S -> SUBSET S], NEW x \in S
  PROVE  Reached(S, nxt, x) = {x} \cup UNION {Reached(S, nxt, y) : y \in nxt[x]}
<1> DEFINE D == {x} \cup UNION {Reached(S, nxt, y) : y \in nxt[x]}
<1>1. D \subseteq Reached(S, nxt, x)
  BY DEF Reached
<1>2. D \in SUBSET S /\ x \in D
  BY DEF Reached
<1>3. ASSUME NEW c \in D
      PROVE  nxt[c] \subseteq D
  <2>1. CASE c = x
    <3>1. \A y \in nxt[x] : y \in S /\ y \in Reached(S, nxt, y)
      BY DEF Reached
    <3> QED
      BY <3>1, <2>1
  <2>2. CASE c # x
    <3>1. PICK y \in nxt[x] : c \in Reached(S, nxt, y)
      BY <2>2
    <3>2. nxt[c] \subseteq Reached(S, nxt, y)
      BY <3>1 DEF Reached
    <3> QED
      BY <3>1, <3>2
  <2> QED
    BY <2>1, <2>2
<1>4. Reached(S, nxt, x) \subseteq D
  BY <1>2, <1>3 DEF Reached
<1> QED
  BY <1>1, <1>4

\* Where there is one step at most.
LEMMA StopFacts ==
  ASSUME NEW S, NEW nxt \in [S -> SUBSET S], NEW x \in S
  PROVE  /\ nxt[x] = {} => Stop(S, nxt, x) = x
         /\ \A y \in S : nxt[x] = {y} => Stop(S, nxt, x) = Stop(S, nxt, y)
<1>1. ASSUME nxt[x] = {}
      PROVE  Stop(S, nxt, x) = x
  <2>1. Stops(S, nxt, x) = {x}
    BY <1>1, ReachedFacts DEF Stops
  <2> QED
    BY <2>1 DEF Stop
<1>2. ASSUME NEW y \in S, nxt[x] = {y}
      PROVE  Stop(S, nxt, x) = Stop(S, nxt, y)
  <2>1. Reached(S, nxt, x) = {x} \cup Reached(S, nxt, y)
    BY <1>2, ReachedFacts
  <2>2. Stops(S, nxt, x) = Stops(S, nxt, y)
    BY <2>1, <1>2 DEF Stops
  <2> QED
    BY <2>2 DEF Stop
<1> QED
  BY <1>1, <1>2

\* c_rbtree_find_node and
LEMMA FindFromFacts ==
  ASSUME link \in Memory, NEW k
  PROVE  \A i \in Pointer :
           FindFrom(k)[i] = IF i = NULL THEN NULL
                            ELSE IF k < KeyOf[i] THEN FindFrom(k)[link[i]["left"]]
                            ELSE IF k > KeyOf[i] THEN FindFrom(k)[link[i]["right"]]
                            ELSE i
<1> DEFINE nxt == [i \in Pointer |-> IF i = NULL THEN {}
                                     ELSE IF k < KeyOf[i] THEN {link[i]["left"]}
                                     ELSE IF k > KeyOf[i] THEN {link[i]["right"]}
                                     ELSE {}]
           f == [i \in Pointer |-> Stop(Pointer, nxt, i)]
           Body(g) == [i \in Pointer |-> IF i = NULL THEN NULL
                                         ELSE IF k < KeyOf[i] THEN g[link[i]["left"]]
                                         ELSE IF k > KeyOf[i] THEN g[link[i]["right"]]
                                         ELSE i]
<1>1. \A i \in Node, b \in Side : link[i][b] \in Pointer
  BY DEF Memory
<1>2. nxt \in [Pointer -> SUBSET Pointer]
  BY <1>1 DEF Pointer, Side
<1>3. ASSUME NEW i \in Pointer
      PROVE  f[i] = Body(f)[i]
  <2>1. i # NULL => link[i]["left"] \in Pointer /\ link[i]["right"] \in Pointer
    BY <1>1 DEF Pointer, Side
  <2>2. nxt[i] = IF i = NULL THEN {}
                 ELSE IF k < KeyOf[i] THEN {link[i]["left"]}
                 ELSE IF k > KeyOf[i] THEN {link[i]["right"]}
                 ELSE {}
    OBVIOUS
  <2>3. \A j \in Pointer : f[j] = Stop(Pointer, nxt, j)
    OBVIOUS
  <2>4. /\ nxt[i] = {} => Stop(Pointer, nxt, i) = i
        /\ \A j \in Pointer : nxt[i] = {j} => Stop(Pointer, nxt, i) = Stop(Pointer, nxt, j)
    <3> HIDE DEF nxt
    <3> QED
      BY <1>2, StopFacts
  <2>5. Body(f)[i] = IF i = NULL THEN NULL
                     ELSE IF k < KeyOf[i] THEN f[link[i]["left"]]
                     ELSE IF k > KeyOf[i] THEN f[link[i]["right"]]
                     ELSE i
    OBVIOUS
  <2> HIDE DEF nxt, f, Body
  <2> QED
    BY <2>1, <2>2, <2>3, <2>4, <2>5
<1>4. f = Body(f)
  BY <1>3
<1>5. FindFrom(k) = CHOOSE g : g = Body(g)
  BY DEF FindFrom
<1> HIDE DEF f, Body
<1>6. FindFrom(k) = Body(FindFrom(k))
  BY <1>4, <1>5
<1> QED
  BY <1>6 DEF Body

\* c_rbtree_find_slot satisfy their equations whatever the pointers are,
LEMMA SlotFromFacts ==
  ASSUME link \in Memory, NEW k
  PROVE  \A z \in Slot :
           SlotFrom(k)[z] =
             IF Target(z) = NULL THEN z
             ELSE IF k < KeyOf[Target(z)] THEN SlotFrom(k)[[p |-> Target(z), l |-> "left"]]
             ELSE IF k > KeyOf[Target(z)] THEN SlotFrom(k)[[p |-> Target(z), l |-> "right"]]
             ELSE [p |-> Target(z), l |-> Conflict]
<1> DEFINE Turn(z, b) == [p |-> Target(z), l |-> b]
           nxt == [z \in Slot |-> IF Target(z) = NULL THEN {}
                                  ELSE IF k < KeyOf[Target(z)] THEN {Turn(z, "left")}
                                  ELSE IF k > KeyOf[Target(z)] THEN {Turn(z, "right")}
                                  ELSE {}]
           Result(z) == IF Target(z) = NULL THEN z ELSE Turn(z, Conflict)
           f == [z \in Slot |-> Result(Stop(Slot, nxt, z))]
           Body(g) == [z \in Slot |-> IF Target(z) = NULL THEN z
                                      ELSE IF k < KeyOf[Target(z)] THEN g[Turn(z, "left")]
                                      ELSE IF k > KeyOf[Target(z)] THEN g[Turn(z, "right")]
                                      ELSE Turn(z, Conflict)]
<1>1. \A z \in Slot : Target(z) # NULL => Turn(z, "left") \in Slot /\ Turn(z, "right") \in Slot
  BY DEF Memory, Slot, Target, Pointer, Side
<1>2. nxt \in [Slot -> SUBSET Slot]
  BY <1>1
<1>3. ASSUME NEW z \in Slot
      PROVE  f[z] = Body(f)[z]
  <2>1. Target(z) # NULL => Turn(z, "left") \in Slot /\ Turn(z, "right") \in Slot
    BY <1>1
  <2>2. nxt[z] = IF Target(z) = NULL THEN {}
                 ELSE IF k < KeyOf[Target(z)] THEN {Turn(z, "left")}
                 ELSE IF k > KeyOf[Target(z)] THEN {Turn(z, "right")}
                 ELSE {}
    OBVIOUS
  <2>3. \A y \in Slot : f[y] = Result(Stop(Slot, nxt, y))
    OBVIOUS
  <2>4. /\ nxt[z] = {} => Stop(Slot, nxt, z) = z
        /\ \A y \in Slot : nxt[z] = {y} => Stop(Slot, nxt, z) = Stop(Slot, nxt, y)
    <3> HIDE DEF nxt
    <3> QED
      BY <1>2, StopFacts
  <2>5. Body(f)[z] = IF Target(z) = NULL THEN z
                     ELSE IF k < KeyOf[Target(z)] THEN f[Turn(z, "left")]
                     ELSE IF k > KeyOf[Target(z)] THEN f[Turn(z, "right")]
                     ELSE Turn(z, Conflict)
    OBVIOUS
  <2>6. Result(z) = IF Target(z) = NULL THEN z ELSE Turn(z, Conflict)
    OBVIOUS
  <2> HIDE DEF nxt, f, Body, Turn, Result
  <2> QED
    BY <2>1, <2>2, <2>3, <2>4, <2>5, <2>6
<1>4. f = Body(f)
  BY <1>3
<1>5. SlotFrom(k) = CHOOSE g : g = Body(g)
  BY DEF SlotFrom
<1> HIDE DEF f, Body
<1>6. SlotFrom(k) = Body(SlotFrom(k))
  BY <1>4, <1>5
<1> QED
  BY <1>6 DEF Body

\* and so does the search of a caller who allows duplicates.
LEMMA DuplicateSlotsFacts ==
  ASSUME link \in Memory, NEW k
  PROVE  \A z \in Slot :
           DuplicateSlots(k)[z] =
             IF Target(z) = NULL THEN {z}
             ELSE (IF k <= KeyOf[Target(z)]
                   THEN DuplicateSlots(k)[[p |-> Target(z), l |-> "left"]] ELSE {})
                  \cup (IF k >= KeyOf[Target(z)]
                        THEN DuplicateSlots(k)[[p |-> Target(z), l |-> "right"]] ELSE {})
<1> DEFINE Turn(z, b) == [p |-> Target(z), l |-> b]
           nxt == [z \in Slot |->
                     IF Target(z) = NULL THEN {}
                     ELSE (IF k <= KeyOf[Target(z)] THEN {Turn(z, "left")} ELSE {})
                          \cup (IF k >= KeyOf[Target(z)] THEN {Turn(z, "right")} ELSE {})]
           f == [z \in Slot |-> {y \in Reached(Slot, nxt, z) : Target(y) = NULL}]
           Body(g) == [z \in Slot |->
                         IF Target(z) = NULL THEN {z}
                         ELSE (IF k <= KeyOf[Target(z)] THEN g[Turn(z, "left")] ELSE {})
                              \cup (IF k >= KeyOf[Target(z)] THEN g[Turn(z, "right")] ELSE {})]
<1>1. \A z \in Slot : Target(z) # NULL => Turn(z, "left") \in Slot /\ Turn(z, "right") \in Slot
  BY DEF Memory, Slot, Target, Pointer, Side
<1>2. nxt \in [Slot -> SUBSET Slot]
  BY <1>1
<1>3. ASSUME NEW z \in Slot
      PROVE  f[z] = Body(f)[z]
  <2>1. Target(z) # NULL => Turn(z, "left") \in Slot /\ Turn(z, "right") \in Slot
    BY <1>1
  <2>2. nxt[z] = IF Target(z) = NULL THEN {}
                 ELSE (IF k <= KeyOf[Target(z)] THEN {Turn(z, "left")} ELSE {})
                      \cup (IF k >= KeyOf[Target(z)] THEN {Turn(z, "right")} ELSE {})
    OBVIOUS
  <2>3. \A y \in Slot : f[y] = {x \in Reached(Slot, nxt, y) : Target(x) = NULL}
    OBVIOUS
  <2>4. Reached(Slot, nxt, z) = {z} \cup UNION {Reached(Slot, nxt, y) : y \in nxt[z]}
    <3> HIDE DEF nxt
    <3> QED
      BY <1>2, ReachedFacts
  <2>5. Body(f)[z] = IF Target(z) = NULL THEN {z}
                     ELSE (IF k <= KeyOf[Target(z)] THEN f[Turn(z, "left")] ELSE {})
                          \cup (IF k >= KeyOf[Target(z)] THEN f[Turn(z, "right")] ELSE {})
    OBVIOUS
  <2> HIDE DEF nxt, f, Body, Turn
  <2>6. CASE Target(z) = NULL
    BY <2>2, <2>3, <2>4, <2>5, <2>6
  <2>7. CASE Target(z) # NULL
    <3>1. \A y \in nxt[z] : y \in Slot
      BY <2>1, <2>2
    <3>2. f[z] = UNION {f[y] : y \in nxt[z]}
      BY <2>3, <2>4, <2>7, <3>1
    <3> QED
      BY <2>2, <2>5, <2>7, <3>2
  <2> QED
    BY <2>6, <2>7
<1>4. f = Body(f)
  BY <1>3
<1>5. DuplicateSlots(k) = CHOOSE g : g = Body(g)
  BY DEF DuplicateSlots
<1> HIDE DEF f, Body
<1>6. DuplicateSlots(k) = Body(DuplicateSlots(k))
  BY <1>4, <1>5
<1> QED
  BY <1>6 DEF Body

-----------------------------------------------------------------------------
(* The ways from the roots *)

\* Not every node of a finite set that is not empty has a parent in the set.
LEMMA SomeTop ==
  ASSUME NEW m, NoLoops(m), NEW B \in SUBSET Node,
         \A n \in B : \E p \in B, d \in Dir : m[p][d] = n
  PROVE  B = {}
<1> DEFINE Headed(M) == M # {} /\ \A n \in M : \E p \in M, d \in Dir : m[p][d] = n
           T == {M \in SUBSET B : Headed(M)}
<1>1. SUFFICES ASSUME B # {}
               PROVE  FALSE
  OBVIOUS
<1>2. B \in T
  BY <1>1
<1>3. T \subseteq SUBSET B
  OBVIOUS
<1>4. \E M \in T : \A L \in T : <<L, M>> \notin StrictSubsetOrdering(B)
  <2>1. IsFiniteSet(B)
    BY NodesAreFinite, FS_Subset
  <2>2. IsWellFoundedOn(StrictSubsetOrdering(B), SUBSET B)
    BY <2>1, FS_StrictSubsetOrderingWellFounded, FS_FiniteSubsetsOfFinite
  <2> HIDE DEF T
  <2> QED
    BY <1>2, <1>3, <2>2, WFMin
<1>5. PICK M \in T : \A L \in T : <<L, M>> \notin StrictSubsetOrdering(B)
  BY <1>4
<1>6. PICK n \in M : \A d \in Dir : m[n][d] \notin M
  BY DEF NoLoops
<1>7. M \ {n} \in T
  <2>1. M \ {n} # {}
    BY <1>6
  <2>2. \A y \in M \ {n} : \E p \in M \ {n}, d \in Dir : m[p][d] = y
    BY <1>6
  <2> QED
    BY <2>1, <2>2
<1>8. <<M \ {n}, M>> \in StrictSubsetOrdering(B)
  BY DEF StrictSubsetOrdering
<1> QED
  BY <1>5, <1>7, <1>8

\* Every node of a tree is below its root.
LEMMA BelowRoot ==
  ASSUME IInv, NoLoops(link), NEW t \in Tree, NEW n \in InUse, owner[n] = t
  PROVE  n \in Subtree(link, link[t]["root"])
<1> DEFINE C == Subtree(link, link[t]["root"])
           B == {y \in InUse : owner[y] = t /\ y \notin C}
<1>1. Sound(owner, link, pf) /\ InUse = Owned(owner) /\ InUse \in SUBSET Node
  BY InUseFacts, InUseSeparate
<1>2. Closed(link, C) /\ (link[t]["root"] \in Node => link[t]["root"] \in C)
  BY SubtreeFacts
<1> HIDE DEF C
<1>3. ASSUME NEW y \in B
      PROVE  \E p \in B, d \in Dir : link[p][d] = y
  <2>1. /\ y \in Node
        /\ c_rbnode_is_root(pf, y) => link[pf[y].raw]["root"] = y /\ owner[y] = pf[y].raw
        /\ ~c_rbnode_is_root(pf, y) =>
              /\ pf[y].raw \in InUse /\ owner[pf[y].raw] = owner[y]
              /\ \E d \in Dir : link[pf[y].raw][d] = y
    BY <1>1, ParentFacts
  <2>2. ~c_rbnode_is_root(pf, y)
    BY <2>1, <1>2
  <2>3. pf[y].raw \notin C
    BY <2>1, <2>2, <1>2 DEF Closed
  <2> QED
    BY <2>1, <2>2, <2>3
<1>4. B = {}
  <2>1. B \in SUBSET Node
    BY <1>1
  <2> HIDE DEF B
  <2> QED
    BY <2>1, <1>3, SomeTop
<1> QED
  BY <1>4 DEF C

\* The slots of tree t that a search for key k, which may turn either way at k,
\* comes to.
SlotsFor(t, k) ==
  {z \in Slot : /\ z.p \in Holder(owner) /\ Home(owner, z.p) = t
                /\ \E V : Way(V, k, z)}

\* A search starts at one of them,
LEMMA RootSlotFor ==
  ASSUME IInv, NEW t \in Tree, NEW k
  PROVE  RootSlot(t) \in SlotsFor(t, k)
<1>1. RootSlot(t).p = t /\ RootSlot(t) \in Slot /\ t \notin Node
  BY DistinctAddresses DEF RootSlot, Slot, Side
<1>2. Way({}, k, RootSlot(t))
  BY <1>1 DEF Way
<1> QED
  BY <1>1, <1>2 DEF SlotsFor, Holder, Home

\* and goes on to others.
LEMMA NextSlotFor ==
  ASSUME IInv, NEW t \in Tree, NEW k, NEW z \in SlotsFor(t, k), Target(z) # NULL,
         NEW d \in Dir, Admits(d, k, Target(z))
  PROVE  /\ [p |-> Target(z), l |-> d] \in SlotsFor(t, k)
         /\ Target(z) \in InUse /\ owner[Target(z)] = t
<1> DEFINE c == Target(z)
           y == [p |-> c, l |-> d]
<1>1. /\ z \in Slot /\ z.p \in Holder(owner) /\ z.l \in Side /\ Home(owner, z.p) = t
      /\ c = link[z.p][z.l] /\ Dir \subseteq Side
  BY Sides DEF SlotsFor, Slot, Target
<1>2. PICK V : Way(V, k, z)
  BY DEF SlotsFor
<1>3. /\ c \in InUse /\ c \in Node /\ owner[c] = t /\ c # NULL
      /\ c_rbnode_raw(pf, c) = z.p
      /\ \A e \in Side : link[z.p][e] = c => e = z.l
      /\ z.l = "root" <=> z.p \in Tree
  <2>1. c \in InUse /\ c \in Node
    BY <1>1, InUseClosed
  <2>2. ChildrenKnowParent(owner, link, pf)
    BY InUseFacts DEF Sound, Consistent
  <2> HIDE DEF c
  <2> QED
    BY <2>1, <2>2, <1>1 DEF ChildrenKnowParent, c
<1>4. ASSUME NEW a \in InUse, NEW b \in Dir, link[a][b] = c
      PROVE  a = z.p /\ b = z.l
  <2>1. a \in Holder(owner) /\ b \in Side
    BY <1>1 DEF Holder, InUse
  <2>2. c_rbnode_raw(pf, c) = a
    <3>1. ChildrenKnowParent(owner, link, pf)
      BY InUseFacts DEF Sound, Consistent
    <3> HIDE DEF c
    <3> QED
      BY <2>1, <3>1, <1>3, <1>4 DEF ChildrenKnowParent
  <2> QED
    BY <2>1, <2>2, <1>3, <1>4
<1>5. y.p = c /\ y.l = d /\ y \in Slot /\ y.p \in Holder(owner) /\ Home(owner, y.p) = t
  BY <1>1, <1>3, DistinctAddresses DEF Slot, Holder, Home, InUse
<1> HIDE DEF c, y
<1>6. Way(V \cup {c}, k, y)
  <2>1. /\ V \cup {c} \in SUBSET InUse /\ y.p \in V \cup {c} /\ y.l \in Dir /\ Admits(y.l, k, y.p)
    BY <1>2, <1>3, <1>5 DEF Way, c
  <2>2. ASSUME NEW a \in InUse, NEW b \in Dir, link[a][b] \in V \cup {c}
        PROVE  a \in V \cup {c} /\ Admits(b, k, a)
    <3>1. CASE link[a][b] \in V
      BY <3>1, <1>2 DEF Way
    <3>2. CASE link[a][b] = c
      <4>1. a = z.p /\ b = z.l /\ z.p \in Node
        BY <3>2, <1>4, InUseSeparate
      <4> QED
        BY <4>1, <1>2 DEF Way
    <3> QED
      BY <3>1, <3>2, <2>2
  <2> QED
    BY <2>1, <2>2 DEF Way
<1> QED
  BY <1>3, <1>5, <1>6 DEF SlotsFor, y, c

\* A caller who allows duplicates gets no others.
LEMMA DuplicateSlotsFor ==
  ASSUME IInv, NoLoops(link), NEW t \in Tree, NEW k \in Int,
         NEW z \in DuplicateSlots(k)[RootSlot(t)]
  PROVE  z \in SlotsFor(t, k)
<1> DEFINE S == SlotsFor(t, k)
           f == DuplicateSlots(k)
           Bad == {y \in S : ~(f[y] \subseteq S)}
           B == {Target(y) : y \in {x \in Bad : Target(x) # NULL}}
<1>1. link \in Memory /\ S \subseteq Slot /\ "left" \in Dir /\ "right" \in Dir
  BY InUseFacts DEF SlotsFor, Dir
<1>2. \A y \in Slot :
        f[y] = IF Target(y) = NULL THEN {y}
               ELSE (IF k <= KeyOf[Target(y)] THEN f[[p |-> Target(y), l |-> "left"]] ELSE {})
                    \cup (IF k >= KeyOf[Target(y)] THEN f[[p |-> Target(y), l |-> "right"]] ELSE {})
  BY <1>1, DuplicateSlotsFacts
<1>3. \A y \in S, d \in Dir : Target(y) # NULL =>
        /\ Admits(d, k, Target(y)) => [p |-> Target(y), l |-> d] \in S
        /\ Target(y) \in InUse
  <2>1. \A y \in S : Target(y) # NULL =>
          Target(y) \in InUse /\ (Admits("left", k, Target(y)) \/ Admits("right", k, Target(y)))
    <3> SUFFICES ASSUME NEW y \in S, Target(y) # NULL
                 PROVE  /\ Target(y) \in InUse
                        /\ Admits("left", k, Target(y)) \/ Admits("right", k, Target(y))
      OBVIOUS
    <3>1. Target(y) \in Pointer
      BY <1>1 DEF Target, Memory, Slot
    <3>2. Target(y) \in Node
      BY <3>1 DEF Pointer
    <3>3. KeyOf[Target(y)] \in Int
      BY <3>2, KeysCompare
    <3>4. Admits("left", k, Target(y)) \/ Admits("right", k, Target(y))
      BY <3>3 DEF Admits
    <3> QED
      BY <3>4, <1>1, NextSlotFor
  <2> QED
    BY <2>1, NextSlotFor
<1> HIDE DEF S, f
<1>4. ASSUME NEW y \in Bad
      PROVE  Target(y) # NULL /\ \E d \in Dir : link[Target(y)][d] \in B
  <2>1. y \in Slot /\ y \in S /\ ~(f[y] \subseteq S)
    BY <1>1
  <2>2. Target(y) # NULL
    BY <2>1, <1>2
  <2>3. \E d \in Dir : Admits(d, k, Target(y)) /\ ~(f[[p |-> Target(y), l |-> d]] \subseteq S)
    BY <2>1, <2>2, <1>1, <1>2 DEF Admits
  <2>4. PICK d \in Dir : Admits(d, k, Target(y)) /\ ~(f[[p |-> Target(y), l |-> d]] \subseteq S)
    BY <2>3
  <2> DEFINE x == [p |-> Target(y), l |-> d]
  <2>5. x \in Bad
    BY <2>1, <2>2, <2>4, <1>3
  <2>6. x \in Slot /\ Target(x) = link[Target(y)][d]
    BY <2>5, <1>1 DEF Target
  <2> HIDE DEF x
  <2>7. Target(x) # NULL
    BY <2>5, <2>6, <1>2
  <2> QED
    BY <2>2, <2>5, <2>6, <2>7
<1>5. B = {}
  <2>1. B \in SUBSET Node
    BY <1>1, <1>3, InUseSeparate
  <2>2. \A n \in B : \E d \in Dir : link[n][d] \in B
    BY <1>4
  <2> HIDE DEF B
  <2> QED
    BY <2>1, <2>2 DEF NoLoops
<1>6. Bad = {}
  BY <1>4, <1>5
<1>7. RootSlot(t) \in S
  BY RootSlotFor DEF S
<1>8. f[RootSlot(t)] \subseteq S
  BY <1>6, <1>7
<1> QED
  BY <1>8 DEF S, f

\* The slots that c_rbtree_find_slot and c_rbtree_find_node come to.
Sought(t, k) ==
  {z \in SlotsFor(t, k) :
     /\ FindFrom(k)[Target(z)] = c_rbtree_find_node(t, k)
     /\ SlotFrom(k)[z] = c_rbtree_find_slot(t, k)
     /\ k \in KeysIn(t) => \E y \in Subtree(link, Target(z)) : KeyOf[y] = k}

\* The keys below a node are in its range.
LEMMA BelowInRange ==
  ASSUME IInv, NEW R \in Ranges, Ordered(InUse, link, R), NEW c \in InUse,
         NEW y \in Subtree(link, c)
  PROVE  KeyOf[y] \in R[c] /\ y \in InUse
<1> DEFINE C == {x \in InUse : R[x] \subseteq R[c]}
<1>1. Closed(link, InUse) /\ InUse \in SUBSET Node /\ NULL \notin Node
  BY InUseClosed, DistinctAddresses
<1>2. Closed(link, C) /\ C \in SUBSET Node /\ c \in C
  BY <1>1 DEF Closed, Ordered
<1>3. y \in C
  <2> HIDE DEF C
  <2> QED
    BY <1>2, SubtreeFacts
<1> QED
  BY <1>3 DEF Ordered

\* The search goes to the side where the key is.
LEMMA SoughtGoesOn ==
  ASSUME IInv, NoLoops(link), InKeyOrder(InUse, link), NEW t \in Tree, NEW k \in Int,
         NEW z \in Sought(t, k), Target(z) # NULL, KeyOf[Target(z)] # k
  PROVE  \E d \in Dir : [p |-> Target(z), l |-> d] \in Sought(t, k)
<1> DEFINE c == Target(z)
           d == IF k < KeyOf[c] THEN "left" ELSE "right"
           y == [p |-> c, l |-> d]
<1>1. PICK R \in Ranges : Ordered(InUse, link, R)
  BY DEF InKeyOrder
<1>2. /\ link \in Memory /\ z \in SlotsFor(t, k) /\ z \in Slot
      /\ FindFrom(k)[c] = c_rbtree_find_node(t, k)
      /\ SlotFrom(k)[z] = c_rbtree_find_slot(t, k)
      /\ k \in KeysIn(t) => \E x \in Subtree(link, c) : KeyOf[x] = k
  BY InUseFacts DEF Sought, SlotsFor
<1>3. c \in Pointer /\ c \in Node /\ KeyOf[c] \in Int /\ c # NULL
  BY <1>2, KeysCompare DEF Target, Memory, Slot, Pointer
<1>4. d \in Dir /\ Other(d) \in Dir /\ Admits(d, k, c) /\ ~Admits(Other(d), k, c)
  BY <1>3 DEF Admits, Dir, Other
<1>5. y \in SlotsFor(t, k) /\ c \in InUse
  BY <1>2, <1>3, <1>4, NextSlotFor
<1>6. FindFrom(k)[link[c][d]] = FindFrom(k)[c]
  BY <1>2, <1>3, FindFromFacts
<1>7. SlotFrom(k)[y] = SlotFrom(k)[z]
  <2>1. SlotFrom(k)[z] =
          IF c = NULL THEN z
          ELSE IF k < KeyOf[c] THEN SlotFrom(k)[[p |-> c, l |-> "left"]]
          ELSE IF k > KeyOf[c] THEN SlotFrom(k)[[p |-> c, l |-> "right"]]
          ELSE [p |-> c, l |-> Conflict]
    BY <1>2, SlotFromFacts
  <2> QED
    BY <2>1, <1>3
<1>8. Target(y) = link[c][d]
  BY DEF Target
<1> HIDE DEF c, d, y
<1>9. ASSUME NEW x \in Subtree(link, c), KeyOf[x] = k
      PROVE  x \in Subtree(link, link[c][d])
  <2>1. PICK e \in Dir : x \in Subtree(link, link[c][e])
    BY <1>3, <1>9, SubtreeParts DEF c
  <2>2. link[c][e] \in InUse /\ link[c][e] # NULL
    <3>1. link[c][e] \in Node
      BY <2>1, SubtreeFacts
    <3> QED
      BY <3>1, <1>5, InUseSeparate, DistinctAddresses DEF Separate
  <2>3. k \in R[link[c][e]]
    BY <2>1, <2>2, <1>1, <1>9, BelowInRange
  <2>4. Admits(e, k, c)
    BY <2>2, <2>3, <1>1, <1>5 DEF Ordered
  <2>5. e = d
    BY <2>4, <1>4, Sides
  <2> QED
    BY <2>1, <2>5
<1>10. y \in Sought(t, k)
  BY <1>2, <1>5, <1>6, <1>7, <1>8, <1>9 DEF Sought
<1> QED
  BY <1>4, <1>10 DEF y, c

\* It ends where the key is, or at an empty slot.
LEMMA SearchEnds ==
  ASSUME IInv, NoLoops(link), InKeyOrder(InUse, link), NEW t \in Tree, NEW k \in Int
  PROVE  \E z \in Sought(t, k) : Target(z) = NULL \/ KeyOf[Target(z)] = k
<1> DEFINE S == Sought(t, k)
           B == {Target(z) : z \in S}
<1>1. SUFFICES ASSUME \A z \in S : Target(z) # NULL /\ KeyOf[Target(z)] # k
               PROVE  FALSE
  OBVIOUS
<1>2. RootSlot(t) \in S
  <2>1. Target(RootSlot(t)) = link[t]["root"]
    BY DEF Target, RootSlot
  <2>2. k \in KeysIn(t) => \E y \in Subtree(link, link[t]["root"]) : KeyOf[y] = k
    BY BelowRoot DEF KeysIn
  <2> QED
    BY <2>1, <2>2, RootSlotFor DEF Sought, c_rbtree_find_node, c_rbtree_find_slot
<1>3. B \in SUBSET Node
  <2>1. \A z \in S : z \in Slot
    BY DEF Sought, SlotsFor
  <2>2. \A z \in Slot : Target(z) \in Pointer
    BY InUseFacts DEF Target, Memory, Slot
  <2> HIDE DEF S
  <2> QED
    BY <2>1, <2>2, <1>1 DEF Pointer
<1>4. \A n \in B : \E d \in Dir : link[n][d] \in B
  <2>1. ASSUME NEW z \in S
        PROVE  \E d \in Dir : link[Target(z)][d] \in B
    <3>1. PICK d \in Dir : [p |-> Target(z), l |-> d] \in S
      BY <1>1, SoughtGoesOn
    <3>2. Target([p |-> Target(z), l |-> d]) = link[Target(z)][d]
      BY DEF Target
    <3> HIDE DEF S
    <3> QED
      BY <3>1, <3>2
  <2> HIDE DEF S
  <2> QED
    BY <2>1
<1>5. B # {}
  BY <1>2
<1> HIDE DEF B
<1> QED
  BY <1>3, <1>4, <1>5 DEF NoLoops

\* What the searches return: the node with the key, or an empty slot.
LEMMA SearchResults ==
  ASSUME IInv, NoLoops(link), InKeyOrder(InUse, link), NEW t \in Tree, NEW k \in Int
  PROVE  \/ /\ k \notin KeysIn(t)
            /\ c_rbtree_find_node(t, k) = NULL
            /\ c_rbtree_find_slot(t, k) \in SlotsFor(t, k)
            /\ Target(c_rbtree_find_slot(t, k)) = NULL
         \/ \E n \in InUse : /\ owner[n] = t /\ KeyOf[n] = k
                             /\ c_rbtree_find_node(t, k) = n
                             /\ c_rbtree_find_slot(t, k) = [p |-> n, l |-> Conflict]
<1>1. PICK z \in Sought(t, k) : Target(z) = NULL \/ KeyOf[Target(z)] = k
  BY SearchEnds
<1>2. /\ link \in Memory /\ z \in SlotsFor(t, k) /\ z \in Slot
      /\ FindFrom(k)[Target(z)] = c_rbtree_find_node(t, k)
      /\ SlotFrom(k)[z] = c_rbtree_find_slot(t, k)
      /\ k \in KeysIn(t) => \E x \in Subtree(link, Target(z)) : KeyOf[x] = k
  BY InUseFacts DEF Sought, SlotsFor
<1>3. Target(z) \in Pointer
  BY <1>2 DEF Target, Memory, Slot
<1>4. /\ FindFrom(k)[Target(z)] =
           IF Target(z) = NULL THEN NULL
           ELSE IF k < KeyOf[Target(z)] THEN FindFrom(k)[link[Target(z)]["left"]]
           ELSE IF k > KeyOf[Target(z)] THEN FindFrom(k)[link[Target(z)]["right"]]
           ELSE Target(z)
      /\ SlotFrom(k)[z] =
           IF Target(z) = NULL THEN z
           ELSE IF k < KeyOf[Target(z)] THEN SlotFrom(k)[[p |-> Target(z), l |-> "left"]]
           ELSE IF k > KeyOf[Target(z)] THEN SlotFrom(k)[[p |-> Target(z), l |-> "right"]]
           ELSE [p |-> Target(z), l |-> Conflict]
  BY <1>2, <1>3, FindFromFacts, SlotFromFacts
<1>5. CASE Target(z) = NULL
  <2>1. Subtree(link, NULL) = {}
    BY SubtreeFacts, DistinctAddresses
  <2> QED
    BY <2>1, <1>2, <1>4, <1>5
<1>6. CASE Target(z) # NULL
  <2>1. KeyOf[Target(z)] = k /\ "left" \in Dir /\ Admits("left", k, Target(z))
    BY <1>1, <1>6 DEF Dir, Admits
  <2>2. Target(z) \in InUse /\ owner[Target(z)] = t
    BY <2>1, <1>2, <1>6, NextSlotFor
  <2> QED
    BY <2>1, <2>2, <1>2, <1>4, <1>6
<1> QED
  BY <1>5, <1>6

\* The searches are right where the keys are in order.
LEMMA SearchesCorrect ==
  ASSUME IInv, NoLoops(link), InKeyOrder(InUse, link)
  PROVE  LookupsCorrect /\ SlotsCorrect
<1>1. ASSUME NEW t \in Tree, NEW k \in Key
      PROVE  /\ IF k \in KeysIn(t)
                THEN /\ c_rbtree_find_node(t, k) \in InUse
                     /\ owner[c_rbtree_find_node(t, k)] = t
                     /\ KeyOf[c_rbtree_find_node(t, k)] = k
                ELSE c_rbtree_find_node(t, k) = NULL
             /\ IF k \in KeysIn(t)
                THEN /\ c_rbtree_find_slot(t, k).l = Conflict
                     /\ KeyOf[c_rbtree_find_slot(t, k).p] = k
                     /\ owner[c_rbtree_find_slot(t, k).p] = t
                ELSE /\ c_rbtree_find_slot(t, k).l # Conflict
                     /\ Home(owner, c_rbtree_find_slot(t, k).p) = t
                     /\ Target(c_rbtree_find_slot(t, k)) = NULL
  <2>1. k \in Int
    BY KeysCompare DEF Key
  <2>2. \A z \in SlotsFor(t, k) : z.l # Conflict /\ Home(owner, z.p) = t
    BY DEF SlotsFor, Slot, Side, Conflict
  <2>3. \A n \in InUse : owner[n] = t /\ KeyOf[n] = k => k \in KeysIn(t)
    BY DEF KeysIn
  <2>4. CASE /\ k \notin KeysIn(t)
             /\ c_rbtree_find_node(t, k) = NULL
             /\ c_rbtree_find_slot(t, k) \in SlotsFor(t, k)
             /\ Target(c_rbtree_find_slot(t, k)) = NULL
    BY <2>2, <2>4
  <2>5. CASE \E n \in InUse : /\ owner[n] = t /\ KeyOf[n] = k
                              /\ c_rbtree_find_node(t, k) = n
                              /\ c_rbtree_find_slot(t, k) = [p |-> n, l |-> Conflict]
    BY <2>3, <2>5
  <2> QED
    BY <2>1, <2>4, <2>5, SearchResults
<1> QED
  BY <1>1 DEF LookupsCorrect, SlotsCorrect

\* The insertion that c_rbtree_find_slot documents keeps the order,
LEMMA InsertKeepsOrder ==
  ASSUME IInv, NoLoops(link), InKeyOrder(InUse, link), NEW t \in Tree, NEW n \in Node,
         Insert(t, n)
  PROVE  InKeyOrder(InUse', link')
<1> DEFINE slot == c_rbtree_find_slot(t, KeyOf[n])
<1>1. CASE \E u \in Tree : slot = RootSlot(u) /\ AddRoot(u, n)
  BY <1>1, AddRootKeepsOrder
<1>2. CASE \E p \in Node, d \in Dir : slot = [p |-> p, l |-> d] /\ Link(p, d, n)
  <2>1. PICK p \in Node, d \in Dir : slot = [p |-> p, l |-> d] /\ Link(p, d, n)
    BY <1>2
  <2>2. slot.l = d /\ d # Conflict
    BY <2>1 DEF Dir, Conflict
  <2>3. slot \in SlotsFor(t, KeyOf[n])
    BY <2>2, KeysCompare, SearchResults
  <2>4. \E V : Way(V, KeyOf[n], [p |-> p, l |-> d])
    BY <2>1, <2>3 DEF SlotsFor
  <2> QED
    BY <2>1, <2>4, LinkKeepsOrder
<1> QED
  BY <1>1, <1>2 DEF Insert

\* and so does an insertion next to a node with the same key.
LEMMA InsertDuplicateKeepsOrder ==
  ASSUME IInv, NoLoops(link), InKeyOrder(InUse, link), NEW t \in Tree, NEW n \in Node,
         InsertDuplicate(t, n)
  PROVE  InKeyOrder(InUse', link')
<1>1. PICK p \in Node, d \in Dir :
        /\ [p |-> p, l |-> d] \in DuplicateSlots(KeyOf[n])[RootSlot(t)]
        /\ Link(p, d, n)
  BY DEF InsertDuplicate
<1>2. [p |-> p, l |-> d] \in SlotsFor(t, KeyOf[n])
  BY <1>1, KeysCompare, DuplicateSlotsFor
<1>3. \E V : Way(V, KeyOf[n], [p |-> p, l |-> d])
  BY <1>2 DEF SlotsFor
<1> QED
  BY <1>1, <1>3, LinkKeepsOrder

-----------------------------------------------------------------------------
(* Every step *)

\* No step makes a loop.
LEMMA NextMakesNoLoop ==
  ASSUME IInv, NoLoops(link), SearchBelow, [Next]_vars
  PROVE  NoLoops(link')
<1>1. SUFFICES ASSUME link' # link
               PROVE  NoLoops(link')
  OBVIOUS
<1>2. link \in Memory /\ \A n \in Node : link[n]["root"] = NULL
  BY InUseFacts DEF Sound, Shaped
<1>3. ASSUME NEW n \in Node, NEW x \in Holder(owner), NEW s \in Side, owner[n] = NULL,
             link' = [link EXCEPT ![n] = NoLinks, ![x][s] = n]
      PROVE  NoLoops(link')
  <2>1. Leads(InUse \cup {n}, link, LinkStores(x, s, n), link')
    BY <1>3, LinkLeads
  <2> QED
    BY <2>1, LeadsFacts
<1>4. ASSUME NEW n \in Node, link' = [link EXCEPT ![n] = NoLinks]
      PROVE  NoLoops(link')
  <2>1. PICK st : st \in InitStores(n)
    BY DEF InitStores
  <2>2. Leads(InUse, link, st, link')
    BY <2>1, <1>2, <1>4, InUseSeparate, ResetLeads
  <2> QED
    BY <2>2, LeadsFacts
<1>5. ASSUME NEW n \in Node, NEW t \in Tree, AddRoot(t, n)
      PROVE  NoLoops(link')
  BY <1>3, <1>5 DEF AddRoot, Holder, Side
<1>6. ASSUME NEW n \in Node, NEW p \in Node, NEW d \in Dir, Link(p, d, n)
      PROVE  NoLoops(link')
  BY <1>3, <1>6, Sides DEF Link, Holder, Owned
<1>7. ASSUME NEW n \in Node, Unlink(n)
      PROVE  NoLoops(link')
  <2>1. PICK api \in APICall : \/ UnlinkLeaf(api, n) \/ UnlinkFull(api, n)
                               \/ \E d \in Dir : UnlinkOneChild(api, n, d)
    BY <1>7 DEF Unlink
  <2>2. n \in InUse
    BY <2>1, RemovableInUse DEF UnlinkLeaf, UnlinkOneChild, UnlinkFull, InUse
  <2>3. \E c \in Pointer : /\ link' = PutInPlace(link, pf, n, c)
                           /\ c = NULL \/ \E d \in Dir : c = link[n][d]
    <3>1. \A d \in Dir : link[n][d] \in Pointer /\ NULL \in Pointer
      BY <1>2, Sides DEF Memory, Pointer
    <3>2. ~UnlinkFull(api, n)
      BY <1>1 DEF UnlinkFull, memory
    <3>3. CASE UnlinkLeaf(api, n)
      BY <3>1, <3>3 DEF UnlinkLeaf, Pointer
    <3>4. CASE \E d \in Dir : UnlinkOneChild(api, n, d)
      BY <3>1, <3>4 DEF UnlinkOneChild
    <3> QED
      BY <2>1, <3>2, <3>3, <3>4
  <2>4. PICK c \in Pointer : /\ link' = PutInPlace(link, pf, n, c)
                             /\ c = NULL \/ \E d \in Dir : c = link[n][d]
    BY <2>3
  <2>5. Leads(InUse, link, <<StoreInPlace(link, n, c)>>, link')
    BY <2>2, <2>4, ReplaceLeads
  <2> QED
    BY <2>5, LeadsFacts
<1>8. ASSUME NEW n \in Node, c_rbnode_init(n)
      PROVE  NoLoops(link')
  BY <1>4, <1>8 DEF c_rbnode_init
<1>9. ASSUME NEW to \in Tree, NEW from \in Tree, c_rbtree_move(to, from)
      PROVE  NoLoops(link')
  <2>1. PICK st : st \in MoveStores(to, from)
    BY DEF MoveStores
  <2>2. Leads(InUse, link, st, link')
    BY <2>1, <1>9, MoveLeads
  <2> QED
    BY <2>2, LeadsFacts
<1>10. ASSUME NEW t \in Tree, c_rbtree_init(t)
       PROVE  NoLoops(link')
  BY <1>10, TreeInitLeads, LeadsFacts
<1>11. CASE Step
  <2>1. ~ \/ PaintRoot \/ PaintDone \/ PaintRecolor \/ WalkLeft
          \/ RebalanceEnd \/ RebalanceRecolor \/ RebalanceFound \/ RotateRecolor
    BY <1>1 DEF PaintRoot, PaintDone, PaintRecolor, WalkLeft, RebalanceEnd, RebalanceRecolor,
       RebalanceFound, RotateRecolor, memory
  <2>2. CASE PaintRotate
    BY <2>2, PaintRotateLeads, LeadsFacts
  <2>3. CASE PaintRotateTwice
    BY <2>3, PaintRotateTwiceLeads, LeadsFacts
  <2>4. CASE SpliceSuccessor
    BY <2>4, SpliceLeads, LeadsFacts
  <2>5. CASE RotateRedSibling \/ RotateSibling
    BY <2>5, RotateSiblingLeads, LeadsFacts
  <2>6. CASE RotateNephew
    BY <2>6, RotateNephewLeads, LeadsFacts
  <2>7. CASE Reinit
    BY <2>7, <1>4 DEF Reinit, IInv, Initialising
  <2> QED
    BY <1>11, <2>1, <2>2, <2>3, <2>4, <2>5, <2>6, <2>7 DEF Step
<1>12. ~UNCHANGED vars
  BY <1>1 DEF vars
<1> QED
  BY <1>5, <1>6, <1>7, <1>8, <1>9, <1>10, <1>11, <1>12 DEF Next, Move

\* Whoever follows child fields in any tree comes to an end, whatever calls were
\* made: the loops of c-rbtree.c and of its users that walk down stop.
THEOREM FieldsMakeNoLoops == Spec => []NoLoops(link)
<1> DEFINE I == IInv /\ NoLoops(link) /\ SearchBelow
<1>1. Init => I
  <2>1. ASSUME Init
        PROVE  NoLoops(link)
    BY <2>1, DistinctAddresses DEF Init, NoLoops, NoLinks, Dir, Side
  <2>2. ASSUME Init
        PROVE  SearchBelow
    BY <2>2 DEF Init, SearchBelow
  <2> QED
    BY <2>1, <2>2, InitHolds
<1>2. I /\ [Next]_vars => I'
  BY NextKeeps, NextMakesNoLoop, SearchStays
<1> QED
  BY <1>1, <1>2, PTL DEF Spec

\* The steps of a map are steps of CRBTree.
LEMMA MapSteps ==
  ASSUME MapNext
  PROVE  Next
<1>1. ASSUME NEW n \in Node, NEW t \in Tree, Insert(t, n) \/ InsertDuplicate(t, n)
      PROVE  Next
  BY <1>1 DEF Insert, InsertDuplicate, Next
<1> QED
  BY <1>1 DEF MapNext, Next

OrderInv == NoLoops(link) /\ SearchBelow /\ SearchLeft /\ InKeyOrder(InUse, link)

\* Fields of nodes in use that stay what they are, or that are reset.
LEMMA FewerKeepOrder ==
  ASSUME NEW U, NEW W \in SUBSET U, NEW m, NEW m2, InKeyOrder(U, m),
         \A a \in W, d \in Dir : m2[a][d] = m[a][d]
  PROVE  InKeyOrder(W, m2)
<1>1. PICK R \in Ranges : Ordered(U, m, R)
  BY DEF InKeyOrder
<1>2. Ordered(W, m2, R)
  BY <1>1 DEF Ordered
<1> QED
  BY <1>2 DEF InKeyOrder

\* Every step keeps the keys in order.
LEMMA MapNextKeepsOrder ==
  ASSUME IInv, OrderInv, [MapNext]_vars
  PROVE  InKeyOrder(InUse', link')
<1>1. NoLoops(link) /\ SearchBelow /\ SearchLeft /\ InKeyOrder(InUse, link)
  BY DEF OrderInv
<1>2. link \in Memory /\ InUse \in SUBSET Node /\ Dir \subseteq Side /\ owner \in Owners
  BY InUseFacts, InUseSeparate, Sides
<1>3. ASSUME owner' = owner
      PROVE  InUse' = InUse
  BY <1>3 DEF InUse, Owned
<1>4. ASSUME NEW n \in Node, NEW t \in Tree, Insert(t, n) \/ InsertDuplicate(t, n)
      PROVE  InKeyOrder(InUse', link')
  BY <1>1, <1>4, InsertKeepsOrder, InsertDuplicateKeepsOrder
<1>5. ASSUME NEW n \in Node, Unlink(n)
      PROVE  InKeyOrder(InUse', link')
  <2>1. PICK api \in APICall : \/ UnlinkLeaf(api, n) \/ UnlinkFull(api, n)
                               \/ \E d \in Dir : UnlinkOneChild(api, n, d)
    BY <1>5 DEF Unlink
  <2>2. UnlinkFull(api, n) => link' = link /\ owner' = owner
    BY DEF UnlinkFull, memory, caller
  <2> QED
    BY <2>1, <2>2, <1>1, <1>3, UnlinkKeepsOrder
<1>6. ASSUME NEW to \in Tree, NEW from \in Tree, c_rbtree_move(to, from)
      PROVE  InKeyOrder(InUse', link')
  <2>1. /\ link' = [link EXCEPT ![to]["root"] = link[from]["root"], ![from]["root"] = NULL]
        /\ owner' = [n \in Node |-> IF owner[n] = from THEN to ELSE owner[n]]
    BY <1>6 DEF c_rbtree_move
  <2>2. InUse' \in SUBSET InUse
    BY <2>1, DistinctAddresses DEF InUse, Owned
  <2>3. \A a \in InUse', d \in Dir : link'[a][d] = link[a][d]
    BY <2>1, <2>2, <1>2, DistinctAddresses DEF Memory
  <2> QED
    BY <2>2, <2>3, <1>1, FewerKeepOrder
<1>7. CASE Step
  <2>1. CASE \/ PaintRoot \/ PaintDone \/ PaintRecolor \/ WalkLeft
             \/ RebalanceEnd \/ RebalanceRecolor \/ RebalanceFound \/ RotateRecolor
    <3>1. link' = link /\ owner' = owner
      BY <2>1 DEF PaintRoot, PaintDone, PaintRecolor, WalkLeft, RebalanceEnd, RebalanceRecolor,
         RebalanceFound, RotateRecolor, memory, caller
    <3> QED
      BY <3>1, <1>1, <1>3
  <2>2. CASE Rotating
    BY <2>2, <1>1, <1>3, RotatingTurns, RearrangedKeepsOrder
  <2>3. CASE SpliceSuccessor
    BY <2>3, <1>1, SpliceKeepsOrder
  <2>4. CASE Reinit
    <3>1. link' = [link EXCEPT ![victim] = NoLinks] /\ owner' = owner /\ victim \notin InUse
      BY <2>4 DEF Reinit, IInv, Initialising, InUse, Owned
    <3>2. \A a \in InUse, d \in Dir : link'[a][d] = link[a][d]
      BY <3>1, <1>2 DEF Memory
    <3>3. InUse \in SUBSET InUse
      OBVIOUS
    <3>4. InKeyOrder(InUse, link')
      BY <3>2, <3>3, <1>1, FewerKeepOrder
    <3> QED
      BY <3>1, <3>4, <1>3
  <2> QED
    BY <1>7, <2>1, <2>2, <2>3, <2>4 DEF Step, Rotating
<1>8. CASE UNCHANGED vars
  BY <1>1, <1>3, <1>8 DEF vars
<1> QED
  BY <1>4, <1>5, <1>6, <1>7, <1>8 DEF MapNext, Move

\* The search for the successor is what it is, goes on or is over.
LEMMA SearchLeftStays ==
  ASSUME IInv, SearchLeft, [Next]_vars
  PROVE  SearchLeft'
<1>1. CASE UNCHANGED vars
  <2>1. /\ link' = link /\ pc' = pc /\ victim' = victim /\ cur' = cur /\ InUse' = InUse
    BY <1>1 DEF vars, InUse, Owned
  <2>2. \A A \in SUBSET InUse : Passed(A) => Passed(A)'
    BY <2>1 DEF Passed
  <2> QED
    BY <2>1, <2>2 DEF SearchLeft
<1>2. SUFFICES ASSUME Next, pc' = "successor"
               PROVE  WalkLeft \/ \E n \in Node, api \in APICall : UnlinkFull(api, n)
  BY <1>1, SearchGoesOn
<1>3. \A n \in Node : (\E t \in Tree : AddRoot(t, n)) \/ (\E p \in Node, d \in Dir : Link(p, d, n)) => FALSE
  BY <1>2 DEF AddRoot, Link, Continue
<1>4. \A n \in Node : \A api \in APICall :
        UnlinkLeaf(api, n) \/ (\E d \in Dir : UnlinkOneChild(api, n, d)) => FALSE
  BY <1>2 DEF UnlinkLeaf, UnlinkOneChild, Unlinked, RebalanceFrom, Return
<1>5. ~Move /\ (\A n \in Node : ~c_rbnode_init(n)) /\ (\A t \in Tree : ~c_rbtree_init(t))
  BY <1>2 DEF Move, c_rbtree_move, c_rbnode_init, c_rbtree_init, Idle, locals
<1>6. Step => WalkLeft
  BY <1>2 DEF Step, PaintRoot, PaintDone, PaintRecolor, PaintRotate, PaintRotateTwice,
     SpliceSuccessor, RebalanceEnd, RebalanceRecolor, RebalanceFound, RotateRedSibling,
     RotateRecolor, RotateSibling, RotateNephew, Reinit, Unlinked, RebalanceFrom, Return, Continue
<1> QED
  BY <1>2, <1>3, <1>4, <1>5, <1>6 DEF Next, Unlink

\* The keys are in order in every state of every behaviour of a map.
THEOREM OrderInvariance == MapSpec => [](IInv /\ OrderInv)
<1>1. Init => IInv /\ OrderInv
  <2>1. ASSUME Init
        PROVE  NoLoops(link) /\ SearchBelow /\ SearchLeft
    BY <2>1, DistinctAddresses DEF Init, NoLoops, NoLinks, Dir, Side, SearchBelow, SearchLeft
  <2>2. ASSUME Init
        PROVE  InKeyOrder(InUse, link)
    <3>1. InUse = {}
      BY <2>2 DEF Init, InUse, Owned
    <3>2. [n \in Node |-> {}] \in Ranges
      BY DEF Ranges
    <3> QED
      BY <3>1, <3>2 DEF InKeyOrder, Ordered
  <2> QED
    BY <2>1, <2>2, InitHolds DEF OrderInv
<1>2. IInv /\ OrderInv /\ [MapNext]_vars => (IInv /\ OrderInv)'
  <2>1. SUFFICES ASSUME IInv, OrderInv, [MapNext]_vars
                 PROVE  (IInv /\ OrderInv)'
    OBVIOUS
  <2>2. [Next]_vars
    BY <2>1, MapSteps
  <2>3. IInv' /\ NoLoops(link)' /\ SearchBelow' /\ SearchLeft'
    BY <2>1, <2>2, NextKeeps, NextMakesNoLoop, SearchStays, SearchLeftStays DEF OrderInv
  <2>4. InKeyOrder(InUse, link)'
    BY <2>1, MapNextKeepsOrder
  <2> QED
    BY <2>3, <2>4 DEF OrderInv
<1> QED
  BY <1>1, <1>2, PTL DEF MapSpec

\* c_rbtree_find_node finds exactly the keys that were inserted and not removed
\* since, between calls and between any two steps of a call.
THEOREM LookupsFindKeys == MapSpec => []LookupsCorrect
<1>1. IInv /\ OrderInv => LookupsCorrect
  BY SearchesCorrect DEF OrderInv
<1> QED
  BY <1>1, OrderInvariance, PTL

\* c_rbtree_find_slot refuses exactly the keys that are present, and returns an
\* empty slot of its tree for any other.
THEOREM SlotsFitKeys == MapSpec => []SlotsCorrect
<1>1. IInv /\ OrderInv => SlotsCorrect
  BY SearchesCorrect DEF OrderInv
<1> QED
  BY <1>1, OrderInvariance, PTL


-----------------------------------------------------------------------------
(* What holds between removals *)

\* The memory m, w with owners o is right, but for a red node q that may have a
\* red parent, and nodes in no tree are in st or initialised.
Quiet(o, m, w, st, q) ==
  /\ Sound(o, m, w) /\ RedsBelowBlacks(o, w, q) /\ Balanced(o, m, w, NULL, "left")
  /\ NoLoops(m)
  /\ st \subseteq {n \in Node : o[n] = NULL}
  /\ \A n \in Node \ st :
       o[n] = NULL => w[n].raw = n /\ ~c_rbnode_is_root(w, n) /\ m[n] = NoLinks
  /\ q # NULL => q \in Owned(o) /\ c_rbnode_is_red(w, q)

Painted == IF pc = "paint" THEN cur ELSE NULL

\* The state while no node is removed.
QuietState ==
  /\ pc \in {"idle", "paint"} /\ LocalsOK
  /\ pc = "paint" => cur # NULL
  /\ Quiet(owner, link, pf, stale, Painted)

LEMMA QuietMeans ==
  ASSUME pc \in {"idle", "paint"}
  PROVE  QuietState <=> IInv /\ NoLoops(link) /\ OutsideOK
<1>1. ASSUME QuietState
      PROVE  IInv /\ NoLoops(link) /\ OutsideOK
  <2>1. Hole = NULL /\ NoRedRed
    BY <1>1 DEF QuietState, Quiet, Hole, NoRedRed, Painted
  <2>2. Balanced(owner, link, pf, Hole, HoleSide)
    BY <1>1, <2>1, AnySide DEF QuietState, Quiet
  <2>3. CallerOK /\ OutsideOK
    BY <1>1 DEF QuietState, Quiet, CallerOK, OutsideOK
  <2>4. Painting
    BY <1>1 DEF QuietState, Quiet, Painting, Painted, InUse
  <2>5. Searching /\ Rebalancing /\ Initialising
    BY <1>1 DEF QuietState, Searching, Rebalancing, Initialising
  <2> QED
    BY <1>1, <2>1, <2>2, <2>3, <2>4, <2>5 DEF QuietState, Quiet, IInv
<1>2. ASSUME IInv, NoLoops(link), OutsideOK
      PROVE  QuietState
  <2>1. RedsBelowBlacks(owner, pf, Painted)
    BY <1>2 DEF IInv, NoRedRed, Painted
  <2>2. Balanced(owner, link, pf, NULL, "left")
    <3>1. Balanced(owner, link, pf, NULL, HoleSide)
      BY <1>2 DEF IInv, Hole
    <3> QED
      BY <3>1, AnySide
  <2>3. /\ stale \subseteq {n \in Node : owner[n] = NULL}
        /\ \A n \in Node \ stale :
             owner[n] = NULL => pf[n].raw = n /\ ~c_rbnode_is_root(pf, n) /\ link[n] = NoLinks
    BY <1>2 DEF IInv, CallerOK, OutsideOK
  <2>4. pc = "paint" => cur \in InUse /\ c_rbnode_is_red(pf, cur)
    BY <1>2 DEF IInv, Painting
  <2>5. pc = "paint" => cur # NULL
    BY <2>4, DistinctAddresses DEF InUse, Owned
  <2>6. Painted # NULL => Painted \in Owned(owner) /\ c_rbnode_is_red(pf, Painted)
    BY <2>4 DEF Painted, InUse
  <2> QED
    BY <1>2, <2>1, <2>2, <2>3, <2>5, <2>6 DEF IInv, QuietState, Quiet
<1> QED
  BY <1>1, <1>2

\* No step but those of a removal leaves these states.
LEMMA QuietSteps ==
  ASSUME QuietState, [Next]_vars, pc' \in {"idle", "paint"}
  PROVE  /\ Quiet(owner', link', pf', stale', IF pc' = "paint" THEN cur' ELSE NULL)
         /\ LocalsOK' /\ (pc' = "paint" => cur' # NULL)
         /\ FreeNodesKept
<1>1. IInv /\ NoLoops(link) /\ OutsideOK
  BY QuietMeans DEF QuietState
<1>2. SearchBelow
  BY DEF QuietState, SearchBelow
<1>3. IInv' /\ NoLoops(link)' /\ OutsideOK' /\ FreeNodesKept
  BY <1>1, <1>2, NextKeeps, NextMakesNoLoop, OutsideStays, CallsKeepFree
<1>4. pc \in {"idle", "paint"} => (QuietState <=> IInv /\ NoLoops(link) /\ OutsideOK)
  BY QuietMeans
<1>5. (pc \in {"idle", "paint"} => (QuietState <=> IInv /\ NoLoops(link) /\ OutsideOK))'
  BY QuietMeans, PTL
<1>6. QuietState'
  BY <1>3, <1>5
<1> QED
  BY <1>3, <1>6 DEF QuietState, Painted
=============================================================================
