---------------------------- MODULE CRBLockless ----------------------------
(***************************************************************************)
(* Lookups without a lock, in parallel to the writer.  The comment of      *)
(* c_rbtree_store promises that they get some result and never run into    *)
(* endless loops, because they see the stores to left, right and root in   *)
(* the order of the source.  Here the stores of each step of CRBTree are   *)
(* listed in that order and reach the memory that readers see one by one.  *)
(* Readers do not look at parent words, so those need no order.            *)
(*                                                                         *)
(* The order is kept where compiler and processor keep it: in the builds   *)
(* test-parallel.c steps through one instruction at a time, for one.       *)
(* Nothing in the source enforces it: the cast of c_rbtree_store makes     *)
(* the node pointed to volatile, not the access to the pointer, and there  *)
(* is no barrier for processors that reorder stores.                       *)
(***************************************************************************)
EXTENDS CRBMap, SequencesExt

CONSTANTS
  Reader,
  InOrderStores,  \* TRUE: compiler and processor keep the order of the source
  BoundOverlap,   \* TRUE: the writer begins few calls during one lookup,
  MaxOverlap      \* bound: at most this many; FALSE: any number

ASSUME StoreOrderIsBoolean == InOrderStores \in BOOLEAN
ASSUME BoundOverlapIsBoolean == BoundOverlap \in BOOLEAN
ASSUME MaxOverlapIsNatural == MaxOverlap \in Nat

VARIABLES
  vis,     \* vis[x][s]: the value readers see in field s of object x
  stores,  \* the stores not yet visible, in the order of the source
  reader,  \* reader[r]: the lookup r is executing
  leaving, \* ghost: the nodes whose removal is among the stores not yet visible
  removed, \* ghost: removed[r], the nodes that left a tree during r's lookup
  overlap  \* overlap[r]: the calls begun during r's lookup, if they are bounded

shared == <<vis, stores, leaving>>
readers == <<reader, removed, overlap>>
lvars == <<vars, shared, readers>>

\* A lookup is at a node or NULL (i), with its key; NoLookup if none is running.
NoLookup == [running |-> FALSE, i |-> NULL, k |-> CHOOSE k \in Key : TRUE]

LInit ==
  /\ Init
  /\ vis = link /\ stores = <<>> /\ leaving = {}
  /\ reader = [r \in Reader |-> NoLookup]
  /\ removed = [r \in Reader |-> {}]
  /\ overlap = [r \in Reader |-> 0]

-----------------------------------------------------------------------------
(* The stores of each function, in the order of the source *)

Store(x, s, v) == [obj |-> x, field |-> s, val |-> v]

\* c_rbnode_swap_child or the store of c_rbnode_push_root.
StoreInPlace(m, old, new) ==
  IF c_rbnode_is_root(pf, old)
  THEN Store(pf[old].raw, "root", new)
  ELSE Store(pf[old].raw, SideOf(m, pf[old].raw, old), new)

\* Faulty: the node is stored before its fields are reset.
LinkStoresEarly(x, s, n) ==
  <<Store(x, s, n), Store(n, "left", NULL), Store(n, "right", NULL)>>

\* Faulty: the fields of the node are not reset.
LinkStoresOnly(x, s, n) == <<Store(x, s, n)>>

\* c_rbnode_link and c_rbtree_add: the node is complete before it is stored.
LinkStores(x, s, n) ==
  <<Store(n, "left", NULL), Store(n, "right", NULL), Store(x, s, n)>>

\* Faulty: p is below s before s is no longer below p.
RotateStoresSwapped(m, p, s, e) ==
  <<Store(s, Other(e), p), Store(p, e, m[s][Other(e)]), StoreInPlace(m, p, s)>>

\* Faulty: s stays below p.
RotateStoresPartly(m, p, s, e) ==
  <<Store(s, Other(e), p), StoreInPlace(m, p, s)>>

\* Faulty: the outer child of s is moved instead of the inner one.
RotateStoresOuter(m, p, s, e) ==
  <<Store(p, e, m[s][e]), Store(s, Other(e), p), StoreInPlace(m, p, s)>>

\* A rotation of s, the child on side e of p, above p.
RotateStores(m, p, s, e) ==
  <<Store(p, e, m[s][Other(e)]), Store(s, Other(e), p), StoreInPlace(m, p, s)>>

\* c_rbtree_paint_terminal, Case 4 with n the inner grandchild: the first
\* rotation does not touch the grandparent.
PaintTwiceStores ==
  LET n == cur
      p == c_rbnode_parent(pf, n)
      g == Grandparent(n)
      d == SideOf(link, g, p)
  IN  <<Store(p, Other(d), link[n][d]), Store(n, d, p),
        Store(g, d, link[n][Other(d)]), Store(n, Other(d), g),
        StoreInPlace(link, g, n)>>

PaintStores ==
  LET p == c_rbnode_parent(pf, cur)
      g == Grandparent(cur)
  IN  RotateStores(link, g, p, SideOf(link, g, p))

SpliceStores ==
  LET n == victim
      s == cur
      left == Store(s, "left", link[n]["left"])
      up == StoreInPlace(link, n, s)
  IN  IF s = link[n]["right"]
      THEN <<left, up>>
      ELSE <<Store(c_rbnode_parent(pf, s), "left", link[s]["right"]),
             Store(s, "right", link[n]["right"]), left, up>>

SiblingStores == RotateStores(link, cur, Sibling, Other(HoleSide))

NephewStores ==
  LET p == cur
      d == HoleSide
      s == Sibling
      y == NearNephew
  IN  <<Store(s, d, link[y][Other(d)]), Store(y, Other(d), s),
        Store(p, Other(d), y),
        Store(p, Other(d), link[y][d]), Store(y, d, p), StoreInPlace(link, p, y)>>

\* c_rbnode_init and c_rbtree_move use plain assignments: the compiler may put
\* those to different objects or fields in either order.
InitStores(n) ==
  {<<Store(n, "left", NULL), Store(n, "right", NULL)>>,
   <<Store(n, "right", NULL), Store(n, "left", NULL)>>}

MoveStores(to, from) ==
  LET r == link[from]["root"]
  IN  {<<Store(to, "root", r), Store(from, "root", NULL), Store(to, "root", r)>>,
       <<Store(from, "root", NULL), Store(to, "root", r), Store(to, "root", r)>>}

-----------------------------------------------------------------------------
(* The writer *)

Emit(s) == stores' = s /\ vis' = vis

\* A call begins: the lookups in progress overlap with one more call. Nodes that
\* leave their tree are noted for them.
Running == {r \in Reader : reader[r].running}

CallBegins ==
  /\ BoundOverlap => \A r \in Running : overlap[r] < MaxOverlap
  /\ overlap' = [r \in Reader |->
                   IF BoundOverlap /\ r \in Running THEN overlap[r] + 1 ELSE overlap[r]]

NoteRemoved ==
  /\ leaving' = {n \in InUse : owner'[n] = NULL}
  /\ removed' = [r \in Reader |->
                   IF r \in Running THEN removed[r] \cup leaving' ELSE removed[r]]

WriterInsert(t, n) ==
  LET slot == c_rbtree_find_slot(t, KeyOf[n])
  IN  Insert(t, n) /\ Emit(LinkStores(slot.p, slot.l, n))

WriterRemove(api, n) ==
  \/ UnlinkLeaf(api, n) /\ Emit(<<StoreInPlace(link, n, NULL)>>)
  \/ \E d \in Dir : /\ UnlinkOneChild(api, n, d)
                    /\ Emit(<<StoreInPlace(link, n, link[n][d])>>)
  \/ UnlinkFull(api, n) /\ Emit(<<>>)

WriterInit(n) == c_rbnode_init(n) /\ \E s \in InitStores(n) : Emit(s)

WriterMove(to, from) ==
  c_rbtree_move(to, from) /\ \E s \in MoveStores(to, from) : Emit(s)

WriterTreeInit(t) == c_rbtree_init(t) /\ Emit(<<Store(t, "root", NULL)>>)

WriterCall ==
  /\ stores = <<>>
  /\ \/ \E n \in Node : \/ \E t \in Tree : WriterInsert(t, n)
                        \/ \E api \in APICall : WriterRemove(api, n)
                        \/ WriterInit(n)
     \/ \E to, from \in Tree : WriterMove(to, from)
     \/ \E t \in Tree : WriterTreeInit(t)
  /\ CallBegins /\ NoteRemoved
  /\ UNCHANGED reader

WriterStep ==
  /\ stores = <<>>
  /\ \/ /\ \/ PaintRoot \/ PaintDone \/ PaintRecolor \/ WalkLeft
           \/ RebalanceEnd \/ RebalanceRecolor \/ RebalanceFound \/ RotateRecolor
        /\ Emit(<<>>)
     \/ PaintRotate /\ Emit(PaintStores)
     \/ PaintRotateTwice /\ Emit(PaintTwiceStores)
     \/ SpliceSuccessor /\ Emit(SpliceStores)
     \/ (RotateRedSibling \/ RotateSibling) /\ Emit(SiblingStores)
     \/ RotateNephew /\ Emit(NephewStores)
     \/ Reinit /\ \E s \in InitStores(victim) : Emit(s)
  /\ NoteRemoved
  /\ UNCHANGED <<reader, overlap>>

\* One store becomes visible: the oldest, or, where compiler or processor do not
\* keep the order of stores, any that is not behind one to the same field.
Visible(i) ==
  /\ InOrderStores => i = 1
  /\ \A j \in 1 .. i - 1 : <<stores[j].obj, stores[j].field>>
                             # <<stores[i].obj, stores[i].field>>
  /\ vis' = [vis EXCEPT ![stores[i].obj][stores[i].field] = stores[i].val]
  /\ stores' = RemoveAt(stores, i)
  /\ leaving' = IF Len(stores) = 1 THEN {} ELSE leaving
  /\ UNCHANGED <<vars, readers>>

Propagate == \E i \in 1 .. Len(stores) : Visible(i)

-----------------------------------------------------------------------------
(* Readers: c_rbtree_find_node on the memory they see *)

LookupStart(r, t, k) ==
  /\ ~reader[r].running
  /\ reader' = [reader EXCEPT ![r] = [running |-> TRUE, i |-> vis[t]["root"], k |-> k]]
  /\ removed' = [removed EXCEPT ![r] = leaving]
  /\ UNCHANGED <<vars, shared, overlap>>

LookupStep(r) ==
  LET i == reader[r].i
      k == reader[r].k
  IN  /\ reader[r].running /\ i # NULL /\ k # KeyOf[i]
      /\ reader' = [reader EXCEPT ![r].i =
                      IF k < KeyOf[i] THEN vis[i]["left"] ELSE vis[i]["right"]]
      /\ UNCHANGED <<vars, shared, removed, overlap>>

\* The lookup returns i.
LookupEnd(r) ==
  LET i == reader[r].i
  IN  /\ reader[r].running
      /\ i # NULL => reader[r].k = KeyOf[i]
      /\ reader' = [reader EXCEPT ![r] = NoLookup]
      /\ removed' = [removed EXCEPT ![r] = {}]
      /\ overlap' = [overlap EXCEPT ![r] = 0]
      /\ UNCHANGED <<vars, shared>>

LNext == \/ WriterCall \/ WriterStep \/ Propagate
         \/ \E r \in Reader : \/ \E t \in Tree, k \in Key : LookupStart(r, t, k)
                              \/ LookupStep(r) \/ LookupEnd(r)

LSpec == LInit /\ [][LNext]_lvars

\* The writer finishes the call it is in, stores become visible eventually, and
\* a reader goes on with its lookup.
FairLSpec == /\ LSpec
             /\ WF_lvars(WriterStep) /\ WF_lvars(Propagate)
             /\ \A r \in Reader : WF_lvars(LookupStep(r) \/ LookupEnd(r))

-----------------------------------------------------------------------------
(* Properties *)

Pending(x, s) ==
  {i \in 1 .. Len(stores) : stores[i].obj = x /\ stores[i].field = s}

\* The stores lead to the memory the function is to produce: what the rotations
\* of CRBTree do at once is what their stores do in sequence. The last store to
\* a field brings its value, and a field without one has it already.
StoresProduceTree ==
  \A x \in Node \cup Tree, s \in Side :
    \/ Pending(x, s) = {} /\ vis[x][s] = link[x][s]
    \/ \E i \in Pending(x, s) : /\ \A j \in Pending(x, s) : j <= i
                                /\ stores[i].val = link[x][s]

\* Readers never see a loop, not even a temporary one in the middle of a
\* rotation, and not among the nodes that are out of the tree but still read.
NoVisibleLoops == NoLoops(vis)

\* A lookup only comes to nodes that were in a tree at some time since it began,
\* in particular never to a node that was removed before. Memory may therefore
\* be reused once all lookups that overlapped with the removal are over.
LookupsSeeMembers ==
  \A r \in Reader :
    LET i == reader[r].i
    IN  i # NULL => i \in InUse \cup removed[r]

\* Every lookup ends, whatever the calls it overlaps with: what test-parallel.c
\* calls a traversal that "is guaranteed to end". It takes a bound on the number
\* of calls to be true.
LookupsEnd == \A r \in Reader : reader[r].running ~> ~reader[r].running
=============================================================================
