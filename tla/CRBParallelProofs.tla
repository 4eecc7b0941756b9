------------------------- MODULE CRBParallelProofs -------------------------
(***************************************************************************)
(* test-parallel.c, for any number of nodes: what child and parent do is   *)
(* allowed by CRBLockless, so what is proved of stores and readers holds   *)
(* of the test.  The rest is the protocol of the stops, the nodes the      *)
(* child has inserted so far, and the path the parent's walk is on.        *)
(***************************************************************************)
EXTENDS CRBParallel, CRBMapProofs

\* Everything the two processes may do next.
PNext == ChildNext \/ ParentNext \/ Ended

-----------------------------------------------------------------------------
(* The test on the memory of the library *)

\* A turn of the child's loops is a call, everything else leaves the memory to
\* the library.
LEMMA TestSteps ==
  ASSUME [PNext]_pvars
  PROVE  [LNext]_lvars
<1>1. CASE Child1
  <2>1. PICK n \in Node : WriterInsert(root, n) /\ Turn("child1", n)
    BY <1>1 DEF Child1
  <2>2. root \in Tree
    BY OneTree DEF root
  <2> QED
    BY <2>1, <2>2 DEF Turn, LNext, WriterCall
<1>2. CASE Child2
  <2>1. PICK n \in Node : WriterRemove("unlink", n) /\ Turn("child2", n)
    BY <1>2 DEF Child2
  <2>2. "unlink" \in APICall
    BY DEF APICall
  <2> QED
    BY <2>1, <2>2 DEF Turn, LNext, WriterCall
<1>3. CASE InLibrary
  BY <1>3 DEF InLibrary, LNext
<1>4. CASE UNCHANGED lvars
  BY <1>4
<1> QED
  BY <1>1, <1>2, <1>3, <1>4
     DEF PNext, ChildNext, ParentNext, Ended, Traceme, Raise, Exit, OnUsr1, OnUrg, OnUsr2, Event,
         OnTrap, WalkStep, WalkEnd, OnExit, pvars

\* The test only does to the memory what CRBLockless allows: its child is a
\* writer, and what LSpec promises of stores and loops holds throughout the test.
THEOREM TestIsLockless == ParallelSpec => LSpec
<1>1. ParallelInit => LInit
  BY DEF ParallelInit
<1>2. [PNext]_pvars => [LNext]_lvars
  BY TestSteps
<1>3. [ChildNext \/ ParentNext \/ Ended]_pvars => [PNext]_pvars
  BY DEF PNext
<1> QED
  BY <1>1, <1>2, <1>3, PTL DEF ParallelSpec, LSpec

-----------------------------------------------------------------------------
(* The protocol of the stops *)

\* No node was ever linked.
Fresh == vis = [x \in Node \cup Tree |-> NoLinks]

Settled == Idle /\ stores = <<>>

\* Where the child is, what it is stopped with, and whether it is stepped.
ChildOK ==
  /\ child \in {"traceme", "ready", "child1", "child2", "exit"}
  /\ status \in {"running", "SIGUSR1", "SIGURG", "SIGUSR2", "SIGTRAP", "0xdf", "0xef"}
  /\ status = "SIGUSR1" => child = "child1"
  /\ status = "SIGURG" => child = "child2"
  /\ status = "SIGUSR2" => child = "exit"
  /\ status = "SIGTRAP" => child \in {"child1", "child2"}
  /\ status = "0xdf" => child = "traceme"
  /\ status = "0xef" => child = "exit"
  /\ child \in {"child1", "child2"} /\ status # "SIGUSR1" => stepped
  /\ child \notin {"child1", "child2"} => Settled
  /\ status \in {"SIGUSR1", "SIGURG", "SIGUSR2"} => Settled
  /\ child \in {"traceme", "ready"} \/ status = "SIGUSR1" => Fresh
  /\ status \in {"SIGUSR1", "SIGURG"} => todo = Node

\* What the parent does meanwhile, and what it has seen.
ParentOK ==
  /\ parent \in {"waitpid", "walk", "done"}
  /\ parent = "walk" => status = "SIGTRAP" /\ seen
  /\ parent = "done" => status \in {"SIGUSR1", "0xdf", "0xef"}
  /\ status # "SIGTRAP" => seen
  /\ ~missed
  /\ result \in {"none", "0", "77"}
  /\ result = "0" => parent = "done" /\ status = "0xef"
  /\ result = "77" => parent = "done" /\ status \in {"SIGUSR1", "0xdf"}
  /\ ~mapped => child = "exit" /\ status \in {"running", "0xef"}

\* The child does nothing in the library outside its loops.
LEMMA BusyChild ==
  ASSUME ChildOK, Child1 \/ Child2 \/ InLibrary
  PROVE  /\ status = "running" /\ child \in {"child1", "child2"} /\ stepped
         /\ status' = "SIGTRAP" /\ UNCHANGED <<child, stepped, parents>>
         /\ seen' = (seen /\ vis' = vis)
         /\ missed' = (missed \/ (~seen /\ vis' # vis))
<1>1. Instruction /\ child \in {"child1", "child2"}
  <2>1. CASE Child1 \/ Child2
    BY <2>1 DEF Child1, Child2, Turn
  <2>2. CASE InLibrary
    <3>1. ~Settled
      <4>1. CASE WriterStep
        BY <4>1 DEF Settled, Idle, WriterStep, PaintRoot, PaintDone, PaintRecolor, WalkLeft,
             RebalanceEnd, RebalanceRecolor, RebalanceFound, RotateRecolor, PaintRotate,
             PaintRotateTwice, SpliceSuccessor, RotateRedSibling, RotateSibling, RotateNephew,
             Reinit
      <4>2. CASE Propagate
        BY <4>2 DEF Propagate, Visible, Settled
      <4> QED
        BY <4>1, <4>2, <2>2 DEF InLibrary
    <3> QED
      BY <3>1, <2>2 DEF InLibrary, ChildOK
  <2> QED
    BY <2>1, <2>2
<1> QED
  BY <1>1 DEF Instruction, ChildOK

\* Every step of the child keeps to the protocol,
LEMMA ChildKeepsProtocol ==
  ASSUME ChildOK, ParentOK, ChildNext
  PROVE  ChildOK' /\ ParentOK'
<1>1. CASE Traceme
  BY <1>1 DEF Traceme, ChildOK, ParentOK, lvars, vars, memory, shared, locals, parents, ghosts, Fresh, Settled, Idle
<1>2. CASE Child1 \/ Child2 \/ InLibrary
  BY <1>2, BusyChild DEF ChildOK, ParentOK, parents
<1>3. CASE Exit
  BY <1>3 DEF Exit, ChildOK, ParentOK, lvars, vars, memory, shared, locals, parents, ghosts, Fresh, Settled, Idle
<1>4. CASE \/ Raise("SIGUSR1", "ready", "child1")
           \/ Raise("SIGURG", "child1", "child2")
           \/ Raise("SIGUSR2", "child2", "exit")
  BY <1>4 DEF Raise, ChildOK, ParentOK, lvars, vars, memory, shared, locals, parents, ghosts, Fresh, Settled, Idle
<1> QED
  BY <1>1, <1>2, <1>3, <1>4 DEF ChildNext

\* The parent leaves the memory alone.
LEMMA ParentLeavesMemory ==
  ASSUME ParentNext
  PROVE  UNCHANGED lvars
BY DEF ParentNext, OnUsr1, OnUrg, OnUsr2, Event, OnTrap, WalkStep, WalkEnd, OnExit

\* and so does every step of the parent.
LEMMA ParentKeepsProtocol ==
  ASSUME ChildOK, ParentOK, ParentNext
  PROVE  ChildOK' /\ ParentOK'
<1>1. UNCHANGED <<pc, stores, vis>>
  BY ParentLeavesMemory DEF lvars, vars, locals, shared
<1>2. (Settled' <=> Settled) /\ (Fresh' <=> Fresh)
  BY <1>1 DEF Settled, Idle, Fresh
<1> USE DEF ChildOK, ParentOK, childs, ghosts, Stopped, Resume, End, Event
<1>3. CASE OnUsr1
  BY <1>2, <1>3 DEF OnUsr1
<1>4. CASE OnUrg \/ OnUsr2
  BY <1>2, <1>4 DEF OnUrg, OnUsr2
<1>5. CASE OnTrap
  BY <1>2, <1>5 DEF OnTrap
<1>6. CASE WalkStep \/ WalkEnd
  BY <1>2, <1>6 DEF WalkStep, WalkEnd
<1>7. CASE OnExit
  BY <1>2, <1>7 DEF OnExit
<1> QED
  BY <1>3, <1>4, <1>5, <1>6, <1>7 DEF ParentNext

\* Nothing else has the protocol in its hands.
LEMMA ProtocolKept ==
  ASSUME ChildOK, ParentOK, [PNext]_pvars
  PROVE  ChildOK' /\ ParentOK'
<1>1. CASE UNCHANGED pvars
  BY <1>1 DEF pvars, lvars, vars, locals, shared, childs, parents, ghosts, ChildOK, ParentOK, Fresh,
              Settled, Idle
<1> QED
  BY <1>1, ChildKeepsProtocol, ParentKeepsProtocol DEF PNext, Ended

\* The two processes start in step.
LEMMA ProtocolInit ==
  ASSUME ParallelInit
  PROVE  ChildOK /\ ParentOK
BY DEF ParallelInit, LInit, Init, ChildOK, ParentOK, Fresh, Settled, Idle

\* The result of the test can be trusted: it is 0 only if the parent walked every
\* memory the child has produced, and 77 only if nothing was linked yet.
THEOREM ResultsTell == ParallelSpec => []ResultTells
<1>1. ParallelInit => ChildOK /\ ParentOK
  BY ProtocolInit
<1>2. ChildOK /\ ParentOK /\ [PNext]_pvars => ChildOK' /\ ParentOK'
  BY ProtocolKept
<1>3. [ChildNext \/ ParentNext \/ Ended]_pvars => [PNext]_pvars
  BY DEF PNext
<1>4. ChildOK /\ ParentOK => ResultTells
  BY DEF ChildOK, ParentOK, ResultTells, Fresh
<1> QED
  BY <1>1, <1>2, <1>3, <1>4, PTL DEF ParallelSpec

-----------------------------------------------------------------------------
(* The nodes of the tree *)

\* The child's loops link and unlink what they have not come to yet. Removal is
\* by c_rbnode_unlink, which leaves no stale node behind.
MembersOK ==
  /\ todo \in SUBSET Node
  /\ stale = IF pc \in {"rebalance", "rotate", "init"} THEN {victim} ELSE {}
  /\ pc \in {"successor", "rebalance", "rotate", "init"} => call = "unlink"
  /\ pc = "successor" => victim \in Node \ todo
  /\ child \in {"traceme", "ready", "exit"} => InUse = {}
  /\ child = "child1" => pc \in {"idle", "paint"} /\ InUse = Node \ todo
  /\ child = "child2" =>
       pc # "paint" /\ InUse = todo \cup (IF pc = "successor" THEN {victim} ELSE {})

\* The stages and the first instruction are seen as the child comes to them.
EventsOK ==
  /\ n_event \subseteq {"0x1", "0x2", "0x4"}
  /\ child \in {"child1", "child2", "exit"} /\ status # "SIGUSR1" => "0x1" \in n_event
  /\ child \in {"child2", "exit"} /\ status # "SIGURG" => "0x2" \in n_event
  /\ child = "exit" /\ status # "SIGUSR2" => "0x4" \in n_event
  /\ (child = "child1" /\ todo # Node) \/ child \in {"child2", "exit"} =>
       n_instr \/ (status = "SIGTRAP" /\ parent = "waitpid")

-----------------------------------------------------------------------------
(* The walk *)

\* From node to node in c along child fields, and from the last one to n.
Trail(m, c, n) ==
  \A i \in 1 .. Len(c) :
    \E d \in Dir : m[c[i]][d] = IF i = Len(c) THEN n ELSE c[i + 1]

WalkOK ==
  /\ walk \in [n : Pointer, cache : Seq(Node)]
  /\ marks = {walk.cache[i] : i \in 1 .. Len(walk.cache)}
  /\ walk.n = NULL => walk.cache = <<>>
  /\ parent # "walk" => walk.n = NULL
  /\ walk.n # NULL => Trail(vis, walk.cache, walk.n)

\* No node comes twice on a trail, which therefore ends below the last node.
LEMMA TrailFacts ==
  ASSUME NEW m, NoLoops(m), NEW c \in Seq(Node), NEW n \in Node, Trail(m, c, n)
  PROVE  /\ \A i \in 1 .. Len(c) : c[i] # n
         /\ \A i, j \in 1 .. Len(c) : c[i] = c[j] => i = j
         /\ Len(c) < Cardinality(Node)
<1> DEFINE k == Len(c) + 1
           q == [i \in 1 .. k |-> IF i = k THEN n ELSE c[i]]
<1>1. k \in Nat \ {0} /\ q \in [1 .. k -> Node] /\ Len(c) = k - 1
  OBVIOUS
<1>2. \A i \in 1 .. k - 1 : \E d \in Dir : m[q[i]][d] = q[i + 1]
  <2> SUFFICES ASSUME NEW i \in 1 .. k - 1
               PROVE  \E d \in Dir : m[q[i]][d] = q[i + 1]
    OBVIOUS
  <2>1. i \in 1 .. Len(c) /\ i \in 1 .. k /\ i # k /\ i + 1 \in 1 .. k
    BY <1>1
  <2>2. q[i] = c[i] /\ q[i + 1] = IF i = Len(c) THEN n ELSE c[i + 1]
    BY <2>1
  <2> QED
    BY <2>1, <2>2 DEF Trail
<1>3. \A i \in 1 .. Len(c) : q[i] = c[i]
  BY <1>1
<1>4. q[k] = n
  BY <1>1
<1> HIDE DEF q, k
<1>5. ASSUME NEW i \in 1 .. k, NEW j \in 1 .. k, i < j, q[i] = q[j]
      PROVE  FALSE
  <2> DEFINE S == {q[l] : l \in i .. j - 1}
  <2>1. S \in SUBSET Node /\ S # {}
    BY <1>1, <1>5
  <2>2. PICK x \in S : \A d \in Dir : m[x][d] \notin S
    BY <2>1 DEF NoLoops
  <2>3. PICK l \in i .. j - 1 : x = q[l]
    BY <2>2
  <2>4. q[l + 1] \in S
    <3>1. CASE l + 1 \in i .. j - 1
      BY <3>1
    <3>2. CASE l + 1 = j
      BY <3>2, <1>1, <1>5
    <3> QED
      BY <3>1, <3>2, <2>3, <1>1
  <2>5. l \in 1 .. k - 1
    BY <2>3, <1>1
  <2> QED
    BY <2>2, <2>3, <2>4, <2>5, <1>2
<1>6. \A i, j \in 1 .. k : q[i] = q[j] => i = j
  BY <1>1, <1>5
<1>7. k <= Cardinality(Node)
  <2>1. q \in Injection(1 .. k, Node)
    BY <1>1, <1>6 DEF Injection, IsInjective
  <2>2. Cardinality(1 .. k) = k
    BY <1>1, FS_Interval
  <2> QED
    BY <2>1, <2>2, FS_Injection, NodesAreFinite
<1>8. Cardinality(Node) \in Nat
  BY FS_CardinalityType, NodesAreFinite
<1>9. \A i \in 1 .. Len(c) : i \in 1 .. k /\ k \in 1 .. k /\ i # k
  BY <1>1
<1> QED
  BY <1>1, <1>3, <1>4, <1>6, <1>7, <1>8, <1>9

\* A set of some numbers up to n has a greatest one.
LEMMA Greatest ==
  ASSUME NEW n \in Nat, NEW T \in SUBSET (0 .. n), T # {}
  PROVE  Max(T) \in T /\ \A j \in T : j <= Max(T)
<1> DEFINE U == {j + 1 .. n : j \in T}
<1>1. U # {} /\ U \subseteq SUBSET (1 .. n)
  <2>1. \A j \in T : j + 1 .. n \in SUBSET (1 .. n)
    OBVIOUS
  <2> QED
    BY <2>1
<1>2. IsWellFoundedOn(StrictSubsetOrdering(1 .. n), SUBSET (1 .. n))
  <2>1. IsFiniteSet(1 .. n)
    BY FS_Interval
  <2> QED
    BY <2>1, FS_StrictSubsetOrderingWellFounded, FS_FiniteSubsetsOfFinite
<1> HIDE DEF U
<1>3. \E M \in U : \A L \in U : <<L, M>> \notin StrictSubsetOrdering(1 .. n)
  BY <1>1, <1>2, WFMin
<1> USE DEF U
<1>4. PICK i \in T : \A j \in T : <<j + 1 .. n, i + 1 .. n>> \notin StrictSubsetOrdering(1 .. n)
  BY <1>3
<1>5. ASSUME NEW j \in T
      PROVE  j <= i
  <2>1. SUFFICES ASSUME i < j
                 PROVE  FALSE
    OBVIOUS
  <2>2. j + 1 .. n \subseteq i + 1 .. n /\ i + 1 .. n \subseteq 1 .. n
    BY <2>1
  <2>3. i + 1 \in i + 1 .. n /\ i + 1 \notin j + 1 .. n
    BY <2>1
  <2>4. <<j + 1 .. n, i + 1 .. n>> \in StrictSubsetOrdering(1 .. n)
    BY <2>2, <2>3 DEF StrictSubsetOrdering
  <2> QED
    BY <2>4, <1>4
<1>6. \E x \in T : \A y \in T : x >= y
  BY <1>5
<1>7. Max(T) \in T /\ \A y \in T : Max(T) >= y
  BY <1>6 DEF Max
<1> QED
  BY <1>7

\* The nodes on the stack.
On(c) == {c[i] : i \in 1 .. Len(c)}

\* A trail goes on to a child,
LEMMA TrailDown ==
  ASSUME NEW m, NEW c \in Seq(Node), NEW n \in Node, Trail(m, c, n), NEW d \in Dir
  PROVE  /\ Append(c, n) \in Seq(Node)
         /\ Trail(m, Append(c, n), m[n][d])
         /\ On(Append(c, n)) = On(c) \cup {n}
<1> DEFINE q == Append(c, n)
           k == Len(c) + 1
<1>1. q \in Seq(Node) /\ Len(q) = k /\ Len(c) \in Nat
  OBVIOUS
<1>2. q[k] = n /\ \A i \in 1 .. Len(c) : q[i] = c[i]
  OBVIOUS
<1>3. On(q) = On(c) \cup {n}
  <2>1. On(q) = {q[i] : i \in 1 .. Len(c) \cup {k}}
    <3>1. 1 .. k = 1 .. Len(c) \cup {k}
      BY <1>1
    <3> QED
      BY <1>1, <3>1 DEF On
  <2> HIDE DEF q
  <2> QED
    BY <2>1, <1>2 DEF On
<1>4. Trail(m, q, m[n][d])
  <2> SUFFICES ASSUME NEW i \in 1 .. k
               PROVE  \E e \in Dir : m[q[i]][e] = IF i = k THEN m[n][d] ELSE q[i + 1]
    BY <1>1 DEF Trail
  <2>1. CASE i = k
    BY <2>1, <1>2
  <2>2. CASE i # k
    <3>1. i \in 1 .. Len(c) /\ q[i] = c[i]
      BY <2>2, <1>1, <1>2
    <3>2. q[i + 1] = IF i = Len(c) THEN n ELSE c[i + 1]
      <4>1. i # Len(c) => i + 1 \in 1 .. Len(c)
        BY <3>1, <1>1
      <4> QED
        BY <4>1, <1>2
    <3> HIDE DEF q
    <3> QED
      BY <2>2, <3>1, <3>2 DEF Trail
  <2> QED
    BY <2>1, <2>2
<1> QED
  BY <1>1, <1>3, <1>4

\* or from a node further up to its right child.
LEMMA TrailUp ==
  ASSUME NEW m, NEW c \in Seq(Node), NEW n \in Node, Trail(m, c, n),
         \A i, j \in 1 .. Len(c) : c[i] = c[j] => i = j,
         NEW k \in 1 .. Len(c), NEW d \in Dir
  PROVE  /\ SubSeq(c, 1, k) \in Seq(Node)
         /\ Trail(m, SubSeq(c, 1, k), m[c[k]][d])
         /\ On(SubSeq(c, 1, k)) = On(c) \ {c[i] : i \in k + 1 .. Len(c)}
<1> DEFINE q == SubSeq(c, 1, k)
<1>1. q \in Seq(Node) /\ Len(q) = k /\ Len(c) \in Nat /\ k \in Nat
  OBVIOUS
<1>2. \A i \in 1 .. k : i \in 1 .. Len(c) /\ q[i] = c[i]
  OBVIOUS
<1> HIDE DEF q
<1>3. On(q) = On(c) \ {c[i] : i \in k + 1 .. Len(c)}
  <2>1. On(q) = {c[i] : i \in 1 .. k}
    BY <1>1, <1>2 DEF On
  <2>2. 1 .. Len(c) = 1 .. k \cup k + 1 .. Len(c)
    BY <1>1
  <2>3. \A i \in 1 .. k, j \in k + 1 .. Len(c) : c[i] # c[j]
    <3> SUFFICES ASSUME NEW i \in 1 .. k, NEW j \in k + 1 .. Len(c)
                 PROVE  c[i] # c[j]
      OBVIOUS
    <3>1. i \in 1 .. Len(c) /\ j \in 1 .. Len(c) /\ i # j
      BY <1>1
    <3> QED
      BY <3>1
  <2>4. On(c) = {c[i] : i \in 1 .. k} \cup {c[i] : i \in k + 1 .. Len(c)}
    BY <2>2 DEF On
  <2> QED
    BY <2>1, <2>3, <2>4
<1>4. Trail(m, q, m[c[k]][d])
  <2> SUFFICES ASSUME NEW i \in 1 .. k
               PROVE  \E e \in Dir : m[q[i]][e] = IF i = k THEN m[c[k]][d] ELSE q[i + 1]
    BY <1>1 DEF Trail
  <2>1. CASE i = k
    BY <2>1, <1>2
  <2>2. CASE i # k
    <3>1. i \in 1 .. Len(c) /\ q[i] = c[i] /\ i # Len(c)
      BY <2>2, <1>1, <1>2
    <3>2. q[i + 1] = c[i + 1]
      BY <2>2, <1>1, <1>2
    <3> QED
      BY <2>2, <3>1, <3>2 DEF Trail
  <2> QED
    BY <2>1, <2>2
<1> QED
  BY <1>1, <1>3, <1>4 DEF q

\* The parent's walk stays on a trail, and the marks are on the stack.
LEMMA WalkKeepsTrail ==
  ASSUME vis \in Memory, NoLoops(vis), WalkOK, WalkStep
  PROVE  WalkOK'
<1> DEFINE n == walk.n
           c == walk.cache
           down == IF vis[n]["left"] # NULL THEN vis[n]["left"] ELSE vis[n]["right"]
           k == Backtrack
<1>1. /\ n \in Node /\ c \in Seq(Node) /\ Trail(vis, c, n) /\ marks = On(c)
      /\ parent = "walk" /\ parent' = parent /\ vis' = vis
  BY DEF WalkStep, WalkOK, On, Pointer, lvars, shared
<1>2. /\ "left" \in Dir /\ "right" \in Dir
      /\ \A x \in Node : vis[x]["left"] \in Node \cup {NULL} /\ vis[x]["right"] \in Node \cup {NULL}
  BY DEF Memory, Pointer, Dir, Side
<1>3. ASSUME NEW v \in Node, NEW q \in Seq(Node), walk' = [n |-> v, cache |-> q], marks' = On(q),
             Trail(vis, q, v)
      PROVE  WalkOK'
  <2>1. walk'.n = v /\ walk'.cache = q /\ v # NULL /\ v \in Pointer
    BY <1>3, DistinctAddresses DEF Pointer
  <2>2. walk' \in [n : Pointer, cache : Seq(Node)]
    BY <1>3, <2>1
  <2> QED
    BY <1>1, <1>3, <2>1, <2>2 DEF WalkOK, On
<1>4. CASE down # NULL
  <2>1. down \in Node /\ \E d \in Dir : down = vis[n][d]
    BY <1>1, <1>2, <1>4
  <2>2. walk' = [n |-> down, cache |-> Append(c, n)] /\ marks' = marks \cup {n}
    BY <1>4 DEF WalkStep
  <2> HIDE DEF down, n, c
  <2>3. PICK d \in Dir : down = vis[n][d]
    BY <2>1
  <2>4. /\ Append(c, n) \in Seq(Node) /\ Trail(vis, Append(c, n), down)
        /\ On(Append(c, n)) = On(c) \cup {n}
    BY <1>1, <2>3, TrailDown
  <2> QED
    BY <1>1, <1>3, <2>1, <2>2, <2>4
<1>5. CASE down = NULL
  <2>1. /\ marks' = marks \ {c[i] : i \in k + 1 .. Len(c)}
        /\ walk' = [n |-> IF k = 0 THEN NULL ELSE vis[c[k]]["right"],
                    cache |-> SubSeq(c, 1, k)]
    BY <1>5 DEF WalkStep
  <2>2. k \in 0 .. Len(c) /\ (k # 0 => vis[c[k]]["right"] # NULL)
    <3> DEFINE open(i) == /\ vis[c[i]]["right"] # NULL
                          /\ vis[c[i]]["right"] # IF i = Len(c) THEN n ELSE c[i + 1]
               T == {0} \cup {i \in 1 .. Len(c) : open(i)}
    <3>1. k = Max(T)
      BY DEF Backtrack
    <3>2. Len(c) \in Nat
      BY <1>1
    <3>3. T \in SUBSET (0 .. Len(c)) /\ T # {}
      BY <3>2
    <3>4. \A i \in T : i # 0 => vis[c[i]]["right"] # NULL
      OBVIOUS
    <3> HIDE DEF T, k
    <3> QED
      BY <3>1, <3>2, <3>3, <3>4, Greatest
  <2>3. \A i, j \in 1 .. Len(c) : c[i] = c[j] => i = j
    BY <1>1, TrailFacts
  <2> HIDE DEF n, c, k, down
  <2>4. CASE k = 0
    <3>1. walk' = [n |-> NULL, cache |-> <<>>] /\ marks' = {}
      BY <1>1, <2>1, <2>4 DEF On
    <3>2. NULL \in Pointer /\ <<>> \in Seq(Node)
      BY DEF Pointer
    <3> QED
      BY <3>1, <3>2, <1>1 DEF WalkOK
  <2>5. CASE k # 0
    <3>1. k \in 1 .. Len(c) /\ c[k] \in Node
      BY <1>1, <2>2, <2>5
    <3>2. vis[c[k]]["right"] \in Node
      BY <3>1, <1>2, <2>2, <2>5
    <3>3. /\ SubSeq(c, 1, k) \in Seq(Node) /\ Trail(vis, SubSeq(c, 1, k), vis[c[k]]["right"])
          /\ On(SubSeq(c, 1, k)) = On(c) \ {c[i] : i \in k + 1 .. Len(c)}
      BY <1>1, <1>2, <2>3, <3>1, TrailUp
    <3> QED
      BY <1>1, <1>3, <2>1, <2>5, <3>2, <3>3
  <2> QED
    BY <2>4, <2>5
<1> QED
  BY <1>4, <1>5

-----------------------------------------------------------------------------
(* The nodes the child has come to *)

\* What a step of the library does to the tree's nodes, seen from the child.
LEMMA LibraryKeepsMembers ==
  ASSUME IInv, MembersOK, child \in {"child1", "child2"}, WriterStep,
         UNCHANGED <<child, todo>>
  PROVE  MembersOK'
<1> USE DEF MembersOK
<1>1. owner \in Owners /\ victim \in Pointer /\ (pc = "successor" => victim \in InUse)
  BY InUseFacts DEF IInv, LocalsOK, Searching
<1>2. CASE \/ PaintRoot \/ PaintDone \/ PaintRecolor \/ PaintRotate \/ PaintRotateTwice
  <2>1. pc = "paint" /\ pc' \in {"idle", "paint"} /\ UNCHANGED caller
    BY <1>2 DEF PaintRoot, PaintDone, PaintRecolor, PaintRotate, PaintRotateTwice, Return, Continue
  <2> QED
    BY <2>1 DEF InUse, caller
<1>3. CASE WalkLeft
  BY <1>3 DEF WalkLeft, Continue, caller, InUse
<1>4. CASE \/ RebalanceEnd \/ RebalanceRecolor \/ RebalanceFound \/ RotateRecolor
           \/ RotateRedSibling \/ RotateSibling \/ RotateNephew
  <2>1. /\ pc \in {"rebalance", "rotate"} /\ UNCHANGED caller
        /\ \/ pc' \in {"rebalance", "rotate"} /\ UNCHANGED <<call, victim>>
           \/ Unlinked(call, victim)
    BY <1>4 DEF RebalanceEnd, RebalanceRecolor, RebalanceFound, RotateRecolor, RotateRedSibling,
                RotateSibling, RotateNephew, Continue
  <2>2. pc' \in {"rebalance", "rotate", "init"} /\ UNCHANGED <<call, victim>>
    BY <2>1 DEF Unlinked
  <2> QED
    BY <2>1, <2>2 DEF caller, InUse
<1>5. CASE SpliceSuccessor
  <2>1. /\ pc = "successor" /\ Detach(victim)
        /\ pc' \in {"rebalance", "init"} /\ UNCHANGED <<call, victim>>
    BY <1>5 DEF SpliceSuccessor, RebalanceFrom, Unlinked
  <2>2. InUse' = InUse \ {victim} /\ stale' = {victim}
    BY <1>1, <2>1 DEF Detach, InUse, Owned, Owners
  <2> QED
    BY <2>1, <2>2
<1>6. CASE Reinit
  BY <1>6 DEF Reinit, Return, InUse
<1> QED
  BY <1>2, <1>3, <1>4, <1>5, <1>6 DEF WriterStep

\* A turn of the first loop links a node, a turn of the second begins to unlink
\* one.
LEMMA TurnKeepsMembers ==
  ASSUME IInv, MembersOK, Child1 \/ Child2
  PROVE  MembersOK' /\ todo' # Node
<1> USE DEF MembersOK
<1>1. owner \in Owners
  BY InUseFacts
<1>2. CASE Child1
  <2>1. PICK n \in Node : WriterInsert(root, n) /\ Turn("child1", n)
    BY <1>2 DEF Child1
  <2>2. /\ child = "child1" /\ child' = child /\ todo' = todo \ {n} /\ n \in todo
    BY <2>1 DEF Turn, Instruction
  <2>3. \E t \in Tree : owner' = [owner EXCEPT ![n] = t]
    <3>1. ASSUME NEW p \in Node, NEW d \in Dir, Link(p, d, n)
          PROVE  owner[p] \in Tree /\ owner' = [owner EXCEPT ![n] = owner[p]]
      BY <1>1, <3>1 DEF Link, Owners
    <3> QED
      BY <2>1, <3>1 DEF WriterInsert, Insert, AddRoot
  <2>4. pc = "idle" /\ stale' = stale \ {n} /\ pc' = "paint"
    BY <2>1 DEF WriterInsert, Insert, AddRoot, Link, Continue, Idle
  <2>5. InUse' = InUse \cup {n}
    BY <1>1, <2>3, DistinctAddresses DEF InUse, Owned, Owners
  <2> QED
    BY <2>2, <2>4, <2>5
<1>3. CASE Child2
  <2>1. PICK n \in Node : WriterRemove("unlink", n) /\ Turn("child2", n)
    BY <1>3 DEF Child2
  <2>2. /\ child = "child2" /\ child' = child /\ todo' = todo \ {n} /\ n \in todo /\ pc = "idle"
    BY <2>1 DEF Turn, Instruction, Idle
  <2>3. CASE UnlinkLeaf("unlink", n) \/ \E d \in Dir : UnlinkOneChild("unlink", n, d)
    <3>1. Detach(n) /\ pc' \in {"rebalance", "init"} /\ call' = "unlink" /\ victim' = n
      BY <2>3 DEF UnlinkLeaf, UnlinkOneChild, RebalanceFrom, Unlinked
    <3>2. InUse' = InUse \ {n} /\ stale' = {n}
      BY <1>1, <2>2, <3>1 DEF Detach, InUse, Owned, Owners
    <3> QED
      BY <2>2, <3>1, <3>2
  <2>4. CASE UnlinkFull("unlink", n)
    <3>1. pc' = "successor" /\ call' = "unlink" /\ victim' = n /\ UNCHANGED caller
      BY <2>4 DEF UnlinkFull
    <3> QED
      BY <2>2, <3>1 DEF caller, InUse
  <2> QED
    BY <2>1, <2>3, <2>4 DEF WriterRemove
<1> QED
  BY <1>2, <1>3

\* Every step leaves in the tree what the loops of the child say.
LEMMA MembersKept ==
  ASSUME IInv, ChildOK, MembersOK, [PNext]_pvars
  PROVE  MembersOK'
<1>1. CASE Child1 \/ Child2
  BY <1>1, TurnKeepsMembers
<1>2. CASE InLibrary
  <2>1. child \in {"child1", "child2"} /\ child' = child /\ todo' = todo
    BY <1>2, BusyChild DEF InLibrary
  <2>2. CASE WriterStep
    BY <2>1, <2>2, LibraryKeepsMembers
  <2>3. CASE Propagate
    BY <2>1, <2>3 DEF Propagate, Visible, vars, MembersOK, InUse
  <2> QED
    BY <1>2, <2>2, <2>3 DEF InLibrary
<1>3. CASE \/ Raise("SIGUSR1", "ready", "child1")
           \/ Raise("SIGURG", "child1", "child2")
           \/ Raise("SIGUSR2", "child2", "exit")
  BY <1>3 DEF Raise, Idle, MembersOK, lvars, vars, InUse
<1>4. CASE Traceme \/ Exit
  BY <1>4 DEF Traceme, Exit, MembersOK, lvars, vars, InUse
<1>5. CASE ParentNext \/ Ended \/ UNCHANGED pvars
  <2>1. UNCHANGED <<lvars, child, todo>>
    BY <1>5 DEF ParentNext, OnUsr1, OnUrg, OnUsr2, Event, OnTrap, WalkStep, WalkEnd, OnExit, Ended,
                pvars, childs
  <2> QED
    BY <2>1 DEF MembersOK, lvars, vars, InUse
<1> QED
  BY <1>1, <1>2, <1>3, <1>4, <1>5 DEF PNext, ChildNext

\* At the start the tree is empty.
LEMMA MembersInit ==
  ASSUME ParallelInit
  PROVE  MembersOK
BY DEF ParallelInit, LInit, Init, MembersOK, InUse, Owned

-----------------------------------------------------------------------------
(* The stages and the walk *)

\* Every step keeps the stages of the parent in order.
LEMMA EventsKept ==
  ASSUME Node # {}, IInv, ChildOK, ParentOK, MembersOK, EventsOK, [PNext]_pvars
  PROVE  EventsOK'
<1> USE DEF EventsOK
<1>1. CASE Child1 \/ Child2 \/ InLibrary
  BY <1>1, BusyChild DEF parents, ParentOK
<1>2. CASE Raise("SIGUSR1", "ready", "child1")
  BY <1>2 DEF Raise, parents
<1>3. CASE Raise("SIGURG", "child1", "child2") \/ Raise("SIGUSR2", "child2", "exit")
  BY <1>3 DEF Raise, parents
<1>4. CASE Traceme \/ Exit
  BY <1>4 DEF Traceme, Exit, parents, ChildOK
<1>5. CASE OnUsr1 \/ OnUrg \/ OnUsr2
  BY <1>5 DEF OnUsr1, OnUrg, OnUsr2, Event, Stopped, Resume, End, ChildOK
<1>6. CASE OnTrap
  BY <1>6 DEF OnTrap, childs
<1>7. CASE WalkStep \/ WalkEnd \/ OnExit
  BY <1>7 DEF WalkStep, WalkEnd, OnExit, Stopped, Resume, End, childs, ParentOK
<1>8. CASE Ended \/ UNCHANGED pvars
  BY <1>8 DEF Ended, pvars, childs, parents
<1> QED
  BY <1>1, <1>2, <1>3, <1>4, <1>5, <1>6, <1>7, <1>8 DEF PNext, ChildNext, ParentNext

\* Every step keeps the walk on its trail.
LEMMA WalkKept ==
  ASSUME vis \in Memory, NoLoops(vis), ChildOK, ParentOK, WalkOK, [PNext]_pvars
  PROVE  WalkOK'
<1>1. CASE WalkStep
  BY <1>1, WalkKeepsTrail
<1>2. CASE OnTrap
  <2>1. /\ walk' = [n |-> vis[root]["root"], cache |-> <<>>] /\ marks' = marks
        /\ parent' = "walk" /\ parent # "walk"
    BY <1>2 DEF OnTrap, Stopped
  <2>2. vis[root]["root"] \in Pointer /\ <<>> \in Seq(Node)
    BY OneTree DEF Memory, Side, root
  <2>3. marks = {}
    BY <2>1 DEF WalkOK
  <2> QED
    BY <2>1, <2>2, <2>3 DEF WalkOK, Trail
<1>3. CASE \/ ChildNext \/ OnUsr1 \/ OnUrg \/ OnUsr2 \/ WalkEnd \/ OnExit \/ Ended
           \/ UNCHANGED pvars
  <2>1. /\ UNCHANGED <<walk, marks>>
        /\ \/ walk.n = NULL
           \/ UNCHANGED <<parent, vis>>
    <3>1. CASE Child1 \/ Child2 \/ InLibrary
      BY <3>1, BusyChild DEF parents, ParentOK, WalkOK
    <3>2. CASE \/ Traceme \/ Exit \/ Raise("SIGUSR1", "ready", "child1")
               \/ Raise("SIGURG", "child1", "child2") \/ Raise("SIGUSR2", "child2", "exit")
      BY <3>2 DEF Traceme, Exit, Raise, lvars, shared, parents
    <3>3. CASE OnUsr1 \/ OnUrg \/ OnUsr2 \/ OnExit \/ WalkEnd
      BY <3>3 DEF OnUsr1, OnUrg, OnUsr2, OnExit, WalkEnd, Event, Stopped, WalkOK
    <3>4. CASE Ended \/ UNCHANGED pvars
      BY <3>4 DEF Ended, pvars, lvars, shared, parents
    <3> QED
      BY <1>3, <3>1, <3>2, <3>3, <3>4 DEF ChildNext
  <2> QED
    BY <2>1 DEF WalkOK
<1> QED
  BY <1>1, <1>2, <1>3 DEF PNext, ParentNext

\* Everything the test relies on.
PInv == LInv /\ ChildOK /\ ParentOK /\ MembersOK /\ EventsOK /\ WalkOK

\* All of it holds at the start,
LEMMA PInit ==
  ASSUME ParallelInit
  PROVE  PInv
<1>1. LInv
  BY LInitHolds DEF ParallelInit
<1>2. EventsOK
  BY DEF ParallelInit, EventsOK
<1>3. WalkOK
  <2>1. NoWalk \in [n : Pointer, cache : Seq(Node)] /\ NoWalk.n = NULL /\ NoWalk.cache = <<>>
    BY DEF NoWalk, Pointer
  <2> QED
    BY <2>1 DEF ParallelInit, WalkOK
<1> QED
  BY <1>1, <1>2, <1>3, ProtocolInit, MembersInit DEF PInv

\* and every step keeps it.
LEMMA PNextKeeps ==
  ASSUME InOrderStores, Node # {}, PInv, [PNext]_pvars
  PROVE  PInv'
<1>1. IInv /\ LInv'
  BY TestSteps, LNextKeeps DEF PInv, LInv
<1>2. vis \in Memory /\ NoLoops(vis)
  BY NoLoopSeen DEF PInv, LInv, VisInv
<1> QED
  BY <1>1, <1>2, ProtocolKept, MembersKept, EventsKept, WalkKept DEF PInv

\* No assertion of test-parallel.c fails, for any number of nodes: the tree has
\* the nodes the child takes it to have, the parent's walk comes to no node
\* twice and never runs out of stack, it is over before the memory is unmapped,
\* and every stage is seen.
THEOREM TestNeverFails == InOrderStores /\ Node # {} => (ParallelSpec => []NothingFails)
<1> SUFFICES ASSUME InOrderStores, Node # {}
             PROVE  ParallelSpec => []NothingFails
  OBVIOUS
<1>1. ParallelInit => PInv
  BY PInit
<1>2. PInv /\ [PNext]_pvars => PInv'
  BY PNextKeeps
<1>3. [ChildNext \/ ParentNext \/ Ended]_pvars => [PNext]_pvars
  BY DEF PNext
<1>4. PInv => NothingFails
  <2> SUFFICES ASSUME PInv
               PROVE  NothingFails
    OBVIOUS
  <2> DEFINE linked == {n \in Node : c_rbnode_is_linked(pf, n)}
  <2>1. Idle => linked = InUse
    <3>1. SUFFICES ASSUME Idle
                   PROVE  linked = InUse
      OBVIOUS
    <3>2. IInv /\ stale = {} /\ InUse \in SUBSET Node
      BY <3>1 DEF PInv, LInv, MembersOK, Idle, InUse, Owned
    <3> QED
      BY <3>2, FlagTells
  <2> HIDE DEF linked
  <2>2. Idle /\ child = "child1" => linked = Node \ todo
    BY <2>1 DEF PInv, MembersOK
  <2>3. Idle /\ child = "child2" => linked = todo
    BY <2>1 DEF PInv, MembersOK, Idle
  <2>4. /\ Stopped("SIGURG") => linked = Node
        /\ Stopped("SIGUSR2") => linked = {}
    <3>1. Stopped("SIGURG") => child = "child2" /\ Idle /\ todo = Node
      BY DEF PInv, ChildOK, Settled, Stopped
    <3>2. Stopped("SIGUSR2") => child = "exit" /\ Idle
      BY DEF PInv, ChildOK, Settled, Stopped
    <3> QED
      BY <3>1, <3>2, <2>1, <2>3 DEF PInv, MembersOK
  <2>5. parent = "walk" => mapped
    BY DEF PInv, ParentOK
  <2>6. parent = "walk" /\ walk.n # NULL =>
          walk.n \in Node \ marks /\ Len(walk.cache) < Cardinality(Node)
    <3> SUFFICES ASSUME walk.n # NULL
                 PROVE  walk.n \in Node \ marks /\ Len(walk.cache) < Cardinality(Node)
      OBVIOUS
    <3>1. /\ walk.n \in Node /\ walk.cache \in Seq(Node) /\ Trail(vis, walk.cache, walk.n)
          /\ marks = {walk.cache[i] : i \in 1 .. Len(walk.cache)}
      BY DEF PInv, WalkOK, Pointer
    <3>2. NoLoops(vis)
      BY NoLoopSeen DEF PInv
    <3>3. (\A i \in 1 .. Len(walk.cache) : walk.cache[i] # walk.n)
          /\ Len(walk.cache) < Cardinality(Node)
      BY <3>1, <3>2, TrailFacts
    <3> QED
      BY <3>1, <3>3
  <2>7. Stopped("0xef") => n_event = {"0x1", "0x2", "0x4"} /\ n_instr
    BY DEF PInv, ChildOK, EventsOK, Stopped
  <2> QED
    BY <2>2, <2>3, <2>4, <2>5, <2>6, <2>7 DEF NothingFails, linked
<1> QED
  BY <1>1, <1>2, <1>3, <1>4, PTL DEF ParallelSpec
=============================================================================
