------------------------------ MODULE CRBTests ------------------------------
(***************************************************************************)
(* The sequential tests of the repository, test-basic.c, test-map.c,       *)
(* test-misc.c, test-posix.c (its calls of the library, not those of       *)
(* tsearch(3p) it compares them with) and test-api.c, as programs that     *)
(* call the library: each is a script of phases. Where a test shuffles its *)
(* nodes with rand, every order is tried. What a test asserts is a         *)
(* predicate at the place of the assertion; loops that only read the tree  *)
(* are one step.                                                           *)
(***************************************************************************)
EXTENDS CRBIterate, CRBMap

ASSUME KeysDistinct == \A n, m \in Node : n # m => KeyOf[n] # KeyOf[m]
ASSUME TwoTrees == Cardinality(Tree) >= 2
ASSUME EvenNumberOfNodes == Cardinality(Node) >= 2 /\ Cardinality(Node) % 2 = 0

N == Cardinality(Node)

VARIABLES
  test,   \* the test that is executed
  line,   \* the phase of its script
  count,  \* the iterations of the phase that are done
  node    \* the node of the current iteration, NULL between two of them

script == <<test, line, count, node>>
tvars == <<allvars, script>>

-----------------------------------------------------------------------------
(* The scripts *)

Phase(what, n) == [do |-> what, times |-> n]

AddAll     == Phase("add", N)
RemoveAll  == Phase("remove", N)
RemoveHalf == Phase("remove", N \div 2)
AddHalf    == Phase("add", N \div 2)
Verify     == Phase("verify", 1)
Loop(m)    == Phase(m, 1)

\* test_shuffle of test-basic.c.
Basic == <<AddAll, RemoveAll, AddAll, RemoveHalf, AddHalf, RemoveHalf, AddHalf,
           RemoveHalf, AddHalf, RemoveHalf, AddHalf, RemoveAll>>

\* test_map: each of the modifying loops also as its entry variant.
Map == <<AddAll, Verify, RemoveAll,
         AddAll, Loop("safe"), AddAll, Loop("safe"),
         AddAll, Loop("unlink"), AddAll, Loop("unlink")>>

\* test_posix of test-posix.c.
Posix == <<AddAll, Verify, RemoveAll>>

\* test_move of test-misc.c; test_api of test-api.c, ten calls.
Misc == <<AddAll, Phase("move", 1), Phase("drain", N)>>
Api  == <<Phase("call", 10)>>

Script == [basic |-> Basic, map |-> Map, posix |-> Posix, misc |-> Misc,
           api |-> Api]

Done == line > Len(Script[test])
In(what) == ~Done /\ Script[test][line].do = what
More == ~Done /\ count < Script[test][line].times

\* Between two calls, with more of the phase to do.
Ready == Idle /\ loop = "none" /\ node = NULL /\ More

tree1 == CHOOSE t \in Tree : TRUE
tree2 == CHOOSE t \in Tree \ {tree1} : TRUE

TestInit ==
  /\ IterInit
  /\ test \in DOMAIN Script
  /\ line = 1 /\ count = 0 /\ node = NULL

-----------------------------------------------------------------------------
(* The phases *)

Begin(n) == node' = n /\ UNCHANGED <<test, line, count, iterator>>

\* test-map.c calls c_rbtree_find_slot; insert() of the other tests is the same
\* search.
TestAdd ==
  /\ Ready /\ In("add")
  /\ \E n \in Node \ InUse : Insert(tree1, n) /\ Begin(n)

TestRemove ==
  /\ Ready /\ In("remove")
  /\ \E n \in InUse : Unlink(n) /\ call' = "unlink" /\ Begin(n)

\* while (t2.root) c_rbnode_unlink(t2.root)
TestDrain ==
  /\ Ready /\ In("drain") /\ link[tree2]["root"] # NULL
  /\ Unlink(link[tree2]["root"]) /\ call' = "unlink" /\ Begin(link[tree2]["root"])

\* The call has returned: its node has been checked, on to the next.
NextNode ==
  /\ Idle /\ node # NULL
  /\ node' = NULL /\ count' = count + 1
  /\ UNCHANGED <<vars, iterator, test, line>>

TestMove ==
  /\ Ready /\ In("move")
  /\ c_rbtree_move(tree2, tree1)
  /\ count' = 1 /\ UNCHANGED <<iterator, test, line, node>>

TestVerify ==
  /\ Ready /\ In("verify")
  /\ count' = 1 /\ UNCHANGED <<vars, iterator, test, line, node>>

\* The loops that take the tree apart.
TestLoop ==
  /\ Ready /\ \E m \in {"safe", "unlink"} : In(m) /\ LoopStart(m, tree1)
  /\ count' = 1 /\ UNCHANGED <<test, line, node>>

TestLoopSteps ==
  /\ \/ LoopTest \/ LoopTestUnlink \/ LoopNext
     \/ loop = "safe" /\ BodyUnlinks /\ call' = "unlink"
     \/ at = "body" /\ (loop = "safe" => owner[iter] = NULL) /\ BodyEnds
  /\ UNCHANGED script

NextLine ==
  /\ Idle /\ loop = "none" /\ node = NULL /\ ~Done /\ ~More
  /\ line' = line + 1 /\ count' = 0
  /\ UNCHANGED <<vars, iterator, test, node>>

\* test-api.c adds the only node of its tree, which has no children, once more.
AddRootAgain(t, n) ==
  /\ link[t]["root"] = n /\ link[n] = NoLinks
  /\ pf' = LET w == c_rbnode_set_parent_and_flags(pf, n, NULL, {C_RBNODE_RED})
           IN  c_rbnode_push_root(w, n, t)
  /\ prev' = NULL
  /\ Continue("paint", n)
  /\ UNCHANGED <<link, caller>>

\* It initialises that node while it is linked, and then the tree.
InitLinked(n) ==
  /\ link' = [link EXCEPT ![n] = NoLinks]
  /\ pf' = c_rbnode_set_parent_and_flags(pf, n, n, {})
  /\ owner' = [owner EXCEPT ![n] = NULL]
  /\ UNCHANGED <<stale, locals>>

apiN == CHOOSE n \in Node : TRUE
apiM == CHOOSE m \in Node \ {apiN} : TRUE

ApiCall(i) ==
  \/ i = 1 /\ AddRoot(tree1, apiN)
  \/ i \in {2, 5} /\ Link(apiN, "left", apiM)
  \/ i = 3 /\ Unlink(apiM) /\ call' = "unlink"
  \/ i = 4 /\ AddRootAgain(tree1, apiN)
  \/ i = 6 /\ UnlinkLeaf("unlink_stale", apiM)
  \/ i = 7 /\ InitLinked(apiN)
  \/ i = 8 /\ c_rbnode_init(apiM)
  \/ i = 9 /\ c_rbtree_init(tree1)
  \* c_rbtree_move of an empty tree.
  \/ i = 10 /\ link[tree1]["root"] = NULL /\ UNCHANGED vars

TestCall ==
  /\ Ready /\ In("call")
  /\ ApiCall(count + 1)
  /\ Begin(IF count + 1 \in {1, 4, 7, 9, 10} THEN apiN ELSE apiM)

TestNext == \/ TestAdd \/ TestRemove \/ TestDrain \/ TestMove \/ TestVerify
            \/ TestLoop \/ TestLoopSteps \/ TestCall
            \/ NextNode \/ NextLine
            \/ Step /\ UNCHANGED <<iterator, script>>

\* A test that is at its end stays there.
TestEnd == Done /\ UNCHANGED tvars

\* A test is a sequential program that is scheduled until it ends.
TestSpec == TestInit /\ [][TestNext \/ TestEnd]_tvars /\ WF_tvars(TestNext)

-----------------------------------------------------------------------------
(* What the tests assert *)

Empty(t) == link[t]["root"] = NULL

\* The nodes a loop visits that begins with first and goes on with next, at most
\* N + 1 of them if it does not end.
Visits(first, next) ==
  LET ith[i \in 1 .. N + 1] ==
        IF i = 1 THEN first
        ELSE LET n == ith[i - 1] IN IF n = NULL THEN NULL ELSE next[n]
  IN  SubSeq(ith, 1, Cardinality({i \in 1 .. N + 1 : ith[i] # NULL}))

\* The steps of a loop, and back, as functions.
NextStep == [n \in Node |-> c_rbnode_next(n)]
PrevStep == [n \in Node |-> c_rbnode_prev(n)]
NextPost == [n \in Node |-> c_rbnode_next_postorder(n)]
PrevPost == [n \in Node |-> c_rbnode_prev_postorder(n)]

\* validate() of test-basic.c goes from node to node in order and returns how
\* many there are.
ValidateNext == [n \in Node |-> IF link[n]["right"] # NULL
                               THEN c_rbnode_leftmost(link[n]["right"])
                               ELSE ClimbFrom("right")[n]]

Validated(t) == Visits(c_rbnode_leftmost(link[t]["root"]), ValidateNext)

\* Its i_black is adjusted on the way: it grows on the way down to the first node,
\* which is not counted itself, and from a right child down, and falls on the way
\* up, until a node is left behind that is a left child.
FirstBlacks[n \in InUse \cup {NULL}] ==
  IF n = NULL \/ link[n]["left"] = NULL THEN 0
  ELSE Black(pf, n) + FirstBlacks[link[n]["left"]]

DownBlacks[n \in InUse \cup {NULL}] ==
  IF n = NULL THEN 0 ELSE Black(pf, n) + DownBlacks[link[n]["left"]]

UpBlacks[n \in InUse] ==
  LET p == c_rbnode_parent(pf, n)
  IN  IF p = NULL THEN 0
      ELSE IF n = link[p]["right"] THEN Black(pf, n) + UpBlacks[p]
      ELSE Black(pf, link[p]["left"])

n_black(t) == FirstBlacks[link[t]["root"]]

i_black(t, seq) ==
  LET at_node[i \in 1 .. Len(seq)] ==
        IF i = 1 THEN n_black(t)
        ELSE LET n == seq[i - 1]
             IN  IF link[n]["right"] # NULL
                 THEN at_node[i - 1] + DownBlacks[link[n]["right"]]
                 ELSE at_node[i - 1] - UpBlacks[n]
  IN  at_node

Ascending(seq) ==
  \A i \in 1 .. Len(seq) - 1 : KeyOf[seq[i]] < KeyOf[seq[i + 1]]

Validates(t, n) ==
  LET seq == Validated(t)
      blacks == i_black(t, seq)
  IN  /\ ~Empty(t) => c_rbnode_is_black(pf, link[t]["root"])
      /\ Len(seq) = n /\ Ascending(seq)
      /\ \A i \in 1 .. Len(seq) :
           LET x == seq[i]
               children == {link[x][d] : d \in Dir} \ {NULL}
           IN  /\ \A c \in children : c_rbnode_parent(pf, c) = x
               /\ c_rbnode_parent(pf, x) = NULL => c_rbnode_is_black(pf, x)
               /\ c_rbnode_is_red(pf, x) =>
                    \A c \in children : c_rbnode_is_black(pf, c)
               /\ children = {} => blacks[i] = n_black(t)

\* The number of nodes test-basic.c expects after iteration count + 1.
Expected == IF In("add") THEN N - Script[test][line].times + count + 1
                         ELSE N - count - 1

\* The markers of test-map.c: one loop sets them, the next clears them. A node
\* visited twice would be found with the wrong marker.
VisitsEach(seq) ==
  Len(seq) = N /\ \A i, j \in 1 .. N : i # j => seq[i] # seq[j]

\* At each node, its parent is marked or not, as are its children, by whether
\* the loop has been there: parents last or parents first.
Earlier(seq, i, x) == \E j \in 1 .. i - 1 : seq[j] = x

Family(seq, ChildrenFirst) ==
  \A i \in 1 .. Len(seq) :
    LET p == c_rbnode_parent(pf, seq[i])
    IN  /\ p # NULL => (Earlier(seq, i, p) <=> ~ChildrenFirst)
        /\ \A d \in Dir : LET c == link[seq[i]][d]
                          IN  c # NULL => (Earlier(seq, i, c) <=> ChildrenFirst)

ThereAndBack(seq, next, prev1) ==
  \A i \in 1 .. Len(seq) : next[seq[i]] # NULL => prev1[next[seq[i]]] = seq[i]

TraversalsVerified(t) ==
  LET inOrder   == Visits(c_rbtree_first(t), NextStep)
      reversed  == Visits(c_rbtree_last(t), PrevStep)
      postOrder == Visits(c_rbtree_first_postorder(t), NextPost)
      preOrder  == Visits(c_rbtree_last_postorder(t), PrevPost)
  IN  /\ VisitsEach(inOrder) /\ Ascending(inOrder)
      /\ ThereAndBack(inOrder, NextStep, PrevStep)
      /\ VisitsEach(reversed)
      /\ \A i \in 1 .. N - 1 : KeyOf[reversed[i]] >= KeyOf[reversed[i + 1]]
      /\ VisitsEach(postOrder) /\ Family(postOrder, TRUE)
      /\ ThereAndBack(postOrder, NextPost, PrevPost)
      /\ VisitsEach(preOrder) /\ Family(preOrder, FALSE)

\* The in-order loop and the lookups of test-posix.c.
LookupsVerified(t) ==
  LET inOrder == Visits(c_rbtree_first(t), NextStep)
  IN  /\ VisitsEach(inOrder) /\ Ascending(inOrder)
      /\ \A n \in Node : c_rbtree_find_node(t, KeyOf[n]) = n

\* test-api.c on the empty tree and the two nodes that are left over.
NothingToVisit ==
  /\ \A m \in Macro : First(m, tree1) = NULL
  /\ c_rbtree_last(tree1) = NULL /\ c_rbtree_last_postorder(tree1) = NULL
  /\ apiN = c_rbnode_leftmost(apiN) /\ apiN = c_rbnode_rightmost(apiN)
  /\ apiN = c_rbnode_leftdeepest(apiN) /\ apiN = c_rbnode_rightdeepest(apiN)
  /\ c_rbnode_next(apiN) = NULL /\ c_rbnode_prev(apiN) = NULL
  /\ c_rbnode_next_postorder(apiN) = NULL
  /\ c_rbnode_prev_postorder(apiN) = NULL

\* The assertions around the calls for a node; test-map.c checks each node only
\* in its first two loops over them. That c_rbnode_entry gives NULL for NULL, which
\* test-api.c asserts first, is part of EntriesAreContainers of CRBWord.
Checked == test = "map" /\ line <= 3

Found(n) == c_rbtree_find_node(tree1, KeyOf[n])
IsLinked(n) == c_rbnode_is_linked(pf, n)

BeforeCall ==
  /\ In("add") =>
       \A n \in Node \ InUse :
         /\ c_rbtree_find_slot(tree1, KeyOf[n]).l # Conflict
         /\ test \in {"basic", "misc"} \/ Checked => ~IsLinked(n)
         /\ Checked => Found(n) = NULL
  /\ In("remove") /\ Checked => \A n \in InUse : IsLinked(n) /\ Found(n) = n
  /\ In("move") => ~Empty(tree1) /\ Empty(tree2)
  /\ In("verify") => IF test = "map" THEN TraversalsVerified(tree1)
                                     ELSE LookupsVerified(tree1)
  /\ test = "basic" /\ line = 1 /\ count = 0 => Validates(tree1, 0)
  /\ In("call") /\ count = 0 => Empty(tree1) /\ ~IsLinked(apiN)

AfterCall ==
  /\ test = "basic" => Validates(tree1, Expected)
  /\ Checked /\ In("add") => IsLinked(node) /\ Found(node) = node
  /\ Checked /\ In("remove") => ~IsLinked(node) /\ Found(node) = NULL
  /\ In("call") =>
       /\ count + 1 \in {1, 2, 4, 5, 6} => IsLinked(node)
       /\ count + 1 \in {3, 7, 8} => ~IsLinked(node)
       /\ count + 1 \in {9, 10} => Empty(tree1)
       /\ count + 1 = 10 => NothingToVisit

AfterPhase ==
  /\ test = "map" /\ (In("remove") \/ In("safe") \/ In("unlink")) => Empty(tree1)
  /\ In("safe") \/ In("unlink") => Len(visited) = N
  /\ In("move") => Empty(tree1) /\ ~Empty(tree2)
  /\ In("drain") => Empty(tree1) /\ Empty(tree2)

-----------------------------------------------------------------------------
(* Properties *)

\* No assertion of the sequential tests fails, in whatever order the nodes are
\* shuffled: validate() accepts the tree after every call and counts what was
\* added, lookups find what is there, all loops visit each node in their order.
TestsPass ==
  /\ Ready => BeforeCall
  /\ Idle /\ node # NULL => AfterCall
  /\ Idle /\ loop = "none" /\ node = NULL /\ ~Done /\ ~More => AfterPhase
  /\ Idle /\ loop = "unlink" /\ at = "body" => ~IsLinked(iter)

\* Each test ends: no call and no loop of it goes on forever, and no phase finds
\* the tree in a state in which it cannot do its next call.
TestsEnd == <>Done
=============================================================================
