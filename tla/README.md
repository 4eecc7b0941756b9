# A verification of c-rbtree in TLA+

c-rbtree is an intrusive red-black tree: the caller embeds a `CRBNode` in each of its objects,
finds the place of a new node itself and lets the library link it, rebalance, step through the
tree and take nodes out. This directory holds a model of the library in TLA+, the properties it
is meant to have, model-checked with TLC on small trees, and proofs by TLAPS that the most
important ones hold for trees of any size.

References to lines are to `src/c-rbtree.c` unless a file is named.

## The system

| component | state | operations |
|---|---|---|
| insertion, removal, rebalancing (`c-rbtree.c` 380-1166) | `left`, `right` and `__parent_and_flags` of each node, `root` of each tree; the cursors of the function being executed | `c_rbtree_add`, `c_rbnode_link`, `c_rbnode_unlink`, `c_rbnode_unlink_stale`, `c_rbnode_init`, `c_rbtree_move`, `c_rbtree_init` |
| representation and accessors (`c-rbtree.h`, `c-rbtree-private.h`) | a color flag, a root flag and a pointer in one word; the pointer is the parent, for a root the tree, for an unlinked node the node itself | `c_rbnode_raw`, `_flags`, `_parent`, `_is_linked`, `_is_red`, `_is_black`, `_is_root`; `c_rbnode_entry`, from the node to the container |
| traversal (60-378) | none, functions of the memory | `c_rbnode_next`, `prev`, their post-order variants, first, last, leftmost, leftdeepest ... |
| search (`c-rbtree.h` 260-403) | none; the comparison callback is the caller's | `c_rbtree_find_node`, `c_rbtree_find_slot` |
| loop macros (`c-rbtree.h` 405-491) | the iterator and `_safe`, the next iterator, in the caller's variables | `c_rbtree_for_each*` |
| lockless readers (389-401, `test-parallel.c`) | what of the writer's stores a reader sees, the reader's cursor | lookups in parallel to the writer |
| tests (`test-*.c`) | what the test expects; in `test-parallel.c` a child process, the parent that traces it, and the stops between them | the calls of the library, in the order of each test |

Everything works on the same memory. Search and traversal read it. Insertion and removal write
it in several steps, between which the tree is out of balance and the writer relies on facts no
line checks. The loop macros read it, then let the caller's body write it, then go on with what
they read. Lockless readers see the stores of the writer one by one.

What is hard here, and what makes each component correct:

- *Rebalancing* works through loops of recoloring and at most three rotations, each case written twice,
  mirrored. Siblings and nephews are dereferenced unchecked, the hole left by a removal is known
  by a comparison with NULL, and the tree head lives in the parent word of whatever node is the root. Correct:
  pointers and words agree after every step, no NULL is dereferenced, the red-black rules hold,
  every call returns, the order of the nodes is not disturbed.
- *Lifetime of nodes*: nodes may be linked again with garbage in their memory. Correct: no garbage
  reaches a tree, `c_rbnode_is_linked` tells the truth where it may be asked.
- *Traversal* climbs and descends without a stack. Correct: it visits the order it claims, from
  any node, forth and back.
- *Loops that modify*: correct if every node is visited once although the tree is rebalanced, or
  taken apart, under the loop.
- *Words and containers*: a pointer and two flags share an integer; NULL must stay NULL when the offset
  in the container is taken off. Correct: no write mixes them up.
- *The parallel test*: parent and child alternate by signals. Correct: neither waits for ever, and success
  means that every state of the memory was looked at.
- *Lockless lookups*: correct if no store order shows a loop and no reader gets to a node that
  left the tree before it began.

The list of hazards, with their lines and the properties that would catch them, is in
`PROJECT.json`.

## The modules

`CRBTree` is the core: the memory (`link`, `pf`), what the caller knows (`owner`: which tree a
node was linked into, `stale`: which nodes were removed, or left in a tree that was given up, without being reset) and the locals of
the function being executed (`pc`, `call`, `victim`, `cur`, `prev`). An action is one straight
piece of the code:

| code | actions |
|---|---|
| `c_rbtree_add` 789, `c_rbnode_link` 721 | `AddRoot`, `Link` |
| `c_rbtree_paint_path` 608, one iteration | `PaintRoot` (case 1), `PaintDone` (2), `PaintRecolor` (3) |
| `c_rbtree_paint_terminal` 516 | `PaintRotate`, `PaintRotateTwice` (4) |
| `c_rbnode_unlink_stale` 1013 | `UnlinkLeaf` (1.0), `UnlinkOneChild` (1.1, 1.2), `UnlinkFull`, `WalkLeft`, `SpliceSuccessor` (1.3) |
| `c_rbnode_rebalance_path` 937, one iteration | `RebalanceEnd`, `RebalanceRecolor`, `RebalanceFound` |
| `c_rbnode_rebalance_terminal` 808 | `RotateRedSibling` (2), `RotateRecolor` (3, 4), `RotateNephew` (5 and 6), `RotateSibling` (6) |
| `c_rbnode_init` h:164, the end of `c_rbnode_unlink` h:243 | `c_rbnode_init`, `Reinit` |
| `c_rbtree_move` 500, `c_rbtree_init` h:258 | `c_rbtree_move`, `c_rbtree_init` |

`link[x][s]` is pointer field `s` of object `x`: `left` and `right` of a node, `root` of a tree.
`pf[n]` is the word `__parent_and_flags` as a record of pointer and set of flags. The mirrored
halves of the source become one definition for a side `d` and its mirror image `Other(d)`;
`PutInPlace` is the pair of `c_rbnode_swap_child` and the store in `c_rbnode_push_root`, exactly one of
which has an effect wherever the source calls them. The order of writes within an action is kept
where a later write reads an earlier one (the `w1`, `w2`, ... of the `...Word` operators).

- `CRBNode`: the constants, the word as a record and its accessors; everything else extends it.
- `CRBWord`: the same word as an unsigned integer, an address with two flag bits. Each write the functions do is
  made to both, and the accessors must see no difference. Also `c_rbnode_entry` in unsigned arithmetic.
- `CRBTreeInv`: the properties of the core.
- `LinearOrder`: the abstract specification, trees as sequences. `CRBOrder` maps a tree to its
  in-order sequence and states that `CRBTree` implements `LinearOrder`.
- `CRBTraverse`: the traversal functions, and their reference definitions in terms of in-order,
  post-order and pre-order sequences.
- `CRBIterate`: the loop macros around the actions of `CRBTree`, so that a body's `c_rbnode_unlink` runs in all its
  steps between two turns. `Macro` names the flavours; the condition, the body and the step of the `for` are
  actions of their own. Bodies do what c-rbtree.h:405-432 allows: the in-order safe loop may take the current node out (either way) and
  link it elsewhere, the clearing loop may link it elsewhere, the post-order safe loop may free it, any loop may break out, also
  the one that must not. `loop = "torn"` is the state after a break that left freed or reset nodes in the tree;
  `TearDown` is what is left to do then, `c_rbtree_init`.
- `CRBMap`: nodes with keys, the search functions, and insertion where `c_rbtree_find_slot` says; `InsertDuplicate` is the
  insertion of a caller who wants equal keys and, as c-rbtree.h:310-312 and 377 advise, searches for a slot itself: it may go
  either way at an equal key.
- `CRBLockless`: for each action of the writer the list of its stores, in the order of the source;
  they go one by one into `vis`, the memory that readers see. Parent words are left out: readers do
  not look at them.
- `CRBTests`: the sequential tests. A test is a script of phases (add all nodes, remove half of them, run a loop,
  ...), `line` and `count` say where it is. `validate()` of `test-basic.c` counts black nodes as the code does (`i_black`), step by step. A `rand`-shuffled array is a choice of any node that is left; a loop that only
  reads the tree is one step, its assertions are part of `TestsPass`. Calls run in all their steps. `test-api.c` is ten calls with a
  node each.
- `CRBParallel`: `test-parallel.c`. An instruction of the child is a store of `CRBLockless`, or a step of the child that leaves
  the fields alone; after each one it is stopped if it was resumed with `PTRACE_SINGLESTEP`. The parent's loop around `waitpid`
  has an action for each stop, and its walk (`test_parent_step`) an action for each turn of its loop. `seen` and `missed` are ghosts:
  whether the parent has walked the memory as it is, and whether one was overwritten unseen.
- `MC...`: the instances for TLC.
- `CRBTreeProofs`, `CRBMapProofs` (lockless lookups and the search), `CRBOrderProofs` (heights, orders and traversal),
  `CRBLoopProofs` and `CRBIterateProofs` (the loops), `CRBTestsProofs`, `CRBParallelProofs`, `CRBWordProofs`: the proofs.

Definitions whose comment begins with "Faulty" are not part of any specification: each is a
version of the definition that follows it with a plausible bug in it. `PROJECT.json` lists, for each property of each
run, the one that makes TLC find the property violated when it replaces the right version.

## What TLC checks

| run | instance | what it shows |
|---|---|---|
| `tree_positions` | 7 nodes, 2 trees, linked at *any* empty position, removed in any order, trees moved | `TypeOK`, `Linkage` (fields and words agree), `AssertionsHold` (assertions and unchecked dereferences), `LinkedFlag`, and that no call gets stuck, as deadlock is checked; `ImplementsLinearOrder`: insertion, removal and move change the order in one step as documented, rebalancing never; `OrderComplete`, `LinkedNextToParent`; traversal agrees with the reference orders on every tree that calls can build (`TraversesInOrder`, `TraversesPostOrder`, `SubtreeEnds`) and gives NULL on unlinked nodes (`StepsFromUnlinked`) |
| `tree_stale` | 4 nodes, 2 trees, both removal functions, `c_rbtree_init` | `Linkage`, `LinkedFlag` and `ImplementsLinearOrder` with garbage in nodes that are linked again; `ForeignTreesUntouched`: a call on one tree writes to no node of another (their heads are part of `Linkage`) |
| `map_search` | 10 nodes (two with the same key), 1 tree | `NoRedRed`, `BlackBalanced`, `LogarithmicHeight`; `LookupsCorrect` and `SlotsCorrect`, between calls and between the steps of a call, also with an equal key anywhere next to its twin; `CallsReturn`: every call ends |
| `loops` | 4 nodes, 2 trees, every flavour, every body | `VisitsInOrder`, `VisitsAll`, `SafeStaysLinked`; `UnlinkLoopLeavesNothing`: the clearing loop leaves an empty tree and reset nodes; `RestHangsTogether`: after a break out of the clearing loop, parent words still lead from every node not visited to the tree |
| `words` | 3 nodes, 2 trees at adjacent aligned addresses, offset 5, 8-bit words | `WordsAreRecords`, `EntriesAreContainers` |
| `lockless` | 6 nodes, 1 tree, 1 reader | `NoVisibleLoops` after every single store; `StoresProduceTree`: the stores add up to the tree of the writer |
| `lockless_stale` | 3 nodes, 2 trees, nodes reused, `c_rbtree_init`, 1 reader overlapping 2 calls | `LookupsSeeMembers`: a lookup only comes to nodes that are in a tree or left one while it runs |
| `lockless_lookups_end` | 4 nodes, 1 reader overlapping 2 calls | `LookupsEnd`: lookups end although the tree changes |
| `tests` | 8 nodes, 2 trees, the five scripts | `TestsPass`: no assertion of the sequential tests fails, in any order of the shuffles; `TestsEnd` |
| `test_parallel` | 7 nodes, parent and child | `NothingFails`: no assertion of parent or child fails and the walk gets through every memory, within its stack; `ResultTells`: result 0 means every memory was walked; `TestEnds` |
| `lockless_endless` | 3 nodes, 1 reader overlapping any number of calls | `LookupsEnd` is violated, see *Findings* |
| `lockless_weak_order` | 4 nodes, stores out of order | `NoVisibleLoops` is violated, see *Findings* |

*Bounds.* The number of nodes is the main one. Seven nodes at arbitrary positions reach every action
of `CRBTree` in both directions, at the root and below it; a removal that recolors a level before it rotates needs nine nodes, so `map_search` has
ten (with keys, so that the position follows from the tree and the state space stays small). With
eleven the sibling found up there could also be red; that case is left to the proof. Four nodes give the loops every
shape they distinguish: an inner node with one child on either side, with two, and a removal that rotates the next node to
another place. The tests use hundreds of nodes; eight is what makes each phase of theirs remove or add through every case that seven reach, with a
half that can be taken out and put back. Two trees are what can be confused with each other;
one reader is enough since readers do not write. `MaxOverlap` bounds the calls the writer
begins during one lookup; where `BoundOverlap` is FALSE there is no such bound. `words` needs objects
next to each other (so that a wrong bit makes an address of another object) and an offset that is neither 0 nor aligned; the proof has all others. Nothing else is
bounded.

*Symmetry.* Nodes and trees are interchangeable in `tree_positions`, `tree_stale` and `loops`: no function
compares addresses. The properties of steps these runs check, `[][...]`, are as symmetric as the actions. The runs with keys, with
addresses or with liveness properties use no symmetry.

*Fairness.* `FairSpec` and `FairMapSpec`: a call that was started goes on, weak fairness of `Step`; nothing
forces a call to start. `FairLSpec` adds that a store becomes visible eventually and that a running
lookup goes on. `TestSpec`: a test, a program with one thread, goes on. `ParallelSpec`: each of the two processes is scheduled, weak fairness of
`ChildNext` and of `ParentNext`; a stopped child has no step. These are the assumptions of any sequential program that is scheduled at all; strong fairness
is nowhere needed.

*Findings.* `c_rbtree_store` promises (391-394) that its volatile accesses show readers the stores in
order and hence no temporary loops. The cast `*(volatile CRBNode **)ptr` qualifies the node that is
pointed to and not the pointer that is stored: the access is not volatile, and the compiler may
swap two of them. Nor would a volatile access order the stores of a processor that reorders them.
`lockless` shows the promise kept if the order is (the situation `test-parallel.c` tests, one
instruction at a time), `lockless_weak_order` that a rotation (576-577) shows a loop if it is not.

The head of `test-parallel.c` promises that a lockless traversal "is guaranteed to end". Each memory a
reader sees is free of loops, but that is not the same for a reader that descends while the memory
changes: in `lockless_endless` a lookup of a key that is not in the tree goes from one neighbour of the key to the
other and back, as the writer, in any number of calls, puts either of them above the other.
`lockless_lookups_end` shows that it ends if the number of calls that overlap with it is bounded. In practice it
is: the writer would have to keep pace with the reader forever.

*Observations* that are no findings, as nothing in the repository says otherwise. `validate()` of
`test-basic.c` (its check 5, line 75) compares the black nodes above leaves only, nodes with no child at all: a chain of black nodes
would pass. `BlackBalanced` counts every missing child. `compare()` of `test-parallel.c` (71) returns the
address of the node minus the key, as an `int`: the order is the reverse of what `CRBCompareFunc` describes,
consistently so (the instance has `KeyOf[n] = -n`). `test_parent_middle` (156) uses `child_assert`, which would
kill the parent instead of aborting it. After EIO (293) the parent returns and leaves the
child stopped. `test-api.c` calls `c_rbtree_add` on the linked root (38), resets a linked node with `c_rbnode_init` (47) and only then its tree:
misuse that is harmless for a tree with one node; `AddRootAgain` and `InitLinked` are those calls.

## What is proved

The proofs hold for every set of nodes, of trees and of readers, each choice of removal functions and all
keys. They rest on the named assumptions of the modules: `DistinctAddresses` (nodes, trees and NULL are different addresses),
`RemovalsAreCalls`, `KeysAreIntegers` (the caller's comparison is a total order that may call nodes equal), for `CRBWord`
`AddressesOfObjects`, `ObjectsAligned` and `ContainersFit`, for `CRBParallel` `OneTree` and
`NoOtherReaders` (no reader but the walk of the parent), for
`CRBTests` `KeysDistinct`, `TwoTrees` and `EvenNumberOfNodes` (the tests have 512, 2048 and 128 nodes, and remove half of them). Where a proof
goes down a path to its end or counts nodes it also uses `NodesAreFinite`: nodes are objects in memory. Two theorems about
the lockless part have the hypothesis `InOrderStores`, without which they are false (see *Findings*).

| theorem | module | |
|---|---|---|
| `Invariance` | `CRBTreeProofs` | `Spec => []IInv` |
| `TypeCorrect`, `LinkageHolds`, `NoRedRedHolds`, `BalanceHolds`, `AssertionsAlwaysHold`, `LinkedFlagHolds` | | the parts of it that say what the core guarantees: `TypeOK`, `Linkage`, `NoRedRed`, black heights that all paths agree with but for the hole being repaired, `AssertionsHold`, `LinkedFlag` |
| `CallsKeepToTheirTree` | | `Spec => ForeignTreesUntouched` |
| `NodesOutsideLeftAlone` | | `Spec => [][FreeNodesKept]_vars`: no call writes to a node in no tree but to link or reset it |
| `NodesOutsideStaleOrReset` | | `Spec => []OutsideOK`: a node in no tree is stale or has NULL fields |
| `StoresProduceTrees` | `CRBMapProofs` | `LSpec => []StoresProduceTree`, in whatever order stores become visible |
| `ReadersSeeNoLoops` | | `InOrderStores => (LSpec => []NoVisibleLoops)` |
| `LookupsStayInTrees` | | `InOrderStores => (LSpec => []LookupsSeeMembers)` |
| `FieldsMakeNoLoops` | | `Spec => []NoLoops(link)` |
| `OrderInvariance` | | `MapSpec`: the keys in memory are in order at every step |
| `LookupsFindKeys`, `SlotsFitKeys` | | `MapSpec => []LookupsCorrect`, `MapSpec => []SlotsCorrect` |
| `PathsBalanced`, `HeightsLogarithmic` | `CRBOrderProofs` | `Spec => []BlackBalanced`, `Spec => []LogarithmicHeight` |
| `OrdersComplete` | | `Spec => []OrderComplete` |
| `ImplementsOrders` | | `Spec => ImplementsLinearOrder`, the refinement |
| `SearchInvariance` | | what it needs to know while the successor is looked for |
| `LinksNextToParent` | | `Spec => LinkedNextToParent` |
| `TraversesForwardsAndBackwards`, `TraversesChildrenFirst` | | `Spec => []TraversesInOrder`, `Spec => []TraversesPostOrder` |
| `SubtreeEndsReached`, `NoStepFromUnlinked` | | `Spec => []SubtreeEnds`, `Spec => []StepsFromUnlinked` |
| `LoopInvariance` | `CRBIterateProofs` | `IterSpec => []IterInv` |
| `LoopsVisitInOrder`, `LoopsVisitAll` | | `IterSpec => []VisitsInOrder`, `IterSpec => VisitsAll` |
| `NextNodeStaysLinked`, `RestStaysTogether` | | `IterSpec => []SafeStaysLinked`, `IterSpec => []RestHangsTogether` |
| `UnlinkLoopEmptiesTree` | | `IterSpec => UnlinkLoopLeavesNothing` |
| `TestInvariance` | `CRBTestsProofs` | `TestSpec => []TestInv` |
| `TestsSucceed` | | `TestSpec => []TestsPass` |
| `TestIsLockless` | `CRBParallelProofs` | `ParallelSpec => LSpec` |
| `ResultsTell`, `TestNeverFails` | | `ParallelSpec => []ResultTells`; with `InOrderStores` and at least one node, `ParallelSpec => []NothingFails` |
| `WordsAlwaysRecords`, `EntriesAlwaysContainers` | `CRBWordProofs` | `WSpec => []WordsAreRecords`, `WSpec => []EntriesAreContainers` |

### The core

None of the properties of `CRBTree` is inductive by itself. That a sibling is not NULL (941) follows from the heights: a side
that lacks a black node cannot face an empty one. Heights need the colors, colors need the pointers,
and the pointers need to know where the cursors are. So `IInv` has all of them:

- `Sound`: `Consistent` pointers and words, and types;
- `NoRedRed`, and `Balanced`: some assignment of heights `h` to nodes agrees along all child fields,
  with one missing black on side `HoleSide` of `Hole`;
- `CallerOK`, `LocalsOK`: what unlinked nodes hold, the types of the locals;
- `Painting`, `Searching`, `Rebalancing`, `Initialising`: what each program point knows. In
  `Searching`, the heights serve a second purpose: going down, a node's height falls or stays the
  same and its color changes from red to black (`Below`), so the successor is not above the victim
  and the two do not form a cycle when it is spliced in.

The first half of `CRBTreeProofs` has the lemmas about memories, for any memory `m`, words `w` and heights `h`: the neighbours of a node in a
consistent memory; each rotation keeps pointers, colors and heights; replacing, adding and removing a leaf or a node with one
child; putting the successor in the victim's place; and the chains of word updates of the code write the words those
lemmas speak of. The second half has one lemma per action (`...Keeps`), then the theorems. A double rotation (cases 4 and 5+6)
is seen as two rotations with the memory between them, which is a value of the lemmas' `m` and `w` and not a state.

`ForeignTreesUntouched` follows from `IInv` by what each function may write to: `OwnNodes(t)`, the nodes of one tree, and the node
it puts into it or resets; so do the theorems about nodes outside of all trees. Every parent, child, sibling or uncle a function gets hold of is in the same tree as the node it starts from, as child
fields and `owner` agree; a helper that is given such nodes writes to them only (`...Disturbs`).

### Lockless readers

`VisInv` says that the list of pending `stores` produces `link` from `vis` (`Produces`) and, if stores become visible in order, that no memory on the way
has a loop (`Path`). For each action of the writer it has to be shown that its list of stores does that: `LeadsOne` to `LeadsSix` put lists together one store at a
time, and each memory in between is free of loops because the store gives a node a child that has no way back to it. That
is a matter of subtrees (`Subtree(m, x)`, the least closed set with `x`): in a rotation the one store that makes the tree forget a
subtree comes before the one that puts something on top of it. `SearchBelow` (the successor search stays below
the victim) is what makes the splice loop-free. `ReadInv` adds that what a reader can reach are members, or nodes removed since it
began (`ClosedFor`, `Within`), and that a new node is stored somewhere only when its own fields are complete. The ghost `leaving` has the node that is
being taken out and is in no tree when the call ends.

### Order of the keys

"Left of" cannot be proved by recursion over the tree, so `InKeyOrder` gives each node a *range*, a set of keys: a node's key is in its own range,
and the range of a child is that part of its parent's range which is on its side. A rotation changes the ranges of two nodes
(`TurnKeepsOrder`), a removal leaves them alone, the splice gives the successor the victim's range after what is smaller than the
successor has been taken from what it passed on the way (`SpliceKeepsOrder`, with `Passed` and `SearchLeft`: the nodes between the
victim's right child and the successor, each the left child of the one before). `RotatingTurns` shows each of the five
actions that rotate to be one rotation, or two in a row, in the sense of `Turned`. A new node fits where a search for
its key leads: all ranges on the way get the key (`Way`, `SlotsFor`). The functions of `CRBMap` are then followed down: at each slot they come to,
the sought key is below the slot if it is in the tree at all (`Sought`), and the way has an end as there are no loops. Every node of a tree is
below its root (`BelowRoot`), otherwise the topmost ones outside had no parent (`SomeTop`). With equal keys, ranges of
both children have the key, and a search may find either node.

### Recursion over a tree

`NoLoops` is the principle of induction (`TreeInduction`: what holds for NULL, and for a node if it holds for its two children, holds
everywhere), and from it follows that recursive functions are what they are written to be (`Recursion`: there is one and only one
function with the equation; the relation `Derived` holds its graph). All that follows uses these two.

*Heights.* The heights that exist by `IInv` are those that `BlackHeight` computes, as both obey the same equation. A subtree whose paths have `h` black nodes
has at least `2^h - 1` nodes (`ManyNodes`), at most every second node on a path is red (`ShortPaths`), powers of two are monotonic as they count
the subsets of a set: together `LogarithmicHeight`.

*Sequences.* `Sequenced(U, m, f)` says that `f` gives the in-order sequences of the nodes `U` with the fields `m`. Its range is the subtree, hence
`OrderComplete`, and no node comes twice. A rotation only puts the parentheses of a concatenation elsewhere (`Reassociate`). A change below a node changes the
sequence of every node above by the same replacement and that of no other node (`ChangeAbove`, `OneTreeChanges`): a leaf linked below `p` replaces `<<p>>` by
`<<n, p>>` or `<<p, n>>`, a node removed with at most one child replaces `<<n>>` by `<<>>`. For the splice, the successor leaves the front of the sequence of
each node passed (`PassedChange`) and comes to stand where the victim was. So every action of `CRBTree` is a step of
`LinearOrder` or a stutter (`NextChangesOrders`), which is the refinement.

*Traversal.* The climbs of `c_rbnode_next` and its relatives are recursive along parent words; `ChainRecursion` gives them their equations, also where
nobody knows yet that they end. Going down from the root, the sequence of each subtree is a part of that of the whole tree (`PartOf`), and the nodes directly before and
after that part are where the climbs from the subtree's top end: `Nested` states it for a parent and its child, `NestedParts` concludes it for every
node, `Stepping` turns it into steps along the sequence. The argument is the same for in-order (`ClimbingNests`) and post-order
(`SiblingsNest`); only the parts differ.

### The loops

`IterInv` relates three things: the order `expected` the loop began with, the place of the loop in it, and the tree as it is now. `AtTurn` says
which of the nodes of `expected` `_iter` and `_safe` are. Of the tree it says, for the loops

- *in order*: its order is what `Remains` of `expected`, some of the nodes visited are missing. A removal in the body takes one node out of the
  order (`OneMoreGone`, by the refinement of `LinearOrder`), a rotation none, so the node behind the current one in the order of the tree is the
  one behind it in `expected`; that `c_rbnode_next` finds it is `TraversesInOrder`, in the rebalanced tree.
- *in post-order*: the nodes not visited, their fields and their words are as they were (`Layout`). Nothing else is
  sound: a visited node may be freed, reset or linked elsewhere, so the tree is no tree any more. `PostShape` says what these nodes alone tell of the
  post-order: the first child of a node comes before it, its subtree right up to it; a left child's parent comes after the right sibling's subtree, a
  right child's at once. When the loop begins it follows from the sequences of the subtrees; each turn needs less of it
  than the one before; and `c_rbnode_next_postorder` reads no more than it speaks of (`DeepestOfRest`).

While a loop takes its tree apart, `IInv` is false. `TornOK` says that the memory would be right if `c_rbtree_init` had been called on the tree:
`CutLink` and `DroppedOwners` are the memory and the owners then, all nodes of the tree being stale. Calls a body makes on other trees are
proved to do to that memory what they do to the real one (`ElsewhereIsCut`, with an instance `Cut` of the whole proof of `CRBMapProofs`), therefore they keep it right; and by
`NodesOutsideLeftAlone` they leave the nodes that were cut out alone, which is what `Layout` needs. The end of the loop, or `TearDown` after a
break, really gives the tree up: what was seen in the cut memory is the state then (`TornEnds`). The calls on other trees are the subject of
`CRBIterateProofs`, all else is in `CRBLoopProofs`.

`IterInv` has the assumptions of the core's proof, any number of nodes and trees and every body of the model.

### The sequential tests

A test uses the library only at the states its script leads to. `TestInv` says which these are, for all tests but `test-api.c` by adding to `IterInv`

- `PlaceOK`: the places of a script a test can be at, and what may go on there;
- `Sized`: all nodes are in one tree (`Holding`; `test_move` moves them), and how many of them are in it follows from `line` and `count`
  (`SizeAt`), plus or minus the node the current call has added or removed (`Changed`). `Chained` checks each script once: every phase begins with the
  number of nodes that the phase before it leaves;
- `InCall`: in the middle of a call, its node is the one the test is working on, and no node is stale but the one being removed;
- `Emptying`: while a loop takes the tree apart, the nodes it has left are in no tree;
- the keys in memory are in order, but while the clearing loop runs.

That a call keeps it is what the lemmas of the core, the search and the loops say; the counting is new (`AddKeeps`, `RemoveKeeps`, `NextLineKeeps`).
In turn the assertions follow from the theorems about all states. The loops of the tests over a tree are walks along its sequence
(`StepsThrough`), forwards and backwards, which visit what the sequence has; `validate()` climbs and descends like `c_rbnode_next`. Its
counter (`i_black`) is always the number of black nodes on the path from the root to the current node, without the first node of the order (`BlacksCounted`): the sums
it adds on the way down and takes off on the way up are differences of black heights (`DownBlacksAre`, `FirstBlacksAre`, `UpBlacksAre`). Above leaves these are the same
by `BlackBalanced`. What a walk marks before it comes to a node is the part of the sequence before it, and in the
post-order the children come sooner (`ChildrenSooner`). At the end of a loop the visited nodes are all of `expected`, which
had all nodes, so the tree has none left.

`test-api.c` misuses the library (see *Observations*), which `IInv` does not allow. `ApiState` has the memory of its two nodes after each
of the ten calls, and in the middle of the calls that take more than one step.

### The parallel test

Each step of the child and the parent of `test-parallel.c` is a step of `LNext` or leaves its variables alone (`TestIsLockless`), so what is proved of stores holds for the test. `PInv` adds the protocol
of signals and stops (`ChildOK`, `ParentOK`), the nodes the child's loops have linked and unlinked (`MembersOK`), the
order of the stages (`EventsOK`) and the walk (`WalkOK`): the parent's stack is a `Trail` of different nodes, each below the one before, as the memory has no loop. So it
comes to no node twice and its stack has room by the pigeonhole principle.

### The word

The invariant of `CRBWord` is `Glued`: each word is the address of the record's pointer plus 1 if the red flag is in its set
plus 2 if the root flag is. Every write keeps it because an address leaves remainder 0 modulo 4; the accessors follow from it
by division.

### Only model-checked

Liveness (`CallsReturn`, `LookupsEnd`, `TestEnds`, `TestsEnd`) needs fairness and ENABLED, which the prover does not handle, and that no
call gets stuck (the deadlock checks) needs ENABLED too. All other properties of the runs are proved.

Some definitions are written the way they are for the proofs' sake. The recursions of `CRBTraverse` that differ by side are operators that return a
function, as functions of two arguments are beyond the prover; and `LeftSiblingFrom` is defined for the nodes in a tree, because only there do parent words
lead to nodes. In `CRBTests` the steps of a loop are functions for the same reason (`NextStep` and the like).

## What is not modelled

- Misuse the documentation excludes, apart from breaking out of the clearing loop and what `test-api.c` does: adding at a slot that is
  out of date, asking `c_rbnode_is_linked` about a stale node, modifying other nodes than the current one in a loop. The guards of the actions are these preconditions.
- Memory reordering on the reader's side and readers that disagree on the order of two stores: there is
  one `vis` for all.
- Several writers: the library leaves their exclusion to the caller.
- Of the tests: the second tree that `test-posix.c` builds with tsearch(3p) and the times it measures, `malloc`, `mmap` or `fork` failing, and errors of `ptrace` other than EPERM and EIO
  (all of them assertions).
- The build, the symbol file and the documentation, which have no state of their own.

## Plan

1. Done: the core, its abstract specification, traversal, search, loops and lockless readers; the core's
   invariants proved.
2. Done: the word as an integer, with its proof; all loop macros with all bodies; `c_rbtree_init`; equal keys; the sequential tests
   and the parallel one.
3. Done: proofs of the rest of what the runs check of the core, of the lockless readers, the search, the heights, the orders
   and their refinement, the traversal and the parallel test.
4. Done: proofs of the properties of the loops.
5. Done: proof of `TestsPass`.
6. Liveness and the absence of deadlocks, should the prover come to handle ENABLED.
