---------------------------- MODULE CRBParallel ----------------------------
(***************************************************************************)
(* test-parallel.c: a child adds and removes nodes of a shared tree while  *)
(* its parent traces it with ptrace and walks the tree after every         *)
(* instruction.  An instruction of the child is a step of its program that *)
(* leaves the shared fields alone, or one store of CRBLockless.  The       *)
(* parent stops the child, so both take turns; what can go wrong is the    *)
(* protocol of the stops, and the tree the parent sees in between.         *)
(***************************************************************************)
EXTENDS CRBLockless

ASSUME OneTree == \E t \in Tree : Tree = {t}
ASSUME NoOtherReaders == Reader = {}

Signal == {"SIGUSR1", "SIGURG", "SIGUSR2", "SIGTRAP"}

VARIABLES
  child,   \* where the child is: the next thing it does
  todo,    \* the nodes its loop has still to come to, in any order
  status,  \* of the child: "running", the signal it is stopped with, or the
           \* code it exited with
  stepped, \* it was continued with PTRACE_SINGLESTEP
  parent,  \* "waitpid", "walk" or "done"
  n_event, \* the stages the parent has seen
  n_instr, \* it has seen an instruction (the count does not matter)
  walk,    \* the locals of test_parent_step: n and the stack cache[0 .. i_level)
  marks,   \* the nodes with visited set
  mapped,  \* the parent has the shared memory mapped
  result,  \* what test_parallel returns
  seen,    \* ghost: the parent has walked the memory as it is now
  missed   \* ghost: the child has overwritten a memory the parent did not walk

childs  == <<child, todo, status, stepped>>
parents == <<parent, n_event, n_instr, walk, marks, mapped, result>>
ghosts  == <<seen, missed>>
pvars   == <<lvars, childs, parents, ghosts>>

root == CHOOSE t \in Tree : TRUE

NoWalk == [n |-> NULL, cache |-> <<>>]

\* test_parent_start and fork.
ParallelInit ==
  /\ LInit
  /\ child = "traceme" /\ todo = {} /\ status = "running" /\ stepped = FALSE
  /\ parent = "waitpid" /\ n_event = {} /\ n_instr = FALSE
  /\ walk = NoWalk /\ marks = {} /\ mapped = TRUE /\ result = "none"
  /\ seen = TRUE /\ missed = FALSE

-----------------------------------------------------------------------------
(* The child *)

\* ptrace(PTRACE_TRACEME) may be refused with EPERM.
Traceme ==
  /\ status = "running" /\ child = "traceme"
  /\ \/ status' = "0xdf" /\ UNCHANGED child
     \/ child' = "ready" /\ UNCHANGED status
  /\ UNCHANGED <<lvars, todo, stepped, parents, ghosts>>

\* The child is stopped with the signal it raises. The next loop, if there is
\* one, goes over all nodes.
Raise(sig, from, to) ==
  /\ status = "running" /\ child = from /\ todo = {} /\ Idle /\ stores = <<>>
  /\ status' = sig /\ child' = to
  /\ todo' = IF to = "exit" THEN {} ELSE Node
  /\ UNCHANGED <<lvars, stepped, parents, ghosts>>

\* The trap after each instruction.
Instruction ==
  /\ status = "running" /\ status' = IF stepped THEN "SIGTRAP" ELSE "running"
  /\ seen' = (seen /\ vis' = vis)
  /\ missed' = (missed \/ (~seen /\ vis' # vis))
  /\ UNCHANGED <<child, stepped, parents>>

\* One turn of the loops of test_child1 and test_child2.
Turn(at, n) == /\ child = at /\ n \in todo /\ Idle /\ stores = <<>>
               /\ todo' = todo \ {n}
               /\ CallBegins /\ NoteRemoved /\ UNCHANGED reader
               /\ Instruction

Child1 == \E n \in Node : WriterInsert(root, n) /\ Turn("child1", n)

Child2 == \E n \in Node : WriterRemove("unlink", n) /\ Turn("child2", n)

\* Inside a function of the library.
InLibrary == (WriterStep \/ Propagate) /\ Instruction /\ UNCHANGED todo

Exit ==
  /\ status = "running" /\ child = "exit"
  /\ status' = "0xef"
  /\ UNCHANGED <<lvars, child, todo, stepped, parents, ghosts>>

ChildNext == \/ Traceme \/ Child1 \/ Child2 \/ InLibrary \/ Exit
             \/ Raise("SIGUSR1", "ready", "child1")
             \/ Raise("SIGURG", "child1", "child2")
             \/ Raise("SIGUSR2", "child2", "exit")

-----------------------------------------------------------------------------
(* The parent *)

End(r) == parent' = "done" /\ result' = r /\ UNCHANGED <<status, stepped>>

Resume(step) == /\ status' = "running" /\ stepped' = step
                /\ parent' = "waitpid" /\ UNCHANGED result

Stopped(sig) == parent = "waitpid" /\ status = sig

Event(e) == /\ n_event' = n_event \cup {e}
            /\ UNCHANGED <<lvars, child, todo, n_instr, walk, marks, ghosts>>

\* PTRACE_SINGLESTEP is not there (EIO) on some architectures.
OnUsr1 ==
  /\ Stopped("SIGUSR1") /\ Event("0x1")
  /\ Resume(TRUE) \/ End("77")
  /\ UNCHANGED mapped

\* Faulty: does not step any more.
OnUrgContinues ==
  /\ Stopped("SIGURG") /\ Event("0x2")
  /\ Resume(FALSE)
  /\ UNCHANGED mapped

\* test_parent_middle.
OnUrg ==
  /\ Stopped("SIGURG") /\ Event("0x2")
  /\ Resume(TRUE)
  /\ UNCHANGED mapped

\* Faulty: forgets to continue the child.
OnUsr2Waits ==
  /\ Stopped("SIGUSR2") /\ Event("0x4")
  /\ mapped' = FALSE
  /\ UNCHANGED <<status, stepped, parent, result>>

\* test_parent_end; from here on the child runs freely.
OnUsr2 ==
  /\ Stopped("SIGUSR2") /\ Event("0x4")
  /\ mapped' = FALSE
  /\ Resume(FALSE)

OnTrap ==
  /\ Stopped("SIGTRAP")
  /\ parent' = "walk" /\ n_instr' = TRUE
  /\ walk' = [n |-> vis[root]["root"], cache |-> <<>>]
  /\ seen' = TRUE
  /\ UNCHANGED <<lvars, childs, n_event, marks, mapped, result, missed>>

\* From a node without children: up the stack to a node with a right child that
\* the walk does not come from, the child of which is next; 0 if there is none.
Backtrack ==
  LET Below(i) == IF i = Len(walk.cache) THEN walk.n ELSE walk.cache[i + 1]
      right(i) == vis[walk.cache[i]]["right"]
  IN  Max({0} \cup {i \in 1 .. Len(walk.cache) :
                      right(i) # NULL /\ right(i) # Below(i)})

\* One turn of the loop of test_parent_step.
WalkStep ==
  LET n == walk.n
      cache == walk.cache
      down == IF vis[n]["left"] # NULL THEN vis[n]["left"] ELSE vis[n]["right"]
      i_level == Backtrack
  IN  /\ parent = "walk" /\ n # NULL
      /\ IF down # NULL
         THEN /\ marks' = marks \cup {n}
              /\ walk' = [n |-> down, cache |-> Append(cache, n)]
         ELSE /\ marks' = marks \ {cache[i] : i \in i_level + 1 .. Len(cache)}
              /\ walk' = [n |-> IF i_level = 0 THEN NULL
                                ELSE vis[cache[i_level]]["right"],
                          cache |-> SubSeq(cache, 1, i_level)]
      /\ UNCHANGED <<lvars, childs, parent, n_event, n_instr, mapped, result,
                     ghosts>>

WalkEnd ==
  /\ parent = "walk" /\ walk.n = NULL
  /\ Resume(TRUE)
  /\ UNCHANGED <<lvars, child, todo, n_event, n_instr, walk, marks, mapped, ghosts>>

\* waitpid reports that the child is gone.
OnExit ==
  /\ \/ Stopped("0xdf") /\ End("77")
     \/ Stopped("0xef") /\ End("0")
  /\ UNCHANGED <<lvars, child, todo, n_event, n_instr, walk, marks, mapped, ghosts>>

ParentNext == OnUsr1 \/ OnUrg \/ OnUsr2 \/ OnTrap \/ WalkStep \/ WalkEnd \/ OnExit

\* The test has ended. (After EIO the child is left behind, stopped.)
Ended == parent = "done" /\ UNCHANGED pvars

\* Both processes are scheduled.
ParallelSpec ==
  /\ ParallelInit /\ [][ChildNext \/ ParentNext \/ Ended]_pvars
  /\ WF_pvars(ChildNext) /\ WF_pvars(ParentNext)

-----------------------------------------------------------------------------
(* Properties *)

\* No assertion of child or parent fails: the tree has the nodes it should have
\* when a loop comes to them and at each stage, the walk gets through the memory
\* between any two instructions without coming to a node it is still below, all
\* marks are gone when the next walk begins, and all stages were seen at the end.
\* The parent does not touch the shared memory after it has unmapped it, nor more
\* of its stack than there are nodes.
NothingFails ==
  LET linked == {n \in Node : c_rbnode_is_linked(pf, n)}
      turn == status = "running" /\ Idle /\ stores = <<>>
  IN  /\ turn /\ child = "child1" => todo \cap linked = {}
      /\ turn /\ child = "child2" => todo \subseteq linked
      /\ Stopped("SIGURG") => linked = Node
      /\ Stopped("SIGUSR2") => linked = {}
      /\ parent = "walk" => mapped
      /\ parent = "walk" /\ walk.n # NULL =>
           walk.n \in Node \ marks /\ Len(walk.cache) < Cardinality(Node)
      /\ Stopped("0xef") => n_event = {"0x1", "0x2", "0x4"} /\ n_instr

\* The result can be trusted: 0 means that the parent has walked every memory
\* the child has produced, one by one, 77 that nothing was done.
ResultTells ==
  /\ result = "0" => seen /\ ~missed
  /\ result = "77" => vis = [x \in Node \cup Tree |-> NoLinks]

\* The test ends: parent and child do not wait for each other.
TestEnds == <>(parent = "done")
=============================================================================
