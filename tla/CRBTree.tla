------------------------------ MODULE CRBTree ------------------------------
(***************************************************************************)
(* The memory of c-rbtree (nodes and tree heads) and the functions of      *)
(* c-rbtree.c that modify it.  One step of this module is one straight     *)
(* piece of a function: the part before a loop, one iteration of a loop,   *)
(* or one rotation.  The writer owns the tree while it modifies it, so     *)
(* nothing of the writer's own view is visible between those steps; what   *)
(* concurrent readers see of it is the subject of CRBLockless.             *)
(*                                                                         *)
(* The source writes every case twice, once per direction ("same as above, *)
(* but mirrored"); here a case is written once, for a direction d and its  *)
(* mirror image Other(d).                                                  *)
(***************************************************************************)
EXTENDS CRBNode, Integers, FiniteSets

CONSTANT Removals   \* which of the two removal functions the caller uses

APICall == {"unlink", "unlink_stale"}

ASSUME RemovalsAreCalls == Removals \subseteq APICall

VARIABLES
  link,    \* link[x][s]: pointer field s of object x. A node has the fields
           \* left and right, a tree has root; other fields stay NULL
  pf,      \* pf[n]: the word __parent_and_flags of node n
  owner,   \* the caller's knowledge: the tree it linked a node into, or NULL
  stale,   \* the nodes unlinked and not reinitialised since: garbage memory
  pc,      \* where the writer is
  call,    \* the removal function being executed, "none" otherwise
  victim,  \* its argument
  cur,     \* the cursor of the function being executed (n, p or s)
  prev     \* the cursor previous of c_rbnode_rebalance_path

memory == <<link, pf>>
caller == <<owner, stale>>
locals == <<pc, call, victim, cur, prev>>
vars == <<link, pf, owner, stale, pc, call, victim, cur, prev>>

-----------------------------------------------------------------------------
(* Fields *)

Dir  == {"left", "right"}
Side == {"left", "right", "root"}
Other(d) == IF d = "left" THEN "right" ELSE "left"

Pointer == Node \cup {NULL}

NoLinks == [s \in Side |-> NULL]

\* The pointer field of p that holds n: p->left if equal, else p->right.
SideOf(m, p, n) == IF m[p]["left"] = n THEN "left" ELSE "right"

\* Faulty: c_rbnode_swap_child does not leave the root alone.
SwapChildOfTree(m, w, old, new) ==
  [m EXCEPT ![w[old].raw][SideOf(m, w[old].raw, old)] = new]

\* c_rbnode_swap_child and the store of c_rbnode_push_root. Every caller pairs
\* the two and exactly one has an effect: the first if old has a parent, the
\* second if old is a root.
PutInPlace(m, w, old, new) ==
  IF c_rbnode_is_root(w, old)
  THEN [m EXCEPT ![w[old].raw]["root"] = new]
  ELSE [m EXCEPT ![w[old].raw][SideOf(m, w[old].raw, old)] = new]

-----------------------------------------------------------------------------
(* Control *)

Idle   == pc = "idle"
Return == /\ pc' = "idle"
          /\ call' = "none"
          /\ victim' = NULL
          /\ cur' = NULL
          /\ prev' = NULL

Continue(label, c) == pc' = label /\ cur' = c /\ UNCHANGED <<call, victim>>

\* The end of c_rbnode_unlink_stale: c_rbnode_unlink goes on to c_rbnode_init.
Unlinked(api, n) ==
  IF api = "unlink"
  THEN pc' = "init" /\ call' = api /\ victim' = n /\ cur' = NULL /\ prev' = NULL
  ELSE Return

Init ==
  /\ link = [x \in Node \cup Tree |-> NoLinks]
  /\ pf = [n \in Node |-> [raw |-> n, flags |-> {}]]
  /\ owner = [n \in Node |-> NULL]
  /\ stale = {}
  /\ pc = "idle" /\ call = "none" /\ victim = NULL /\ cur = NULL /\ prev = NULL

-----------------------------------------------------------------------------
(* Insertion *)

\* c_rbtree_add with p = NULL: n becomes the root of an empty tree.
AddRoot(t, n) ==
  /\ Idle /\ owner[n] = NULL /\ link[t]["root"] = NULL
  /\ link' = [link EXCEPT ![n] = NoLinks, ![t]["root"] = n]
  /\ pf' = LET w == c_rbnode_set_parent_and_flags(pf, n, NULL, {C_RBNODE_RED})
           IN  c_rbnode_push_root(w, n, t)
  /\ owner' = [owner EXCEPT ![n] = t]
  /\ stale' = stale \ {n}
  /\ prev' = NULL
  /\ Continue("paint", n)

\* Faulty: the child fields of n keep what they held.
LinkKeepsFields(p, d, n) ==
  /\ Idle /\ owner[n] = NULL /\ owner[p] # NULL /\ link[p][d] = NULL
  /\ link' = [link EXCEPT ![p][d] = n]
  /\ pf' = c_rbnode_set_parent_and_flags(pf, n, p, {C_RBNODE_RED})
  /\ owner' = [owner EXCEPT ![n] = owner[p]]
  /\ stale' = stale \ {n}
  /\ prev' = NULL
  /\ Continue("paint", n)

\* Faulty: the node is stored in the other field of p.
LinkMirrored(p, d, n) ==
  /\ Idle /\ owner[n] = NULL /\ owner[p] # NULL /\ link[p][d] = NULL
  /\ link' = [link EXCEPT ![n] = NoLinks, ![p][Other(d)] = n]
  /\ pf' = c_rbnode_set_parent_and_flags(pf, n, p, {C_RBNODE_RED})
  /\ owner' = [owner EXCEPT ![n] = owner[p]]
  /\ stale' = stale \ {n}
  /\ prev' = NULL
  /\ Continue("paint", n)

\* Faulty: c_rbtree_paint is not called.
LinkUnpainted(p, d, n) ==
  /\ Idle /\ owner[n] = NULL /\ owner[p] # NULL /\ link[p][d] = NULL
  /\ link' = [link EXCEPT ![n] = NoLinks, ![p][d] = n]
  /\ pf' = c_rbnode_set_parent_and_flags(pf, n, p, {C_RBNODE_RED})
  /\ owner' = [owner EXCEPT ![n] = owner[p]]
  /\ stale' = stale \ {n}
  /\ UNCHANGED locals

\* c_rbnode_link, and c_rbtree_add with a parent: n fills the empty field d of
\* p. Which empty field is the caller's choice.
Link(p, d, n) ==
  /\ Idle /\ owner[n] = NULL /\ owner[p] # NULL /\ link[p][d] = NULL
  /\ link' = [link EXCEPT ![n] = NoLinks, ![p][d] = n]
  /\ pf' = c_rbnode_set_parent_and_flags(pf, n, p, {C_RBNODE_RED})
  /\ owner' = [owner EXCEPT ![n] = owner[p]]
  /\ stale' = stale \ {n}
  /\ prev' = NULL
  /\ Continue("paint", n)

\* c_rbtree_paint_path, Case 1: the root is painted black.
PaintRoot ==
  /\ pc = "paint"
  /\ c_rbnode_parent(pf, cur) = NULL
  /\ pf' = c_rbnode_set_parent_and_flags(pf, cur, c_rbnode_raw(pf, cur),
                                   c_rbnode_flags(pf, cur) \ {C_RBNODE_RED})
  /\ Return
  /\ UNCHANGED <<link, caller>>

\* c_rbtree_paint_path, Case 2: the parent is black, nothing is to be done.
PaintDone ==
  /\ pc = "paint"
  /\ c_rbnode_parent(pf, cur) # NULL
  /\ c_rbnode_is_black(pf, c_rbnode_parent(pf, cur))
  /\ Return
  /\ UNCHANGED <<memory, caller>>

Grandparent(n) == c_rbnode_parent(pf, c_rbnode_parent(pf, n))

Uncle(n) == LET p == c_rbnode_parent(pf, n)
                g == Grandparent(n)
            IN  link[g][Other(SideOf(link, g, p))]

RedParent(n) == RedNode(pf, c_rbnode_parent(pf, n))

\* c_rbtree_paint_path, Case 3: parent and uncle are red. Both become black,
\* the grandparent becomes red and is the next node to fix.
PaintRecolor ==
  LET p == c_rbnode_parent(pf, cur)
      g == Grandparent(cur)
      u == Uncle(cur)
      w1 == Reparent(pf, p, g, {C_RBNODE_RED})
      w2 == Reparent(w1, u, g, {C_RBNODE_RED})
  IN  /\ pc = "paint" /\ RedParent(cur) /\ RedNode(pf, u)
      /\ pf' = c_rbnode_set_parent_and_flags(w2, g, c_rbnode_raw(w2, g),
                               c_rbnode_flags(w2, g) \cup {C_RBNODE_RED})
      /\ Continue("paint", g)
      /\ UNCHANGED <<link, caller, prev>>

\* Faulty: the grandparent ends up on the wrong side.
RotateGrandparentOver(m, p, g, d) ==
  PutInPlace([m EXCEPT ![g][d] = m[p][d], ![p][d] = g], pf, g, p)

\* Faulty: the inner subtree is lost.
RotateGrandparentLoses(m, p, g, d) ==
  PutInPlace([m EXCEPT ![g][d] = NULL, ![p][Other(d)] = g], pf, g, p)

\* c_rbtree_paint_terminal, the rotation both its paths end with: p above g on
\* g's side d, with their colors switched.
RotateGrandparentLink(m, p, g, d) ==
  PutInPlace([m EXCEPT ![g][d] = m[p][Other(d)], ![p][Other(d)] = g], pf, g, p)

RotateGrandparentWord(m, w, p, g, d) ==
  LET t  == RootOf(w, g)
      gg == c_rbnode_parent(w, g)
      w1 == c_rbnode_pop_root(w, g)
      w2 == Reparent(w1, m[p][Other(d)], g, {C_RBNODE_RED})
      w3 == Reparent(w2, p, gg, {C_RBNODE_RED})
      w4 == c_rbnode_set_parent_and_flags(w3, g, p,
                               c_rbnode_flags(w3, g) \cup {C_RBNODE_RED})
  IN  c_rbnode_push_root(w4, p, t)

\* Case 4, the node is the outer grandchild: one rotation.
PaintRotate ==
  LET p == c_rbnode_parent(pf, cur)
      g == Grandparent(cur)
      d == SideOf(link, g, p)
  IN  /\ pc = "paint" /\ RedParent(cur) /\ ~RedNode(pf, Uncle(cur))
      /\ cur # link[p][Other(d)]
      /\ link' = RotateGrandparentLink(link, p, g, d)
      /\ pf' = RotateGrandparentWord(link, pf, p, g, d)
      /\ Return
      /\ UNCHANGED caller

\* Case 4, the node n is the inner grandchild: it is rotated above its parent
\* p first, and takes the place of p in the rotation above.
PaintRotateTwice ==
  LET n == cur
      p == c_rbnode_parent(pf, n)
      g == Grandparent(n)
      d == SideOf(link, g, p)
      x == link[n][d]
      m1 == [link EXCEPT ![p][Other(d)] = x, ![n][d] = p]
      w1 == Reparent(Reparent(pf, x, p, {}), p, n, {})
  IN  /\ pc = "paint" /\ RedParent(n) /\ ~RedNode(pf, Uncle(n))
      /\ n = link[p][Other(d)]
      /\ link' = RotateGrandparentLink(m1, n, g, d)
      /\ pf' = RotateGrandparentWord(m1, w1, n, g, d)
      /\ Return
      /\ UNCHANGED caller

-----------------------------------------------------------------------------
(* Removal *)

\* What c_rbnode_unlink and c_rbnode_unlink_stale require of their argument:
\* the former checks c_rbnode_is_linked and may be called on any node that was
\* initialised, the latter only on a linked node.
Removable(api, n) ==
  /\ Idle /\ api \in Removals
  /\ IF api = "unlink"
     THEN n \notin stale /\ c_rbnode_is_linked(pf, n)
     ELSE owner[n] # NULL

\* The caller's view of a node that has left the tree.
Detach(n) ==
  /\ owner' = [owner EXCEPT ![n] = NULL]
  /\ stale' = stale \cup {n}

\* Faulty: the removed node, not NULL, is taken for the child on the short side.
RebalanceFromVictim(api, n, p) ==
  /\ pc' = "rebalance" /\ call' = api /\ victim' = n /\ cur' = p /\ prev' = n

\* The call of c_rbnode_rebalance(p).
RebalanceFrom(api, n, p) ==
  /\ pc' = "rebalance" /\ call' = api /\ victim' = n /\ cur' = p /\ prev' = NULL

\* c_rbnode_unlink_stale, Case 1.0: a leaf.
UnlinkLeaf(api, n) ==
  LET w == c_rbnode_pop_root(pf, n)
  IN  /\ Removable(api, n)
      /\ \A d \in Dir : link[n][d] = NULL
      /\ link' = PutInPlace(link, pf, n, NULL)
      /\ pf' = w
      /\ Detach(n)
      /\ IF c_rbnode_is_black(w, n)
         THEN RebalanceFrom(api, n, c_rbnode_parent(w, n))
         ELSE Unlinked(api, n)

\* Cases 1.1 and 1.2: exactly one child, on side d; it replaces n and turns
\* black.
ReplaceWord(w, n, c) ==
  LET w1 == c_rbnode_pop_root(w, n)
      w2 == Reparent(w1, c, c_rbnode_parent(w1, n), {C_RBNODE_RED})
  IN  c_rbnode_push_root(w2, c, RootOf(w, n))

UnlinkOneChild(api, n, d) ==
  LET c == link[n][d]
  IN  /\ Removable(api, n)
      /\ link[n][d] # NULL /\ link[n][Other(d)] = NULL
      /\ link' = PutInPlace(link, pf, n, c)
      /\ pf' = ReplaceWord(pf, n, c)
      /\ Detach(n)
      /\ Unlinked(api, n)

\* Case 1.3, two children: look for the successor, from the right child on. The
\* source pops the root before it looks; nothing reads the word of n until the
\* successor is spliced in, so SpliceWord does the pop.
UnlinkFull(api, n) ==
  /\ Removable(api, n)
  /\ \A d \in Dir : link[n][d] # NULL
  /\ pc' = "successor" /\ call' = api /\ victim' = n /\ prev' = NULL
  /\ cur' = link[n]["right"]
  /\ UNCHANGED <<memory, caller>>

\* Faulty: the cursor is not moved.
WalkStays ==
  /\ pc = "successor"
  /\ link[cur]["left"] # NULL
  /\ Continue("successor", cur)
  /\ UNCHANGED <<memory, caller, prev>>

\* c_rbnode_leftmost(n->right), one iteration.
WalkLeft ==
  /\ pc = "successor"
  /\ link[cur]["left"] # NULL
  /\ Continue("successor", link[cur]["left"])
  /\ UNCHANGED <<memory, caller, prev>>

\* Case 1.3, the successor s is found: it takes the place and the color of n.
\* If s is a left child, its right child takes the place of s below its parent
\* p, and s takes over the right child of n; else p is s.
SpliceLink(m, n, s, p) ==
  LET m1 == IF s = m[n]["right"]
            THEN m
            ELSE [m EXCEPT ![p]["left"] = m[s]["right"], ![s]["right"] = m[n]["right"]]
  IN  PutInPlace([m1 EXCEPT ![s]["left"] = m[n]["left"]], pf, n, s)

SpliceWord(m, w, n, s, p) ==
  LET w1 == c_rbnode_pop_root(w, n)
      w2 == IF s = m[n]["right"] THEN w1 ELSE Reparent(w1, m[n]["right"], s, {})
      w3 == Reparent(w2, m[n]["left"], s, {})
      w4 == Reparent(w3, m[s]["right"], p, {C_RBNODE_RED})
      f  == c_rbnode_flags(w4, s)
      w5 == c_rbnode_set_parent_and_flags(w4, s, c_rbnode_parent(w4, n),
              IF c_rbnode_is_red(w4, n) THEN f \cup {C_RBNODE_RED}
                                        ELSE f \ {C_RBNODE_RED})
  IN  c_rbnode_push_root(w5, s, RootOf(w, n))

SpliceSuccessor ==
  LET n == victim
      s == cur
      p == IF s = link[n]["right"] THEN s ELSE c_rbnode_parent(pf, s)
  IN  /\ pc = "successor"
      /\ link[s]["left"] = NULL
      /\ link' = SpliceLink(link, n, s, p)
      /\ pf' = SpliceWord(link, pf, n, s, p)
      /\ Detach(n)
      /\ IF link[s]["right"] = NULL /\ c_rbnode_is_black(pf, s)
         THEN RebalanceFrom(call, n, p)
         ELSE Unlinked(call, n)

\* c_rbnode_rebalance_path: the side of p whose paths lack a black node, the
\* sibling of that side and the sibling's children.
HoleSide   == SideOf(link, cur, prev)
Sibling    == link[cur][Other(HoleSide)]
NearNephew == link[Sibling][HoleSide]
FarNephew  == link[Sibling][Other(HoleSide)]

\* Faulty: only the far nephew is looked at.
MustRotateForFar == c_rbnode_is_red(pf, Sibling) \/ RedNode(pf, FarNephew)

MustRotate == \/ c_rbnode_is_red(pf, Sibling)
              \/ RedNode(pf, NearNephew)
              \/ RedNode(pf, FarNephew)

\* The loop of c_rbnode_rebalance_path has passed the root.
RebalanceEnd ==
  /\ pc = "rebalance"
  /\ cur = NULL
  /\ Unlinked(call, victim)
  /\ UNCHANGED <<memory, caller>>

\* Cases 3 and 4 in the loop: the sibling turns red; the loop goes on with the
\* parent unless p was red and can turn black.
RebalanceRecolor ==
  LET w1 == c_rbnode_set_parent_and_flags(pf, Sibling, cur,
                        c_rbnode_flags(pf, Sibling) \cup {C_RBNODE_RED})
  IN  /\ pc = "rebalance" /\ cur # NULL
      /\ ~MustRotate
      /\ IF c_rbnode_is_red(w1, cur)
         THEN /\ pf' = Reparent(w1, cur, c_rbnode_parent(w1, cur), {C_RBNODE_RED})
              /\ Unlinked(call, victim)
         ELSE /\ pf' = w1
              /\ prev' = cur
              /\ Continue("rebalance", c_rbnode_parent(w1, cur))
      /\ UNCHANGED <<link, caller>>

\* The loop returns p: c_rbnode_rebalance_terminal takes over.
RebalanceFound ==
  /\ pc = "rebalance" /\ cur # NULL
  /\ MustRotate
  /\ Continue("rotate", cur)
  /\ UNCHANGED <<memory, caller, prev>>

\* Faulty: the near subtree of the sibling is lost.
RotateSiblingLoses(m, p, s, d) ==
  PutInPlace([m EXCEPT ![p][Other(d)] = NULL, ![s][d] = p], pf, p, s)

\* c_rbnode_rebalance_terminal, the fields in all its rotations of the sibling
\* s above p.
RotateSiblingLink(m, p, s, d) ==
  PutInPlace([m EXCEPT ![p][Other(d)] = m[s][d], ![s][d] = p], pf, p, s)

\* Case 2: a red sibling s and p switch colors; the child x of s on our side
\* becomes the sibling.
RotateRedSiblingWord(m, w, p, s, d) ==
  LET x  == m[s][d]
      w1 == c_rbnode_pop_root(w, p)
      w2 == Reparent(w1, x, p, {C_RBNODE_RED})
      w3 == Reparent(w2, s, c_rbnode_parent(w1, p), {C_RBNODE_RED})
      w4 == c_rbnode_set_parent_and_flags(w3, p, s,
                               c_rbnode_flags(w3, p) \cup {C_RBNODE_RED})
  IN  c_rbnode_push_root(w4, s, RootOf(w, p))

RotateRedSibling ==
  /\ pc = "rotate" /\ c_rbnode_is_red(pf, Sibling)
  /\ link' = RotateSiblingLink(link, cur, Sibling, HoleSide)
  /\ pf' = RotateRedSiblingWord(link, pf, cur, Sibling, HoleSide)
  /\ Continue("rotate", cur)
  /\ UNCHANGED <<caller, prev>>

\* Cases 3 and 4 after a rotation: sibling red, parent black.
RotateRecolor ==
  LET w1 == c_rbnode_set_parent_and_flags(pf, Sibling, cur,
                        c_rbnode_flags(pf, Sibling) \cup {C_RBNODE_RED})
  IN  /\ pc = "rotate" /\ ~MustRotate
      /\ pf' = Reparent(w1, cur, c_rbnode_parent(w1, cur), {C_RBNODE_RED})
      /\ Unlinked(call, victim)
      /\ UNCHANGED <<link, caller>>

\* Faulty: the far child keeps its color.
RotateSiblingKeepsColor(m, w, p, s, x, d) ==
  LET w1 == Reparent(c_rbnode_pop_root(w, p), x, s, {})
      w2 == Reparent(w1, m[s][d], p, {})
      w3 == c_rbnode_set_parent_and_flags(w2, s, c_rbnode_parent(w2, p),
                                          c_rbnode_flags(w2, p))
  IN  c_rbnode_push_root(Reparent(w3, p, s, {C_RBNODE_RED}), s, RootOf(w, p))

\* Case 6: the sibling s is rotated above p and takes its color; its far child
\* x turns black.
RotateSiblingWord(m, w, p, s, x, d) ==
  LET w1 == c_rbnode_pop_root(w, p)
      w2 == Reparent(w1, x, s, {C_RBNODE_RED})
      w3 == Reparent(w2, m[s][d], p, {})
      w4 == c_rbnode_set_parent_and_flags(w3, s, c_rbnode_parent(w3, p),
                                          c_rbnode_flags(w3, p))
      w5 == Reparent(w4, p, s, {C_RBNODE_RED})
  IN  c_rbnode_push_root(w5, s, RootOf(w, p))

RotateSibling ==
  /\ pc = "rotate" /\ c_rbnode_is_black(pf, Sibling) /\ RedNode(pf, FarNephew)
  /\ link' = RotateSiblingLink(link, cur, Sibling, HoleSide)
  /\ pf' = RotateSiblingWord(link, pf, cur, Sibling, FarNephew, HoleSide)
  /\ Unlinked(call, victim)
  /\ UNCHANGED caller

\* Case 5 and then Case 6: only the near child y of the sibling s is red. It is
\* rotated above s first and is the sibling of Case 6, s being its far child.
RotateNephew ==
  LET p == cur
      d == HoleSide
      s == Sibling
      y == NearNephew
      x == link[y][Other(d)]
      m1 == [link EXCEPT ![s][d] = x, ![y][Other(d)] = s, ![p][Other(d)] = y]
      w1 == Reparent(pf, x, s, {C_RBNODE_RED})
  IN  /\ pc = "rotate" /\ c_rbnode_is_black(pf, s)
      /\ ~RedNode(pf, FarNephew) /\ RedNode(pf, y)
      /\ link' = RotateSiblingLink(m1, p, y, d)
      /\ pf' = RotateSiblingWord(m1, w1, p, y, s, d)
      /\ Unlinked(call, victim)
      /\ UNCHANGED caller

\* Faulty: the fields are reset, the word is not.
ReinitKeepsWord ==
  /\ pc = "init"
  /\ link' = [link EXCEPT ![victim] = NoLinks]
  /\ stale' = stale \ {victim}
  /\ Return
  /\ UNCHANGED <<pf, owner>>

\* c_rbnode_init at the end of c_rbnode_unlink.
Reinit ==
  /\ pc = "init"
  /\ link' = [link EXCEPT ![victim] = NoLinks]
  /\ pf' = c_rbnode_set_parent_and_flags(pf, victim, victim, {})
  /\ stale' = stale \ {victim}
  /\ Return
  /\ UNCHANGED owner

-----------------------------------------------------------------------------
(* Other operations *)

\* Faulty: the word is set to NULL, not to the address of the node.
InitToZero(n) ==
  /\ Idle /\ owner[n] = NULL /\ n \in stale
  /\ link' = [link EXCEPT ![n] = NoLinks]
  /\ pf' = c_rbnode_set_parent_and_flags(pf, n, NULL, {})
  /\ stale' = stale \ {n}
  /\ UNCHANGED <<owner, locals>>

\* c_rbnode_init called by the user on a node that is in no tree.
c_rbnode_init(n) ==
  /\ Idle /\ owner[n] = NULL /\ n \in stale
  /\ link' = [link EXCEPT ![n] = NoLinks]
  /\ pf' = c_rbnode_set_parent_and_flags(pf, n, n, {})
  /\ stale' = stale \ {n}
  /\ UNCHANGED <<owner, locals>>

\* Faulty: the tree the nodes come from keeps its root.
MoveKeepsSource(to, from) ==
  LET r == link[from]["root"]
  IN  /\ Idle /\ link[to]["root"] = NULL /\ r # NULL
      /\ link' = [link EXCEPT ![to]["root"] = r]
      /\ pf' = c_rbnode_push_root(c_rbnode_pop_root(pf, r), r, to)
      /\ owner' = [n \in Node |-> IF owner[n] = from THEN to ELSE owner[n]]
      /\ UNCHANGED <<stale, locals>>

\* c_rbtree_move of a tree that is not empty (it has no effect on an empty one).
c_rbtree_move(to, from) ==
  LET r == link[from]["root"]
  IN  /\ Idle /\ link[to]["root"] = NULL /\ r # NULL
      /\ link' = [link EXCEPT ![to]["root"] = r, ![from]["root"] = NULL]
      /\ pf' = c_rbnode_push_root(c_rbnode_pop_root(pf, r), r, to)
      /\ owner' = [n \in Node |-> IF owner[n] = from THEN to ELSE owner[n]]
      /\ UNCHANGED <<stale, locals>>

\* c_rbtree_init on a tree that still has nodes (it has no effect on an empty
\* one). They are not visited: for a caller that leaves nodes stale.
c_rbtree_init(t) ==
  /\ Idle /\ "unlink_stale" \in Removals /\ link[t]["root"] # NULL
  /\ link' = [link EXCEPT ![t] = NoLinks]
  /\ owner' = [n \in Node |-> IF owner[n] = t THEN NULL ELSE owner[n]]
  /\ stale' = stale \cup {n \in Node : owner[n] = t}
  /\ UNCHANGED <<pf, locals>>

-----------------------------------------------------------------------------
(* Specification *)

\* The steps of a call in progress.
Step == \/ PaintRoot \/ PaintDone \/ PaintRecolor
        \/ PaintRotate \/ PaintRotateTwice
        \/ WalkLeft \/ SpliceSuccessor
        \/ RebalanceEnd \/ RebalanceRecolor \/ RebalanceFound
        \/ RotateRedSibling \/ RotateRecolor \/ RotateSibling \/ RotateNephew
        \/ Reinit

\* The calls that need no position in a tree.
Unlink(n) ==
  \E api \in APICall : \/ UnlinkLeaf(api, n)
                       \/ \E d \in Dir : UnlinkOneChild(api, n, d)
                       \/ UnlinkFull(api, n)

Move == \E to, from \in Tree : c_rbtree_move(to, from)

Next == \/ \E n \in Node : \/ \E t \in Tree : AddRoot(t, n)
                           \/ \E p \in Node, d \in Dir : Link(p, d, n)
                           \/ Unlink(n)
                           \/ c_rbnode_init(n)
        \/ Move
        \/ \E t \in Tree : c_rbtree_init(t)
        \/ Step

Spec == Init /\ [][Next]_vars

\* A call that was started is executed to its end; calls are never forced.
FairSpec == Spec /\ WF_vars(Step)

\* The fields hold pointers of their type, the words a pointer and two flags.
TypeOK ==
  /\ link \in [Node \cup Tree -> [Side -> Pointer]]
  /\ \A n \in Node : link[n]["root"] = NULL
  /\ \A t \in Tree, d \in Dir : link[t][d] = NULL
  /\ pf \in [Node -> Word]
  /\ owner \in [Node -> Tree \cup {NULL}]
  /\ stale \subseteq Node
  /\ pc \in {"idle", "paint", "successor", "rebalance", "rotate", "init"}
  /\ call \in Removals \cup {"none"}
  /\ victim \in Pointer /\ cur \in Pointer /\ prev \in Pointer
=============================================================================
