------------------------------ MODULE CRBWord ------------------------------
(***************************************************************************)
(* The word __parent_and_flags as the unsigned integer it is: the address  *)
(* of an object that is aligned to 4 bytes, with the flags in the two low  *)
(* bits.  Every write the functions do to a word is done here twice, on    *)
(* the integers of the source and on the records of CRBNode, and the       *)
(* accessors must not tell the two apart.                                  *)
(***************************************************************************)
EXTENDS CRBNode, Integers

CONSTANTS
  Address,    \* where each object is; NULL is at 0
  Offset,     \* offsetof: where a node is in the container of the caller
  Modulus     \* 2^w for an unsigned long of w bits

\* alignas(4) in struct CRBNode and struct CRBTree, and the static assertions
\* that it had its effect.
Aligned == \A x \in DOMAIN Address : Address[x] % 4 = 0

ASSUME AddressesOfObjects ==
  /\ Address \in [Node \cup Tree \cup {NULL} -> Nat]
  /\ Address[NULL] = 0
  /\ \A x, y \in DOMAIN Address : Address[x] = Address[y] => x = y

ASSUME ObjectsAligned == Aligned

\* A node is inside its container, which is neither at address 0 nor at the end
\* of the address space.
ASSUME ContainersFit ==
  /\ Offset \in Nat /\ Modulus \in Nat \ {0}
  /\ \A n \in Node : Offset < Address[n] /\ Address[n] < Modulus

VARIABLES
  word,    \* word[n]: the integer __parent_and_flags of node n
  pf       \* pf[n]: the same word as the record of CRBNode

wvars == <<word, pf>>

-----------------------------------------------------------------------------
(* Bits *)

RedBit  == 1
RootBit == 2

Has(w, bit)   == (w \div bit) % 2 = 1
Set(w, bit)   == IF Has(w, bit) THEN w ELSE w + bit
Clear(w, bit) == IF Has(w, bit) THEN w - bit ELSE w

\* p | f, for flags f.
Join(p, f) ==
  LET q == IF Has(f, RedBit) THEN Set(p, RedBit) ELSE p
  IN  IF Has(f, RootBit) THEN Set(q, RootBit) ELSE q

\* Faulty: only one bit is masked out.
RawOfOneFlag(w) == w - (w % 2)

\* w & ~C_RBNODE_FLAG_MASK and w & C_RBNODE_FLAG_MASK.
RawBits(w)  == w - (w % 4)
FlagBits(w) == w % 4

ParentAddress(w) == IF Has(w, RootBit) THEN 0 ELSE RawBits(w)

\* Faulty: node_from_rb of test-map.c, which is not for NULL.
NodeFromRb(what) == (what - Offset) % Modulus

\* (what ?: offset) - offset, in unsigned arithmetic.
c_rbnode_entry(what) ==
  ((IF what # 0 THEN what ELSE Offset) - Offset) % Modulus

-----------------------------------------------------------------------------
(* Writes *)

WInit ==
  /\ word = [n \in Node |-> Address[n]]
  /\ pf = [n \in Node |-> [raw |-> n, flags |-> {}]]

C_RBNODE_INIT(n) ==
  /\ word' = [word EXCEPT ![n] = Address[n]]
  /\ pf' = c_rbnode_set_parent_and_flags(pf, n, n, {})

\* c_rbnode_link and c_rbtree_add: a red node without a tree.
LinkRed(n, p) ==
  /\ word' = [word EXCEPT ![n] = Join(Address[p], RedBit)]
  /\ pf' = c_rbnode_set_parent_and_flags(pf, n, p, {C_RBNODE_RED})

\* Calls of c_rbnode_set_parent_and_flags that give a node a parent, or leave
\* it its raw pointer: the flags are kept, or red is masked out or added.
KeepColor(n, p) ==
  /\ word' = [word EXCEPT ![n] = Join(Address[p], FlagBits(word[n]))]
  /\ pf' = c_rbnode_set_parent_and_flags(pf, n, p, c_rbnode_flags(pf, n))

PaintBlack(n, p) ==
  /\ word' = [word EXCEPT ![n] = Join(Address[p], Clear(FlagBits(word[n]), RedBit))]
  /\ pf' = Reparent(pf, n, p, {C_RBNODE_RED})

PaintRed(n, p) ==
  /\ word' = [word EXCEPT ![n] = Join(Address[p], Set(FlagBits(word[n]), RedBit))]
  /\ pf' = c_rbnode_set_parent_and_flags(pf, n, p,
                                   c_rbnode_flags(pf, n) \cup {C_RBNODE_RED})

PopRoot(n) ==
  /\ word' = [word EXCEPT ![n] = IF Has(@, RootBit)
                                 THEN Join(0, Clear(FlagBits(@), RootBit))
                                 ELSE @]
  /\ pf' = c_rbnode_pop_root(pf, n)

PushRoot(n, t) ==
  /\ word' = [word EXCEPT ![n] = Join(Address[t], Set(FlagBits(@), RootBit))]
  /\ pf' = c_rbnode_push_root(pf, n, t)

\* A condition of the writes below that the source has nowhere: the parents its
\* functions give a node are other nodes or none, and a root keeps its tree.
Parents(n) == IF c_rbnode_is_root(pf, n)
              THEN {c_rbnode_raw(pf, n)}
              ELSE (Node \cup {NULL}) \ {n}

WNext == \E n \in Node :
           \/ C_RBNODE_INIT(n) \/ PopRoot(n)
           \/ \E t \in Tree : PushRoot(n, t)
           \/ \E p \in (Node \cup {NULL}) \ {n} : LinkRed(n, p)
           \/ \E p \in Parents(n) : KeepColor(n, p) \/ PaintBlack(n, p) \/ PaintRed(n, p)

WSpec == WInit /\ [][WNext]_wvars

-----------------------------------------------------------------------------
(* Properties *)

\* The accessors of the source find in the integer what the records of CRBNode
\* hold, after any sequence of writes: no address ever shows up as a flag and
\* no flag as a part of an address.
WordsAreRecords ==
  \A n \in Node :
    /\ RawBits(word[n]) = Address[c_rbnode_raw(pf, n)]
    /\ Has(FlagBits(word[n]), RedBit) <=> c_rbnode_is_red(pf, n)
    /\ Has(FlagBits(word[n]), RootBit) <=> c_rbnode_is_root(pf, n)
    /\ ParentAddress(word[n]) = Address[c_rbnode_parent(pf, n)]
    /\ ParentAddress(word[n]) # Address[n] <=> c_rbnode_is_linked(pf, n)

\* c_rbnode_entry of a parent is the container the parent is embedded in, also
\* where it is not at offset 0, and NULL for no parent: the loops over entries
\* end where the loops over nodes do.
EntriesAreContainers ==
  \A n \in Node :
    LET entry == c_rbnode_entry(ParentAddress(word[n]))
        p     == c_rbnode_parent(pf, n)
    IN  /\ entry = 0 <=> p = NULL
        /\ p # NULL => entry + Offset = Address[p]
=============================================================================
