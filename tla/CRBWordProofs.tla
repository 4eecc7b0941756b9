--------------------------- MODULE CRBWordProofs ---------------------------
(***************************************************************************)
(* The integers and the records of CRBWord agree for all addresses that    *)
(* are aligned as the static assertions of c-rbtree.c demand.              *)
(***************************************************************************)
EXTENDS CRBWord, TLAPS

Bits(f) == (IF C_RBNODE_RED \in f THEN 1 ELSE 0) + (IF C_RBNODE_ROOT \in f THEN 2 ELSE 0)

Flags == SUBSET {C_RBNODE_RED, C_RBNODE_ROOT}

\* The word is the sum of address and flag bits, and without the root flag the
\* address is that of a node.
Glued ==
  /\ pf \in [Node -> Word] /\ word \in [Node -> Nat]
  /\ \A n \in Node :
       /\ word[n] = Address[pf[n].raw] + Bits(pf[n].flags)
       /\ C_RBNODE_ROOT \notin pf[n].flags => pf[n].raw \in Node \cup {NULL}

-----------------------------------------------------------------------------
(* Arithmetic *)

\* Flags are numbers below 4, and the bit operations are set operations.
LEMMA BitsFacts ==
  ASSUME NEW f \in Flags
  PROVE  /\ Bits(f) \in 0 .. 3
         /\ Has(Bits(f), RedBit) <=> C_RBNODE_RED \in f
         /\ Has(Bits(f), RootBit) <=> C_RBNODE_ROOT \in f
         /\ Set(Bits(f), RedBit) = Bits(f \cup {C_RBNODE_RED})
         /\ Clear(Bits(f), RedBit) = Bits(f \ {C_RBNODE_RED})
         /\ Set(Bits(f), RootBit) = Bits(f \cup {C_RBNODE_ROOT})
         /\ Clear(Bits(f), RootBit) = Bits(f \ {C_RBNODE_ROOT})
BY DEF Flags, Bits, Has, Set, Clear, RedBit, RootBit, C_RBNODE_RED, C_RBNODE_ROOT

\* An aligned address and flags do not disturb each other.
LEMMA JoinFacts ==
  ASSUME NEW a \in Nat, a % 4 = 0, NEW f \in 0 .. 3
  PROVE  /\ Join(a, f) = a + f
         /\ FlagBits(a + f) = f /\ RawBits(a + f) = a
         /\ Has(a + f, RootBit) <=> Has(f, RootBit)
<1>1. Join(a, f) = a + f
  BY DEF Join, Has, Set, RedBit, RootBit
<1>2. (a + f) % 4 = f
  OBVIOUS
<1>3. Has(a + f, RootBit) <=> Has(f, RootBit)
  BY DEF Has, RootBit
<1> QED
  BY <1>1, <1>2, <1>3 DEF FlagBits, RawBits

\* Addresses of objects leave the two lowest bits free.
LEMMA AddressFacts ==
  ASSUME NEW x \in Node \cup Tree \cup {NULL}
  PROVE  Address[x] \in Nat /\ Address[x] % 4 = 0
BY AddressesOfObjects, ObjectsAligned DEF Aligned

-----------------------------------------------------------------------------
(* The invariant *)

\* A write of a pointer and flags to both sides keeps them glued.
LEMMA WriteKeeps ==
  ASSUME Glued, NEW n \in Node, NEW p \in Node \cup Tree \cup {NULL}, NEW f \in Flags,
         C_RBNODE_ROOT \notin f => p \in Node \cup {NULL},
         pf' = [pf EXCEPT ![n] = [raw |-> p, flags |-> f]],
         word' = [word EXCEPT ![n] = Join(Address[p], Bits(f))]
  PROVE  Glued'
<1>1. Address[p] \in Nat /\ Address[p] % 4 = 0
  BY AddressFacts
<1>2. Join(Address[p], Bits(f)) = Address[p] + Bits(f) /\ Bits(f) \in 0 .. 3
  BY <1>1, BitsFacts, JoinFacts
<1>3. [raw |-> p, flags |-> f] \in Word
  BY DEF Word, Flags
<1>4. Join(Address[p], Bits(f)) \in Nat
  BY <1>1, <1>2
<1>5. pf' \in [Node -> Word] /\ word' \in [Node -> Nat]
  BY <1>3, <1>4 DEF Glued
<1>6. ASSUME NEW k \in Node
      PROVE  /\ word'[k] = Address[pf'[k].raw] + Bits(pf'[k].flags)
             /\ C_RBNODE_ROOT \notin pf'[k].flags => pf'[k].raw \in Node \cup {NULL}
  <2>1. CASE k = n
    BY <2>1, <1>2 DEF Glued
  <2>2. CASE k # n
    BY <2>2 DEF Glued
  <2> QED
    BY <2>1, <2>2
<1> QED
  BY <1>5, <1>6 DEF Glued

\* What Glued says of one word.
LEMMA WordFacts ==
  ASSUME Glued, NEW n \in Node
  PROVE  /\ pf[n].raw \in Node \cup Tree \cup {NULL} /\ pf[n].flags \in Flags
         /\ C_RBNODE_ROOT \notin pf[n].flags => pf[n].raw \in Node \cup {NULL}
         /\ FlagBits(word[n]) = Bits(pf[n].flags)
         /\ RawBits(word[n]) = Address[pf[n].raw]
         /\ Has(word[n], RootBit) <=> C_RBNODE_ROOT \in pf[n].flags
<1>1. pf[n].raw \in Node \cup Tree \cup {NULL} /\ pf[n].flags \in Flags
  BY DEF Glued, Word, Flags
<1>2. word[n] = Address[pf[n].raw] + Bits(pf[n].flags)
  BY DEF Glued
<1>3. Address[pf[n].raw] \in Nat /\ Address[pf[n].raw] % 4 = 0
  BY <1>1, AddressFacts
<1>4. /\ Bits(pf[n].flags) \in 0 .. 3
      /\ Has(Bits(pf[n].flags), RootBit) <=> C_RBNODE_ROOT \in pf[n].flags
  BY <1>1, BitsFacts
<1>5. /\ FlagBits(word[n]) = Bits(pf[n].flags) /\ RawBits(word[n]) = Address[pf[n].raw]
      /\ Has(word[n], RootBit) <=> Has(Bits(pf[n].flags), RootBit)
  BY <1>2, <1>3, <1>4, JoinFacts
<1> QED
  BY <1>1, <1>4, <1>5 DEF Glued

\* The word of every node holds its pointer and its flags at every step.
LEMMA GluedInvariant == WSpec => []Glued
<1>1. WInit => Glued
  <2> SUFFICES ASSUME WInit PROVE Glued
    OBVIOUS
  <2>1. \A n \in Node : Address[n] \in Nat
    BY AddressFacts
  <2> QED
    BY <2>1 DEF WInit, Glued, Word, Bits
<1>2. Glued /\ [WNext]_wvars => Glued'
  <2> SUFFICES ASSUME Glued, [WNext]_wvars PROVE Glued'
    OBVIOUS
  <2>1. ASSUME NEW n \in Node, C_RBNODE_INIT(n) PROVE Glued'
    <3>1. Address[n] = Join(Address[n], Bits({})) /\ {} \in Flags
      BY AddressFacts, JoinFacts DEF Bits, Flags
    <3> QED
      BY <2>1, <3>1, WriteKeeps DEF C_RBNODE_INIT, c_rbnode_set_parent_and_flags
  <2>2. ASSUME NEW n \in Node, PopRoot(n) PROVE Glued'
    <3>1. CASE C_RBNODE_ROOT \in pf[n].flags
      <4> DEFINE f == pf[n].flags \ {C_RBNODE_ROOT}
      <4>1. f \in Flags /\ Clear(FlagBits(word[n]), RootBit) = Bits(f)
        BY WordFacts, BitsFacts DEF Flags
      <4>2. pf' = [pf EXCEPT ![n] = [raw |-> NULL, flags |-> f]]
        BY <2>2, <3>1 DEF PopRoot, c_rbnode_pop_root, c_rbnode_is_root, c_rbnode_flags,
                          c_rbnode_set_parent_and_flags
      <4>3. word' = [word EXCEPT ![n] = Join(Address[NULL], Bits(f))]
        BY <2>2, <3>1, <4>1, WordFacts, AddressesOfObjects DEF PopRoot
      <4> QED
        BY <4>1, <4>2, <4>3, WriteKeeps
    <3>2. CASE C_RBNODE_ROOT \notin pf[n].flags
      <4>1. word' = word /\ pf' = pf
        BY <2>2, <3>2, WordFacts DEF PopRoot, c_rbnode_pop_root, c_rbnode_is_root, Glued
      <4> QED
        BY <4>1 DEF Glued
    <3> QED
      BY <3>1, <3>2
  <2>3. ASSUME NEW n \in Node, NEW t \in Tree, PushRoot(n, t) PROVE Glued'
    <3> DEFINE f == pf[n].flags \cup {C_RBNODE_ROOT}
    <3>1. f \in Flags /\ Set(FlagBits(word[n]), RootBit) = Bits(f)
      BY WordFacts, BitsFacts DEF Flags
    <3>2. pf' = [pf EXCEPT ![n] = [raw |-> t, flags |-> f]]
      BY <2>3, DistinctAddresses DEF PushRoot, c_rbnode_push_root, c_rbnode_flags,
                                     c_rbnode_set_parent_and_flags
    <3>3. word' = [word EXCEPT ![n] = Join(Address[t], Bits(f))]
      BY <2>3, <3>1 DEF PushRoot
    <3> QED
      BY <3>1, <3>2, <3>3, WriteKeeps
  <2>4. ASSUME NEW n \in Node, NEW p \in Node \cup {NULL}, LinkRed(n, p) PROVE Glued'
    <3>1. {C_RBNODE_RED} \in Flags /\ RedBit = Bits({C_RBNODE_RED})
      BY DEF Flags, RedBit, Bits, C_RBNODE_RED, C_RBNODE_ROOT
    <3> QED
      BY <2>4, <3>1, WriteKeeps DEF LinkRed, c_rbnode_set_parent_and_flags
  <2>5. ASSUME NEW n \in Node, NEW p \in Parents(n),
               KeepColor(n, p) \/ PaintBlack(n, p) \/ PaintRed(n, p)
        PROVE  Glued'
    <3>1. /\ p \in Node \cup Tree \cup {NULL}
          /\ C_RBNODE_ROOT \notin pf[n].flags => p \in Node \cup {NULL}
      BY WordFacts DEF Parents, c_rbnode_is_root, c_rbnode_raw
    <3>2. /\ pf[n].flags \in Flags
          /\ pf[n].flags \ {C_RBNODE_RED} \in Flags
          /\ pf[n].flags \cup {C_RBNODE_RED} \in Flags
      BY WordFacts DEF Flags
    <3>3. CASE KeepColor(n, p)
      BY <3>1, <3>2, <3>3, WordFacts, WriteKeeps
         DEF KeepColor, c_rbnode_set_parent_and_flags, c_rbnode_flags
    <3>4. CASE PaintBlack(n, p)
      <4>1. word' = [word EXCEPT ![n] = Join(Address[p], Bits(pf[n].flags \ {C_RBNODE_RED}))]
        BY <3>2, <3>4, WordFacts, BitsFacts DEF PaintBlack
      <4>2. C_RBNODE_ROOT \notin pf[n].flags \ {C_RBNODE_RED} => p \in Node \cup {NULL}
        BY <3>1 DEF C_RBNODE_RED, C_RBNODE_ROOT
      <4>3. pf' = [pf EXCEPT ![n] = [raw |-> p, flags |-> pf[n].flags \ {C_RBNODE_RED}]]
        BY <3>4, DistinctAddresses
           DEF PaintBlack, Reparent, c_rbnode_set_parent_and_flags, c_rbnode_flags
      <4> QED
        BY <3>1, <3>2, <4>1, <4>2, <4>3, WriteKeeps
    <3>5. CASE PaintRed(n, p)
      <4>1. word' = [word EXCEPT ![n] = Join(Address[p], Bits(pf[n].flags \cup {C_RBNODE_RED}))]
        BY <3>2, <3>5, WordFacts, BitsFacts DEF PaintRed
      <4>2. pf' = [pf EXCEPT ![n] = [raw |-> p, flags |-> pf[n].flags \cup {C_RBNODE_RED}]]
        BY <3>5 DEF PaintRed, c_rbnode_set_parent_and_flags, c_rbnode_flags
      <4> QED
        BY <3>1, <3>2, <4>1, <4>2, WriteKeeps
    <3> QED
      BY <2>5, <3>3, <3>4, <3>5
  <2>6. CASE UNCHANGED wvars
    BY <2>6 DEF wvars, Glued
  <2> QED
    BY <2>1, <2>2, <2>3, <2>4, <2>5, <2>6 DEF WNext
<1> QED
  BY <1>1, <1>2, PTL DEF WSpec

-----------------------------------------------------------------------------
(* Theorems *)

\* For all addresses that are multiples of 4, the integers of the source behave
\* like the records the other modules use: raw, flags, parent and is_linked see
\* no difference after any writes.
THEOREM WordsAlwaysRecords == WSpec => []WordsAreRecords
<1>1. Glued => WordsAreRecords
  <2> SUFFICES ASSUME Glued, NEW n \in Node
               PROVE  /\ RawBits(word[n]) = Address[c_rbnode_raw(pf, n)]
                      /\ Has(FlagBits(word[n]), RedBit) <=> c_rbnode_is_red(pf, n)
                      /\ Has(FlagBits(word[n]), RootBit) <=> c_rbnode_is_root(pf, n)
                      /\ ParentAddress(word[n]) = Address[c_rbnode_parent(pf, n)]
                      /\ ParentAddress(word[n]) # Address[n] <=> c_rbnode_is_linked(pf, n)
    BY DEF WordsAreRecords
  <2>1. RawBits(word[n]) = Address[c_rbnode_raw(pf, n)]
    BY WordFacts DEF c_rbnode_raw
  <2>2. /\ Has(FlagBits(word[n]), RedBit) <=> c_rbnode_is_red(pf, n)
        /\ Has(FlagBits(word[n]), RootBit) <=> c_rbnode_is_root(pf, n)
    BY WordFacts, BitsFacts DEF c_rbnode_is_red, c_rbnode_is_root
  <2>3. ParentAddress(word[n]) = Address[c_rbnode_parent(pf, n)]
    BY WordFacts, AddressesOfObjects DEF ParentAddress, c_rbnode_parent, c_rbnode_is_root
  <2>4. c_rbnode_parent(pf, n) \in Node \cup Tree \cup {NULL}
    BY WordFacts DEF c_rbnode_parent
  <2> QED
    BY <2>1, <2>2, <2>3, <2>4, AddressesOfObjects DEF c_rbnode_is_linked
<1> QED
  BY <1>1, GluedInvariant, PTL

\* Wherever a node is in its container, c_rbnode_entry leads from a parent word
\* to the container of the parent, and to NULL exactly if there is none.
THEOREM EntriesAlwaysContainers == WSpec => []EntriesAreContainers
<1>1. Glued => EntriesAreContainers
  <2> SUFFICES ASSUME Glued, NEW n \in Node
               PROVE  LET e == c_rbnode_entry(ParentAddress(word[n]))
                          p == c_rbnode_parent(pf, n)
                      IN  /\ e = 0 <=> p = NULL
                          /\ p # NULL => e + Offset = Address[p]
    BY DEF EntriesAreContainers
  <2> DEFINE p == c_rbnode_parent(pf, n)
  <2>1. ParentAddress(word[n]) = Address[p] /\ p \in Node \cup {NULL}
    BY WordFacts, AddressesOfObjects DEF ParentAddress, c_rbnode_parent, c_rbnode_is_root
  <2>2. CASE p = NULL
    <3>1. c_rbnode_entry(0) = 0
      BY ContainersFit DEF c_rbnode_entry
    <3> QED
      BY <2>1, <2>2, <3>1, AddressesOfObjects
  <2>3. CASE p # NULL
    <3> DEFINE a == Address[p]
    <3>1. p \in Node /\ a \in Nat /\ Offset \in Nat /\ Modulus \in Nat /\ Offset < a /\ a < Modulus
      BY <2>1, <2>3, ContainersFit, AddressFacts
    <3>2. c_rbnode_entry(a) = a - Offset
      <4> HIDE DEF a
      <4>1. (a - Offset) % Modulus = a - Offset
        BY <3>1
      <4> QED
        BY <3>1, <4>1 DEF c_rbnode_entry
    <3> QED
      BY <2>1, <2>3, <3>1, <3>2
  <2> QED
    BY <2>2, <2>3
<1> QED
  BY <1>1, GluedInvariant, PTL
=============================================================================
