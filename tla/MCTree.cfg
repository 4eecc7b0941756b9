SPECIFICATION Spec
CONSTANTS
  Node = {n1, n2, n3, n4, n5, n6, n7}
  Tree = {t1, t2}
  NULL = NULL
  Removals = {"unlink"}
SYMMETRY Symmetry
INVARIANTS
  TypeOK
  Linkage
  AssertionsHold
  LinkedFlag
  OrderComplete
  TraversesInOrder
  TraversesPostOrder
  SubtreeEnds
  StepsFromUnlinked
PROPERTIES
  ImplementsLinearOrder
  LinkedNextToParent
