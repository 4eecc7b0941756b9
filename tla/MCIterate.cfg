SPECIFICATION IterSpec
CONSTANTS
  Node = {n1, n2, n3, n4}
  Tree = {t1, t2}
  NULL = NULL
  Removals = {"unlink", "unlink_stale"}
SYMMETRY Symmetry
INVARIANTS
  VisitsInOrder
  SafeStaysLinked
  RestHangsTogether
PROPERTIES
  VisitsAll
  UnlinkLoopLeavesNothing
