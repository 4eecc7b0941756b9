SPECIFICATION LSpec
CONSTANTS
  N = 3
  Node <- MCNode
  KeyOf <- MCKeyOf
  Tree = {t1, t2}
  NULL = NULL
  Removals = {"unlink", "unlink_stale"}
  Reader = {r}
  InOrderStores = TRUE
  BoundOverlap = TRUE
  MaxOverlap = 2
INVARIANTS
  LookupsSeeMembers
  NoVisibleLoops
