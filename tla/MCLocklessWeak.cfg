SPECIFICATION LSpec
CONSTANTS
  N = 4
  Node <- MCNode
  KeyOf <- MCKeyOf
  Tree = {t}
  NULL = NULL
  Removals = {"unlink"}
  Reader = {r}
  InOrderStores = FALSE
  BoundOverlap = TRUE
  MaxOverlap = 1
INVARIANT NoVisibleLoops
