SPECIFICATION LSpec
CONSTANTS
  N = 6
  Node <- MCNode
  KeyOf <- MCKeyOf
  Tree = {t}
  NULL = NULL
  Removals = {"unlink"}
  Reader = {r}
  InOrderStores = TRUE
  BoundOverlap = TRUE
  MaxOverlap = 1
INVARIANTS
  StoresProduceTree
  NoVisibleLoops
