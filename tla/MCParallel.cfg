SPECIFICATION ParallelSpec
CONSTANTS
  N = 7
  Node <- MCNode
  KeyOf <- MCKeyOf
  Tree = {t}
  NULL = NULL
  Removals = {"unlink"}
  Reader = {}
  InOrderStores = TRUE
  BoundOverlap = FALSE
  MaxOverlap = 0
INVARIANTS
  NothingFails
  ResultTells
PROPERTY TestEnds
