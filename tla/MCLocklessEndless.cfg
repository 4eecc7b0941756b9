SPECIFICATION FairLSpec
CONSTANTS
  N = 3
  Node <- MCNode
  KeyOf <- MCKeyOf
  Tree = {t}
  NULL = NULL
  Removals = {"unlink"}
  Reader = {r}
  InOrderStores = TRUE
  BoundOverlap = FALSE
  MaxOverlap = 0
PROPERTY LookupsEnd
