SPECIFICATION FairLSpec
CONSTANTS
  N = 4
  Node <- MCNode
  KeyOf <- MCKeyOf
  Tree = {t}
  NULL = NULL
  Removals = {"unlink"}
  Reader = {r}
  InOrderStores = TRUE
  BoundOverlap = TRUE
  MaxOverlap = 2
PROPERTY LookupsEnd
