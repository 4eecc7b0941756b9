SPECIFICATION FairMapSpec
CONSTANTS
  N = 10
  Node <- MCNode
  KeyOf <- MCKeyOf
  Tree = {t}
  NULL = NULL
  Removals = {"unlink"}
INVARIANTS
  NoRedRed
  BlackBalanced
  LogarithmicHeight
  LookupsCorrect
  SlotsCorrect
PROPERTY CallsReturn
