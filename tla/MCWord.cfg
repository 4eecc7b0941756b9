SPECIFICATION WSpec
CONSTANTS
  n1 = n1
  n2 = n2
  n3 = n3
  t1 = t1
  t2 = t2
  NULL = NULL
  Node <- MCNode
  Tree <- MCTree
  Address <- MCAddress
  Offset = 5
  Modulus = 256
INVARIANTS
  WordsAreRecords
  EntriesAreContainers
