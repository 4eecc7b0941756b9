SPECIFICATION TestSpec
CONSTANTS
  Nodes = 8
  Node <- MCNode
  KeyOf <- MCKeyOf
  Tree = {t1, t2}
  NULL = NULL
  Removals = {"unlink", "unlink_stale"}
INVARIANT TestsPass
PROPERTY TestsEnd
