SPECIFICATION Spec
CONSTANTS
  Conns = {a, b}
  NULL = NULL
  CheckTimes = 1
  MaxIds = 2
  Uses = {"keep", "send", "close", "heartbeat"}
INVARIANTS ListSound DataIsQueued EndsClean
SYMMETRY Symmetry
CHECK_DEADLOCK FALSE
