SPECIFICATION PartsSpec
CONSTANTS
  Parts = {"turns", "streams"}
  User = user
  Outside = {other}
  Kinds = {"user", "outside", "handler"}
  BlockSize = 3
  MaxBlocks = 3
  MaxBytes = 8
  Lens = {1, 2, 4}
  Dirs = {"in", "out"}
INVARIANTS TurnInv MutualExclusion NoLostSignal StreamSound
PROPERTY Turns
CHECK_DEADLOCK FALSE
