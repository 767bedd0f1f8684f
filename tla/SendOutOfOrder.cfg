SPECIFICATION Spec
CONSTANTS
  BlockSize = 3
  MaxBlocks = 3
  MaxBytes = 7
  Lens = {1, 2, 4}
  Dirs = {"out"}
INVARIANT SentInOrder
CHECK_DEADLOCK FALSE
