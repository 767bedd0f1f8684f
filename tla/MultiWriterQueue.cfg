SPECIFICATION FairSpec
CONSTANTS
  Writers = {w1, w2}
  Size = 2
  MaxPuts = 2
  NULL = NULL
  NoOne = NoOne
INVARIANTS NoOverwrite ReadIsStable NoLostWakeup
PROPERTIES RefusedOnlyWhenFull ImplementsFifo Delivered
