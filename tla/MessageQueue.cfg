SPECIFICATION FairSpec
CONSTANTS
  Size = 10
  HeaderSize = 2
  Lens = {1, 3}
  IdCount = 4
  Nothing = Nothing
INVARIANTS RingSound
PROPERTIES ImplementsFifo Delivered
