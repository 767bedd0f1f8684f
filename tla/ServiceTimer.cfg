SPECIFICATION FairSpec
CONSTANTS
  Blocks = {1, 2, 3}
  QueueSize = 2
  MaxOnline = 2
  Counts = {2, 9}
  Endless = 9
  MaxTimers = 3
INVARIANTS BlocksSound
PROPERTIES KillIsFinal Fires
CHECK_DEADLOCK FALSE
