SPECIFICATION PartsSpec
CONSTANTS
  Parts = {"active", "life", "client", "server"}
  Dests <- TwoUsers
  Bad = "bad"
  MaxRequests = 3
  QueueCap = 2
  Registered <- ThreeModules
  MaxUpdates = 2
  HttpBlocks = {"b1"}
  HttpQueueCap = 1
  Unusual = {}
  SameAddress = FALSE
INVARIANTS ActiveSound LifeSound ClientSound ServerSound
PROPERTIES EachIsDone
CHECK_DEADLOCK FALSE
