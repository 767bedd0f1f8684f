SPECIFICATION PartsSpec
CONSTANTS
  Parts = {"connects", "forwarding", "packages", "start"}
  s1 = s1
  s2 = s2
  n1 = n1
  n2 = n2
  Nodes = {n1, n2}
  Services = {s1, s2}
  Traffic <- EitherTraffic
  MaxConns = 3
  NULL = NULL
  Cap = 1
  MaxBreaks = 1
  MaxRestarts = 1
  Given <- FivePackages
  Addressees = {"s1"}
  QueueCap = 1
  RecvLen = 1
  MaxMsgSize = 4
  MaxCuts = 1
  MaxBeats = 1
  OutOfMemory = FALSE
  Middlewares = {"m1", "m2"}
  Attaching = {"s1"}
  Files <- FileVersions
  ShmCount = 3
  MaxDeaths = 2
INVARIANTS ForwardingSound PackagesSound StartSound
PROPERTIES EachIsServed
CHECK_DEADLOCK FALSE
