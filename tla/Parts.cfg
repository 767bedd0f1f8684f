SPECIFICATION Spec
CONSTANTS
  Parts = {"memory", "timers", "logs", "config", "redis", "mysql", "proxies", "async", "texts", "ips"}
  Reloading = FALSE
  Stray = FALSE
  LogThreads = {"t1"}
  LogFaults = 2
  ResultObjects = {"r1"}
  NoMemory = FALSE
  g1 = g1
  n1 = n1
  n2 = n2
  RemoveCloses = FALSE
  Bar = Bar
  Starts = {"service", "client"}
  ReadWhileUsed = FALSE
INVARIANTS LogsSound ConfigSound RedisSound MySqlSound ProxiesSound AsyncSound InputsRead
PROPERTIES MemorySound TimersSound
CHECK_DEADLOCK FALSE
