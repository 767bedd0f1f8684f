SPECIFICATION Spec
CONSTANTS
  s1 = s1
  s2 = s2
  Net = Net
  Services = {s1, s2}
  Receivers = {s1}
  ShmCount = 2
  Cap = 1
  MaxCrashes = 1
INVARIANTS MessagesSound
PROPERTIES NobodyWaits
CHECK_DEADLOCK FALSE
