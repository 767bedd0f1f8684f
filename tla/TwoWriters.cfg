SPECIFICATION Spec
CONSTANTS
  Services = {s1, s2}
  s1 = s1
  s2 = s2
  Receivers = {s1}
  Net = Net
  ShmCount = 2
  Cap = 1
  MaxCrashes = 0
INVARIANTS OneWriter

CHECK_DEADLOCK FALSE
