SPECIFICATION Spec
CONSTANTS
  Request = {r1, r2, r3, r4}
  Absent = Absent
  Max = 2
  Window = 4
  MaxLatency = 1
  MaxOpen = 3
  RedisFails = TRUE
  Horizon = 10
SYMMETRY Symmetry
INVARIANTS
  RefusalsDeserved
  WindowsEnd
CHECK_DEADLOCK FALSE
