SPECIFICATION FairSpec
CONSTANTS
  r1 = r1
  r2 = r2
  r3 = r3
  k1 = k1
  k2 = k2
  Request = {r1, r2, r3}
  Key = {k1, k2}
  KeyOf <- MCKeyOf
INVARIANTS
  CleanExitLeavesNobody
  OneRowPerPayment
  UnauditedForAReason
PROPERTIES
  ShutdownEnds
