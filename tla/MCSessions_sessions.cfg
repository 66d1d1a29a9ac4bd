SPECIFICATION Spec
CONSTANTS
  User = {ann, bea}
  Unlucky = {bea}
  Request = {r1, r2, r3, r4}
  TokenLife = 2
  BlacklistTTL = 2
  MaxNow = 2
SYMMETRY Symmetry
INVARIANTS
  StaleStayOut
  LoggedOutStayOut
  RefusalsDeserved
CHECK_DEADLOCK FALSE
