SPECIFICATION Spec
CONSTANTS
  alice = alice
  bob = bob
  carol = carol
  dave = dave
  system = system
  k1 = k1
  k2 = k2
  k3 = k3
  r1 = r1
  r2 = r2
  r3 = r3
  NoAccount = NoAccount
  NoRequest = NoRequest
  Account <- MCAccount
  Key <- MCKey
  OpeningBalance <- MCOpening
  Request = {r1, r2}
  Calls <- SubCentCalls
  SystemAccount = system
  Cent = 4
  MinTransfer = 4
  MaxAmount = 12
CHECK_DEADLOCK FALSE
INVARIANTS
  MoneyConserved
