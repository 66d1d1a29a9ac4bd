SPECIFICATION EndpointSpec
CONSTANTS
  alice = alice
  bob = bob
  carol = carol
  dave = dave
  k1 = k1
  k2 = k2
  badKey = badKey
  Request = {r1, r2, r3}
  NoRequest = NoRequest
  NoAccount = NoAccount
  SystemAccount = NoAccount
  Account <- MCAccount
  Key <- MCKey
  UnusableKey <- MCUnusable
  OpeningBalance <- MCOpening
  Calls <- RepeatedCalls
  Cent = 4
  MinTransfer = 4
  MaxAmount = 12
SYMMETRY Symmetry
INVARIANTS
  ReplayInv
  RepliesAreTrue
  KeyPaysOnce
  ConflictMeansPaid
  GuardSeesCommittedBalance
CHECK_DEADLOCK FALSE
