SPECIFICATION DashboardSpec
CONSTANTS
  account = account
  page1 = page1
  page2 = page2
  User = {u1}
  Resource = {account, page1, page2}
  Account = account
  Pages = {page1, page2}
  FirstPage = page1
  TTL <- MCTTL
  BustedByTopUp <- MCBusted
  Fetch = {f1, f2}
  Nothing = Nothing
  MaxLatency = 1
  Faults = TRUE
  MaxPayments = 1
  StaleCap = 4
  ReloadDelay = 1
SYMMETRY Symmetry
INVARIANTS
  SpinnerHasReason
  StalenessBounded
CHECK_DEADLOCK FALSE
