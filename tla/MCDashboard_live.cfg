SPECIFICATION LiveDashboard
CONSTANTS
  account = account
  page1 = page1
  page2 = page2
  User = {u1}
  Resource = {account, page1}
  Account = account
  Pages = {page1}
  FirstPage = page1
  TTL <- MCTTL
  BustedByTopUp <- MCBusted
  Fetch = {f1, f2}
  Nothing = Nothing
  MaxLatency = 1
  Faults = FALSE
  MaxPayments = 1
  StaleCap = 4
  ReloadDelay = 1
PROPERTIES
  PaymentShows
CHECK_DEADLOCK FALSE
