SPECIFICATION FairSpec
CONSTANTS
  Earnings = {e1, e2}
  Merchants = {m1}
  Rollups = {r1, r2}
  Calls = {a1, a2}
  Reconcilers = {c1}
  Cron = {c1}
  MaxMembers = 2
  Limit = 2
  None = None
CHECK_DEADLOCK FALSE
INVARIANTS
  EarningsMirrorRollups
  ConfirmedWasPaid
  PaidAgainOnlyIfLost
PROPERTIES
  PaidIsNoticed
