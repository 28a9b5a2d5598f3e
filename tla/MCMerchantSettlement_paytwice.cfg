SPECIFICATION Spec
CONSTANTS
  Earnings = {e1, e2}
  Merchants = {m1}
  Rollups = {r1, r2, r3}
  Calls = {a1, a2}
  Reconcilers = {c1}
  Cron = {}
  MaxMembers = 2
  Limit = 2
  None = None
SYMMETRY Symmetry
CHECK_DEADLOCK FALSE
INVARIANTS
  PaidOnce
