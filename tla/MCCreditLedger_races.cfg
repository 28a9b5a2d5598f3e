SPECIFICATION FairSpec
CONSTANTS
  Wallets = {w1}
  Services = {s1}
  Tickets = {t1}
  Proofs = {p1}
  Nonces = {n1}
  Callers = {c1, c2}
  Sweepers = {k1}
  Costs = {2}
  WalletHoldCap = 2
  HoldTtl = 1
  SweepLimit = 1
  Owned = {s1}
  LedgerEnabled = FALSE
  NonceStore = FALSE
  LastTick = 1
  LastBlock = 1
  MaxFunding = 2
INVARIANTS
  EarningsMatchSpend
  OneDebitPerRequest
PROPERTIES
  OnlyOvertakenSyncLosesCredits
  OverdueHoldsEnd
CHECK_DEADLOCK FALSE
