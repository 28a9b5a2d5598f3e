SPECIFICATION Spec
CONSTANTS
  Wallets = {w1}
  Services = {s1}
  Tickets = {t1}
  Proofs = {p1}
  Nonces = {n1}
  Callers = {c1}
  Sweepers = {k1}
  Costs = {1}
  WalletHoldCap = 2
  HoldTtl = 1
  SweepLimit = 1
  Owned = {s1}
  LedgerEnabled = TRUE
  NonceStore = TRUE
  LastTick = 2
  LastBlock = 1
  MaxFunding = 2
SYMMETRY Symmetry
INVARIANTS
  LedgerTailMatchesBalance
CHECK_DEADLOCK FALSE
