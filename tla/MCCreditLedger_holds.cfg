SPECIFICATION Spec
CONSTANTS
  Wallets = {w1}
  Services = {s1, s2}
  Tickets = {t1, t2}
  Proofs = {p1}
  Nonces = {n1}
  Callers = {c1}
  Sweepers = {k1}
  Costs = {1, 2}
  WalletHoldCap = 2
  HoldTtl = 1
  SweepLimit = 1
  Owned = {s1, s2}
  LedgerEnabled = TRUE
  NonceStore = TRUE
  LastTick = 1
  LastBlock = 1
  MaxFunding = 2
SYMMETRY Symmetry
INVARIANTS
  HeldCreditsMatchHolds
  CapturedIffEarnedOnce
PROPERTIES
  ImplementsTicketEscrow
CHECK_DEADLOCK FALSE
