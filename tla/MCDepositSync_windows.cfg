SPECIFICATION Spec
CONSTANTS
  Requests = {r1, r2}
  Targets = {3}
  Amounts = {1}
  Price = 2
  StartBlock = 1
  Window = 2
  MaxSteps = 2
  MaxRetries = 1
  LedgerEnabled = TRUE
  MaxLag = 1
  LastBlock = 3
  MaxCredited = 2
SYMMETRY Symmetry
INVARIANTS
  
  CaughtUpMeansCredited
  ExactUntilRollback
