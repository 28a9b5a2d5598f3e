SPECIFICATION Spec
CONSTANTS
  Requests = {r1}
  Targets = {1, 3}
  Amounts = {0, 3}
  Price = 2
  StartBlock = 1
  Window = 2
  MaxSteps = 2
  MaxRetries = 1
  LedgerEnabled = TRUE
  MaxLag = 0
  LastBlock = 3
  MaxCredited = 2
SYMMETRY Symmetry
INVARIANTS
  CreditedOnce
