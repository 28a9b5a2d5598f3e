SPECIFICATION Spec
CONSTANTS
  Merchants = {m1, m2}
  OperatorAddresses = {o1}
  SettlementIds = {x1, x2, x3}
  Price = 2
  Caps = {2, 4}
  Amounts = {1, 2}
  Fees = {0, 1}
  MaxBatch = 2
  MaxEth = 4
SYMMETRY Symmetry
INVARIANTS
  Solvent
  LiabilityIsOwed
