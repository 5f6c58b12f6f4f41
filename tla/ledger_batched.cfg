SPECIFICATION Spec
CONSTANTS
  Address = {a, b}
  NoAddress = none
  Chains <- SmallChains
  BatchBlocks = 2
  Miner = a
  MaxBlocks = 3
INVARIANTS
  LedgerInvariant
  RowsMatchChain
  SummaryMatchesChain
CHECK_DEADLOCK FALSE
