SPECIFICATION Spec
CONSTANTS
  Address = {a, b}
  NoAddress = none
  Chains <- SmallChains
  BatchBlocks = 1
  Miner = a
  MaxBlocks = 3
INVARIANTS
  HistoryComplete
CHECK_DEADLOCK FALSE
