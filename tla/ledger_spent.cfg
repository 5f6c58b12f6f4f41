SPECIFICATION Spec
CONSTANTS
  Address = {a, b}
  NoAddress = none
  Chains <- SmallChains
  BatchBlocks = 1
  Miner = a
  MaxBlocks = 2
INVARIANTS
  SpentIsRemoved
CHECK_DEADLOCK FALSE
