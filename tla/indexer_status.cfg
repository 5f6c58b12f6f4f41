SPECIFICATION Spec
CONSTANTS
  BatchBlocks = 1
  ZmqEnabled = TRUE
  MaxHeight = 2
  MaxReorgs = 0
  MaxRestarts = 0
INVARIANTS
  StatusIsCheckpoint
CHECK_DEADLOCK FALSE
