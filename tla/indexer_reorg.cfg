SPECIFICATION Spec
CONSTANTS
  BatchBlocks = 1
  ZmqEnabled = TRUE
  MaxHeight = 3
  MaxReorgs = 1
  MaxRestarts = 1
INVARIANTS
  AppliedOnParent
CHECK_DEADLOCK FALSE
