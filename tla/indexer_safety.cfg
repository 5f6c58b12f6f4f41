SPECIFICATION Spec
CONSTANTS
  BatchBlocks = 2
  ZmqEnabled = TRUE
  MaxHeight = 4
  MaxReorgs = 1
  MaxRestarts = 2
INVARIANTS
  TypeOK
  ScanContiguous
  ScanOnlyIsPrefix
  LossBounded
  GracefulStopKeepsWork
  OneBlockAtATime
PROPERTIES
  StoppedIndexIsFrozen
  ImplementsStore
CHECK_DEADLOCK FALSE
