SPECIFICATION ProgressSpec
CONSTANTS
  BatchBlocks = 2
  ZmqEnabled = TRUE
  MaxHeight = 3
  MaxReorgs = 1
  MaxRestarts = 1
PROPERTIES
  ScanEndsIfSettled
  LiveQueueDrainsIfSettled
  StopCloses
CHECK_DEADLOCK FALSE
