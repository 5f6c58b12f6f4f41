SPECIFICATION FairSpec
CONSTANTS
  BatchBlocks = 2
  ZmqEnabled = FALSE
  MaxHeight = 2
  MaxReorgs = 0
  MaxRestarts = 0
PROPERTY FollowsWithoutZmq
CHECK_DEADLOCK FALSE
