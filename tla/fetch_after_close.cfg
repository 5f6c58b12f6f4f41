SPECIFICATION PartsSpec
CONSTANTS
  Worker = {w1, w2, w3, w4}
  Size = 2
  MaxTasks = 3
  MaxDeaths = 2
  a = a
  b = b
  c = c
  Outpoint = {a, b, c}
  Transactions <- OneTransaction
  Concurrency = 2
  MaxPools = 2
INVARIANT ClosedHasNoThreads
CHECK_DEADLOCK FALSE
