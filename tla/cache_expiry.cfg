SPECIFICATION FairSpec
CONSTANTS
  g = g
  b1 = b1
  b2 = b2
  Block = {g, b1}
  Genesis = g
  Parent <- Line
  Tx = {t1}
  Request = {r1}
  Page = {g, b1, t1, "mempool"}
  TTL <- SomeForever
  MaxEntries = 1
  Timeout = 1
  Window = 1
  MaxEvents = 1
INVARIANT
  CacheInvariant
PROPERTY
  Converges
CHECK_DEADLOCK FALSE
