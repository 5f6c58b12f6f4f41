SPECIFICATION Spec
CONSTANTS
  g = g  b1 = b1  b2 = b2
  Block = {g, b1}
  Genesis = g
  Parent <- Line
  Tx = {}
  Request = {r1}
  Page = {g}
  TTL <- ShortTTL
  MaxEntries = 1
  Timeout = 1
  Window = 1
  MaxEvents = 1
INVARIANT PreviousTipRemoved
CHECK_DEADLOCK FALSE
