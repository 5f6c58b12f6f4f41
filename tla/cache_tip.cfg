SPECIFICATION Spec
CONSTANTS
  g = g
  b1 = b1
  b2 = b2
  Block = {g, b1, b2}
  Genesis = g
  Parent <- Fork
  Tx = {}
  Request = {r1, r2}
  Page = {"tip"}
  TTL <- TickTTL
  MaxEntries = 1
  Timeout = 1
  Window = 1
  MaxEvents = 3
SYMMETRY AnyRequest
INVARIANTS
  OnlyRacedFillsAreStale
  NothingMissedNothingStale
CHECK_DEADLOCK FALSE
