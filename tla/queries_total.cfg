SPECIFICATION ReadSpec
CONSTANTS
  Client = {c1, c2}
  MaxEvents = 2
  QueueLimit = 9
  Hash = {h1, h2}
  Request = {r1}
  main = main
  test = test
  a1 = a1
  a2 = a2
  b1 = b1
  Coin = {k1, k2}
  Networks <- TwoNetworks
  Derived <- TwoAndOne
  MaxCommits = 3
  MaxSearches = 2
  SampleLimit = 2
  MaxDuration = 1
  Height = {0, 1, 2, 3}
  Stored = {}
  MaxTime = 2
  StaleAfter = 2
  Tx = {1, 2, 3}
  Edges <- ThreeBuckets
  MaxRate = 2
  MaxEntryTime = 3
  Clock = 2
  MaxChanges = 1
  DefaultSize = 2
  Sizes = {1, 2, 3}
  MaxItems = 5
  MaxHalves = 7
INVARIANT TotalWasTrue
CHECK_DEADLOCK FALSE
