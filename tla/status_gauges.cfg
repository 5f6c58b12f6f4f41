SPECIFICATION StatusFairSpec
CONSTANTS
  Request = {r1}
  SampleLimit = 2
  MaxDuration = 1
  Height = {0, 1, 2}
  Stored = {}
  MaxTime = 0
  StaleAfter = 2
PROPERTY LagIsShown
CHECK_DEADLOCK FALSE
