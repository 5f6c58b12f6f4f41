SPECIFICATION StatusSpec
CONSTANTS
  Request = {r1}
  SampleLimit = 2
  MaxDuration = 1
  Height = {0, 1, 2, 3}
  Stored = {}
  MaxTime = 5
  StaleAfter = 2
PROPERTY NoStaleEstimate
CHECK_DEADLOCK FALSE
