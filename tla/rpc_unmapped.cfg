SPECIFICATION RpcSpec
CONSTANTS
  Call = {c1}
  RightPath = TRUE
  MaxRestarts = 2
  MaxRetries = 3
INVARIANT FailuresAreMapped
