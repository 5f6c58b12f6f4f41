SPECIFICATION RpcSpec
CONSTANTS
  Call = {c1}
  RightPath = FALSE
  MaxRestarts = 0
  MaxRetries = 10
INVARIANT NoRetryStorm
