SPECIFICATION Spec
CONSTANTS
  GatewayModes = {"off"}
  BindFails = FALSE
  ByName = FALSE
  MaxRequests = 2
  MaxSockets = 2
INVARIANT CompleteMeansClosed
CHECK_DEADLOCK FALSE
