SPECIFICATION FairSpec
CONSTANTS
  GatewayModes = {"off", "own"}
  BindFails = TRUE
  ByName = FALSE
  MaxRequests = 2
  MaxSockets = 2
PROPERTY ListenerIsClosed
CHECK_DEADLOCK FALSE
