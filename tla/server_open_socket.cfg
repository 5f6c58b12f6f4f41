SPECIFICATION FairSpec
CONSTANTS
  GatewayModes = {"shared"}
  BindFails = FALSE
  ByName = FALSE
  MaxRequests = 2
  MaxSockets = 2
PROPERTY SocketsAreClosed
CHECK_DEADLOCK FALSE
