SPECIFICATION ServicesSpec
CONSTANTS
  GatewayModes = {"off", "shared", "own"}
  BindFails = TRUE
  ByName = TRUE
  MaxRequests = 2
  MaxSockets = 2
  Call = {c1, c2}
  RightPath = TRUE
  MaxRestarts = 3
  MaxRetries = 8
  Client = {d1, d2}
INVARIANTS
  ServerInvariant
  WhatRanIsStopped
  RpcInvariant
PROPERTIES
  ShutdownEnds
  RejectionsStop
  SilentClientLeaves
CHECK_DEADLOCK FALSE
