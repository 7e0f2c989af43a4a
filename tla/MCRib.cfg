SPECIFICATION MCSpec
CONSTANTS
  RibNames <- MCNames
  RibFaces <- MCFaces
  NoName = NoName
  RouteInputs <- FaultInputs
  MaxTimeouts = 1
  MaxQueue = 1
  MaxFaults = 1
  MaxEvents = 2
  RdRoutes <- MCRoutes
  RdPolicy = "host-to-gateway"
  RdIdentities <- MCIdentities
  RdGateways = {"g1", "g2"}
  RdMaxDelay = 4
  RdMaxFailures = 2
  RdMaxChanges = 5
INVARIANTS
  
  RrCountsRoutes
PROPERTIES
  
  GrowNeededBecomesKnown
CHECK_DEADLOCK FALSE
