CONSTANTS
  p1 = p1
  p2 = p2
  Proxies <- MCProxies
  Ids <- MCIds
SPECIFICATION Spec
CHECK_DEADLOCK FALSE
INVARIANTS
  TypeOK
  MapIsWhoRuns
  ClosedReadMeansTold
  WaitsForClosedOnly
PROPERTIES
  MethodReturns
  ToldProxyEnds
  ReaderEndsWhenLost
