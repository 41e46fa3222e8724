CONSTANTS
  c1 = c1
  c2 = c2
  Conns <- MCConns
  NoConn = NoConn
  MaxConnections = 1
  MaxSids = 2
  Devices <- OneDevice
  DeviceOf <- OneDeviceOf
  Keys <- OneKey
  TTL = 1
  Requests <- TidyRequests
  NulNames = FALSE
  MaxTime = 1
  None = None
SPECIFICATION Spec
INVARIANTS
  TypeOK
  PermitsConserved
  NoDoubleClose
  ChildrenClosedFirst
  ParentsStayOpen
  NothingLeftOpen
PROPERTIES
  AbandonedIsReleased
CHECK_DEADLOCK FALSE
