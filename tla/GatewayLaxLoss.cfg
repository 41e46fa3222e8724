CONSTANTS
  c1 = c1
  c2 = c2
  Conns <- OneConn
  NoConn = NoConn
  MaxConnections = 1
  MaxSids = 2
  Devices <- OneDevice
  DeviceOf <- OneDeviceOf
  Keys <- OneKey
  TTL = 1
  Requests <- LaxRequests
  NulNames = FALSE
  MaxTime = 1
  None = None
SPECIFICATION Spec
PROPERTY LostDeviceNeedsPin
CHECK_DEADLOCK FALSE
