CONSTANTS
  c1 = c1
  c2 = c2
  Conns <- OneConn
  NoConn = NoConn
  MaxConnections = 1
  MaxSids = 2
  Devices <- MCDevices
  DeviceOf <- MCDeviceOf
  Keys <- MCKeys
  TTL = 2
  Requests <- ClearingRequests
  NulNames = TRUE
  MaxTime = 3
  None = None
SPECIFICATION Spec
PROPERTIES
  LostDeviceNeedsPin
  GrantsEndForAReason
  KeepsPromise
CHECK_DEADLOCK FALSE
