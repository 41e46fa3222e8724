CONSTANTS
  c1 = c1
  c2 = c2
  Conns <- MCConns
  NoConn = NoConn
  MaxConnections = 2
  MaxSids = 3
  Devices <- OneDevice
  DeviceOf <- OneDeviceOf
  Keys <- OneKey
  TTL = 1
  Requests <- PinRequests
  NulNames = TRUE
  MaxTime = 2
  None = None
SPECIFICATION Spec
SYMMETRY ConnSymmetry
INVARIANTS
  StatePresent
  OneOwner
  NoForgottenState
  RegistryExact
PROPERTIES
  AuthorizedByOwnPin
  AbandonedStaysAbandoned
CHECK_DEADLOCK FALSE
