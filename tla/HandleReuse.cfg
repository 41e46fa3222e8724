CONSTANTS
  c1 = c1
  c2 = c2
  Conns <- OneConn
  NoConn = NoConn
  MaxConnections = 1
  MaxSids = 3
  MaxIds = 2
  MaxNatives = 2
  NoHandle = NoHandle
SPECIFICATION Spec
INVARIANT ExpiredNamesRefused
CHECK_DEADLOCK FALSE
