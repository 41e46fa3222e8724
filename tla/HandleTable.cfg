CONSTANTS
  c1 = c1
  c2 = c2
  Conns <- MCConns
  NoConn = NoConn
  MaxConnections = 2
  MaxSids = 3
  MaxIds = 3
  MaxNatives = 3
  NoHandle = NoHandle
SPECIFICATION Spec
SYMMETRY ConnSymmetry
INVARIANTS
  HandlesTypeOK
  NamesAreLive
  NothingOutlivesItsState
CHECK_DEADLOCK FALSE
