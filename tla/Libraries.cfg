CONSTANTS
  c1 = c1
  c2 = c2
  Slots <- OneSlot
  NoSlot = NoSlot
  Aliases <- MCAliases
  Default = "gm3000"
  Requests <- MCRequests
  MaxTasks = 3
  MaxBlocking = 2
  Workers = 2
SPECIFICATION FairRuntime
INVARIANT AwaitsItsOwnTask
PROPERTIES
  GateIsALock
  CancelGetsThrough
  PoolRecovers
  GateIsReleased
  OtherLibrariesProceed
CHECK_DEADLOCK FALSE
