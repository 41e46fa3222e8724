CONSTANTS
  c1 = c1
  c2 = c2
  Slots <- MCSlots
  NoSlot = NoSlot
  Aliases <- MCAliases
  Default = "gm3000"
  Requests <- MixedRequests
  MaxTasks = 2
  MaxBlocking = 2
  Workers = 3
SPECIFICATION LibSpec
INVARIANT OneCallPerLibrary
CHECK_DEADLOCK FALSE
