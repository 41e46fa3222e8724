CONSTANTS
  c1 = c1
  c2 = c2
  Slots <- MCSlots
  NoSlot = NoSlot
  Aliases <- MCAliases
  Default = "gm3000"
  Requests <- MCRequests
  MaxTasks = 2
  MaxBlocking = 2
  Workers = 1
SPECIFICATION FairRuntime
PROPERTY AnsweredInTime
CHECK_DEADLOCK FALSE
