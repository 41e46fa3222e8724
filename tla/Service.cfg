CONSTANTS
  p1 = p1
  p2 = p2
  Pids <- MCPids
  NoPid = NoPid
SPECIFICATION FairService
INVARIANTS
  RunningListens
  PortFreeForNext
  FileAgreesWithScm
PROPERTIES
  NewestProcessWrites
  StopIsHeard
CHECK_DEADLOCK FALSE
