CONSTANTS
  p1 = p1
  p2 = p2
  Pids <- MCPids
  NoPid = NoPid
SPECIFICATION ServiceSpec
INVARIANT UnaskedEndIsFailure
CHECK_DEADLOCK FALSE
