\* No faults: only timing.
SPECIFICATION Spec
CONSTANTS
  c1 = c1
  c2 = c2
  p1 = p1
  p2 = p2
  Client <- MCClient
  Port <- MCPort
  NoPort = NoPort
  RECV_MAX = 1
  MaxLen = 2
  MaxFaults = 0
INVARIANT
  EchoToSameClient
CHECK_DEADLOCK FALSE
