\* One stream longer than a send buffer, and a send that is stopped.
SPECIFICATION Spec
CONSTANTS
  c1 = c1
  c2 = c2
  NoClient = NoClient
  Client <- MCClient
  Reader <- MCReader
  MAX_PENDING = 1
  RECV_MAX = 2
  RcvBuf = 3
  SndBuf = 3
  MaxBytes = 5
INVARIANT
  EchoesAll
CHECK_DEADLOCK FALSE
