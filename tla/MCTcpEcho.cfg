\* The server may end, and then nothing more happens: no deadlock check.
SPECIFICATION Spec
CONSTANTS
  c1 = c1
  c2 = c2
  NoClient = NoClient
  Client <- MCClient
  Reader <- MCReader
  MAX_PENDING = 1
  RECV_MAX = 3
  RcvBuf = 4
  SndBuf = 2
  MaxBytes = 5
INVARIANTS
  TypeOK
  EchoInOrder
  DrainedAtEnd
  LossNeedsFullBuffer
PROPERTIES
  EchoCompletes
  EndsAfterHangUp
CHECK_DEADLOCK FALSE
