\* main ends when a call fails: no deadlock check.
SPECIFICATION Spec
CONSTANTS
  ETH = 1
  IHL_BYTES = 1
  MIN_IHL = 2
  MAX_IHL = 3
  PROTOCOL = 1
  Transport <- MCTransport
  BUFFER_SIZE = 6
  FrameSize = {1, 3, 5, 7}
  RcvBuf = 1
  MaxFrames = 3
  MaxFaults = 1
INVARIANTS
  TypeOK
  ReportIsOfFrame
PROPERTY
  EveryFrameReported
CHECK_DEADLOCK FALSE
