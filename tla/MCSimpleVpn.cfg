SPECIFICATION FairSpec
CONSTANTS
  Server = Server
  c1 = c1
  c2 = c2
  Client <- MCTwoClients
  KEY_SIZE = 2
  shared_key <- MCKey
  Lengths = {3}
  Request <- MCRequest
  MaxSend = 1
  MaxWaiting = 1
  MaxFaults = 2
INVARIANTS
  TypeOK
  Conservation
  NeverBlocks
PROPERTY
  ImplementsChannel
  PipelineDrains
CHECK_DEADLOCK FALSE
