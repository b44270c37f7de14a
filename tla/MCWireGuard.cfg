SPECIFICATION Spec
CONSTANTS
  alice = alice
  bob = bob
  Peer <- MCPeer
  Index <- MCIndex
  BYTE = 2
  MaxCreated = 3
  MaxPackets = 5
SYMMETRY Symmetry
INVARIANTS
  TypeOK
  NonceOnce
  ResponseFindsInitiator
  SentToOneself
\* The packets of a key and the calls of create_peer are bounded.
CHECK_DEADLOCK FALSE
