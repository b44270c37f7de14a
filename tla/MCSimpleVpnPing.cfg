\* One client, its host pings the server once, nothing fails.
SPECIFICATION FairSpec
CONSTANTS
  Server = Server
  c1 = c1
  c2 = c2
  Client <- MCOneClient
  KEY_SIZE = 2
  shared_key <- MCKey
  Lengths = {3}
  Request <- MCRequest
  MaxSend = 1
  MaxWaiting = 1
  MaxFaults = 0
PROPERTY
  PingAnswered
CHECK_DEADLOCK FALSE
