\* The function returns, and then nothing more happens: no deadlock check.
SPECIFICATION Spec
CONSTANTS
  BYTE = 3
  Address <- MCAddress
  Protocol <- MCProtocol
  Data <- MCData
INVARIANTS
  TypeOK
  ExactSum
  AtMostTwoFolds
  MatchesRFC1071
PROPERTY
  Returns
CHECK_DEADLOCK FALSE
