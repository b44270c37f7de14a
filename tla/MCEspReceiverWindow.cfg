\* The reading of "Potential replay attack" in the notes of the file.
SPECIFICATION Spec
CONSTANTS
  BYTE = 2
  Spi <- MCSpi
  MAX_SA = 2
  ReplayWindow = 2
INVARIANT
  WarningMeansReplay
