\* Two SPIs and three slots: an SPI can be registered twice, or never.
\* Numbers 0..3 with a window of 2: every outcome of check_replay occurs.
SPECIFICATION Spec
CONSTANTS
  BYTE = 2
  Spi <- MCSpi
  MAX_SA = 3
  ReplayWindow = 2
INVARIANTS
  TypeOK
  ShadowedUnused
  HighWater
  RefusalExplained
PROPERTIES
  OrderedDelivery
  ImplementsAntiReplay
