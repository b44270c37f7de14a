SPECIFICATION Spec
CONSTANTS
  NIBBLE = 4
  VERSION = 1
  MIN_IHL = 2
  IHL_WORDS = 2
  CHECKSUM = 3
  BUFFER = 6
  FieldWord <- MCFieldWord
  Damage <- MCDamage
INVARIANTS
  TypeOK
  PacketRestored
  VerdictIsRight
  OptionsExplained
