CONSTANTS
  Byte <- MCByte
  MAX_TX_BUNDLE_SIZE = 2
  MAX_TX_SIZE = 2
SPECIFICATION Spec
INVARIANT
  AppendedIsDecoded
CHECK_DEADLOCK FALSE
