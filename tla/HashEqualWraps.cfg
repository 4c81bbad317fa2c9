SPECIFICATION Spec
CONSTANTS
  HASH_SIZE = 3
  BYTE_MOD = 4
  XorByte <- MCXor
  NDEBUG = TRUE
  NULL = NULL
INVARIANT OnlyEqualAccepted
CHECK_DEADLOCK FALSE
