SPECIFICATION Spec
CONSTANTS
  HMAC_KEY_LENGTH = 3
  SHA256_HASH_SIZE = 2
  Zero <- MCZero
  Xor <- MCXor
  ShaByte <- MCShaByte
  Keys <- MCKeys
  Messages <- MCMessages
  MaxData = 4
  NDEBUG = TRUE
  NULL = NULL
  NoDigest = NoDigest
INVARIANT InnerInv
INVARIANT MacInv
INVARIANT KeyInv
INVARIANT AfterReset
PROPERTY ImplementsHash
