SPECIFICATION Spec
CONSTANTS
  MB_SIZE = 4
  LEN_SIZE = 2
  LEN_MOD = 64
  MBI_MOD = 16
  Byte <- MCByte
  Octet <- MCOctet
  SHA256_HASH_SIZE = 2
  HashByte <- MCHashByte
  Xor <- MCXor
  Filler = 1
  Keys <- MCKeys
  Messages <- MCMessages
  MaxData = 6
  NULL = NULL
  NoDigest = NoDigest
  NoShot = NoShot
INVARIANT KeyFaultPropagated
CHECK_DEADLOCK FALSE
