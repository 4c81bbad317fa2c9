SPECIFICATION Spec
CONSTANTS
  Byte <- MCByte
  Octet <- MCOctet
  NULL = NULL
  NoDigest = NoDigest
  MB_SIZE = 4
  LEN_SIZE = 2
  LEN_MOD = 64
  MBI_MOD = 8
  Messages <- LongMessages
  MaxData = 8
INVARIANT RefusalReported
