SPECIFICATION Spec
CONSTANTS
  Byte <- MCByte
  Octet <- MCOctet
  NULL = NULL
  NoDigest = NoDigest
  MB_SIZE = 6
  LEN_SIZE = 2
  LEN_MOD = 65536
  MBI_MOD = 256
  Messages <- SmallMessages
  MaxData = 13
INVARIANT PaddingIsFIPS
