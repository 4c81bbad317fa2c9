SPECIFICATION Spec
CONSTANTS
  Byte <- MCByte
  Octet <- MCOctet
  NULL = NULL
  NoDigest = NoDigest
  MB_SIZE = 64
  LEN_SIZE = 8
  LEN_MOD = 1073741824
  MBI_MOD = 256
  Messages <- BlockMessages
  MaxData = 130
INVARIANT BufferInv
INVARIANT DigestInv
