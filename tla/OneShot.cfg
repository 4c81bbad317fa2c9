SPECIFICATION FairSpec
CONSTANTS
  MB_SIZE = 64
  LEN_SIZE = 8
  LEN_MOD = 1073741824
  MBI_MOD = 256
  Byte <- MCByte
  Octet <- MCOctet
  Messages <- MCMessages
  KnownDigest <- MCKnownDigest
  Faults <- MCFaults
  HexLUT = TRUE
  NULL = NULL
  NoDigest = NoDigest
INVARIANT TypeOK
INVARIANT DigestKnown
INVARIANT Verdict
INVARIANT Printed
PROPERTY Returns
PROPERTY CountsDown
