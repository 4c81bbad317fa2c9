SPECIFICATION FairSpec
CONSTANTS
  Byte <- MCByte
  Octet <- MCOctet
  NULL = NULL
  NoDigest = NoDigest
  MB_SIZE = 4
  LEN_SIZE = 2
  LEN_MOD = 64
  MBI_MOD = 8
  Messages <- LongMessages
  MaxData = 17
INVARIANT TypeOK
INVARIANT BufferInv
INVARIANT DigestInv
INVARIANT OpenInLoop
PROPERTY AnswerIsStable
PROPERTY UpdateEnds
CHECK_DEADLOCK FALSE
