SPECIFICATION FairUploadSpec
CONSTANTS
  Byte <- MCByte
  Boundary <- ShortBoundary
  Chunks = {}
  Requests <- MCMessages
  ChunkSizes = {2}
  HandlerCount = 1
  Parts <- KnownParts
  DataSizes = {1, 2, 3, 4, 5, 6, 7, 8}
  MaxFields <- One
  MaxFiles <- One
  MaxMemory <- NoLimit
  MaxEvents <- NoLimit
  MaxSize <- NoLimit
  MaxTotalHeaderSize <- Twenty
  MaxHeaderCount <- HeaderCount
  MaxHeaderSize <- HeaderLimit
  CR = CR
  LF = LF
  DASH = DASH
  SP = SP
  TAB = TAB
  FF = FF
  COLON = COLON
  DISPOSITION = DISPOSITION
  ENCODING = ENCODING
  NAME = NAME
  FILENAME = FILENAME
  UNUSABLE = UNUSABLE
  BASE64 = BASE64
  UNDECODABLE = UNDECODABLE
  B = B
  X = X
INVARIANTS
  PostOfTheMessage
  FieldLimitOfReportedSegments
  HeaderCountIsRedundant
PROPERTIES
  ImplementsAdapter
  RequestEnds
