SPECIFICATION UploadSpec
CONSTANTS
  Byte <- MCByte
  Boundary <- ShortBoundary
  Chunks = {}
  Requests <- FieldMessages
  ChunkSizes = {}
  HandlerCount = 0
  Parts <- KnownParts
  DataSizes = {1, 2, 3}
  MaxFields <- One
  MaxFiles <- NoLimit
  MaxMemory <- NoLimit
  MaxEvents <- NoLimit
  MaxSize <- NoLimit
  MaxTotalHeaderSize <- NoLimit
  MaxHeaderCount = 9
  MaxHeaderSize = 99
  CR = CR
  LF = LF
  DASH = DASH
  SP = SP
  TAB = TAB
  FF = FF
  COLON = COLON
  DISPOSITION = DISPOSITION
  ENCODING = ENCODING
  NAME = NAME
  FILENAME = FILENAME
  UNUSABLE = UNUSABLE
  BASE64 = BASE64
  UNDECODABLE = UNDECODABLE
  B = B
  X = X
INVARIANTS
  FieldLimitOfTheMessage
