SPECIFICATION FuzzSpec
CONSTANTS
  Byte <- MCByte
  Boundary <- ShortBoundary
  Chunks = {}
  Requests <- LineRequests
  ChunkSizes = {1, 2, 3}
  Depth = 5
  MaxSize <- LineSize
  MaxTotalHeaderSize <- LineLimit
  MaxHeaderCount = 1
  MaxHeaderSize = 2
  CR = CR
  LF = LF
  DASH = DASH
  SP = SP
  TAB = TAB
  FF = FF
  COLON = COLON
  B = B
  X = X
INVARIANTS
  SizeLimitIsExact
  DeliveredHeadersWithinLimits
