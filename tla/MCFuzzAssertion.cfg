SPECIFICATION FuzzSpec
CONSTANTS
  Byte <- MCByte
  Boundary <- ShortBoundary
  Chunks = {}
  Requests <- MCRequests
  ChunkSizes = {1, 2, 3}
  Depth = 3
  MaxSize <- NoLimit
  MaxTotalHeaderSize <- SmallLimit
  MaxHeaderCount = 9
  MaxHeaderSize = 99
  CR = CR
  LF = LF
  DASH = DASH
  SP = SP
  TAB = TAB
  FF = FF
  COLON = COLON
  B = B
  X = X
INVARIANTS
  FuzzAssertion
