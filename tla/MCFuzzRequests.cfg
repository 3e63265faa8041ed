SPECIFICATION FuzzSpec
CONSTANTS
  Byte <- MCByte
  Boundary <- DashBoundary
  Chunks = {}
  Requests <- MCRequests
  ChunkSizes = {1, 3}
  Depth = 4
  MaxSize <- NoLimit
  MaxTotalHeaderSize <- SmallLimit
  MaxHeaderCount = 9
  MaxHeaderSize = 99
  CR = CR
  LF = LF
  DASH = DASH
  SP = SP
  TAB = TAB
  FF = FF
  COLON = COLON
  B = B
  X = X
INVARIANTS
  ParsesTheMessage
  NothingIsTakenBack
  ChunkingIsInvisible
  BegunPartsFitTheLimit
  RefusedOnlyOverTheLimit
  BodyIsNotAccumulated
