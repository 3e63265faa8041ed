SPECIFICATION FairSpec
CONSTANTS
  Byte <- MCByte
  Boundary <- MCBoundary
  Chunks <- DelimiterChunks
  MaxSize <- DelimiterMaxSize
  MaxTotalHeaderSize <- DelimiterHeaderLimit
  MaxHeaderCount = 1
  MaxHeaderSize = 3
  CR = CR
  LF = LF
  DASH = DASH
  SP = SP
  TAB = TAB
  FF = FF
  COLON = COLON
  B = B
  X = X
INVARIANTS
  TypeOK
  BodyMeansOpenPart
  NothingChargedOutsideHeaders
PROPERTIES
  ImplementsEventStream
  LoopProgresses
  FeedReturns
