SPECIFICATION Spec
CONSTANTS
  HandlerCount = 1
  Parts <- LimitParts
  DataSizes = {1, 2}
  MaxFields <- Two
  MaxFiles <- One
  MaxMemory <- Eight
  MaxEvents <- Six
INVARIANTS
  TypeOK
  DefensiveErrorsUnreachable
  PostIsWhatArrived
  CountLimitsAreExact
  MemoryLimitIsExact
