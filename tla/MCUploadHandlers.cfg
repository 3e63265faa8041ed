SPECIFICATION Spec
CONSTANTS
  HandlerCount = 2
  Parts <- HandlerParts
  DataSizes = {1, 2}
  MaxFields <- NoMaximum
  MaxFiles <- NoMaximum
  MaxMemory <- NoMaximum
  MaxEvents <- Four
INVARIANTS
  UploadsAreSettled
  RaisedIsCleanedUp
PROPERTIES
  HandedOverFilesStayOpen
  HandlerContract
