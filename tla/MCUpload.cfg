SPECIFICATION FairUploadSpec
CONSTANTS
  Requests <- MCRequests
  Pieces <- MCPieces
  PieceSize <- MCPieceSize
  CommonSize = 2
  BlockSize = 1
  CacheLimit = 1
  Window = 3
  SpeedLimit = 1
  Width = 8
  MaxRequests = 3
  MaxControl = 1
CHECK_DEADLOCK FALSE
INVARIANTS
  UploadConsistent
  AnsweredInOrder
  MeterExact
PROPERTIES
  RequestsLeave
