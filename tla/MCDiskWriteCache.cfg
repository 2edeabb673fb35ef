SPECIFICATION FairCacheSpec
CONSTANTS
  PieceNum = 2
  BlockNum <- MCBlockNum
  Clients = {c1, c2}
  Free = free
  Fetched = fetched
  CacheLimit = 2
  MaxLost = 2
  MayFail = TRUE
  MaxJobs = 2
CHECK_DEADLOCK FALSE
INVARIANTS
  CacheConsistent
  VerifyFindsPiece
  CompleteOnDisk
  FlushReturns
PROPERTY CheckComes
