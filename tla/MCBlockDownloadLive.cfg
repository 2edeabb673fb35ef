SPECIFICATION FairBlockSpec
CONSTANTS
  PieceNum = 2
  BlockNum <- MCBlockNum
  Clients = {c1, c2}
  Tries = 1
  FragNum = 1
  MaxJobs = 1
  FirstMap = {0}
  MayLimit = TRUE
  MaxPending = 1
PROPERTIES
  LeaseEnds
  OnePeerSuffices
CHECK_DEADLOCK FALSE
