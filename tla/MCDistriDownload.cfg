SPECIFICATION FairDistriSpec
CONSTANTS
  PieceNum = 2
  BlockNum <- MCBlockNum
  Clients = {s, c}
  Sponsors = {s}
  Supports = {}
  MaxWait = 2
CHECK_DEADLOCK FALSE
INVARIANTS
  DistriConsistent
PROPERTY PieceReturns
