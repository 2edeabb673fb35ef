SPECIFICATION BlockSpec
CONSTANTS
  PieceNum = 2
  BlockNum <- MCBlockNum
  Clients = {c1, c2}
  Tries = 2
  FragNum = 1
  MaxJobs = 2
  FirstMap = {0}
  MayLimit = TRUE
  MaxPending = 1
INVARIANTS
  BlockConsistent
  HeadInFlight
CHECK_DEADLOCK FALSE
SYMMETRY MCSymmetry
