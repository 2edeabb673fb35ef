SPECIFICATION FairUgsSpec
CONSTANTS
  r1 = r1
  r2 = r2
  Rcs <- MCRcs
  h = h
  Hashes = {h}
  Has <- MCHas
  MaxTimes = 1
  MaxConn <- MCMaxConn
  MaxUp = 1
INVARIANTS
  UgsConsistent
PROPERTIES
  DeadNodeLeaves
CHECK_DEADLOCK FALSE
