SPECIFICATION SessionSpec
CONSTANTS
  Conns = {c1, c2}
  Torrents = {t1, t2}
  MaxIdle = 1
  None = none
SYMMETRY Alike
INVARIANTS
  SessionConsistent
  NoCircularWait
PROPERTIES
  CachedIsKept
CHECK_DEADLOCK FALSE
