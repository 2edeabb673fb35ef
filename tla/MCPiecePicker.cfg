SPECIFICATION Spec
CONSTANTS
  PieceNum = 3
  BlockNum <- MCBlockNum
  Clients = {c1, c2}
  Free = free
  Fetched = fetched
SYMMETRY ClientSymmetry
INVARIANTS
  PickerConsistent
  OneHolder
  MarksMeetAsserts
PROPERTIES
  DownloadedOnce
  ImplementsLedger
