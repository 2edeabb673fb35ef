SPECIFICATION FairTorrentSpec
CONSTANTS
  Conns = {1, 2}
  MetaNum = 2
  Prompt = {2}
  Liars = {1}
  Pieces = {1}
  MaxRestarts = 2
  MaxFaults = 1
INVARIANTS
  
  HashesKnown
PROPERTIES
  RecordFollows
  
CHECK_DEADLOCK FALSE
