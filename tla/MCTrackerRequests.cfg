SPECIFICATION FairTrackerSpec
CONSTANTS
  Torrents = {t1}
  Http = {h}
  Udp = {u}
  Timeout = 2
  MaxRequests = 4
  MaxAsked = 2
INVARIANTS
  TrackerTypeOK
PROPERTIES
  DroppedForAnother
  AsksAgain
  RequestEnds
CHECK_DEADLOCK FALSE
