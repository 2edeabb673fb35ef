--------------------------- MODULE MCTrackerRequests ---------------------------
(* A torrent, a tracker of each kind, and four requests, so that several   *)
(* ask one tracker.                                                        *)
EXTENDS TrackerRequests

=============================================================================
