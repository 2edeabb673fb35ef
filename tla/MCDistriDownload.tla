--------------------------- MODULE MCDistriDownload ---------------------------
(* A torrent of two pieces, the first one of two blocks. *)
EXTENDS DistriDownload

MCBlockNum == [p \in Pieces |-> IF p = 0 THEN 2 ELSE 1]

=============================================================================
