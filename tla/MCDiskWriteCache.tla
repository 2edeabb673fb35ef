--------------------------- MODULE MCDiskWriteCache ---------------------------
(* A piece of one block and a piece of two. *)
EXTENDS DiskWriteCache

MCBlockNum == [p \in Pieces |-> p + 1]

=============================================================================
