--------------------------- MODULE MCBlockDownload ---------------------------
(* Two pieces of one block each, two connections. *)
EXTENDS BlockDownload, TLC

MCBlockNum == [p \in Pieces |-> 1]

MCSymmetry == Permutations(Clients)

=============================================================================
