---------------------------- MODULE MCPiecePicker ----------------------------
(* A torrent of three pieces, the last one a single block long, and two    *)
(* connections.                                                            *)
EXTENDS PickerLedger, TLC

MCBlockNum == [p \in Pieces |-> IF p = PieceNum - 1 THEN 1 ELSE 2]

ClientSymmetry == Permutations(Clients)

=============================================================================
