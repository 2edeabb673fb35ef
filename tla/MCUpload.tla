------------------------------- MODULE MCUpload -------------------------------
(* A whole piece of two blocks and a last piece of one.                    *)
EXTENDS Upload

MCPieces == {1, 2}

MCPieceSize == [p \in MCPieces |-> IF p = 1 THEN 2 ELSE 1]

(* One block of each piece, and a request past the end of the last piece.  *)
MCRequests == {[piece |-> 1, start |-> 1, length |-> 1],
               [piece |-> 2, start |-> 0, length |-> 1],
               [piece |-> 2, start |-> 1, length |-> 1]}

=============================================================================
