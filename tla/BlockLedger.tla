----------------------------- MODULE BlockLedger -----------------------------
(***************************************************************************)
(* What the PiecePicker promises its callers, without its containers,      *)
(* priorities and counters: every block of the torrent is free, on loan to *)
(* one connection, or done; a piece whose blocks are all done is verified, *)
(* after which it never changes again, or starts over.                     *)
(***************************************************************************)
EXTENDS Integers

CONSTANTS PieceNum, BlockNum, Clients, Free, Fetched

Pieces == 0 .. PieceNum - 1

Blocks(p) == 0 .. BlockNum[p] - 1

VARIABLES loan,      \* loan[p][b]: Free, Fetched or the connection it is lent to
          complete   \* the verified pieces

ledger == <<loan, complete>>

Init ==
  \E m \in SUBSET Pieces :
    /\ complete = m
    /\ loan = [p \in Pieces |-> [b \in Blocks(p) |-> IF p \in m THEN Fetched ELSE Free]]

LendBlock(c, p, b) ==
  /\ loan[p][b] = Free
  /\ loan' = [loan EXCEPT ![p][b] = c]
  /\ UNCHANGED complete

LendPiece(c, p) ==
  /\ \A b \in Blocks(p) : loan[p][b] = Free
  /\ loan' = [loan EXCEPT ![p] = [b \in Blocks(p) |-> c]]
  /\ UNCHANGED complete

ReturnBlock(c, p, b, how) ==
  /\ loan[p][b] = c
  /\ loan' = [loan EXCEPT ![p][b] = how]
  /\ UNCHANGED complete

(* A piece on loan as a whole is returned, or a piece fails its check. *)
Restart(p) ==
  /\ p \notin complete
  /\ \E x \in Clients \cup {Fetched} : \A b \in Blocks(p) : loan[p][b] = x
  /\ loan' = [loan EXCEPT ![p] = [b \in Blocks(p) |-> Free]]
  /\ UNCHANGED complete

Verify(p) ==
  /\ p \notin complete
  /\ \A b \in Blocks(p) : loan[p][b] = Fetched
  /\ complete' = complete \cup {p}
  /\ UNCHANGED loan

Next ==
  \E p \in Pieces :
    \/ Restart(p)
    \/ Verify(p)
    \/ \E c \in Clients :
         \/ LendPiece(c, p)
         \/ \E b \in Blocks(p) : \/ LendBlock(c, p, b)
                                 \/ ReturnBlock(c, p, b, Free)
                                 \/ ReturnBlock(c, p, b, Fetched)

Spec == Init /\ [][Next]_ledger

=============================================================================
