----------------------------- MODULE PickerLedger -----------------------------
(* PiecePicker implements BlockLedger.  The loan of a block is read off the *)
(* callers: the connection that answers for it, if any.                     *)
EXTENDS PiecePicker

CONSTANTS Free, Fetched   \* the loan of a block nobody has asked for, and of one that is here

ASSUME LoanAssumption == Free # Fetched /\ Free \notin Clients /\ Fetched \notin Clients

LoanOf(p, b) ==
  IF \E c \in Clients : Answers(c, p, b)
    THEN CHOOSE c \in Clients : Answers(c, p, b)
    ELSE IF p \in finished \/ blocks[p][b] = "FINISHED" THEN Fetched ELSE Free

Ledger == INSTANCE BlockLedger WITH
  loan <- [p \in Pieces |-> [b \in Blocks(p) |-> LoanOf(p, b)]],
  complete <- verified

(* PiecePicker must see to it that a block is downloaded by one peer at a  *)
(* time, that a failed block can be downloaded from another peer and that  *)
(* what is downloaded is not downloaded again: whatever the picker does is *)
(* a step of the ledger, or changes nothing the ledger records.            *)
ImplementsLedger == Ledger!Spec

=============================================================================
