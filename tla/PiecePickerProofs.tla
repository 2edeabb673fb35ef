------------------------- MODULE PiecePickerProofs --------------------------
(* The containers, marks and counters of the PiecePicker agree, and it     *)
(* implements the BlockLedger, for every torrent and set of connections.   *)
EXTENDS PickerLedger, FiniteSetTheorems, TLAPS

(* PieceSequentialStrategy::GetPriority stays within the priorities from   *)
(* normal to the one below the highest.                                    *)
LEMMA GetPriorityBounded ==
  \A p \in Pieces : GetPriority(p) \in NormalPriority .. HighestPriority
<1> SUFFICES ASSUME NEW p \in Pieces
             PROVE  GetPriority(p) \in NormalPriority .. HighestPriority
  OBVIOUS
<1> DEFINE x == (PieceNum - p - 1) * 5
           y == PieceNum - 1
<1>1. x \in Nat /\ y \in Nat /\ y > 0 /\ x <= 5 * y
  BY PieceNumAssumption DEF Pieces
<1> HIDE DEF x, y
<1>2. x \div y \in 0 .. 5
  BY <1>1
<1>3. GetPriority(p) = x \div y + 1
  BY PieceNumAssumption DEF x, y, GetPriority, HighestPriority, NormalPriority, Pieces
<1> QED
  BY <1>2, <1>3 DEF HighestPriority, NormalPriority

(***************************************************************************)
(* Type correctness.                                                       *)
(***************************************************************************)
(* Writing one block state keeps the table of block states well formed and *)
(* changes no other entry.                                                 *)
LEMMA SetBlockType ==
  ASSUME TypeOK, NEW p \in Pieces, NEW b \in Blocks(p), NEW state \in BlockState,
         SetBlock(p, b, state)
  PROVE  /\ blocks' = [q \in Pieces |-> blocks'[q]]
         /\ \A q \in Pieces : blocks'[q] \in [Blocks(q) -> BlockState]
         /\ \A q \in Pieces \ {p} : blocks'[q] = blocks[q]
         /\ \A q \in Pieces : \A a \in Blocks(q) :
              blocks'[q][a] = IF q = p /\ a = b THEN state ELSE blocks[q][a]
  BY DEF TypeOK, SetBlock

(* ConstructDownloadPiece resets the record of one piece and leaves the    *)
(* others as they were.                                                    *)
LEMMA ConstructDownloadPieceType ==
  ASSUME TypeOK, NEW p \in Pieces, ConstructDownloadPiece(p)
  PROVE  /\ blocks' = [q \in Pieces |-> blocks'[q]]
         /\ \A q \in Pieces : blocks'[q] \in [Blocks(q) -> BlockState]
         /\ \A q \in Pieces : blocks'[q] = IF q = p THEN FreshBlocks(p) ELSE blocks[q]
         /\ finishedBlocks' \in [Pieces -> Nat]
         /\ \A q \in Pieces : finishedBlocks'[q] = IF q = p THEN 0 ELSE finishedBlocks[q]
         /\ priority' \in [Pieces -> NormalPriority .. HighestPriority]
<1>1. FreshBlocks(p) \in [Blocks(p) -> BlockState]
  BY DEF FreshBlocks, BlockState
<1> QED
  BY <1>1, GetPriorityBounded DEF TypeOK, ConstructDownloadPiece

(* The constructor leaves every container and counter well typed, whatever *)
(* pieces the torrent was resumed with.                                    *)
LEMMA TypeInit == Init => TypeOK
<1> SUFFICES ASSUME NEW m \in SUBSET Pieces, Init!(m)
             PROVE  TypeOK
  BY DEF Init
<1>1. IsFiniteSet(Pieces)
  BY FS_Interval, PieceNumAssumption DEF Pieces
<1>2. Cardinality(m) \in Nat
  BY <1>1, FS_Subset, FS_CardinalityType
<1>3. \A p \in Pieces : FreshBlocks(p) \in [Blocks(p) -> BlockState]
  BY DEF FreshBlocks, BlockState
<1> QED
  BY <1>2, <1>3, GetPriorityBounded DEF TypeOK

(* No call into the picker makes a container or a counter ill typed.       *)
LEMMA TypeStep == TypeOK /\ [Next]_vars => TypeOK'
<1> SUFFICES ASSUME TypeOK, [Next]_vars
             PROVE  TypeOK'
  OBVIOUS
<1> USE DEF TypeOK, BlockState
<1>1. ASSUME NEW c \in Clients, NEW filter \in SUBSET Pieces,
             PickBlocksFromDownloadingPieces(c, filter)
      PROVE  TypeOK'
  <2>1. CASE UNCHANGED <<blocks, held>> /\ picking' = [picking EXCEPT ![c] = filter]
    BY <1>1, <2>1 DEF PickBlocksFromDownloadingPieces, containers, verification
  <2>2. ASSUME NEW p \in Pieces, NEW b \in Blocks(p), SetBlock(p, b, "DOWNLOADING"),
               held' = [held EXCEPT ![c] = {<<p, b>>}], UNCHANGED picking
        PROVE  TypeOK'
    <3>1. {<<p, b>>} \in SUBSET (Pieces \X Nat)
      BY BlockNumAssumption DEF Blocks
    <3> QED
      BY <1>1, <2>2, <3>1, SetBlockType
      DEF PickBlocksFromDownloadingPieces, containers, verification
  <2> QED
    BY <1>1, <2>1, <2>2 DEF PickBlocksFromDownloadingPieces, Best
<1>2. ASSUME NEW c \in Clients, PickBlocksFromWaitingPieces(c)
      PROVE  TypeOK'
  <2>1. CASE UNCHANGED <<waiting, downloading, blocks, held>>
    BY <1>2, <2>1 DEF PickBlocksFromWaitingPieces, verification
  <2>2. ASSUME NEW p \in Pieces, SetBlock(p, 0, "DOWNLOADING"),
               waiting' = waiting \ {p}, downloading' = downloading \cup {p},
               held' = [held EXCEPT ![c] = {<<p, 0>>}]
        PROVE  TypeOK'
    <3>1. 0 \in Blocks(p)
      BY BlockNumAssumption DEF Blocks
    <3> QED
      BY <1>2, <2>2, <3>1, SetBlockType DEF PickBlocksFromWaitingPieces, verification
  <2> QED
    BY <1>2, <2>1, <2>2 DEF PickBlocksFromWaitingPieces, Best
<1>3. ASSUME NEW c \in Clients, PickPieces(c)
      PROVE  TypeOK'
  BY <1>3 DEF PickPieces, Best, verification
<1>4. ASSUME NEW c \in Clients, NEW p \in Pieces, NEW b \in Blocks(p),
             MarkBlockFailed(c, p, b)
      PROVE  TypeOK'
  BY <1>4, SetBlockType DEF MarkBlockFailed, containers, verification
<1>5. ASSUME NEW c \in Clients, NEW p \in Pieces, NEW b \in Blocks(p),
             MarkBlockFinished(c, p, b)
      PROVE  TypeOK'
  BY <1>5, SetBlockType DEF MarkBlockFinished
<1>6. ASSUME NEW c \in Clients, NEW p \in Pieces, MarkPieceFailed(c, p)
      PROVE  TypeOK'
  BY <1>6, ConstructDownloadPieceType DEF MarkPieceFailed, verification
<1>7. ASSUME NEW p \in Pieces, SetPieceHighestPriority(p)
      PROVE  TypeOK'
  BY <1>7 DEF SetPieceHighestPriority, verification, callers,
              NormalPriority, HighestPriority
<1>8. ASSUME NEW p \in Pieces, OnVerifyPieceOk(p)
      PROVE  TypeOK'
  BY <1>8 DEF OnVerifyPieceOk, pieceInfo, callers
<1>9. ASSUME NEW p \in Pieces, AnnouncePiece(p)
      PROVE  TypeOK'
  BY <1>9 DEF AnnouncePiece, containers, pieceInfo, callers
<1>10. ASSUME NEW p \in Pieces, FailToVerifyPieceProc(p)
       PROVE  TypeOK'
  BY <1>10, ConstructDownloadPieceType DEF FailToVerifyPieceProc, callers
<1>11. CASE UNCHANGED vars
  BY <1>11 DEF vars, containers, pieceInfo, verification, callers
<1> QED
  BY <1>1, <1>2, <1>3, <1>4, <1>5, <1>6, <1>7, <1>8, <1>9, <1>10, <1>11 DEF Next

(* The containers, the block states and the counters of the picker hold    *)
(* only what their declarations say, in every execution.                   *)
THEOREM TypeCorrect == Spec => []TypeOK
  BY TypeInit, TypeStep, PTL DEF Spec

(***************************************************************************)
(* The inductive invariant.  OnePlace alone is not inductive: that a       *)
(* marked block or piece is among the downloading ones comes from what the *)
(* callers hold, and what they hold stays disjoint because a waiting piece *)
(* is untouched and lives in one place.                                    *)
(***************************************************************************)
AssignedDownloading ==
  \A c \in Clients : \A p \in assigned[c] : \A b \in Blocks(p) :
    blocks[p][b] = "DOWNLOADING"

(* TrafficController keeps download_mutex_ across both halves of a pick,   *)
(* and picks only for an empty fragment queue.                             *)
PickingHoldsNothing == \A c \in Clients : picking[c] # {} => held[c] = {}

IInv ==
  /\ TypeOK
  /\ OnePlace
  /\ WaitingUntouched
  /\ FinishedBlocksCounted
  /\ AssignedDownloading
  /\ PickingHoldsNothing
  /\ OneHolder
  /\ MarksMeetAsserts
  /\ VerifiedAgree

(* A torrent has finitely many pieces.                                     *)
LEMMA PiecesFinite == IsFiniteSet(Pieces)
  BY FS_Interval, PieceNumAssumption DEF Pieces

(* Every piece has a first block, the one PickBlocksFromWaitingPieces      *)
(* takes.                                                                  *)
LEMMA BlockZero == \A p \in Pieces : 0 \in Blocks(p)
  BY BlockNumAssumption DEF Blocks

(* What the invariant says of a caller about to make a call. *)
LEMMA HeldBlock ==
  ASSUME IInv, NEW c \in Clients, NEW p, NEW b, <<p, b>> \in held[c]
  PROVE  p \in downloading /\ b \in Blocks(p) /\ blocks[p][b] = "DOWNLOADING"
  BY DEF IInv, MarksMeetAsserts, HeldInDownloading

(* A piece given to a proxy is downloading and so are all its blocks.      *)
LEMMA AssignedPiece ==
  ASSUME IInv, NEW c \in Clients, NEW p \in assigned[c]
  PROVE  /\ p \in Pieces
         /\ p \in downloading
         /\ \A b \in Blocks(p) : blocks[p][b] = "DOWNLOADING"
  BY DEF IInv, TypeOK, MarksMeetAsserts, AssignedDownloading

(* A block in some fragment queue belongs to no piece given to a proxy.    *)
LEMMA HeldNotAssigned ==
  ASSUME IInv, NEW c \in Clients, NEW p \in Pieces, NEW b, <<p, b>> \in held[c],
         NEW d \in Clients
  PROVE  p \notin assigned[d]
  BY HeldBlock DEF IInv, OneHolder, Answers

(* A piece is given to one proxy at a time.                                *)
LEMMA AssignedOnce ==
  ASSUME IInv, NEW c \in Clients, NEW p \in assigned[c],
         NEW d \in Clients, p \in assigned[d]
  PROVE  c = d
  BY AssignedPiece, BlockZero DEF IInv, OneHolder, Answers

(* No block of a waiting piece is started.                                 *)
LEMMA WaitingBlocks ==
  ASSUME IInv, NEW p \in waiting, NEW b \in Blocks(p)
  PROVE  blocks[p][b] = "WAITING"
<1>1. blocks[p] = FreshBlocks(p)
  BY DEF IInv, WaitingUntouched
<1> QED
  BY <1>1 DEF FreshBlocks

(* A block is in the fragment queue of one connection at a time.           *)
LEMMA HeldOnce ==
  ASSUME IInv, NEW c \in Clients, NEW p \in Pieces, NEW b, <<p, b>> \in held[c],
         NEW d \in Clients, <<p, b>> \in held[d]
  PROVE  c = d
  BY HeldBlock DEF IInv, OneHolder, Answers

(* A piece whose hash check is queued is complete and not yet verified.    *)
LEMMA VerifyingPiece ==
  ASSUME IInv, NEW p \in verifying
  PROVE  p \in Pieces /\ p \in finished /\ p \notin verified /\ p \notin pieceMap
  BY DEF IInv, TypeOK, VerifiedAgree

(* A piece has finitely many blocks, BlockNum of them.                     *)
LEMMA BlocksFinite ==
  \A p \in Pieces : IsFiniteSet(Blocks(p)) /\ Cardinality(Blocks(p)) = BlockNum[p]
  BY FS_Interval, BlockNumAssumption DEF Blocks

(* The last block of a piece: all of them are then finished. *)
LEMMA LastBlock ==
  ASSUME IInv, NEW p \in Pieces, NEW b \in Blocks(p),
         p \in downloading, blocks[p][b] = "DOWNLOADING"
  PROVE  /\ Cardinality(Done(p) \cup {b}) = finishedBlocks[p] + 1
         /\ finishedBlocks[p] + 1 <= BlockNum[p]
         /\ finishedBlocks[p] + 1 = BlockNum[p] => Done(p) \cup {b} = Blocks(p)
<1>1. Done(p) \cup {b} \subseteq Blocks(p) /\ b \notin Done(p)
  BY DEF Done
<1>2. IsFiniteSet(Done(p)) /\ Cardinality(Done(p)) = finishedBlocks[p]
  BY <1>1, BlocksFinite, FS_Subset DEF IInv, FinishedBlocksCounted
<1>3. Cardinality(Done(p) \cup {b}) = finishedBlocks[p] + 1
  BY <1>1, <1>2, FS_AddElement
<1>4. /\ Cardinality(Done(p) \cup {b}) <= BlockNum[p]
      /\ Cardinality(Done(p) \cup {b}) = BlockNum[p] => Done(p) \cup {b} = Blocks(p)
  BY <1>1, BlocksFinite, FS_Subset
<1> QED
  BY <1>3, <1>4

(* The inductive invariant holds when the picker is constructed.           *)
LEMMA InitIInv == Init => IInv
<1> SUFFICES ASSUME NEW m \in SUBSET Pieces, Init!(m)
             PROVE  IInv
  BY DEF Init
<1>1. TypeOK
  BY TypeInit DEF Init
<1>2. OnePlace
  BY DEF OnePlace
<1>3. WaitingUntouched /\ AssignedDownloading /\ FinishedBlocksCounted /\ PickingHoldsNothing
  BY DEF WaitingUntouched, AssignedDownloading, FinishedBlocksCounted, PickingHoldsNothing
<1>4. OneHolder /\ MarksMeetAsserts
  BY DEF OneHolder, MarksMeetAsserts, HeldInDownloading, Answers
<1>5. VerifiedAgree
  BY DEF VerifiedAgree
<1> QED
  BY <1>1, <1>2, <1>3, <1>4, <1>5 DEF IInv

(* Every call moves a piece from one container to another and never leaves *)
(* it in two or in none.                                                   *)
LEMMA OnePlaceStep == IInv /\ [Next]_vars => OnePlace'
<1> SUFFICES ASSUME IInv, [Next]_vars
             PROVE  OnePlace'
  OBVIOUS
<1>0. OnePlace /\ waiting \in SUBSET Pieces /\ downloading \in SUBSET Pieces
  BY DEF IInv, TypeOK
<1> USE <1>0 DEF OnePlace
<1>1. ASSUME NEW c \in Clients, NEW filter \in SUBSET Pieces,
             PickBlocksFromDownloadingPieces(c, filter)
      PROVE  OnePlace'
  BY <1>1 DEF PickBlocksFromDownloadingPieces, containers
<1>2. ASSUME NEW c \in Clients,
             PickBlocksFromWaitingPieces(c)
      PROVE  OnePlace'
  BY <1>2 DEF PickBlocksFromWaitingPieces, Best
<1>3. ASSUME NEW c \in Clients,
             PickPieces(c)
      PROVE  OnePlace'
  BY <1>3 DEF PickPieces, Best
<1>4. ASSUME NEW c \in Clients, NEW p \in Pieces, NEW b \in Blocks(p),
             MarkBlockFailed(c, p, b)
      PROVE  OnePlace'
  BY <1>4 DEF MarkBlockFailed, containers
<1>5. ASSUME NEW c \in Clients, NEW p \in Pieces, NEW b \in Blocks(p),
             MarkBlockFinished(c, p, b)
      PROVE  OnePlace'
  BY <1>5, HeldBlock DEF MarkBlockFinished
<1>6. ASSUME NEW c \in Clients, NEW p \in Pieces,
             MarkPieceFailed(c, p)
      PROVE  OnePlace'
  BY <1>6, AssignedPiece DEF MarkPieceFailed
<1>7. ASSUME NEW p \in Pieces,
             SetPieceHighestPriority(p)
      PROVE  OnePlace'
  BY <1>7 DEF SetPieceHighestPriority
<1>8. ASSUME NEW p \in Pieces,
             OnVerifyPieceOk(p)
      PROVE  OnePlace'
  BY <1>8 DEF OnVerifyPieceOk
<1>9. ASSUME NEW p \in Pieces,
             AnnouncePiece(p)
      PROVE  OnePlace'
  BY <1>9 DEF AnnouncePiece, containers
<1>10. ASSUME NEW p \in Pieces,
             FailToVerifyPieceProc(p)
      PROVE  OnePlace'
  BY <1>10, VerifyingPiece DEF FailToVerifyPieceProc
<1>11. CASE UNCHANGED vars
  BY <1>11 DEF vars, containers, pieceInfo, verification, callers
<1> QED
  BY <1>1, <1>2, <1>3, <1>4, <1>5, <1>6, <1>7, <1>8, <1>9, <1>10, <1>11 DEF Next

(* A piece comes back to the waiting pieces only with a fresh record, and  *)
(* no call writes to the record of a waiting piece.                        *)
LEMMA WaitingUntouchedStep == IInv /\ [Next]_vars => WaitingUntouched'
<1> SUFFICES ASSUME IInv, [Next]_vars
             PROVE  WaitingUntouched'
  OBVIOUS
<1>0. /\ TypeOK
      /\ OnePlace
      /\ WaitingUntouched
      /\ waiting \in SUBSET Pieces /\ downloading \in SUBSET Pieces
      /\ finishedBlocks \in [Pieces -> Nat]
      /\ DOMAIN blocks = Pieces
  BY DEF IInv, TypeOK
<1> USE <1>0 DEF OnePlace, WaitingUntouched, BlockState
<1>1. ASSUME NEW c \in Clients, NEW filter \in SUBSET Pieces,
             PickBlocksFromDownloadingPieces(c, filter)
      PROVE  WaitingUntouched'
  BY <1>1, SetBlockType DEF PickBlocksFromDownloadingPieces, Best, containers, verification
<1>2. ASSUME NEW c \in Clients,
             PickBlocksFromWaitingPieces(c)
      PROVE  WaitingUntouched'
  BY <1>2, SetBlockType, BlockZero DEF PickBlocksFromWaitingPieces, Best, verification
<1>3. ASSUME NEW c \in Clients,
             PickPieces(c)
      PROVE  WaitingUntouched'
  BY <1>3 DEF PickPieces, Best, verification
<1>4. ASSUME NEW c \in Clients, NEW p \in Pieces, NEW b \in Blocks(p),
             MarkBlockFailed(c, p, b)
      PROVE  WaitingUntouched'
  BY <1>4, SetBlockType, HeldBlock DEF MarkBlockFailed, containers, verification
<1>5. ASSUME NEW c \in Clients, NEW p \in Pieces, NEW b \in Blocks(p),
             MarkBlockFinished(c, p, b)
      PROVE  WaitingUntouched'
  BY <1>5, SetBlockType, HeldBlock DEF MarkBlockFinished
<1>6. ASSUME NEW c \in Clients, NEW p \in Pieces,
             MarkPieceFailed(c, p)
      PROVE  WaitingUntouched'
  BY <1>6, ConstructDownloadPieceType, AssignedPiece DEF MarkPieceFailed, verification
<1>7. ASSUME NEW p \in Pieces,
             SetPieceHighestPriority(p)
      PROVE  WaitingUntouched'
  BY <1>7 DEF SetPieceHighestPriority, verification, callers
<1>8. ASSUME NEW p \in Pieces,
             OnVerifyPieceOk(p)
      PROVE  WaitingUntouched'
  BY <1>8, VerifyingPiece DEF OnVerifyPieceOk, pieceInfo, callers
<1>9. ASSUME NEW p \in Pieces,
             AnnouncePiece(p)
      PROVE  WaitingUntouched'
  BY <1>9 DEF AnnouncePiece, containers, pieceInfo, callers
<1>10. ASSUME NEW p \in Pieces,
             FailToVerifyPieceProc(p)
      PROVE  WaitingUntouched'
  BY <1>10, ConstructDownloadPieceType, VerifyingPiece DEF FailToVerifyPieceProc, callers
<1>11. CASE UNCHANGED vars
  BY <1>11 DEF vars, containers, pieceInfo, verification, callers
<1> QED
  BY <1>1, <1>2, <1>3, <1>4, <1>5, <1>6, <1>7, <1>8, <1>9, <1>10, <1>11 DEF Next

(* While a piece is given to a proxy nobody changes the states of its      *)
(* blocks.                                                                 *)
LEMMA AssignedDownloadingStep == IInv /\ [Next]_vars => AssignedDownloading'
<1> SUFFICES ASSUME IInv, [Next]_vars
             PROVE  AssignedDownloading'
  OBVIOUS
<1>0. /\ TypeOK
      /\ OnePlace
      /\ waiting \in SUBSET Pieces /\ downloading \in SUBSET Pieces
      /\ assigned \in [Clients -> SUBSET Pieces]
      /\ blocks = [p \in Pieces |-> blocks[p]]
  BY DEF IInv, TypeOK
<1>00. \A c \in Clients : \A p \in assigned[c] :
         p \in downloading /\ \A b \in Blocks(p) : blocks[p][b] = "DOWNLOADING"
  BY AssignedPiece
<1> USE <1>0, <1>00 DEF OnePlace, AssignedDownloading, BlockState
<1>1. ASSUME NEW c \in Clients, NEW filter \in SUBSET Pieces,
             PickBlocksFromDownloadingPieces(c, filter)
      PROVE  AssignedDownloading'
  <2>1. CASE UNCHANGED blocks
    BY <1>1, <2>1 DEF PickBlocksFromDownloadingPieces
  <2>2. ASSUME NEW p \in downloading, NEW b \in Blocks(p), Pickable(p, b),
               SetBlock(p, b, "DOWNLOADING")
        PROVE  AssignedDownloading'
    <3>1. \A d \in Clients : p \notin assigned[d]
      BY <2>2 DEF Pickable
    <3>2. \A q \in Pieces \ {p} : blocks'[q] = blocks[q]
      BY <2>2, SetBlockType
    <3> QED
      BY <1>1, <3>1, <3>2 DEF PickBlocksFromDownloadingPieces
  <2> QED
    BY <1>1, <2>1, <2>2 DEF PickBlocksFromDownloadingPieces, Best
<1>2. ASSUME NEW c \in Clients,
             PickBlocksFromWaitingPieces(c)
      PROVE  AssignedDownloading'
  BY <1>2, SetBlockType, BlockZero DEF PickBlocksFromWaitingPieces, Best, verification
<1>3. ASSUME NEW c \in Clients,
             PickPieces(c)
      PROVE  AssignedDownloading'
  BY <1>3 DEF PickPieces, Best, verification
<1>4. ASSUME NEW c \in Clients, NEW p \in Pieces, NEW b \in Blocks(p),
             MarkBlockFailed(c, p, b)
      PROVE  AssignedDownloading'
  <2>1. \A d \in Clients : p \notin assigned'[d]
    BY <1>4, HeldNotAssigned DEF MarkBlockFailed
  <2>2. \A q \in Pieces \ {p} : blocks'[q] = blocks[q]
    BY <1>4, SetBlockType DEF MarkBlockFailed
  <2> QED
    BY <1>4, <2>1, <2>2 DEF MarkBlockFailed
<1>5. ASSUME NEW c \in Clients, NEW p \in Pieces, NEW b \in Blocks(p),
             MarkBlockFinished(c, p, b)
      PROVE  AssignedDownloading'
  <2>1. \A d \in Clients : p \notin assigned'[d]
    BY <1>5, HeldNotAssigned DEF MarkBlockFinished
  <2>2. \A q \in Pieces \ {p} : blocks'[q] = blocks[q]
    BY <1>5, SetBlockType DEF MarkBlockFinished
  <2> QED
    BY <1>5, <2>1, <2>2 DEF MarkBlockFinished
<1>6. ASSUME NEW c \in Clients, NEW p \in Pieces,
             MarkPieceFailed(c, p)
      PROVE  AssignedDownloading'
  <2>1. \A d \in Clients : p \notin assigned'[d]
    BY <1>6, AssignedOnce DEF MarkPieceFailed
  <2>2. \A q \in Pieces \ {p} : blocks'[q] = blocks[q]
    BY <1>6, ConstructDownloadPieceType DEF MarkPieceFailed
  <2> QED
    BY <1>6, <2>1, <2>2 DEF MarkPieceFailed
<1>7. ASSUME NEW p \in Pieces,
             SetPieceHighestPriority(p)
      PROVE  AssignedDownloading'
  BY <1>7 DEF SetPieceHighestPriority, verification, callers
<1>8. ASSUME NEW p \in Pieces,
             OnVerifyPieceOk(p)
      PROVE  AssignedDownloading'
  BY <1>8 DEF OnVerifyPieceOk, pieceInfo, callers
<1>9. ASSUME NEW p \in Pieces,
             AnnouncePiece(p)
      PROVE  AssignedDownloading'
  BY <1>9 DEF AnnouncePiece, containers, pieceInfo, callers
<1>10. ASSUME NEW p \in Pieces,
             FailToVerifyPieceProc(p)
      PROVE  AssignedDownloading'
  <2>1. \A d \in Clients : p \notin assigned'[d]
    BY <1>10, VerifyingPiece DEF FailToVerifyPieceProc, callers
  <2>2. \A q \in Pieces \ {p} : blocks'[q] = blocks[q]
    BY <1>10, ConstructDownloadPieceType DEF FailToVerifyPieceProc
  <2> QED
    BY <1>10, <2>1, <2>2 DEF FailToVerifyPieceProc, callers
<1>11. CASE UNCHANGED vars
  BY <1>11 DEF vars, containers, pieceInfo, verification, callers
<1> QED
  BY <1>1, <1>2, <1>3, <1>4, <1>5, <1>6, <1>7, <1>8, <1>9, <1>10, <1>11 DEF Next

(* A waiting piece has no finished block, and its count says so.           *)
LEMMA WaitingDone ==
  ASSUME IInv, NEW p \in waiting
  PROVE  Done(p) = {} /\ finishedBlocks[p] = Cardinality(Done(p)) /\ finishedBlocks[p] < BlockNum[p]
<1>1. p \in Pieces /\ blocks[p] = FreshBlocks(p) /\ finishedBlocks[p] = 0
  BY DEF IInv, TypeOK, WaitingUntouched
<1> QED
  BY <1>1, FS_EmptySet, BlockNumAssumption DEF FreshBlocks, Done

(* MarkBlockFinished counts each block once and moves the piece on with    *)
(* its last one; the other calls keep the count.                           *)
LEMMA FinishedBlocksCountedStep == IInv /\ [Next]_vars => FinishedBlocksCounted'
<1> SUFFICES ASSUME IInv, [Next]_vars
             PROVE  FinishedBlocksCounted'
  OBVIOUS
<1>0. /\ TypeOK
      /\ OnePlace
      /\ FinishedBlocksCounted
      /\ waiting \in SUBSET Pieces /\ downloading \in SUBSET Pieces
      /\ finishedBlocks \in [Pieces -> Nat]
      /\ blocks = [p \in Pieces |-> blocks[p]]
  BY DEF IInv, TypeOK
<1> USE <1>0 DEF OnePlace, FinishedBlocksCounted, BlockState
<1>1. ASSUME NEW c \in Clients, NEW filter \in SUBSET Pieces,
             PickBlocksFromDownloadingPieces(c, filter)
      PROVE  FinishedBlocksCounted'
  <2>1. CASE UNCHANGED blocks
    BY <1>1, <2>1 DEF PickBlocksFromDownloadingPieces, containers, Done
  <2>2. ASSUME NEW p \in downloading, NEW b \in Blocks(p), Pickable(p, b),
               SetBlock(p, b, "DOWNLOADING")
        PROVE  FinishedBlocksCounted'
    <3>1. \A q \in Pieces : Done(q)' = Done(q)
      BY <2>2, SetBlockType DEF Pickable, Done
    <3> QED
      BY <1>1, <3>1 DEF PickBlocksFromDownloadingPieces, containers
  <2> QED
    BY <1>1, <2>1, <2>2 DEF PickBlocksFromDownloadingPieces, Best
<1>2. ASSUME NEW c \in Clients,
             PickBlocksFromWaitingPieces(c)
      PROVE  FinishedBlocksCounted'
  <2>1. CASE UNCHANGED <<waiting, downloading, blocks, held>>
    <3>1. \A q \in Pieces : Done(q)' = Done(q)
      BY <2>1 DEF Done
    <3> QED
      BY <1>2, <2>1, <3>1 DEF PickBlocksFromWaitingPieces
  <2>2. ASSUME NEW p \in waiting, SetBlock(p, 0, "DOWNLOADING"),
               downloading' = downloading \cup {p}
        PROVE  FinishedBlocksCounted'
    <3>1. 0 \in Blocks(p) /\ 0 \notin Done(p)
      BY BlockZero, WaitingDone
    <3>2. \A q \in Pieces : Done(q)' = Done(q)
      BY <2>2, <3>1, SetBlockType DEF Done
    <3> QED
      BY <1>2, <2>2, <3>2, WaitingDone DEF PickBlocksFromWaitingPieces
  <2> QED
    BY <1>2, <2>1, <2>2 DEF PickBlocksFromWaitingPieces, Best
<1>3. ASSUME NEW c \in Clients,
             PickPieces(c)
      PROVE  FinishedBlocksCounted'
  <2> PICK p \in waiting : /\ blocks' = [blocks EXCEPT ![p] = [b \in Blocks(p) |-> "DOWNLOADING"]]
                           /\ downloading' = downloading \cup {p}
    BY <1>3 DEF PickPieces, Best
  <2>1. \A q \in Pieces : Done(q)' = Done(q)
    BY WaitingDone DEF Done
  <2> QED
    BY <1>3, <2>1, WaitingDone DEF PickPieces
<1>4. ASSUME NEW c \in Clients, NEW p \in Pieces, NEW b \in Blocks(p),
             MarkBlockFailed(c, p, b)
      PROVE  FinishedBlocksCounted'
  <2>1. \A q \in Pieces : Done(q)' = Done(q)
    <3>1. SetBlock(p, b, "WAITING") /\ b \notin Done(p)
      BY <1>4, HeldBlock DEF MarkBlockFailed, Done
    <3> QED
      BY <3>1, SetBlockType DEF Done
  <2> QED
    BY <1>4, <2>1 DEF MarkBlockFailed, containers
<1>5. ASSUME NEW c \in Clients, NEW p \in Pieces, NEW b \in Blocks(p),
             MarkBlockFinished(c, p, b)
      PROVE  FinishedBlocksCounted'
  <2>1. p \in downloading /\ blocks[p][b] = "DOWNLOADING"
    BY <1>5, HeldBlock DEF MarkBlockFinished
  <2>2. SetBlock(p, b, "FINISHED")
    BY <1>5 DEF MarkBlockFinished
  <2>3. Done(p)' = Done(p) \cup {b} /\ \A q \in Pieces \ {p} : Done(q)' = Done(q)
    BY <2>2, SetBlockType DEF Done
  <2>4. /\ finishedBlocks'[p] = finishedBlocks[p] + 1
        /\ \A q \in Pieces \ {p} : finishedBlocks'[q] = finishedBlocks[q]
        /\ downloading' \subseteq downloading
        /\ p \in downloading' => finishedBlocks[p] + 1 < BlockNum[p]
    BY <1>5 DEF MarkBlockFinished
  <2> QED
    BY <2>1, <2>3, <2>4, LastBlock
<1>6. ASSUME NEW c \in Clients, NEW p \in Pieces,
             MarkPieceFailed(c, p)
      PROVE  FinishedBlocksCounted'
  <2>1. Done(p)' = {} /\ \A q \in Pieces \ {p} : Done(q)' = Done(q)
    <3>1. \A q \in Pieces : blocks'[q] = IF q = p THEN FreshBlocks(p) ELSE blocks[q]
      BY <1>6, ConstructDownloadPieceType DEF MarkPieceFailed
    <3> QED
      BY <3>1 DEF Done, FreshBlocks
  <2>2. finishedBlocks'[p] = 0 /\ \A q \in Pieces \ {p} : finishedBlocks'[q] = finishedBlocks[q]
    BY <1>6, ConstructDownloadPieceType DEF MarkPieceFailed
  <2>3. downloading' \subseteq downloading
    BY <1>6 DEF MarkPieceFailed
  <2> QED
    BY <2>1, <2>2, <2>3, FS_EmptySet, BlockNumAssumption, SMTT(30)
<1>7. ASSUME NEW p \in Pieces,
             SetPieceHighestPriority(p)
      PROVE  FinishedBlocksCounted'
  <2>1. \A q \in Pieces : Done(q)' = Done(q)
    BY <1>7 DEF SetPieceHighestPriority, Done
  <2> QED
    BY <1>7, <2>1, WaitingDone DEF SetPieceHighestPriority
<1>8. ASSUME NEW p \in Pieces,
             OnVerifyPieceOk(p)
      PROVE  FinishedBlocksCounted'
  BY <1>8 DEF OnVerifyPieceOk, pieceInfo, Done
<1>9. ASSUME NEW p \in Pieces,
             AnnouncePiece(p)
      PROVE  FinishedBlocksCounted'
  BY <1>9 DEF AnnouncePiece, pieceInfo, containers, Done
<1>10. ASSUME NEW p \in Pieces,
             FailToVerifyPieceProc(p)
      PROVE  FinishedBlocksCounted'
  <2>1. \A q \in Pieces \ {p} : Done(q)' = Done(q) /\ finishedBlocks'[q] = finishedBlocks[q]
    BY <1>10, ConstructDownloadPieceType DEF FailToVerifyPieceProc, Done
  <2>2. p \notin downloading'
    BY <1>10, VerifyingPiece DEF FailToVerifyPieceProc
  <2> QED
    BY <1>10, <2>1, <2>2 DEF FailToVerifyPieceProc
<1>11. CASE UNCHANGED vars
  BY <1>11 DEF vars, containers, pieceInfo, verification, callers, Done
<1> QED
  BY <1>1, <1>2, <1>3, <1>4, <1>5, <1>6, <1>7, <1>8, <1>9, <1>10, <1>11 DEF Next

(* What a fragment queue holds stays a DOWNLOADING block of a downloading  *)
(* piece until its connection gives it back.                               *)
LEMMA HeldInDownloadingStep == IInv /\ [Next]_vars => HeldInDownloading'
<1> SUFFICES ASSUME IInv, [Next]_vars
             PROVE  HeldInDownloading'
  OBVIOUS
<1>0. /\ TypeOK
      /\ OnePlace
      /\ HeldInDownloading
      /\ waiting \in SUBSET Pieces /\ downloading \in SUBSET Pieces
      /\ held \in [Clients -> SUBSET (Pieces \X Nat)]
      /\ blocks = [p \in Pieces |-> blocks[p]]
  BY DEF IInv, TypeOK, MarksMeetAsserts
<1> USE <1>0 DEF OnePlace, HeldInDownloading, BlockState
<1>1. ASSUME NEW c \in Clients, NEW filter \in SUBSET Pieces,
             PickBlocksFromDownloadingPieces(c, filter)
      PROVE  HeldInDownloading'
  <2>1. CASE UNCHANGED <<blocks, held>>
    BY <1>1, <2>1 DEF PickBlocksFromDownloadingPieces, containers
  <2>2. ASSUME NEW p \in downloading, NEW b \in Blocks(p),
               SetBlock(p, b, "DOWNLOADING"), held' = [held EXCEPT ![c] = {<<p, b>>}]
        PROVE  HeldInDownloading'
    <3>1. \A q \in Pieces : \A a \in Blocks(q) :
            blocks[q][a] = "DOWNLOADING" => blocks'[q][a] = "DOWNLOADING"
      BY <2>2, SetBlockType
    <3>2. blocks'[p][b] = "DOWNLOADING"
      BY <2>2, SetBlockType
    <3>3. downloading' = downloading
      BY <1>1 DEF PickBlocksFromDownloadingPieces, containers
    <3> QED
      BY <2>2, <3>1, <3>2, <3>3
  <2> QED
    BY <1>1, <2>1, <2>2 DEF PickBlocksFromDownloadingPieces, Best
<1>2. ASSUME NEW c \in Clients, PickBlocksFromWaitingPieces(c)
      PROVE  HeldInDownloading'
  <2>1. CASE UNCHANGED <<waiting, downloading, blocks, held>>
    BY <2>1
  <2>2. ASSUME NEW p \in waiting, SetBlock(p, 0, "DOWNLOADING"),
               downloading' = downloading \cup {p},
               held' = [held EXCEPT ![c] = {<<p, 0>>}]
        PROVE  HeldInDownloading'
    <3>1. \A q \in Pieces : \A a \in Blocks(q) :
            blocks[q][a] = "DOWNLOADING" => blocks'[q][a] = "DOWNLOADING"
      BY <2>2, SetBlockType, BlockZero
    <3>2. 0 \in Blocks(p) /\ blocks'[p][0] = "DOWNLOADING"
      BY <2>2, SetBlockType, BlockZero
    <3> QED
      BY <2>2, <3>1, <3>2
  <2> QED
    BY <1>2, <2>1, <2>2 DEF PickBlocksFromWaitingPieces, Best
<1>3. ASSUME NEW c \in Clients, PickPieces(c)
      PROVE  HeldInDownloading'
  BY <1>3 DEF PickPieces, Best
<1>4. ASSUME NEW c \in Clients, NEW p \in Pieces, NEW b \in Blocks(p),
             MarkBlockFailed(c, p, b)
      PROVE  HeldInDownloading'
  <2>1. \A d \in Clients : \A pb \in held'[d] : pb \in held[d] /\ pb # <<p, b>>
    BY <1>4, HeldOnce DEF MarkBlockFailed
  <2>2. SetBlock(p, b, "WAITING") /\ downloading' = downloading
    BY <1>4 DEF MarkBlockFailed, containers
  <2> QED
    BY <2>1, <2>2, SetBlockType
<1>5. ASSUME NEW c \in Clients, NEW p \in Pieces, NEW b \in Blocks(p),
             MarkBlockFinished(c, p, b)
      PROVE  HeldInDownloading'
  <2>0. finishedBlocks[p] \in Nat /\ BlockNum[p] \in Nat
    BY BlockNumAssumption DEF TypeOK
  <2>1. \A d \in Clients : \A pb \in held'[d] : pb \in held[d] /\ pb # <<p, b>>
    BY <1>5, HeldOnce DEF MarkBlockFinished
  <2>2. SetBlock(p, b, "FINISHED")
    BY <1>5 DEF MarkBlockFinished
  <2>3. p \in downloading /\ blocks[p][b] = "DOWNLOADING"
    BY <1>5, HeldBlock DEF MarkBlockFinished
  <2>4. CASE downloading' = downloading
    BY <2>1, <2>2, <2>4, SetBlockType
  <2>5. CASE downloading' = downloading \ {p} /\ finishedBlocks[p] + 1 >= BlockNum[p]
    <3>1. Done(p) \cup {b} = Blocks(p)
      <4>1. /\ finishedBlocks[p] + 1 <= BlockNum[p]
            /\ finishedBlocks[p] + 1 = BlockNum[p] => Done(p) \cup {b} = Blocks(p)
        BY <2>3, LastBlock
      <4> QED
        BY <4>1, <2>0, <2>5
    <3>2. \A d \in Clients : \A pb \in held'[d] : pb[1] # p
      BY <2>1, <3>1 DEF Done
    <3> QED
      BY <2>1, <2>2, <2>5, <3>2, SetBlockType
  <2> QED
    BY <1>5, <2>0, <2>4, <2>5 DEF MarkBlockFinished
<1>6. ASSUME NEW c \in Clients, NEW p \in Pieces, MarkPieceFailed(c, p)
      PROVE  HeldInDownloading'
  <2>1. held' = held /\ \A d \in Clients : \A pb \in held[d] : pb[1] # p
    BY <1>6, HeldNotAssigned DEF MarkPieceFailed
  <2>2. \A q \in Pieces \ {p} : /\ blocks'[q] = blocks[q]
                                /\ q \in downloading' <=> q \in downloading
    BY <1>6, ConstructDownloadPieceType DEF MarkPieceFailed
  <2> QED
    BY <2>1, <2>2
<1>7. ASSUME NEW p \in Pieces, SetPieceHighestPriority(p)
      PROVE  HeldInDownloading'
  BY <1>7 DEF SetPieceHighestPriority, callers
<1>8. ASSUME NEW p \in Pieces, OnVerifyPieceOk(p)
      PROVE  HeldInDownloading'
  BY <1>8 DEF OnVerifyPieceOk, pieceInfo, callers
<1>9. ASSUME NEW p \in Pieces, AnnouncePiece(p)
      PROVE  HeldInDownloading'
  BY <1>9 DEF AnnouncePiece, containers, pieceInfo, callers
<1>10. ASSUME NEW p \in Pieces, FailToVerifyPieceProc(p)
       PROVE  HeldInDownloading'
  <2>1. held' = held /\ downloading' = downloading /\ p \notin downloading
    BY <1>10, VerifyingPiece DEF FailToVerifyPieceProc, callers
  <2>2. \A q \in Pieces \ {p} : blocks'[q] = blocks[q]
    BY <1>10, ConstructDownloadPieceType DEF FailToVerifyPieceProc
  <2> QED
    BY <2>1, <2>2
<1>11. CASE UNCHANGED vars
  BY <1>11 DEF vars, containers, pieceInfo, verification, callers
<1> QED
  BY <1>1, <1>2, <1>3, <1>4, <1>5, <1>6, <1>7, <1>8, <1>9, <1>10, <1>11 DEF Next

(* A piece given to a proxy stays among the downloading pieces.            *)
LEMMA AssignedStep ==
  IInv /\ [Next]_vars => \A c \in Clients : assigned'[c] \subseteq downloading'
<1> SUFFICES ASSUME IInv, [Next]_vars, NEW d \in Clients
             PROVE  assigned'[d] \subseteq downloading'
  OBVIOUS
<1>0. /\ assigned \in [Clients -> SUBSET Pieces]
      /\ assigned[d] \subseteq downloading
      /\ OnePlace
  BY DEF IInv, TypeOK, MarksMeetAsserts
<1> USE <1>0 DEF OnePlace
<1>1. ASSUME NEW c \in Clients, NEW filter \in SUBSET Pieces,
             PickBlocksFromDownloadingPieces(c, filter)
      PROVE  assigned'[d] \subseteq downloading'
  BY <1>1 DEF PickBlocksFromDownloadingPieces, containers
<1>2. ASSUME NEW c \in Clients, PickBlocksFromWaitingPieces(c)
      PROVE  assigned'[d] \subseteq downloading'
  BY <1>2 DEF PickBlocksFromWaitingPieces
<1>3. ASSUME NEW c \in Clients, PickPieces(c)
      PROVE  assigned'[d] \subseteq downloading'
  BY <1>3 DEF PickPieces
<1>4. ASSUME NEW c \in Clients, NEW p \in Pieces, NEW b \in Blocks(p),
             MarkBlockFailed(c, p, b)
      PROVE  assigned'[d] \subseteq downloading'
  BY <1>4 DEF MarkBlockFailed, containers
<1>5. ASSUME NEW c \in Clients, NEW p \in Pieces, NEW b \in Blocks(p),
             MarkBlockFinished(c, p, b)
      PROVE  assigned'[d] \subseteq downloading'
  BY <1>5, HeldNotAssigned DEF MarkBlockFinished
<1>6. ASSUME NEW c \in Clients, NEW p \in Pieces, MarkPieceFailed(c, p)
      PROVE  assigned'[d] \subseteq downloading'
  <2>1. p \notin assigned'[d]
    BY <1>6, AssignedOnce DEF MarkPieceFailed
  <2> QED
    BY <1>6, <2>1 DEF MarkPieceFailed
<1>7. ASSUME NEW p \in Pieces, SetPieceHighestPriority(p)
      PROVE  assigned'[d] \subseteq downloading'
  BY <1>7 DEF SetPieceHighestPriority, callers
<1>8. ASSUME NEW p \in Pieces, OnVerifyPieceOk(p)
      PROVE  assigned'[d] \subseteq downloading'
  BY <1>8 DEF OnVerifyPieceOk, callers
<1>9. ASSUME NEW p \in Pieces, AnnouncePiece(p)
      PROVE  assigned'[d] \subseteq downloading'
  BY <1>9 DEF AnnouncePiece, containers, callers
<1>10. ASSUME NEW p \in Pieces, FailToVerifyPieceProc(p)
       PROVE  assigned'[d] \subseteq downloading'
  BY <1>10 DEF FailToVerifyPieceProc, callers
<1>11. CASE UNCHANGED vars
  BY <1>11 DEF vars, containers, callers
<1> QED
  BY <1>1, <1>2, <1>3, <1>4, <1>5, <1>6, <1>7, <1>8, <1>9, <1>10, <1>11 DEF Next

(* The two halves of OnVerifyPiece and the failed check keep the three     *)
(* records of verified pieces equal.                                       *)
LEMMA VerifiedAgreeStep == IInv /\ [Next]_vars => VerifiedAgree'
<1> SUFFICES ASSUME IInv, [Next]_vars
             PROVE  VerifiedAgree'
  OBVIOUS
<1>0. /\ VerifiedAgree
      /\ OnePlace
      /\ verified \in SUBSET Pieces
  BY DEF IInv, TypeOK
<1> USE <1>0 DEF VerifiedAgree
<1>1. ASSUME NEW c \in Clients, NEW filter \in SUBSET Pieces,
             PickBlocksFromDownloadingPieces(c, filter)
      PROVE  VerifiedAgree'
  BY <1>1 DEF PickBlocksFromDownloadingPieces, containers, verification
<1>2. ASSUME NEW c \in Clients, PickBlocksFromWaitingPieces(c)
      PROVE  VerifiedAgree'
  BY <1>2 DEF PickBlocksFromWaitingPieces, verification
<1>3. ASSUME NEW c \in Clients, PickPieces(c)
      PROVE  VerifiedAgree'
  BY <1>3 DEF PickPieces, verification
<1>4. ASSUME NEW c \in Clients, NEW p \in Pieces, NEW b \in Blocks(p),
             MarkBlockFailed(c, p, b)
      PROVE  VerifiedAgree'
  BY <1>4 DEF MarkBlockFailed, containers, verification
<1>5. ASSUME NEW c \in Clients, NEW p \in Pieces, NEW b \in Blocks(p),
             MarkBlockFinished(c, p, b)
      PROVE  VerifiedAgree'
  <2>1. p \notin finished
    BY <1>5, HeldBlock DEF MarkBlockFinished, OnePlace
  <2> QED
    BY <1>5, <2>1 DEF MarkBlockFinished
<1>6. ASSUME NEW c \in Clients, NEW p \in Pieces, MarkPieceFailed(c, p)
      PROVE  VerifiedAgree'
  BY <1>6 DEF MarkPieceFailed, verification
<1>7. ASSUME NEW p \in Pieces, SetPieceHighestPriority(p)
      PROVE  VerifiedAgree'
  BY <1>7 DEF SetPieceHighestPriority, verification
<1>8. ASSUME NEW p \in Pieces, OnVerifyPieceOk(p)
      PROVE  VerifiedAgree'
  <2>1. IsFiniteSet(verified) /\ p \notin verified
    BY <1>8, PiecesFinite, FS_Subset, VerifyingPiece DEF OnVerifyPieceOk
  <2>2. Cardinality(verified \cup {p}) = Cardinality(verified) + 1
    BY <2>1, FS_AddElement
  <2> QED
    BY <1>8, <2>2 DEF OnVerifyPieceOk
<1>9. ASSUME NEW p \in Pieces, AnnouncePiece(p)
      PROVE  VerifiedAgree'
  BY <1>9 DEF AnnouncePiece, containers
<1>10. ASSUME NEW p \in Pieces, FailToVerifyPieceProc(p)
       PROVE  VerifiedAgree'
  BY <1>10, VerifyingPiece DEF FailToVerifyPieceProc
<1>11. CASE UNCHANGED vars
  BY <1>11 DEF vars, containers, verification
<1> QED
  BY <1>1, <1>2, <1>3, <1>4, <1>5, <1>6, <1>7, <1>8, <1>9, <1>10, <1>11 DEF Next

(* No call gives a block to a second connection, and a block left by its   *)
(* connection is WAITING again.                                            *)
LEMMA OneHolderStep == IInv /\ [Next]_vars => OneHolder'
<1> SUFFICES ASSUME IInv, [Next]_vars
             PROVE  OneHolder'
  OBVIOUS
<1>0. /\ TypeOK
      /\ OnePlace
      /\ OneHolder
      /\ waiting \in SUBSET Pieces /\ downloading \in SUBSET Pieces
      /\ held \in [Clients -> SUBSET (Pieces \X Nat)]
      /\ assigned \in [Clients -> SUBSET Pieces]
      /\ blocks = [p \in Pieces |-> blocks[p]]
  BY DEF IInv, TypeOK
<1>00. \A c \in Clients : \A p \in Pieces : \A b \in Blocks(p) :
         Answers(c, p, b) => p \in downloading /\ blocks[p][b] = "DOWNLOADING"
  BY HeldBlock, AssignedPiece DEF Answers
<1> USE <1>0 DEF OnePlace, OneHolder, BlockState
<1>1. ASSUME NEW c \in Clients, NEW filter \in SUBSET Pieces,
             PickBlocksFromDownloadingPieces(c, filter)
      PROVE  OneHolder'
  <2>1. CASE UNCHANGED <<blocks, held>>
    BY <1>1, <2>1 DEF PickBlocksFromDownloadingPieces, containers, Answers
  <2>2. ASSUME NEW p \in downloading, NEW b \in Blocks(p), Pickable(p, b),
               SetBlock(p, b, "DOWNLOADING"), held' = [held EXCEPT ![c] = {<<p, b>>}]
        PROVE  OneHolder'
    <3>1. held[c] = {} /\ UNCHANGED <<downloading, assigned>>
      BY <1>1 DEF PickBlocksFromDownloadingPieces, containers
    <3>2. \A d \in Clients : ~Answers(d, p, b)
      BY <1>00, <2>2 DEF Pickable
    <3>3. \A d \in Clients : \A q \in Pieces : \A a \in Blocks(q) :
            Answers(d, q, a)' <=> Answers(d, q, a) \/ (d = c /\ q = p /\ a = b)
      BY <2>2, <3>1 DEF Answers
    <3>4. \A q \in Pieces : \A a \in Blocks(q) :
            blocks'[q][a] = "DOWNLOADING" => blocks[q][a] = "DOWNLOADING" \/ (q = p /\ a = b)
      BY <2>2, SetBlockType
    <3>5. \A d \in Clients : \A q \in assigned'[d] : \A a \in Blocks(q) : <<q, a>> \notin held'[d]
      <4>1. \A d \in Clients : p \notin assigned[d]
        BY <3>2 DEF Answers
      <4>2. ASSUME NEW d \in Clients, NEW q \in assigned[d], NEW a \in Blocks(q)
            PROVE  <<q, a>> \notin held'[d]
        <5>1. q # p /\ <<q, a>> \notin held[d]
          BY <4>1
        <5>2. CASE d = c
          BY <2>2, <5>1, <5>2
        <5>3. CASE d # c
          BY <2>2, <5>1, <5>3
        <5> QED
          BY <5>2, <5>3
      <4> QED
        BY <3>1, <4>2
    <3> QED
      BY <3>1, <3>2, <3>3, <3>4, <3>5
  <2> QED
    BY <1>1, <2>1, <2>2 DEF PickBlocksFromDownloadingPieces, Best
<1>2. ASSUME NEW c \in Clients, PickBlocksFromWaitingPieces(c)
      PROVE  OneHolder'
  <2>1. CASE UNCHANGED <<waiting, downloading, blocks, held>>
    BY <1>2, <2>1 DEF PickBlocksFromWaitingPieces, Answers
  <2>2. ASSUME NEW p \in waiting, SetBlock(p, 0, "DOWNLOADING"),
               downloading' = downloading \cup {p},
               held' = [held EXCEPT ![c] = {<<p, 0>>}]
        PROVE  OneHolder'
    <3>1. held[c] = {} /\ UNCHANGED assigned
      BY <1>2 DEF PickBlocksFromWaitingPieces, IInv, PickingHoldsNothing
    <3>2. \A d \in Clients : \A a \in Blocks(p) : ~Answers(d, p, a)
      BY <1>00, <2>2
    <3>3. \A d \in Clients : \A q \in Pieces : \A a \in Blocks(q) :
            Answers(d, q, a)' <=> Answers(d, q, a) \/ (d = c /\ q = p /\ a = 0)
      BY <2>2, <3>1, BlockZero DEF Answers
    <3>4. \A q \in Pieces : \A a \in Blocks(q) :
            blocks'[q][a] = "DOWNLOADING" => blocks[q][a] = "DOWNLOADING" \/ (q = p /\ a = 0)
      BY <2>2, SetBlockType, BlockZero
    <3>5. \A a \in Blocks(p) : a # 0 => blocks'[p][a] # "DOWNLOADING"
      BY <2>2, <3>4, WaitingBlocks
    <3>6. \A d \in Clients : \A q \in assigned'[d] : \A a \in Blocks(q) : <<q, a>> \notin held'[d]
      <4>1. \A d \in Clients : p \notin assigned[d]
        BY <3>2, BlockZero DEF Answers
      <4>2. ASSUME NEW d \in Clients, NEW q \in assigned[d], NEW a \in Blocks(q)
            PROVE  <<q, a>> \notin held'[d]
        <5>1. q # p /\ <<q, a>> \notin held[d]
          BY <4>1
        <5>2. CASE d = c
          BY <2>2, <5>1, <5>2
        <5>3. CASE d # c
          BY <2>2, <5>1, <5>3
        <5> QED
          BY <5>2, <5>3
      <4> QED
        BY <3>1, <4>2
    <3> QED
      BY <2>2, <3>1, <3>2, <3>3, <3>4, <3>5, <3>6, BlockZero
  <2> QED
    BY <1>2, <2>1, <2>2 DEF PickBlocksFromWaitingPieces, Best
<1>3. ASSUME NEW c \in Clients, PickPieces(c)
      PROVE  OneHolder'
  <2> PICK p \in waiting :
        /\ blocks' = [blocks EXCEPT ![p] = [b \in Blocks(p) |-> "DOWNLOADING"]]
        /\ downloading' = downloading \cup {p}
        /\ assigned' = [assigned EXCEPT ![c] = {p}]
    BY <1>3 DEF PickPieces, Best
  <2>1. assigned[c] = {} /\ UNCHANGED held
    BY <1>3 DEF PickPieces
  <2>2. \A d \in Clients : \A a \in Blocks(p) : ~Answers(d, p, a)
    BY <1>00
  <2>3. \A d \in Clients : \A q \in Pieces : \A a \in Blocks(q) :
          Answers(d, q, a)' <=> Answers(d, q, a) \/ (d = c /\ q = p)
    BY <2>1, <2>2 DEF Answers
  <2>4. \A q \in Pieces \ {p} : blocks'[q] = blocks[q]
    OBVIOUS
  <2>5. \A d \in Clients : \A q \in assigned'[d] : \A a \in Blocks(q) : <<q, a>> \notin held'[d]
    BY <2>1, <2>2 DEF Answers
  <2> QED
    BY <2>2, <2>3, <2>4, <2>5, SMTT(30)
<1>4. ASSUME NEW c \in Clients, NEW p \in Pieces, NEW b \in Blocks(p),
             MarkBlockFailed(c, p, b)
      PROVE  OneHolder'
  <2>1. \A d \in Clients : Answers(d, p, b) => d = c
    BY <1>4 DEF MarkBlockFailed, Answers
  <2>2. \A d \in Clients : p \notin assigned[d]
    BY <1>4, HeldNotAssigned DEF MarkBlockFailed
  <2>3. /\ SetBlock(p, b, "WAITING")
        /\ held' = [held EXCEPT ![c] = @ \ {<<p, b>>}]
        /\ UNCHANGED <<downloading, assigned>>
    BY <1>4 DEF MarkBlockFailed, containers
  <2>4. \A d \in Clients : \A q \in Pieces : \A a \in Blocks(q) :
          Answers(d, q, a)' <=> Answers(d, q, a) /\ ~(q = p /\ a = b)
    BY <2>1, <2>2, <2>3 DEF Answers
  <2>5. \A q \in Pieces : \A a \in Blocks(q) :
          blocks'[q][a] = "DOWNLOADING" => blocks[q][a] = "DOWNLOADING" /\ ~(q = p /\ a = b)
    BY <2>3, SetBlockType
  <2>6. \A d \in Clients : \A q \in assigned'[d] : \A a \in Blocks(q) : <<q, a>> \notin held'[d]
    BY <2>3
  <2> QED
    BY <2>3, <2>4, <2>5, <2>6
<1>5. ASSUME NEW c \in Clients, NEW p \in Pieces, NEW b \in Blocks(p),
             MarkBlockFinished(c, p, b)
      PROVE  OneHolder'
  <2>1. \A d \in Clients : Answers(d, p, b) => d = c
    BY <1>5 DEF MarkBlockFinished, Answers
  <2>2. \A d \in Clients : p \notin assigned[d]
    BY <1>5, HeldNotAssigned DEF MarkBlockFinished
  <2>3. /\ SetBlock(p, b, "FINISHED")
        /\ held' = [held EXCEPT ![c] = @ \ {<<p, b>>}]
        /\ UNCHANGED assigned
        /\ downloading' \subseteq downloading
    BY <1>5 DEF MarkBlockFinished
  <2>4. \A d \in Clients : \A q \in Pieces : \A a \in Blocks(q) :
          Answers(d, q, a)' <=> Answers(d, q, a) /\ ~(q = p /\ a = b)
    BY <2>1, <2>2, <2>3 DEF Answers
  <2>5. \A q \in Pieces : \A a \in Blocks(q) :
          blocks'[q][a] = "DOWNLOADING" => blocks[q][a] = "DOWNLOADING" /\ ~(q = p /\ a = b)
    BY <2>3, SetBlockType
  <2>6. \A d \in Clients : \A q \in assigned'[d] : \A a \in Blocks(q) : <<q, a>> \notin held'[d]
    BY <2>3
  <2> QED
    BY <2>3, <2>4, <2>5, <2>6
<1>6. ASSUME NEW c \in Clients, NEW p \in Pieces, MarkPieceFailed(c, p)
      PROVE  OneHolder'
  <2>1. /\ p \in assigned[c]
        /\ assigned' = [assigned EXCEPT ![c] = @ \ {p}]
        /\ ConstructDownloadPiece(p)
        /\ downloading' \subseteq downloading
        /\ UNCHANGED held
    BY <1>6, AssignedPiece DEF MarkPieceFailed
  <2>2. \A d \in Clients : p \in assigned[d] => d = c
    BY <2>1, AssignedOnce
  <2>3. \A d \in Clients : \A q \in Pieces : \A a \in Blocks(q) :
          Answers(d, q, a)' => Answers(d, q, a)
    BY <2>1 DEF Answers
  <2>4. \A d \in Clients : \A q \in Pieces \ {p} : \A a \in Blocks(q) :
          Answers(d, q, a)' <=> Answers(d, q, a)
    BY <2>1 DEF Answers
  <2>5. /\ \A q \in Pieces \ {p} : blocks'[q] = blocks[q]
        /\ \A a \in Blocks(p) : blocks'[p][a] = "WAITING"
    <3>1. \A q \in Pieces : blocks'[q] = IF q = p THEN FreshBlocks(p) ELSE blocks[q]
      BY <2>1, ConstructDownloadPieceType
    <3> QED
      BY <3>1 DEF FreshBlocks
  <2>6. \A d \in Clients : \A q \in assigned'[d] : \A a \in Blocks(q) : <<q, a>> \notin held'[d]
    BY <2>1
  <2> QED
    BY <2>1, <2>3, <2>4, <2>5, <2>6
<1>7. ASSUME NEW p \in Pieces, SetPieceHighestPriority(p)
      PROVE  OneHolder'
  <2>1. /\ UNCHANGED <<blocks, held, assigned>>
        /\ downloading' = downloading \/ (p \in waiting /\ downloading' = downloading \cup {p})
    BY <1>7 DEF SetPieceHighestPriority, callers
  <2>2. \A q \in waiting : \A a \in Blocks(q) : blocks[q][a] = "WAITING"
    BY WaitingBlocks
  <2> QED
    BY <2>1, <2>2 DEF Answers
<1>8. ASSUME NEW p \in Pieces, OnVerifyPieceOk(p)
      PROVE  OneHolder'
  BY <1>8 DEF OnVerifyPieceOk, pieceInfo, callers, Answers
<1>9. ASSUME NEW p \in Pieces, AnnouncePiece(p)
      PROVE  OneHolder'
  BY <1>9 DEF AnnouncePiece, containers, pieceInfo, callers, Answers
<1>10. ASSUME NEW p \in Pieces, FailToVerifyPieceProc(p)
       PROVE  OneHolder'
  <2>1. p \notin downloading /\ UNCHANGED <<downloading, held, assigned>>
    BY <1>10, VerifyingPiece DEF FailToVerifyPieceProc, callers
  <2>2. \A q \in Pieces \ {p} : blocks'[q] = blocks[q]
    BY <1>10, ConstructDownloadPieceType DEF FailToVerifyPieceProc
  <2> QED
    BY <2>1, <2>2 DEF Answers
<1>11. CASE UNCHANGED vars
  BY <1>11 DEF vars, containers, pieceInfo, verification, callers, Answers
<1> QED
  BY <1>1, <1>2, <1>3, <1>4, <1>5, <1>6, <1>7, <1>8, <1>9, <1>10, <1>11 DEF Next

(* A connection between the two halves of PickBlocks has no block yet.     *)
LEMMA PickingHoldsNothingStep == IInv /\ [Next]_vars => PickingHoldsNothing'
<1> SUFFICES ASSUME IInv, [Next]_vars
             PROVE  PickingHoldsNothing'
  OBVIOUS
<1>0. /\ PickingHoldsNothing
      /\ picking \in [Clients -> SUBSET Pieces]
      /\ held \in [Clients -> SUBSET (Pieces \X Nat)]
  BY DEF IInv, TypeOK
<1> USE <1>0 DEF PickingHoldsNothing
<1>1. ASSUME NEW c \in Clients, NEW filter \in SUBSET Pieces,
             PickBlocksFromDownloadingPieces(c, filter)
      PROVE  PickingHoldsNothing'
  BY <1>1 DEF PickBlocksFromDownloadingPieces
<1>2. ASSUME NEW c \in Clients, PickBlocksFromWaitingPieces(c)
      PROVE  PickingHoldsNothing'
  BY <1>2 DEF PickBlocksFromWaitingPieces
<1>3. ASSUME NEW c \in Clients, NEW p \in Pieces, NEW b \in Blocks(p),
             MarkBlockFailed(c, p, b) \/ MarkBlockFinished(c, p, b)
      PROVE  PickingHoldsNothing'
  BY <1>3 DEF MarkBlockFailed, MarkBlockFinished
<1>4. ASSUME NEW c \in Clients, NEW p \in Pieces, PickPieces(c) \/ MarkPieceFailed(c, p)
      PROVE  PickingHoldsNothing'
  BY <1>4 DEF PickPieces, MarkPieceFailed
<1>5. ASSUME NEW p \in Pieces,
             \/ SetPieceHighestPriority(p)
             \/ OnVerifyPieceOk(p)
             \/ AnnouncePiece(p)
             \/ FailToVerifyPieceProc(p)
             \/ UNCHANGED vars
      PROVE  PickingHoldsNothing'
  BY <1>5 DEF SetPieceHighestPriority, OnVerifyPieceOk, AnnouncePiece,
              FailToVerifyPieceProc, vars, callers
<1>6. 0 \in Pieces
  BY PieceNumAssumption DEF Pieces
<1> QED
  BY <1>1, <1>2, <1>3, <1>4, <1>5, <1>6 DEF Next

(* Every step keeps the inductive invariant.                               *)
LEMMA IInvStep == IInv /\ [Next]_vars => IInv'
<1> SUFFICES ASSUME IInv, [Next]_vars
             PROVE  IInv'
  OBVIOUS
<1>1. TypeOK' /\ OnePlace' /\ WaitingUntouched' /\ FinishedBlocksCounted'
  BY TypeStep, OnePlaceStep, WaitingUntouchedStep, FinishedBlocksCountedStep DEF IInv
<1>2. AssignedDownloading' /\ PickingHoldsNothing' /\ OneHolder' /\ VerifiedAgree'
  BY AssignedDownloadingStep, PickingHoldsNothingStep, OneHolderStep, VerifiedAgreeStep
<1>3. \A p \in verifying' : p \in finished' /\ p \notin pieceMap'
  BY <1>2 DEF VerifiedAgree
<1>4. MarksMeetAsserts'
  BY <1>3, HeldInDownloadingStep, AssignedStep DEF MarksMeetAsserts
<1> QED
  BY <1>1, <1>2, <1>4 DEF IInv

(* The inductive invariant holds in every execution of the picker.         *)
THEOREM InductiveInvariant == Spec => []IInv
  BY InitIInv, IInvStep, PTL DEF Spec

(***************************************************************************)
(* What the invariant gives.                                               *)
(***************************************************************************)

(* A piece is always in exactly one of the three containers. *)
THEOREM EveryPieceInOnePlace == Spec => []OnePlace
<1>1. IInv => OnePlace
  BY DEF IInv
<1> QED
  BY <1>1, InductiveInvariant, PTL

(* A block is downloaded by one connection at a time, and a block marked   *)
(* DOWNLOADING is never without a connection that answers for it.          *)
THEOREM BlockHasOneHolder == Spec => []OneHolder
<1>1. IInv => OneHolder
  BY DEF IInv
<1> QED
  BY <1>1, InductiveInvariant, PTL

(* No call of a connection that respects the contract, and no callback of  *)
(* the IO thread, aborts the process in one of the picker's BC_ASSERTs.    *)
THEOREM AssertsHold == Spec => []MarksMeetAsserts
<1>1. IInv => MarksMeetAsserts
  BY DEF IInv
<1> QED
  BY <1>1, InductiveInvariant, PTL

(* The piece map, the verified flags and verified_piece_num_ agree. *)
THEOREM VerifiedRecordsAgree == Spec => []VerifiedAgree
<1>1. IInv => VerifiedAgree
  BY DEF IInv
<1> QED
  BY <1>1, InductiveInvariant, PTL

(* The piece that has all its blocks leaves the downloading pieces in the  *)
(* same step.                                                              *)
THEOREM CountsExact == Spec => []FinishedBlocksCounted
<1>1. IInv => FinishedBlocksCounted
  BY DEF IInv
<1> QED
  BY <1>1, InductiveInvariant, PTL

(* PickPieces and PickBlocksFromWaitingPieces, which do not look at block  *)
(* states, never overwrite the state of a started block.                   *)
THEOREM WaitingStaysUntouched == Spec => []WaitingUntouched
<1>1. IInv => WaitingUntouched
  BY DEF IInv
<1> QED
  BY <1>1, InductiveInvariant, PTL

(***************************************************************************)
(* Seeding: a count of verified pieces, read after the lock was released,  *)
(* decides it, so the argument goes through cardinalities.                 *)
(***************************************************************************)
(* verified_piece_num_ reaches the number of pieces exactly when the piece *)
(* map is full.                                                            *)
LEMMA AllVerified ==
  ASSUME IInv
  PROVE  verifiedNum = PieceNum <=> pieceMap = Pieces
<1>1. Cardinality(Pieces) = PieceNum
  BY FS_Interval, PieceNumAssumption DEF Pieces
<1>2. pieceMap \subseteq Pieces /\ verifiedNum = Cardinality(pieceMap)
  BY DEF IInv, TypeOK, VerifiedAgree
<1> QED
  BY <1>1, <1>2, PiecesFinite, FS_Subset

(* A torrent resumed with all its pieces is a seed from the start, and no  *)
(* other is.                                                               *)
LEMMA SeedInit == Init => SeedIffComplete
  BY DEF Init, SeedIffComplete

(* The comparison of verified_piece_num_ with the number of pieces, made   *)
(* after piece_mutex_ is released, makes a seed of a complete torrent      *)
(* only.                                                                   *)
LEMMA SeedStep == IInv /\ SeedIffComplete /\ [Next]_vars => SeedIffComplete'
<1> SUFFICES ASSUME IInv, SeedIffComplete, [Next]_vars
             PROVE  SeedIffComplete'
  OBVIOUS
<1> USE DEF SeedIffComplete
<1>1. ASSUME NEW p \in Pieces, OnVerifyPieceOk(p)
      PROVE  SeedIffComplete'
  <2>1. pieceMap' = pieceMap \cup {p} /\ announcing' = {p} /\ seed' = seed
    BY <1>1 DEF OnVerifyPieceOk
  <2> QED
    BY <2>1
<1>2. ASSUME NEW p \in Pieces, AnnouncePiece(p)
      PROVE  SeedIffComplete'
  BY <1>2, AllVerified DEF AnnouncePiece
<1>3. CASE UNCHANGED <<pieceMap, announcing, seed>>
  BY <1>3
<1>4. ASSUME NEW c \in Clients,
             \/ \E filter \in SUBSET Pieces : PickBlocksFromDownloadingPieces(c, filter)
             \/ PickBlocksFromWaitingPieces(c)
             \/ PickPieces(c)
             \/ \E p \in Pieces : \E b \in Blocks(p) : \/ MarkBlockFailed(c, p, b)
                                                       \/ MarkBlockFinished(c, p, b)
             \/ \E p \in Pieces : MarkPieceFailed(c, p)
      PROVE  UNCHANGED <<pieceMap, announcing, seed>>
  BY <1>4 DEF PickBlocksFromDownloadingPieces, PickBlocksFromWaitingPieces, PickPieces,
              MarkBlockFailed, MarkBlockFinished, MarkPieceFailed, verification
<1>5. ASSUME \/ \E p \in Pieces : SetPieceHighestPriority(p) \/ FailToVerifyPieceProc(p)
             \/ UNCHANGED vars
      PROVE  UNCHANGED <<pieceMap, announcing, seed>>
  BY <1>5 DEF SetPieceHighestPriority, FailToVerifyPieceProc, verification, vars
<1> QED
  BY <1>1, <1>2, <1>3, <1>4, <1>5 DEF Next

(* The torrent seeds only when it is complete, and always once the last    *)
(* callback of OnVerifyPiece has run.                                      *)
THEOREM SeedExactly == Spec => []SeedIffComplete
<1>1. IInv /\ SeedIffComplete /\ [Next]_vars => (IInv /\ SeedIffComplete)'
  BY IInvStep, SeedStep
<1> QED
  BY <1>1, InitIInv, SeedInit, PTL DEF Spec

(* The records of the picker agree, all of them and at all times.          *)
THEOREM RecordsAgree == Spec => []PickerConsistent
<1>1. IInv /\ SeedIffComplete => PickerConsistent
  BY DEF IInv, PickerConsistent
<1> QED
  BY <1>1, InductiveInvariant, SeedExactly, PTL

(***************************************************************************)
(* No block is downloaded again once its piece is complete.                *)
(***************************************************************************)
(* One step of the picker gives nothing that is finished or under way to a *)
(* connection.                                                             *)
LEMMA DownloadedOnceStep ==
  ASSUME IInv, [Next]_vars
  PROVE  /\ verified \subseteq verified'
         /\ \A c \in Clients :
              /\ \A pb \in held'[c] \ held[c] : /\ pb[1] \notin finished
                                                /\ blocks[pb[1]][pb[2]] = "WAITING"
              /\ \A p \in assigned'[c] \ assigned[c] : p \in waiting
<1>0. /\ OnePlace
      /\ held \in [Clients -> SUBSET (Pieces \X Nat)]
      /\ assigned \in [Clients -> SUBSET Pieces]
      /\ downloading \in SUBSET Pieces
  BY DEF IInv, TypeOK
<1>1. verified \subseteq verified'
  BY DEF Next, vars, containers, PickBlocksFromDownloadingPieces,
         PickBlocksFromWaitingPieces, PickPieces, MarkBlockFailed,
         MarkBlockFinished, MarkPieceFailed, SetPieceHighestPriority,
         OnVerifyPieceOk, AnnouncePiece, FailToVerifyPieceProc
<1>2. ASSUME NEW c \in Clients, NEW pb \in held'[c], pb \notin held[c]
      PROVE  pb[1] \notin finished /\ blocks[pb[1]][pb[2]] = "WAITING"
  <2>1. ASSUME NEW d \in Clients, NEW filter \in SUBSET Pieces,
               PickBlocksFromDownloadingPieces(d, filter)
        PROVE  pb[1] \notin finished /\ blocks[pb[1]][pb[2]] = "WAITING"
    <3>1. PICK p \in downloading : \E b \in Blocks(p) :
            Pickable(p, b) /\ held' = [held EXCEPT ![d] = {<<p, b>>}]
      BY <1>2, <2>1 DEF PickBlocksFromDownloadingPieces, Best
    <3>2. PICK b \in Blocks(p) : Pickable(p, b) /\ held' = [held EXCEPT ![d] = {<<p, b>>}]
      BY <3>1
    <3>3. pb = <<p, b>>
      BY <1>0, <1>2, <3>2
    <3> QED
      BY <1>0, <3>2, <3>3 DEF OnePlace, Pickable
  <2>2. ASSUME NEW d \in Clients, PickBlocksFromWaitingPieces(d)
        PROVE  pb[1] \notin finished /\ blocks[pb[1]][pb[2]] = "WAITING"
    <3>1. PICK p \in waiting : held' = [held EXCEPT ![d] = {<<p, 0>>}]
      BY <1>2, <2>2 DEF PickBlocksFromWaitingPieces, Best
    <3>2. pb = <<p, 0>> /\ p \in Pieces
      BY <1>0, <1>2, <3>1 DEF IInv, TypeOK
    <3> QED
      BY <1>0, <3>2, WaitingBlocks, BlockZero DEF OnePlace
  <2>3. held'[c] \subseteq held[c] \/ \E d \in Clients :
          \/ \E filter \in SUBSET Pieces : PickBlocksFromDownloadingPieces(d, filter)
          \/ PickBlocksFromWaitingPieces(d)
    BY <1>0 DEF Next, vars, callers, PickPieces, MarkBlockFailed, MarkBlockFinished,
                MarkPieceFailed, SetPieceHighestPriority, OnVerifyPieceOk,
                AnnouncePiece, FailToVerifyPieceProc
  <2> QED
    BY <1>2, <2>1, <2>2, <2>3
<1>3. ASSUME NEW c \in Clients, NEW p \in assigned'[c], p \notin assigned[c]
      PROVE  p \in waiting
  <2>1. ASSUME NEW d \in Clients, PickPieces(d)
        PROVE  p \in waiting
    BY <1>0, <1>3, <2>1 DEF PickPieces, Best
  <2>2. ASSUME NEW d \in Clients, NEW q \in Pieces, MarkPieceFailed(d, q)
        PROVE  FALSE
    BY <1>0, <1>3, <2>2 DEF MarkPieceFailed
  <2>3. \/ UNCHANGED assigned
        \/ \E d \in Clients : PickPieces(d) \/ \E q \in Pieces : MarkPieceFailed(d, q)
    BY DEF Next, vars, callers, PickBlocksFromDownloadingPieces,
           PickBlocksFromWaitingPieces, MarkBlockFailed, MarkBlockFinished,
           SetPieceHighestPriority, OnVerifyPieceOk, AnnouncePiece,
           FailToVerifyPieceProc
  <2> QED
    BY <1>3, <2>1, <2>2, <2>3
<1> QED
  BY <1>1, <1>2, <1>3

(* What a connection is newly given is a waiting block of an incomplete    *)
(* piece, and a verified piece stays verified.                             *)
THEOREM NothingDownloadedTwice == Spec => DownloadedOnce
<1> DEFINE Once == /\ verified \subseteq verified'
                   /\ \A c \in Clients :
                        /\ \A pb \in held'[c] \ held[c] :
                             /\ pb[1] \notin finished
                             /\ blocks[pb[1]][pb[2]] = "WAITING"
                        /\ \A p \in assigned'[c] \ assigned[c] : p \in waiting
<1>1. IInv /\ [Next]_vars => [Once]_vars
  BY DownloadedOnceStep
<1>2. Spec => [][Once]_vars
  BY <1>1, InductiveInvariant, PTL DEF Spec
<1> QED
  BY <1>2 DEF DownloadedOnce

-----------------------------------------------------------------------------
(* PiecePicker implements BlockLedger for every torrent and every set of   *)
(* connections: every critical section of piece_mutex_ lends, returns or   *)
(* verifies what the ledger allows, or leaves the ledger alone.            *)

Loan == [p \in Pieces |-> [b \in Blocks(p) |-> LoanOf(p, b)]]

(* A block is here: its piece is complete, or it is finished.              *)
Here(p, b) == p \in finished \/ blocks[p][b] = "FINISHED"

(* The loan of a block, with the connection that answers for it named.     *)
LoanFacts ==
  \A p \in Pieces : \A b \in Blocks(p) :
    /\ \A c \in Clients : Answers(c, p, b) => LoanOf(p, b) = c
    /\ (\A c \in Clients : ~Answers(c, p, b)) =>
         LoanOf(p, b) = IF Here(p, b) THEN Fetched ELSE Free

(* No two connections answer for a block, so the CHOOSE finds the one.     *)
LEMMA LoanKnown == IInv => LoanFacts
  BY DEF IInv, OneHolder, LoanOf, LoanFacts, Here

LEMMA LoanKnownNext == IInv' => LoanFacts'
  BY LoanKnown, PTL

(* What a caller answers for is downloading, and so is nothing else.       *)
LEMMA Answered ==
  ASSUME IInv, NEW c \in Clients, NEW p \in Pieces, NEW b \in Blocks(p), Answers(c, p, b)
  PROVE  p \in downloading /\ p \notin finished /\ blocks[p][b] = "DOWNLOADING"
<1>1. p \in downloading /\ blocks[p][b] = "DOWNLOADING"
  BY HeldBlock, AssignedPiece DEF Answers
<1> QED
  BY <1>1 DEF IInv, OnePlace

(* A loan changes only if who answers changes, or what is here does.       *)
LEMMA LoanKept ==
  ASSUME LoanFacts, LoanFacts', NEW p \in Pieces, NEW b \in Blocks(p),
         \A d \in Clients : Answers(d, p, b)' <=> Answers(d, p, b),
         Here(p, b)' <=> Here(p, b)
  PROVE  LoanOf(p, b)' = LoanOf(p, b)
<1>1. CASE \E d \in Clients : Answers(d, p, b)
  BY <1>1 DEF LoanFacts
<1>2. CASE \A d \in Clients : ~Answers(d, p, b)
  <2>1. LoanOf(p, b) = IF Here(p, b) THEN Fetched ELSE Free
    BY <1>2 DEF LoanFacts
  <2>2. LoanOf(p, b)' = IF Here(p, b)' THEN Fetched ELSE Free
    BY <1>2 DEF LoanFacts
  <2> QED
    BY <2>1, <2>2
<1> QED
  BY <1>1, <1>2

(* blocks has a function for every piece. *)
LEMMA BlockStates ==
  ASSUME IInv
  PROVE  /\ blocks = [p \in Pieces |-> blocks[p]]
         /\ \A p \in Pieces : blocks[p] \in [Blocks(p) -> BlockState]
  BY DEF IInv, TypeOK

(* One block changes hands. *)
LEMMA LoanUpdate ==
  ASSUME NEW p \in Pieces, NEW b \in Blocks(p), NEW v, LoanOf(p, b)' = v,
         \A q \in Pieces : \A a \in Blocks(q) :
           (q # p \/ a # b) => LoanOf(q, a)' = LoanOf(q, a)
  PROVE  Loan' = [Loan EXCEPT ![p][b] = v]
  BY DEF Loan

(* A whole piece changes hands. *)
LEMMA LoanUpdatePiece ==
  ASSUME NEW p \in Pieces, NEW v,
         \A b \in Blocks(p) : LoanOf(p, b)' = v,
         \A q \in Pieces \ {p} : \A a \in Blocks(q) : LoanOf(q, a)' = LoanOf(q, a)
  PROVE  Loan' = [Loan EXCEPT ![p] = [b \in Blocks(p) |-> v]]
  BY DEF Loan

(* No block changes hands. *)
LEMMA LoanSame ==
  ASSUME \A q \in Pieces : \A a \in Blocks(q) : LoanOf(q, a)' = LoanOf(q, a)
  PROVE  Loan' = Loan
  BY DEF Loan

(* The picker starts with nothing on loan. *)
LEMMA LedgerInit == Init => Ledger!Init
<1> SUFFICES ASSUME NEW m \in SUBSET Pieces, Init!(m)
             PROVE  Ledger!Init
  BY DEF Init
<1>1. ASSUME NEW p \in Pieces, NEW b \in Blocks(p)
      PROVE  LoanOf(p, b) = IF p \in m THEN Fetched ELSE Free
  BY <1>1 DEF LoanOf, Answers, FreshBlocks
<1> QED
  BY <1>1 DEF Ledger!Init, Ledger!Pieces, Ledger!Blocks, Pieces, Blocks

(* PickBlocks: one waiting block is lent. *)
LEMMA LendStep ==
  ASSUME IInv, LoanFacts, LoanFacts', NEW c \in Clients, NEW p \in Pieces, NEW b \in Blocks(p),
         p \notin finished, blocks[p][b] = "WAITING",
         held[c] = {}, held' = [held EXCEPT ![c] = {<<p, b>>}],
         blocks' = [blocks EXCEPT ![p][b] = "DOWNLOADING"],
         UNCHANGED <<finished, verified, assigned>>
  PROVE  Ledger!Next
<1>0. held \in [Clients -> SUBSET (Pieces \X Nat)]
  BY DEF IInv, TypeOK
<1>1. \A d \in Clients : ~Answers(d, p, b)
  BY Answered
<1>2. LoanOf(p, b) = Free
  BY <1>1 DEF LoanFacts, Here
<1>3. LoanOf(p, b)' = c
  BY <1>0 DEF LoanFacts, Answers
<1>4. ASSUME NEW q \in Pieces, NEW a \in Blocks(q), q # p \/ a # b
      PROVE  LoanOf(q, a)' = LoanOf(q, a)
  <2>1. \A d \in Clients : Answers(d, q, a)' <=> Answers(d, q, a)
    BY <1>0, <1>4 DEF Answers
  <2>2. Here(q, a)' <=> Here(q, a)
    BY <1>4, BlockStates DEF Here
  <2> QED
    BY <2>1, <2>2, LoanKept
<1>5. Loan' = [Loan EXCEPT ![p][b] = c]
  BY <1>3, <1>4, LoanUpdate
<1>6. Ledger!LendBlock(c, p, b)
  BY <1>2, <1>5 DEF Ledger!LendBlock, Loan
<1> QED
  BY <1>6 DEF Ledger!Next, Ledger!Pieces, Ledger!Blocks, Pieces, Blocks

(* MarkBlockFailed and the blocks but the last of MarkBlockFinished: one   *)
(* block is returned.                                                      *)
LEMMA ReturnStep ==
  ASSUME IInv, LoanFacts, LoanFacts', NEW c \in Clients, NEW p \in Pieces, NEW b \in Blocks(p),
         NEW s \in {"WAITING", "FINISHED"},
         <<p, b>> \in held[c], held' = [held EXCEPT ![c] = @ \ {<<p, b>>}],
         blocks' = [blocks EXCEPT ![p][b] = s],
         \/ finished' = finished
         \/ finished' = finished \cup {p} /\ \A a \in Blocks(p) : blocks'[p][a] = "FINISHED",
         UNCHANGED <<verified, assigned>>
  PROVE  Ledger!Next
<1>0. held \in [Clients -> SUBSET (Pieces \X Nat)]
  BY DEF IInv, TypeOK
<1>1. Answers(c, p, b) /\ p \notin finished
  BY Answered DEF Answers
<1>2. LoanOf(p, b) = c
  BY <1>1 DEF LoanFacts
<1>3. ASSUME NEW d \in Clients, Answers(d, p, b)'
      PROVE  FALSE
  BY <1>0, <1>3, HeldOnce, HeldNotAssigned DEF Answers
<1>4. blocks'[p][b] = s
  BY BlockStates
<1>5. LoanOf(p, b)' = IF s = "FINISHED" THEN Fetched ELSE Free
  <2>1. Here(p, b)' <=> s = "FINISHED"
    BY <1>1, <1>4 DEF Here
  <2> QED
    BY <1>3, <2>1 DEF LoanFacts
<1>6. ASSUME NEW q \in Pieces, NEW a \in Blocks(q), q # p \/ a # b
      PROVE  LoanOf(q, a)' = LoanOf(q, a)
  <2>1. \A d \in Clients : Answers(d, q, a)' <=> Answers(d, q, a)
    BY <1>0, <1>6 DEF Answers
  <2>2. Here(q, a)' <=> Here(q, a)
    BY <1>6, BlockStates DEF Here
  <2> QED
    BY <2>1, <2>2, LoanKept
<1>7. Loan' = [Loan EXCEPT ![p][b] = IF s = "FINISHED" THEN Fetched ELSE Free]
  BY <1>5, <1>6, LoanUpdate
<1>8. Ledger!ReturnBlock(c, p, b, Fetched) \/ Ledger!ReturnBlock(c, p, b, Free)
  BY <1>2, <1>7 DEF Ledger!ReturnBlock, Loan
<1> QED
  BY <1>8 DEF Ledger!Next, Ledger!Pieces, Ledger!Blocks, Pieces, Blocks

(* PickPieces: a waiting piece is lent as a whole. *)
LEMMA LendPieceStep ==
  ASSUME IInv, LoanFacts, LoanFacts', NEW c \in Clients, PickPieces(c)
  PROVE  Ledger!Next
<1>0. /\ assigned \in [Clients -> SUBSET Pieces]
      /\ waiting \in SUBSET Pieces
  BY DEF IInv, TypeOK
<1>1. PICK p \in waiting :
        /\ blocks' = [blocks EXCEPT ![p] = [b \in Blocks(p) |-> "DOWNLOADING"]]
        /\ assigned' = [assigned EXCEPT ![c] = {p}]
  BY DEF PickPieces, Best
<1>2. p \in Pieces /\ p \notin finished /\ assigned[c] = {} /\ UNCHANGED <<finished, verified, held>>
  BY <1>0 DEF IInv, OnePlace, PickPieces
<1>3. \A b \in Blocks(p) : LoanOf(p, b) = Free
  BY <1>2, WaitingBlocks, Answered DEF LoanFacts, Here
<1>4. \A b \in Blocks(p) : LoanOf(p, b)' = c
  BY <1>0, <1>1, <1>2 DEF LoanFacts, Answers
<1>5. ASSUME NEW q \in Pieces \ {p}, NEW a \in Blocks(q)
      PROVE  LoanOf(q, a)' = LoanOf(q, a)
  <2>1. \A d \in Clients : Answers(d, q, a)' <=> Answers(d, q, a)
    BY <1>0, <1>1, <1>2 DEF Answers
  <2>2. Here(q, a)' <=> Here(q, a)
    BY <1>1, <1>2, BlockStates DEF Here
  <2> QED
    BY <2>1, <2>2, LoanKept
<1>6. Loan' = [Loan EXCEPT ![p] = [b \in Blocks(p) |-> c]]
  BY <1>2, <1>4, <1>5, LoanUpdatePiece
<1>7. Ledger!LendPiece(c, p)
  BY <1>2, <1>3, <1>6 DEF Ledger!LendPiece, Loan, Ledger!Blocks, Blocks
<1> QED
  BY <1>2, <1>7 DEF Ledger!Next, Ledger!Pieces, Pieces

(* MarkPieceFailed and FailToVerifyPieceProc: a piece that was lent or     *)
(* fetched as a whole starts over.                                         *)
LEMMA RestartStep ==
  ASSUME IInv, LoanFacts, LoanFacts', NEW p \in Pieces,
         ConstructDownloadPiece(p), UNCHANGED <<verified, held>>, p \notin verified,
         finished' = finished \ {p},
         \E x \in Clients \cup {Fetched} : \A b \in Blocks(p) : LoanOf(p, b) = x,
         \A d \in Clients : \A b \in Blocks(p) : ~Answers(d, p, b)',
         \A d \in Clients : \A q \in Pieces \ {p} : q \in assigned'[d] <=> q \in assigned[d]
  PROVE  Ledger!Next
<1>1. blocks' = [blocks EXCEPT ![p] = FreshBlocks(p)]
  BY DEF ConstructDownloadPiece
<1>2. \A b \in Blocks(p) : blocks'[p][b] = "WAITING"
  BY <1>1, BlockStates DEF FreshBlocks
<1>3. \A b \in Blocks(p) : LoanOf(p, b)' = Free
  BY <1>2 DEF LoanFacts, Here
<1>4. ASSUME NEW q \in Pieces \ {p}, NEW a \in Blocks(q)
      PROVE  LoanOf(q, a)' = LoanOf(q, a)
  <2>1. \A d \in Clients : Answers(d, q, a)' <=> Answers(d, q, a)
    BY DEF Answers
  <2>2. Here(q, a)' <=> Here(q, a)
    BY <1>1, BlockStates DEF Here
  <2> QED
    BY <2>1, <2>2, LoanKept
<1>5. Loan' = [Loan EXCEPT ![p] = [b \in Blocks(p) |-> Free]]
  BY <1>3, <1>4, LoanUpdatePiece
<1>6. Ledger!Restart(p)
  BY <1>5 DEF Ledger!Restart, Loan, Ledger!Blocks, Blocks
<1> QED
  BY <1>6 DEF Ledger!Next, Ledger!Pieces, Pieces

(* The proxy's piece is returned: it was on loan to the sponsor.           *)
LEMMA PieceFailedStep ==
  ASSUME IInv, LoanFacts, LoanFacts', NEW c \in Clients, NEW p \in Pieces, MarkPieceFailed(c, p)
  PROVE  Ledger!Next
<1>0. assigned \in [Clients -> SUBSET Pieces]
  BY DEF IInv, TypeOK
<1>1. /\ p \in assigned[c] /\ assigned' = [assigned EXCEPT ![c] = @ \ {p}]
      /\ ConstructDownloadPiece(p) /\ UNCHANGED <<finished, verified, held>>
  BY DEF MarkPieceFailed
<1>2. p \in downloading /\ p \notin finished /\ p \notin verified
  BY <1>1, AssignedPiece DEF IInv, OnePlace, VerifiedAgree
<1>3. \A b \in Blocks(p) : LoanOf(p, b) = c
  BY <1>1 DEF LoanFacts, Answers
<1>4. \A d \in Clients : \A b \in Blocks(p) : ~Answers(d, p, b)'
  BY <1>0, <1>1, AssignedOnce, HeldNotAssigned DEF Answers
<1>5. \A d \in Clients : \A q \in Pieces \ {p} : q \in assigned'[d] <=> q \in assigned[d]
  BY <1>0, <1>1
<1>6. finished' = finished \ {p}
  BY <1>1, <1>2
<1> QED
  BY <1>1, <1>2, <1>3, <1>4, <1>5, <1>6, RestartStep

(* A piece whose check is queued is here, and nobody answers for it.       *)
LEMMA CheckedPiece ==
  ASSUME IInv, LoanFacts, NEW p \in verifying
  PROVE  /\ p \in Pieces /\ p \in finished /\ p \notin verified
         /\ \A d \in Clients : \A b \in Blocks(p) : ~Answers(d, p, b)
         /\ \A b \in Blocks(p) : LoanOf(p, b) = Fetched
<1>1. p \in Pieces /\ p \in finished /\ p \notin verified
  BY VerifyingPiece
<1>2. \A d \in Clients : \A b \in Blocks(p) : ~Answers(d, p, b)
  BY <1>1, Answered
<1> QED
  BY <1>1, <1>2 DEF LoanFacts, Here

(* A hash check that fails starts the piece over. *)
LEMMA CheckFailedStep ==
  ASSUME IInv, LoanFacts, LoanFacts', NEW p \in Pieces, FailToVerifyPieceProc(p)
  PROVE  Ledger!Next
<1>1. /\ p \in verifying /\ ConstructDownloadPiece(p)
      /\ finished' = finished \ {p} /\ UNCHANGED <<verified, held, assigned>>
  BY DEF FailToVerifyPieceProc, callers
<1>2. /\ p \notin verified
      /\ \A d \in Clients : \A b \in Blocks(p) : ~Answers(d, p, b)
      /\ \A b \in Blocks(p) : LoanOf(p, b) = Fetched
  BY <1>1, CheckedPiece
<1>3. \A d \in Clients : \A b \in Blocks(p) : ~Answers(d, p, b)'
  BY <1>1, <1>2 DEF Answers
<1> QED
  BY <1>1, <1>2, <1>3, RestartStep

(* A hash check that succeeds. *)
LEMMA CheckOkStep ==
  ASSUME IInv, LoanFacts, NEW p \in Pieces, OnVerifyPieceOk(p)
  PROVE  Ledger!Next
<1>1. /\ p \in verifying /\ verified' = verified \cup {p}
      /\ UNCHANGED <<finished, blocks, held, assigned>>
  BY DEF OnVerifyPieceOk, pieceInfo, callers
<1>2. p \notin verified /\ \A b \in Blocks(p) : LoanOf(p, b) = Fetched
  BY <1>1, CheckedPiece
<1>3. Loan' = Loan
  BY <1>1 DEF Loan, LoanOf, Answers
<1>4. Ledger!Verify(p)
  BY <1>1, <1>2, <1>3 DEF Ledger!Verify, Loan, Ledger!Blocks, Blocks
<1> QED
  BY <1>4 DEF Ledger!Next, Ledger!Pieces, Pieces

(* What the ledger records changes only when a block or a piece is lent,   *)
(* returned or verified.                                                   *)
LEMMA LedgerUnchanged ==
  ASSUME UNCHANGED <<finished, verified, blocks, held, assigned>>
  PROVE  UNCHANGED Ledger!ledger
<1>1. Loan' = Loan
  BY DEF Loan, LoanOf, Answers
<1> QED
  BY <1>1 DEF Ledger!ledger, Loan

(* PickBlocks, both halves. *)
LEMMA PickBlocksStep ==
  ASSUME IInv, LoanFacts, LoanFacts', NEW c \in Clients,
         \/ \E filter \in SUBSET Pieces : PickBlocksFromDownloadingPieces(c, filter)
         \/ PickBlocksFromWaitingPieces(c)
  PROVE  Ledger!Next \/ UNCHANGED Ledger!ledger
<1>1. \/ UNCHANGED <<finished, verified, blocks, held, assigned>>
      \/ \E p \in Pieces : \E b \in Blocks(p) :
           /\ p \notin finished /\ blocks[p][b] = "WAITING"
           /\ held[c] = {} /\ held' = [held EXCEPT ![c] = {<<p, b>>}]
           /\ blocks' = [blocks EXCEPT ![p][b] = "DOWNLOADING"]
           /\ UNCHANGED <<finished, verified, assigned>>
  <2>1. ASSUME NEW filter \in SUBSET Pieces, PickBlocksFromDownloadingPieces(c, filter),
               ~UNCHANGED <<blocks, held>>
        PROVE  \E p \in Pieces : \E b \in Blocks(p) :
                 /\ p \notin finished /\ blocks[p][b] = "WAITING"
                 /\ held[c] = {} /\ held' = [held EXCEPT ![c] = {<<p, b>>}]
                 /\ blocks' = [blocks EXCEPT ![p][b] = "DOWNLOADING"]
                 /\ UNCHANGED <<finished, verified, assigned>>
    <3>1. PICK p \in downloading : \E b \in Blocks(p) :
            /\ Pickable(p, b) /\ SetBlock(p, b, "DOWNLOADING")
            /\ held' = [held EXCEPT ![c] = {<<p, b>>}]
      BY <2>1 DEF PickBlocksFromDownloadingPieces, Best
    <3>2. p \in Pieces /\ p \notin finished
      BY <3>1 DEF IInv, TypeOK, OnePlace
    <3>3. held[c] = {} /\ UNCHANGED <<finished, verified, assigned>>
      BY <2>1 DEF PickBlocksFromDownloadingPieces, containers
    <3> QED
      BY <3>1, <3>2, <3>3 DEF Pickable, SetBlock
  <2>2. ASSUME PickBlocksFromWaitingPieces(c), ~UNCHANGED <<blocks, held>>
        PROVE  \E p \in Pieces : \E b \in Blocks(p) :
                 /\ p \notin finished /\ blocks[p][b] = "WAITING"
                 /\ held[c] = {} /\ held' = [held EXCEPT ![c] = {<<p, b>>}]
                 /\ blocks' = [blocks EXCEPT ![p][b] = "DOWNLOADING"]
                 /\ UNCHANGED <<finished, verified, assigned>>
    <3>1. PICK p \in waiting : /\ SetBlock(p, 0, "DOWNLOADING")
                               /\ held' = [held EXCEPT ![c] = {<<p, 0>>}]
      BY <2>2 DEF PickBlocksFromWaitingPieces, Best
    <3>2. p \in Pieces /\ p \notin finished
      BY <3>1 DEF IInv, TypeOK, OnePlace
    <3>3. blocks[p][0] = "WAITING" /\ 0 \in Blocks(p)
      BY <3>1, <3>2, BlockZero, WaitingBlocks
    <3>4. held[c] = {} /\ UNCHANGED <<finished, verified, assigned>>
      BY <2>2 DEF PickBlocksFromWaitingPieces, IInv, PickingHoldsNothing
    <3> QED
      BY <3>1, <3>2, <3>3, <3>4 DEF SetBlock
  <2>3. UNCHANGED <<finished, verified, assigned>>
    BY DEF PickBlocksFromDownloadingPieces, PickBlocksFromWaitingPieces, containers
  <2> QED
    BY <2>1, <2>2, <2>3
<1> QED
  BY <1>1, LendStep, LedgerUnchanged

(* MarkBlockFinished: the last block takes its piece along.                *)
LEMMA BlockFinishedStep ==
  ASSUME IInv, LoanFacts, LoanFacts', NEW c \in Clients, NEW p \in Pieces, NEW b \in Blocks(p),
         MarkBlockFinished(c, p, b)
  PROVE  Ledger!Next
<1>1. /\ <<p, b>> \in held[c] /\ held' = [held EXCEPT ![c] = @ \ {<<p, b>>}]
      /\ blocks' = [blocks EXCEPT ![p][b] = "FINISHED"]
      /\ UNCHANGED <<verified, assigned>>
  BY DEF MarkBlockFinished, SetBlock
<1>2. CASE finishedBlocks[p] + 1 < BlockNum[p]
  <2>1. finished' = finished
    BY <1>2 DEF MarkBlockFinished
  <2> QED
    BY <1>1, <2>1, ReturnStep
<1>3. CASE ~(finishedBlocks[p] + 1 < BlockNum[p])
  <2>1. p \in downloading /\ blocks[p][b] = "DOWNLOADING"
    BY <1>1, HeldBlock
  <2>2. finishedBlocks[p] \in Nat /\ BlockNum[p] \in Nat
    BY BlockNumAssumption DEF IInv, TypeOK
  <2>3. finishedBlocks[p] + 1 = BlockNum[p]
    <3>1. finishedBlocks[p] + 1 <= BlockNum[p]
      BY <2>1, LastBlock
    <3> QED
      BY <1>3, <2>2, <3>1
  <2>4. Done(p) \cup {b} = Blocks(p)
    BY <2>1, <2>3, LastBlock
  <2>5. \A a \in Blocks(p) : blocks'[p][a] = "FINISHED"
    BY <1>1, <2>4, BlockStates DEF Done
  <2>6. finished' = finished \cup {p}
    BY <1>3 DEF MarkBlockFinished
  <2> QED
    BY <1>1, <2>5, <2>6, ReturnStep
<1> QED
  BY <1>2, <1>3

(* MarkBlockFailed. *)
LEMMA BlockFailedStep ==
  ASSUME IInv, LoanFacts, LoanFacts', NEW c \in Clients, NEW p \in Pieces, NEW b \in Blocks(p),
         MarkBlockFailed(c, p, b)
  PROVE  Ledger!Next
<1>1. /\ <<p, b>> \in held[c] /\ held' = [held EXCEPT ![c] = @ \ {<<p, b>>}]
      /\ blocks' = [blocks EXCEPT ![p][b] = "WAITING"]
      /\ UNCHANGED <<finished, verified, assigned>>
  BY DEF MarkBlockFailed, SetBlock, containers
<1> QED
  BY <1>1, ReturnStep

(* Every step of the picker is a step of the ledger, or changes nothing it *)
(* records.                                                                *)
LEMMA LedgerStep == IInv /\ IInv' /\ [Next]_vars => [Ledger!Next]_(Ledger!ledger)
<1> SUFFICES ASSUME IInv, IInv', [Next]_vars
             PROVE  Ledger!Next \/ UNCHANGED Ledger!ledger
  OBVIOUS
<1>0. LoanFacts /\ LoanFacts'
  BY LoanKnown, LoanKnownNext
<1>1. ASSUME NEW c \in Clients, NEW filter \in SUBSET Pieces,
             PickBlocksFromDownloadingPieces(c, filter)
      PROVE  Ledger!Next \/ UNCHANGED Ledger!ledger
  BY <1>0, <1>1, PickBlocksStep
<1>2. ASSUME NEW c \in Clients, PickBlocksFromWaitingPieces(c)
      PROVE  Ledger!Next \/ UNCHANGED Ledger!ledger
  BY <1>0, <1>2, PickBlocksStep
<1>3. ASSUME NEW c \in Clients, PickPieces(c)
      PROVE  Ledger!Next
  BY <1>0, <1>3, LendPieceStep
<1>4. ASSUME NEW c \in Clients, NEW p \in Pieces, NEW b \in Blocks(p),
             MarkBlockFailed(c, p, b) \/ MarkBlockFinished(c, p, b)
      PROVE  Ledger!Next
  BY <1>0, <1>4, BlockFailedStep, BlockFinishedStep
<1>5. ASSUME NEW c \in Clients, NEW p \in Pieces, MarkPieceFailed(c, p)
      PROVE  Ledger!Next
  BY <1>0, <1>5, PieceFailedStep
<1>6. ASSUME NEW p \in Pieces, OnVerifyPieceOk(p) \/ FailToVerifyPieceProc(p)
      PROVE  Ledger!Next
  BY <1>0, <1>6, CheckOkStep, CheckFailedStep
<1>7. ASSUME NEW p \in Pieces, SetPieceHighestPriority(p) \/ AnnouncePiece(p)
      PROVE  UNCHANGED Ledger!ledger
  BY <1>7, LedgerUnchanged
     DEF SetPieceHighestPriority, AnnouncePiece, containers, pieceInfo, callers
<1>8. CASE UNCHANGED vars
  BY <1>8, LedgerUnchanged DEF vars, containers, pieceInfo, callers
<1> QED
  BY <1>1, <1>2, <1>3, <1>4, <1>5, <1>6, <1>7, <1>8 DEF Next

(* The picker keeps the promise of the ledger: a block is lent to one      *)
(* connection at a time, comes back free or fetched, and a piece that is   *)
(* verified never changes again.                                           *)
THEOREM PickerKeepsLedger == Spec => ImplementsLedger
<1>1. Spec => [][Ledger!Next]_(Ledger!ledger)
  BY LedgerStep, InductiveInvariant, PTL DEF Spec
<1>2. Spec => Ledger!Init
  BY LedgerInit, PTL DEF Spec
<1> QED
  BY <1>1, <1>2, PTL DEF ImplementsLedger, Ledger!Spec

=============================================================================
