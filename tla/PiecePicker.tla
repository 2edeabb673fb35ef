----------------------------- MODULE PiecePicker -----------------------------
(***************************************************************************)
(* The PiecePicker of one torrent (rcs/src/frame/piece_picker.cpp).        *)
(*                                                                         *)
(* The picker hands blocks to peer connections and whole pieces to the     *)
(* connections that sponsor a distributed download, takes back what failed *)
(* and sends what is complete to the IO thread for a hash check.  Each     *)
(* action below is one critical section of piece_mutex_.                   *)
(*                                                                         *)
(* The callers are modelled by what they owe the picker: held[c] is the    *)
(* block in the fragment queue of connection c's TrafficController and     *)
(* assigned[c] the pieces in its DistriDownloadMgr.  Nothing in a guard    *)
(* looks at the picker's own state to decide whether a Mark... call is     *)
(* allowed: that such a call always meets the picker's BC_ASSERTs is       *)
(* MarksMeetAsserts, a property.                                           *)
(*                                                                         *)
(* Pieces of equal priority are ordered by insertion in the code; here the *)
(* order among them is left open.                                          *)
(***************************************************************************)
EXTENDS Integers, FiniteSets

CONSTANTS PieceNum,   \* Torrent::GetPieceNum()
          BlockNum,   \* BlockNum[p] is Torrent::GetBlockNum(p)
          Clients     \* the peer connections of the torrent

Pieces == 0 .. PieceNum - 1

Blocks(p) == 0 .. BlockNum[p] - 1

(* With a single piece GetPriority divides by zero: see the README.        *)
ASSUME PieceNumAssumption == PieceNum \in Nat /\ PieceNum > 1
ASSUME BlockNumAssumption == BlockNum \in [Pieces -> Nat \ {0}]

BlockState == {"WAITING", "DOWNLOADING", "FINISHED"}

HighestPriority == 7   \* kPiecePriorityMax
NormalPriority == 1    \* kPiecePriorityNormal

VARIABLES
  waiting,         \* pieces in waiting_pieces_
  downloading,     \* pieces in downloading_pieces_
  finished,        \* keys of finished_pieces_
  verified,        \* those of them whose FinishedPieceInfo is verified
  blocks,          \* DownloadPieceInfo::blocks
  finishedBlocks,  \* DownloadPieceInfo::finished_blocks
  priority,        \* DownloadPieceInfo::priority
  pieceMap,        \* piece_map_, the set of bits that are set
  verifiedNum,     \* verified_piece_num_
  verifying,       \* pieces whose hash check is queued on the IO thread
  announcing,      \* pieces between the two halves of OnVerifyPiece
  seed,            \* Torrent::is_seed_
  picking,         \* picking[c]: filter of a PickBlocks that has found nothing
                   \* among the downloading pieces; {} when c is not picking
  held,            \* held[c]: blocks of connection c's fragment queue
  assigned         \* assigned[c]: pieces assigned to the proxy behind c

containers == <<waiting, downloading, finished, verified>>
pieceInfo == <<blocks, finishedBlocks, priority>>
verification == <<pieceMap, verifiedNum, verifying, announcing, seed>>
callers == <<picking, held, assigned>>
vars == <<containers, pieceInfo, verification, callers>>

-----------------------------------------------------------------------------
(* PieceSequentialStrategy::GetPriority *)
GetPriority(p) ==
  ((PieceNum - p - 1) * ((HighestPriority - 1) - NormalPriority))
     \div (PieceNum - 1) + NormalPriority

(* The pieces of S an iteration in priority order may visit first. *)
Best(S) == {p \in S : \A q \in S : priority[q] <= priority[p]}

FreshBlocks(p) == [b \in Blocks(p) |-> "WAITING"]

(* ConstructDownloadPiece: the DownloadPieceInfo of p as if never started. *)
ConstructDownloadPiece(p) ==
  /\ blocks' = [blocks EXCEPT ![p] = FreshBlocks(p)]
  /\ finishedBlocks' = [finishedBlocks EXCEPT ![p] = 0]
  /\ priority' = [priority EXCEPT ![p] = GetPriority(p)]

(* The banner of this function compares with the lowest priority in the    *)
(* downloading container, the code with the highest.                       *)
ShouldPieceStartDownloading(prio, container) ==
  /\ container # {}
  /\ \A q \in container : prio > priority[q]

MutantPickable(p, b) == blocks[p][b] # "FINISHED"

Pickable(p, b) == blocks[p][b] = "WAITING"

SetBlock(p, b, state) == blocks' = [blocks EXCEPT ![p][b] = state]

-----------------------------------------------------------------------------
(* ConstructPieceInfo: m is the piece map the torrent was resumed with. *)
Init ==
  \E m \in SUBSET Pieces :
    /\ waiting = Pieces \ m
    /\ downloading = {}
    /\ finished = m
    /\ verified = m
    /\ blocks = [p \in Pieces |-> FreshBlocks(p)]
    /\ finishedBlocks = [p \in Pieces |-> 0]
    /\ priority = [p \in Pieces |-> GetPriority(p)]
    /\ pieceMap = m
    /\ verifiedNum = Cardinality(m)
    /\ verifying = {}
    /\ announcing = {}
    /\ seed = (m = Pieces)
    /\ picking = [c \in Clients |-> {}]
    /\ held = [c \in Clients |-> {}]
    /\ assigned = [c \in Clients |-> {}]

(* PickBlocks with num_blocks = APPLY_DOWNLOAD_BLOCK_NUM = 1, first half:  *)
(* the first waiting block of the best downloading piece the peer has.     *)
PickBlocksFromDownloadingPieces(c, filter) ==
  LET candidates == {p \in downloading \cap filter :
                       \E b \in Blocks(p) : Pickable(p, b)}
  IN
  /\ held[c] = {}
  /\ picking[c] = {}
  /\ \/ /\ candidates = {}
        /\ picking' = [picking EXCEPT ![c] = filter]
        /\ UNCHANGED <<blocks, held>>
     \/ \E p \in Best(candidates) : \E b \in Blocks(p) :
          /\ Pickable(p, b)
          /\ \A a \in Blocks(p) : a < b => ~Pickable(p, a)
          /\ SetBlock(p, b, "DOWNLOADING")
          /\ held' = [held EXCEPT ![c] = {<<p, b>>}]
          /\ UNCHANGED picking
  /\ UNCHANGED <<containers, finishedBlocks, priority, verification, assigned>>

(* PickBlocks, second half, under a second acquisition of piece_mutex_:    *)
(* block 0 of the best waiting piece, whose state the code does not test.  *)
PickBlocksFromWaitingPieces(c) ==
  LET candidates == waiting \cap picking[c]
  IN
  /\ picking[c] # {}
  /\ picking' = [picking EXCEPT ![c] = {}]
  /\ \/ /\ candidates = {}
        /\ UNCHANGED <<waiting, downloading, blocks, held>>
     \/ \E p \in Best(candidates) :
          /\ SetBlock(p, 0, "DOWNLOADING")
          /\ waiting' = waiting \ {p}
          /\ downloading' = downloading \cup {p}
          /\ held' = [held EXCEPT ![c] = {<<p, 0>>}]
  /\ UNCHANGED <<finished, verified, finishedBlocks, priority, verification,
                 assigned>>

MutantPickPieces(c) ==
  /\ assigned[c] = {}
  /\ \E p \in Best(waiting \cup downloading) :
       /\ blocks' = [blocks EXCEPT ![p] = [b \in Blocks(p) |-> "DOWNLOADING"]]
       /\ waiting' = waiting \ {p}
       /\ downloading' = downloading \cup {p}
       /\ assigned' = [assigned EXCEPT ![c] = {p}]
  /\ UNCHANGED <<finished, verified, finishedBlocks, priority, verification,
                 picking, held>>

(* PickPieces with num_pieces = 1, as TryAssignPieces calls it.  The filter *)
(* it is given is not looked at.                                           *)
PickPieces(c) ==
  /\ assigned[c] = {}
  /\ \E p \in Best(waiting) :
       /\ blocks' = [blocks EXCEPT ![p] = [b \in Blocks(p) |-> "DOWNLOADING"]]
       /\ waiting' = waiting \ {p}
       /\ downloading' = downloading \cup {p}
       /\ assigned' = [assigned EXCEPT ![c] = {p}]
  /\ UNCHANGED <<finished, verified, finishedBlocks, priority, verification,
                 picking, held>>

MutantSetPieceHighestPriority(p) ==
  /\ p \in downloading \cup waiting
  /\ priority[p] # HighestPriority
  /\ priority' = [priority EXCEPT ![p] = HighestPriority]
  /\ IF p \in waiting /\ ShouldPieceStartDownloading(HighestPriority, downloading)
       THEN /\ UNCHANGED waiting
            /\ downloading' = downloading \cup {p}
       ELSE UNCHANGED <<waiting, downloading>>
  /\ UNCHANGED <<finished, verified, blocks, finishedBlocks, verification,
                 callers>>

(* SetPieceHighestPriority, hence UpdatePiecePriority(p, 7). *)
SetPieceHighestPriority(p) ==
  /\ p \in downloading \cup waiting
  /\ priority[p] # HighestPriority
  /\ priority' = [priority EXCEPT ![p] = HighestPriority]
  /\ IF p \in waiting /\ ShouldPieceStartDownloading(HighestPriority, downloading)
       THEN /\ waiting' = waiting \ {p}
            /\ downloading' = downloading \cup {p}
       ELSE UNCHANGED <<waiting, downloading>>
  /\ UNCHANGED <<finished, verified, blocks, finishedBlocks, verification,
                 callers>>

MutantMarkBlockFailed(c, p, b) ==
  /\ <<p, b>> \in held[c]
  /\ SetBlock(p, b, "WAITING")
  /\ held' = [held EXCEPT ![c] = @ \ {<<p, b>>}]
  /\ waiting' = waiting \cup {p}
  /\ downloading' = downloading \ {p}
  /\ UNCHANGED <<finished, verified, finishedBlocks, priority, verification, picking,
                 assigned>>

(* A fragment timed out for the last time, or the download was stopped. *)
MarkBlockFailed(c, p, b) ==
  /\ <<p, b>> \in held[c]
  /\ SetBlock(p, b, "WAITING")
  /\ held' = [held EXCEPT ![c] = @ \ {<<p, b>>}]
  /\ UNCHANGED <<containers, finishedBlocks, priority, verification, picking,
                 assigned>>

(* The last fragment of a block arrived.  The last block of a piece moves  *)
(* the piece to finished_pieces_ and queues its hash check.                *)
MarkBlockFinished(c, p, b) ==
  /\ <<p, b>> \in held[c]
  /\ SetBlock(p, b, "FINISHED")
  /\ finishedBlocks' = [finishedBlocks EXCEPT ![p] = @ + 1]
  /\ held' = [held EXCEPT ![c] = @ \ {<<p, b>>}]
  /\ IF finishedBlocks[p] + 1 < BlockNum[p]
       THEN UNCHANGED <<downloading, finished, verifying>>
       ELSE /\ finished' = finished \cup {p}
            /\ downloading' = downloading \ {p}
            /\ verifying' = verifying \cup {p}
  /\ UNCHANGED <<waiting, verified, priority, pieceMap, verifiedNum,
                 announcing, seed, picking, assigned>>

(* The proxy announced the piece, or the sponsor connection is going away: *)
(* the piece starts afresh and can be picked by anyone.                    *)
MarkPieceFailed(c, p) ==
  LET others == downloading \ {p}
  IN
  /\ p \in assigned[c]
  /\ assigned' = [assigned EXCEPT ![c] = @ \ {p}]
  /\ ConstructDownloadPiece(p)
  /\ IF ShouldPieceStartDownloading(GetPriority(p), others)
       THEN UNCHANGED <<waiting, downloading>>
       ELSE /\ downloading' = others
            /\ waiting' = waiting \cup {p}
  /\ UNCHANGED <<finished, verified, verification, picking, held>>

(* OnVerifyPiece, hash correct, up to the release of piece_mutex_.  The    *)
(* work thread runs one callback at a time.                                *)
OnVerifyPieceOk(p) ==
  /\ p \in verifying
  /\ announcing = {}
  /\ verifying' = verifying \ {p}
  /\ verified' = verified \cup {p}
  /\ pieceMap' = pieceMap \cup {p}
  /\ verifiedNum' = verifiedNum + 1
  /\ announcing' = {p}
  /\ UNCHANGED <<waiting, downloading, finished, pieceInfo, seed, callers>>

(* The rest of OnVerifyPiece: HavePiece, and SetSeed after the last piece. *)
AnnouncePiece(p) ==
  /\ p \in announcing
  /\ announcing' = {}
  /\ seed' = (seed \/ verifiedNum = PieceNum)
  /\ UNCHANGED <<containers, pieceInfo, pieceMap, verifiedNum, verifying,
                 callers>>

(* OnVerifyPiece, hash wrong: FailToVerifyPieceProc. *)
FailToVerifyPieceProc(p) ==
  /\ p \in verifying
  /\ announcing = {}
  /\ verifying' = verifying \ {p}
  /\ ConstructDownloadPiece(p)
  /\ waiting' = waiting \cup {p}
  /\ finished' = finished \ {p}
  /\ UNCHANGED <<downloading, verified, pieceMap, verifiedNum, announcing,
                 seed, callers>>

Next ==
  \/ \E c \in Clients :
       \/ \E filter \in SUBSET Pieces : PickBlocksFromDownloadingPieces(c, filter)
       \/ PickBlocksFromWaitingPieces(c)
       \/ PickPieces(c)
       \/ \E p \in Pieces : \E b \in Blocks(p) : \/ MarkBlockFailed(c, p, b)
                                                 \/ MarkBlockFinished(c, p, b)
       \/ \E p \in Pieces : MarkPieceFailed(c, p)
  \/ \E p \in Pieces : \/ SetPieceHighestPriority(p)
                       \/ OnVerifyPieceOk(p)
                       \/ AnnouncePiece(p)
                       \/ FailToVerifyPieceProc(p)

Spec == Init /\ [][Next]_vars

-----------------------------------------------------------------------------
(* Every container, counter and caller holds what its declaration says. *)
TypeOK ==
  /\ waiting \in SUBSET Pieces
  /\ downloading \in SUBSET Pieces
  /\ finished \in SUBSET Pieces
  /\ verified \in SUBSET Pieces
  /\ blocks = [p \in Pieces |-> blocks[p]]
  /\ \A p \in Pieces : blocks[p] \in [Blocks(p) -> BlockState]
  /\ finishedBlocks \in [Pieces -> Nat]
  /\ priority \in [Pieces -> NormalPriority .. HighestPriority]
  /\ pieceMap \in SUBSET Pieces
  /\ verifiedNum \in Nat
  /\ verifying \in SUBSET Pieces
  /\ announcing \in SUBSET Pieces
  /\ seed \in BOOLEAN
  /\ picking \in [Clients -> SUBSET Pieces]
  /\ held \in [Clients -> SUBSET (Pieces \X Nat)]
  /\ assigned \in [Clients -> SUBSET Pieces]

(* A piece is in exactly one of the three containers, whatever order the   *)
(* connections, the UpdatePiecePriority of a sponsor's urgent piece and    *)
(* the hash checks move it in.                                             *)
OnePlace ==
  /\ waiting \cup downloading \cup finished = Pieces
  /\ waiting \cap downloading = {}
  /\ waiting \cap finished = {}
  /\ downloading \cap finished = {}

(* A piece in waiting_pieces_ has no block started.  Both PickPieces and   *)
(* PickBlocksFromWaitingPieces overwrite block states relying on it.       *)
WaitingUntouched ==
  \A p \in waiting : /\ blocks[p] = FreshBlocks(p)
                     /\ finishedBlocks[p] = 0

(* The finished blocks of a piece. *)
Done(p) == {b \in Blocks(p) : blocks[p][b] = "FINISHED"}

(* finished_blocks counts the finished blocks, and a piece that has them   *)
(* all has left downloading_pieces_: the test that sends a piece to its    *)
(* hash check can neither be missed nor met twice.                         *)
FinishedBlocksCounted ==
  \A p \in downloading :
    /\ finishedBlocks[p] = Cardinality(Done(p))
    /\ finishedBlocks[p] < BlockNum[p]

(* Connection c is the one that fetches block b of piece p. *)
Answers(c, p, b) == <<p, b>> \in held[c] \/ p \in assigned[c]

(* PiecePicker must make sure that a block is downloaded by one peer at a  *)
(* time: a block is DOWNLOADING exactly when one connection answers for    *)
(* it, through its fragment queue or through a piece given to its proxy,   *)
(* so no block is fetched twice and none is lost.                          *)
OneHolder ==
  /\ \A c, d \in Clients : \A p \in Pieces : \A b \in Blocks(p) :
       Answers(c, p, b) /\ Answers(d, p, b) => c = d
  /\ \A c \in Clients : \A p \in assigned[c] : \A b \in Blocks(p) : <<p, b>> \notin held[c]
  /\ \A p \in downloading : \A b \in Blocks(p) :
       blocks[p][b] = "DOWNLOADING" => \E c \in Clients : Answers(c, p, b)

(* What a fragment queue holds is DOWNLOADING in the picker. *)
HeldInDownloading ==
  \A c \in Clients : \A pb \in held[c] :
    /\ pb[1] \in downloading
    /\ pb[2] \in Blocks(pb[1])
    /\ blocks[pb[1]][pb[2]] = "DOWNLOADING"

(* The BC_ASSERTs of MarkBlockFailed, MarkBlockFinished, MarkPieceFailed,  *)
(* OnVerifyPiece and FailToVerifyPieceProc hold whenever a caller that     *)
(* answers for a block or a piece makes the call.                          *)
MarksMeetAsserts ==
  /\ HeldInDownloading
  /\ \A c \in Clients : assigned[c] \subseteq downloading
  /\ \A p \in verifying : p \in finished /\ p \notin pieceMap

(* A complete piece is verified or has its hash check queued, the piece    *)
(* map shows exactly the verified pieces and verified_piece_num_ counts    *)
(* them: the three records of what is verified never drift apart.          *)
VerifiedAgree ==
  /\ pieceMap = verified
  /\ verified \cap verifying = {}
  /\ verified \cup verifying = finished
  /\ verifiedNum = Cardinality(verified)

(* The torrent is a seed only when every piece is verified, and once the   *)
(* last callback has run the last piece has made it one.                   *)
SeedIffComplete ==
  /\ seed => pieceMap = Pieces
  /\ pieceMap = Pieces /\ announcing = {} => seed

(* The records the picker keeps beside each other agree, in whatever order *)
(* connections, timeouts and hash checks change them under its lock: the   *)
(* containers, the marks of the blocks and their counter, the piece map,   *)
(* the number of verified pieces and the seed flag.                        *)
PickerConsistent ==
  /\ TypeOK
  /\ OnePlace
  /\ WaitingUntouched
  /\ FinishedBlocksCounted
  /\ VerifiedAgree
  /\ SeedIffComplete

(* PiecePicker must make sure that a piece that has been downloaded is not *)
(* downloaded again: what a connection is newly given is a waiting block   *)
(* of an unfinished piece, and a verified piece stays verified.            *)
DownloadedOnce ==
  [][/\ verified \subseteq verified'
     /\ \A c \in Clients :
          /\ \A pb \in held'[c] \ held[c] : /\ pb[1] \notin finished
                                            /\ blocks[pb[1]][pb[2]] = "WAITING"
          /\ \A p \in assigned'[c] \ assigned[c] : p \in waiting]_vars

=============================================================================
