------------------------- MODULE PickerUsersProofs --------------------------
(* Those who call the PiecePicker keep to what it may expect of them: the  *)
(* connections that download blocks, and the sponsors that are assigned    *)
(* pieces.                                                                 *)
EXTENDS BlockDownload, DistriDownload, PiecePickerProofs

(* The downloading connections keep the contract of the PiecePicker, for   *)
(* every torrent and every set of connections: each of their steps is a    *)
(* step of PiecePicker or leaves it alone.  What is proved of the picker   *)
(* with arbitrary callers therefore holds for these.                       *)

bvars == <<vars, dvars>>

MapsOK == has \in [Clients -> SUBSET Pieces]

(* A step of the connections as a step of the picker. *)
LEMMA PickerStep ==
  ASSUME IInv, MapsOK, [BlockNext]_bvars
  PROVE  [Next]_vars
<1>1. ASSUME NEW c \in Clients, StopDownload(c)
      PROVE  [Next]_vars
  <2>1. ASSUME NEW pb \in held[c], FailToDownloadFragment(c, pb)
        PROVE  [Next]_vars
    <3>1. \E p \in Pieces : \E b \in Nat : pb = <<p, b>>
      BY DEF IInv, TypeOK
    <3>2. PICK p \in Pieces, b \in Nat : pb = <<p, b>>
      BY <3>1
    <3>3. b \in Blocks(p)
      BY <3>2, HeldBlock
    <3>4. MarkBlockFailed(c, p, b)
      BY <2>1, <3>2 DEF FailToDownloadFragment
    <3> QED
      BY <3>3, <3>4 DEF Next
  <2> QED
    BY <1>1, <2>1 DEF StopDownload
<1>2. ASSUME NEW c \in Clients, TrySendDataRequest(c)
      PROVE  [Next]_vars
  BY <1>2 DEF TrySendDataRequest, MapsOK, Next
<1>3. ASSUME NEW c \in Clients, DownloadTimeoutProc(c)
      PROVE  [Next]_vars
  <2>1. ASSUME NEW pb \in held[c], FailToDownloadFragment(c, pb)
        PROVE  [Next]_vars
    <3>1. \E p \in Pieces : \E b \in Nat : pb = <<p, b>>
      BY DEF IInv, TypeOK
    <3>2. PICK p \in Pieces, b \in Nat : pb = <<p, b>>
      BY <3>1
    <3>3. b \in Blocks(p)
      BY <3>2, HeldBlock
    <3>4. MarkBlockFailed(c, p, b)
      BY <2>1, <3>2 DEF FailToDownloadFragment
    <3> QED
      BY <3>3, <3>4 DEF Next
  <2> QED
    BY <1>3, <2>1 DEF DownloadTimeoutProc
<1>4. ASSUME NEW c \in Clients, NEW p \in Pieces, NEW b \in Blocks(p), NEW i \in 0 .. FragNum - 1,
             ReceivedDataResponse(c, <<p, b, i>>)
      PROVE  [Next]_vars
  BY <1>4 DEF ReceivedDataResponse, Next
<1>5. ASSUME NEW c \in Clients, WorkCheck(c) \/ WorkSend(c) \/ TickSend(c) \/ ContinuePick(c)
      PROVE  [Next]_vars
  BY <1>2, <1>5 DEF WorkCheck, WorkSend, TickSend, ContinuePick, Next
<1>6. ASSUME NEW p \in Pieces, VerifyDone(p) \/ Announce(p)
      PROVE  [Next]_vars
  BY <1>6 DEF VerifyDone, Announce, Next
<1>7. ASSUME NEW c \in Clients, ProcessMsg(c) \/ Destroy(c)
      PROVE  [Next]_vars
  BY <1>1, <1>7 DEF ProcessMsg, Destroy
<1>8. ASSUME NEW c \in Clients,
             \/ \E f \in Fragments : AnswerArrives(c, f)
             \/ \E p \in Pieces : ReceivedHaveMsg(c, p)
      PROVE  [Next]_vars
  BY <1>8 DEF AnswerArrives, ReceivedHaveMsg
<1> QED
  BY <1>3, <1>4, <1>5, <1>6, <1>7, <1>8 DEF BlockNext, WorkThread, bvars

LEMMA MapsStep ==
  ASSUME MapsOK, [BlockNext]_bvars
  PROVE  MapsOK'
  BY ZenonT(60) DEF MapsOK, BlockNext, WorkThread, bvars, dvars, queue, WorkCheck, WorkSend, TickSend,
         ContinuePick, DownloadTimeoutProc, ReceivedDataResponse, VerifyDone, Announce,
         AnswerArrives, ProcessMsg, ReceivedHaveMsg, Destroy

(* The connections use the picker only as its contract allows. *)
THEOREM ConnectionsUsePicker == BlockSpec => Spec
<1>1. BlockInit => Init /\ IInv /\ MapsOK
  BY InitIInv, BlockAssumption DEF BlockInit, MapsOK
<1>2. IInv /\ MapsOK /\ [BlockNext]_bvars => [Next]_vars /\ IInv' /\ MapsOK'
  BY PickerStep, MapsStep, IInvStep
<1> QED
  BY <1>1, <1>2, PTL DEF BlockSpec, Spec, bvars

(* What is proved of the picker with arbitrary callers, for these.         *)
THEOREM PickerHoldsWithConnections ==
  BlockSpec => [](PickerConsistent /\ OneHolder /\ MarksMeetAsserts) /\ DownloadedOnce
  BY ConnectionsUsePicker, RecordsAgree, BlockHasOneHolder, AssertsHold,
     NothingDownloadedTwice, PTL

-----------------------------------------------------------------------------
(* The inductive invariant of the connections.  A fragment queue belongs   *)
(* to one block; and a destroyed connection not only holds nothing: no     *)
(* thread is about to give it something.                                   *)
QueueOK ==
  \A c \in Clients :
    /\ \A x, y \in held[c] : x = y
    /\ held[c] = {} => left[c] = 0
    /\ held[c] # {} => left[c] > 0
    /\ ~inFlight[c] => tried[c] = 0

GoneRests ==
  \A c \in Clients : fsm[c] = "GONE" => held[c] = {} /\ picking[c] = {} /\ ~WorksFor(c)

BInv ==
  /\ IInv
  /\ BlockTypeOK
  /\ QueueOK
  /\ GoneRests

LEMMA BlockInitInv == BlockInit => BInv
<1> SUFFICES ASSUME BlockInit
             PROVE  BInv
  OBVIOUS
<1>1. IInv
  BY InitIInv DEF BlockInit
<1>2. held = [c \in Clients |-> {}] /\ picking = [c \in Clients |-> {}]
  BY DEF BlockInit, Init
<1>3. BlockTypeOK
  BY <1>1, BlockAssumption DEF BlockInit, BlockTypeOK, IInv
<1>4. QueueOK /\ GoneRests
  BY <1>2 DEF BlockInit, QueueOK, GoneRests, WorksFor
<1> QED
  BY <1>1, <1>3, <1>4 DEF BInv

(* The picker's part of a step, and what it does to the queue of c.        *)
LEMMA HeldTyped ==
  ASSUME IInv
  PROVE  /\ held \in [Clients -> SUBSET (Pieces \X Nat)]
         /\ picking \in [Clients -> SUBSET Pieces]
  BY DEF IInv, TypeOK

(* Only the queue of c changes. *)
LEMMA QueueChange ==
  ASSUME QueueOK, NEW c \in Clients,
         \A d \in Clients \ {c} : /\ held'[d] = held[d] /\ left'[d] = left[d]
                                  /\ inFlight'[d] = inFlight[d] /\ tried'[d] = tried[d],
         /\ \A x, y \in held'[c] : x = y
         /\ held'[c] = {} => left'[c] = 0
         /\ held'[c] # {} => left'[c] > 0
         /\ ~inFlight'[c] => tried'[c] = 0
  PROVE  QueueOK'
<1> SUFFICES ASSUME NEW d \in Clients
             PROVE  /\ \A x, y \in held'[d] : x = y
                    /\ held'[d] = {} => left'[d] = 0
                    /\ held'[d] # {} => left'[d] > 0
                    /\ ~inFlight'[d] => tried'[d] = 0
  BY DEF QueueOK
<1>1. CASE d = c
  BY <1>1
<1>2. CASE d # c
  BY <1>2 DEF QueueOK
<1> QED
  BY <1>1, <1>2

(* A queue is emptied when its block fails. *)
LEMMA StopQueue ==
  ASSUME BInv, NEW c \in Clients,
         \/ StopDownload(c)
         \/ \E pb \in held[c] : FailToDownloadFragment(c, pb)
  PROVE  /\ QueueOK'
         /\ held'[c] = {}
         /\ \A d \in Clients : held'[d] # {} => held[d] # {}
         /\ picking' = picking
         /\ left' \in [Clients -> 0 .. FragNum] /\ inFlight' \in [Clients -> BOOLEAN]
         /\ tried' \in [Clients -> 0 .. Tries] /\ failed' \in [Clients -> BOOLEAN]
<1>0. /\ held \in [Clients -> SUBSET (Pieces \X Nat)]
      /\ left \in [Clients -> 0 .. FragNum] /\ inFlight \in [Clients -> BOOLEAN]
      /\ tried \in [Clients -> 0 .. Tries] /\ failed \in [Clients -> BOOLEAN]
      /\ FragNum \in Nat /\ Tries \in Nat
  BY HeldTyped, BlockAssumption DEF BInv, BlockTypeOK
<1>1. CASE held[c] = {} /\ UNCHANGED <<vars, queue>>
  BY <1>0, <1>1 DEF vars, callers, queue, BInv, QueueOK
<1>2. ASSUME NEW pb \in held[c], FailToDownloadFragment(c, pb)
      PROVE  /\ QueueOK'
             /\ held'[c] = {}
             /\ \A d \in Clients : held'[d] # {} => held[d] # {}
             /\ picking' = picking
             /\ left' \in [Clients -> 0 .. FragNum] /\ inFlight' \in [Clients -> BOOLEAN]
             /\ tried' \in [Clients -> 0 .. Tries] /\ failed' \in [Clients -> BOOLEAN]
  <2>1. held[c] = {pb} /\ pb = <<pb[1], pb[2]>>
    BY <1>0, <1>2 DEF BInv, QueueOK
  <2>2. held' = [held EXCEPT ![c] = {}] /\ picking' = picking
    BY <1>0, <1>2, <2>1 DEF FailToDownloadFragment, MarkBlockFailed
  <2>3. /\ left' = [left EXCEPT ![c] = 0] /\ inFlight' = [inFlight EXCEPT ![c] = FALSE]
        /\ tried' = [tried EXCEPT ![c] = 0] /\ failed' = [failed EXCEPT ![c] = TRUE]
    BY <1>2 DEF FailToDownloadFragment, EmptyQueue
  <2>4. QueueOK'
    BY <1>0, <2>2, <2>3, QueueChange DEF BInv
  <2> QED
    BY <1>0, <2>2, <2>3, <2>4
<1> QED
  BY <1>1, <1>2 DEF StopDownload

(* A queue is filled when a block is picked for it. *)
LEMMA PickQueue ==
  ASSUME BInv, NEW c \in Clients,
         \/ \E filter \in SUBSET Pieces : PickBlocksFromDownloadingPieces(c, filter)
         \/ PickBlocksFromWaitingPieces(c),
         StartBlock(c)
  PROVE  /\ QueueOK'
         /\ \A d \in Clients \ {c} : held'[d] = held[d] /\ picking'[d] = picking[d]
         /\ left' \in [Clients -> 0 .. FragNum] /\ inFlight' \in [Clients -> BOOLEAN]
         /\ tried' \in [Clients -> 0 .. Tries]
<1>0. /\ held \in [Clients -> SUBSET (Pieces \X Nat)] /\ picking \in [Clients -> SUBSET Pieces]
      /\ left \in [Clients -> 0 .. FragNum] /\ inFlight \in [Clients -> BOOLEAN]
      /\ tried \in [Clients -> 0 .. Tries]
      /\ FragNum \in Nat \ {0} /\ Tries \in Nat \ {0}
  BY HeldTyped, BlockAssumption DEF BInv, BlockTypeOK
<1>1. held[c] = {}
  BY DEF BInv, IInv, PickingHoldsNothing, PickBlocksFromDownloadingPieces, PickBlocksFromWaitingPieces
<1>2. /\ held' = held \/ \E pb : held' = [held EXCEPT ![c] = {pb}]
      /\ \A d \in Clients \ {c} : picking'[d] = picking[d]
  BY <1>0 DEF PickBlocksFromDownloadingPieces, PickBlocksFromWaitingPieces
<1>3. CASE held'[c] = {}
  <2>1. held' = held /\ UNCHANGED <<left, inFlight, tried>>
    BY <1>0, <1>2, <1>3 DEF StartBlock
  <2> QED
    BY <1>0, <1>2, <2>1 DEF BInv, QueueOK
<1>4. CASE held'[c] # {}
  <2>1. PICK pb : held' = [held EXCEPT ![c] = {pb}]
    BY <1>0, <1>1, <1>2, <1>4
  <2>2. /\ left' = [left EXCEPT ![c] = FragNum] /\ inFlight' = [inFlight EXCEPT ![c] = TRUE]
        /\ tried' = [tried EXCEPT ![c] = 1]
    BY <1>4 DEF StartBlock
  <2>3. QueueOK'
    <3>1. \A d \in Clients \ {c} : /\ held'[d] = held[d] /\ left'[d] = left[d]
                              /\ inFlight'[d] = inFlight[d] /\ tried'[d] = tried[d]
      BY <1>0, <2>1, <2>2
    <3>2. held'[c] = {pb} /\ left'[c] > 0 /\ inFlight'[c]
      BY <1>0, <2>1, <2>2
    <3> QED
      BY <3>1, <3>2, QueueChange DEF BInv
  <2> QED
    BY <1>0, <1>2, <2>1, <2>2, <2>3
<1> QED
  BY <1>3, <1>4

(* The connections' part of the types. *)
Control ==
  /\ fsm \in [Clients -> {"BLOCK", "DOWNLOAD", "TRANSFER", "UPLOAD", "CLOSE", "GONE"}]
  /\ left \in [Clients -> 0 .. FragNum]
  /\ inFlight \in [Clients -> BOOLEAN]
  /\ tried \in [Clients -> 0 .. Tries]
  /\ failed \in [Clients -> BOOLEAN]
  /\ work = <<>> \/ work \in {"check", "send", "pick"} \X Clients

Kept == Control /\ QueueOK /\ GoneRests

LEMMA ControlHolds == BInv => Kept
  BY DEF BInv, BlockTypeOK, Control, Kept

(* TrySendDataRequest by the timer or by the work thread. *)
LEMMA TrySendKept ==
  ASSUME BInv, NEW c \in Clients, TrySendDataRequest(c), fsm' = fsm, fsm[c] # "GONE",
         work' = work \/ work' = <<>> \/ work' = <<"pick", c>>
  PROVE  Kept'
<1>0. /\ Kept /\ has \in [Clients -> SUBSET Pieces] /\ Tries \in Nat \ {0} /\ FragNum \in Nat
  BY ControlHolds, BlockAssumption DEF BInv, BlockTypeOK
<1>1. /\ QueueOK'
      /\ \A d \in Clients \ {c} : held'[d] = held[d] /\ picking'[d] = picking[d]
      /\ left' \in [Clients -> 0 .. FragNum] /\ inFlight' \in [Clients -> BOOLEAN]
      /\ tried' \in [Clients -> 0 .. Tries]
  <2>1. CASE PickBlocksFromDownloadingPieces(c, has[c]) /\ StartBlock(c)
    BY <1>0, <2>1, PickQueue
  <2>2. CASE UNCHANGED <<vars, left, inFlight, tried>>
    BY <1>0, <2>2 DEF Kept, Control, QueueOK, vars, callers
  <2>3. CASE /\ held[c] # {} /\ ~inFlight[c] /\ inFlight' = [inFlight EXCEPT ![c] = TRUE]
             /\ tried' = [tried EXCEPT ![c] = @ + 1] /\ UNCHANGED <<vars, left>>
    <3>1. UNCHANGED <<held, picking, left>>
      BY <2>3 DEF vars, callers
    <3>2. tried[c] = 0 /\ left[c] > 0 /\ \A x, y \in held[c] : x = y
      BY <1>0, <2>3 DEF Kept, QueueOK
    <3>3. QueueOK'
      BY <1>0, <2>3, <3>1, <3>2, QueueChange DEF Kept, Control
    <3> QED
      BY <1>0, <2>3, <3>1, <3>2, <3>3 DEF Kept, Control
  <2> QED
    BY <2>1, <2>2, <2>3 DEF TrySendDataRequest
<1>2. GoneRests'
  <2>1. \A d \in Clients : work'[2] = d /\ work' # <<>> => d = c \/ (work' = work /\ work # <<>>)
    OBVIOUS
  <2> QED
    BY <1>0, <1>1, <2>1 DEF Kept, GoneRests, WorksFor
<1>3. failed' = failed
  BY DEF TrySendDataRequest
<1> QED
  BY <1>0, <1>1, <1>2, <1>3 DEF Kept, Control

LEMMA ContinuePickKept ==
  ASSUME BInv, NEW c \in Clients, ContinuePick(c)
  PROVE  Kept'
<1>0. Kept
  BY ControlHolds
<1>1. /\ QueueOK'
      /\ \A d \in Clients \ {c} : held'[d] = held[d] /\ picking'[d] = picking[d]
      /\ left' \in [Clients -> 0 .. FragNum] /\ inFlight' \in [Clients -> BOOLEAN]
      /\ tried' \in [Clients -> 0 .. Tries]
  BY PickQueue DEF ContinuePick
<1>2. fsm[c] # "GONE" /\ fsm' = fsm /\ failed' = failed /\ (work' = work \/ work' = <<>>)
  BY <1>0 DEF ContinuePick, PickBlocksFromWaitingPieces, Kept, GoneRests
<1> QED
  BY <1>0, <1>1, <1>2 DEF Kept, Control, GoneRests, WorksFor

(* The block of a queue fails, by a timeout or a stop.                     *)
LEMMA StopKept ==
  ASSUME BInv, NEW c \in Clients,
         \/ StopDownload(c)
         \/ \E pb \in held[c] : FailToDownloadFragment(c, pb),
         work' = work,
         \/ fsm' = fsm
         \/ \E s \in {"UPLOAD", "CLOSE"} : fsm[c] # "GONE" /\ fsm' = [fsm EXCEPT ![c] = s]
         \/ fsm' = [fsm EXCEPT ![c] = "GONE"] /\ ~WorksFor(c) /\ ~Locked(c)
  PROVE  Kept'
<1>0. Kept /\ picking \in [Clients -> SUBSET Pieces]
  BY ControlHolds, HeldTyped DEF BInv
<1>1. /\ QueueOK'
      /\ held'[c] = {}
      /\ \A d \in Clients : held'[d] # {} => held[d] # {}
      /\ picking' = picking
      /\ left' \in [Clients -> 0 .. FragNum] /\ inFlight' \in [Clients -> BOOLEAN]
      /\ tried' \in [Clients -> 0 .. Tries] /\ failed' \in [Clients -> BOOLEAN]
  BY StopQueue
<1> QED
  BY <1>0, <1>1, ZenonT(60) DEF Kept, Control, GoneRests, WorksFor, Locked

LEMMA TimeoutKept ==
  ASSUME BInv, NEW c \in Clients, DownloadTimeoutProc(c)
  PROVE  Kept'
<1>0. Kept /\ Tries \in Nat
  BY ControlHolds, BlockAssumption
<1>1. CASE \E pb \in held[c] : FailToDownloadFragment(c, pb)
  BY <1>1, StopKept DEF DownloadTimeoutProc
<1>2. CASE /\ inFlight[c] /\ tried[c] < Tries
           /\ tried' = [tried EXCEPT ![c] = @ + 1]
           /\ UNCHANGED <<vars, left, inFlight, failed, fsm, work>>
  <2>1. UNCHANGED <<held, picking>>
    BY <1>2 DEF vars, callers
  <2>2. QueueOK'
    BY <1>0, <1>2, <2>1 DEF Kept, Control, QueueOK
  <2>3. tried' \in [Clients -> 0 .. Tries]
    BY <1>0, <1>2 DEF Kept, Control
  <2> QED
    BY <1>0, <1>2, <2>1, <2>2, <2>3 DEF Kept, Control, GoneRests, WorksFor
<1> QED
  BY <1>1, <1>2 DEF DownloadTimeoutProc

(* An answer that is waited for advances the queue, or ends its block. *)
LEMMA ResponseKept ==
  ASSUME BInv, NEW c \in Clients, NEW p \in Pieces, NEW b \in Blocks(p), NEW n \in 0 .. FragNum - 1,
         ReceivedDataResponse(c, <<p, b, n>>)
  PROVE  Kept'
<1>0. /\ Kept /\ FragNum \in Nat \ {0} /\ Tries \in Nat
      /\ held \in [Clients -> SUBSET (Pieces \X Nat)]
  BY ControlHolds, HeldTyped, BlockAssumption DEF BInv
<1>1. CASE UNCHANGED <<vars, work, left, inFlight, tried, fsm, failed>>
  BY <1>0, <1>1 DEF Kept, Control, QueueOK, GoneRests, WorksFor, vars, callers
<1>2. ASSUME NEW pb \in held[c], <<p, b, n>> = Fragment(pb, left[c]),
             /\ work' = <<"check", c>>
             /\ inFlight' = [inFlight EXCEPT ![c] = FALSE]
             /\ tried' = [tried EXCEPT ![c] = 0]
             /\ left' = [left EXCEPT ![c] = @ - 1]
             /\ IF left[c] = 1 THEN MarkBlockFinished(c, p, b) ELSE UNCHANGED vars,
             UNCHANGED <<fsm, failed>>
      PROVE  Kept'
  <2>1. held[c] = {pb} /\ pb = <<p, b>> /\ left[c] > 0 /\ fsm[c] # "GONE"
    BY <1>0, <1>2 DEF Fragment, Kept, QueueOK, GoneRests
  <2>2. CASE left[c] = 1
    <3>1. held' = [held EXCEPT ![c] = {}] /\ picking' = picking
      BY <1>0, <1>2, <2>1, <2>2 DEF MarkBlockFinished
    <3>2. QueueOK'
      <4>1. \A d \in Clients \ {c} : /\ held'[d] = held[d] /\ left'[d] = left[d]
                                /\ inFlight'[d] = inFlight[d] /\ tried'[d] = tried[d]
        BY <1>0, <1>2, <2>2, <3>1 DEF Kept, Control
      <4>2. held'[c] = {} /\ left'[c] = 0 /\ tried'[c] = 0
        BY <1>0, <1>2, <2>2, <3>1 DEF Kept, Control
      <4> QED
        BY <1>0, <4>1, <4>2, QueueChange DEF Kept
    <3> QED
      BY <1>0, <1>2, <2>1, <2>2, <3>1, <3>2 DEF Kept, Control, GoneRests, WorksFor
  <2>3. CASE left[c] # 1
    <3>1. held' = held /\ picking' = picking
      BY <1>2, <2>3 DEF vars, callers
    <3>2. QueueOK'
      <4>1. \A d \in Clients \ {c} : /\ held'[d] = held[d] /\ left'[d] = left[d]
                                /\ inFlight'[d] = inFlight[d] /\ tried'[d] = tried[d]
        BY <1>0, <1>2, <2>1, <2>3, <3>1 DEF Kept, Control
      <4>2. held'[c] = {pb} /\ left'[c] > 0 /\ tried'[c] = 0
        BY <1>0, <1>2, <2>1, <2>3, <3>1 DEF Kept, Control
      <4> QED
        BY <1>0, <4>1, <4>2, QueueChange DEF Kept
    <3> QED
      BY <1>0, <1>2, <2>1, <2>3, <3>1, <3>2 DEF Kept, Control, GoneRests, WorksFor
  <2> QED
    BY <2>2, <2>3
<1> QED
  BY <1>1, <1>2 DEF ReceivedDataResponse

(* The other steps leave the queues alone. *)
LEMMA OthersKept ==
  ASSUME BInv,
         \/ UNCHANGED bvars
         \/ \E p \in Pieces : VerifyDone(p) \/ Announce(p)
         \/ \E c \in Clients :
              \/ WorkCheck(c)
              \/ \E f \in Fragments : AnswerArrives(c, f)
              \/ \E p \in Pieces : ReceivedHaveMsg(c, p)
  PROVE  Kept'
<1>0. Kept
  BY ControlHolds
<1>1. UNCHANGED <<held, picking, left, inFlight, tried, failed, fsm>>
  BY DEF bvars, vars, dvars, queue, callers, VerifyDone, OnVerifyPieceOk, FailToVerifyPieceProc,
         Announce, AnnouncePiece, WorkCheck, AnswerArrives, ReceivedHaveMsg
<1>2. work' = work \/ work' = <<>> \/ \E c \in Clients : work = <<"check", c>> /\ work' = <<"send", c>>
  BY DEF bvars, dvars, VerifyDone, Announce, WorkCheck, AnswerArrives, ReceivedHaveMsg
<1>3. Control' /\ QueueOK'
  BY <1>0, <1>1, <1>2 DEF Kept, Control, QueueOK
<1>4. \A c \in Clients : WorksFor(c)' => WorksFor(c)
  BY <1>2 DEF WorksFor
<1>5. GoneRests'
  BY <1>0, <1>1, <1>4 DEF Kept, GoneRests
<1> QED
  BY <1>3, <1>5 DEF Kept

(* The state machine. *)
LEMMA MessageKept ==
  ASSUME BInv, NEW c \in Clients, ProcessMsg(c) \/ Destroy(c)
  PROVE  Kept'
<1>0. Kept
  BY ControlHolds
<1>1. CASE Destroy(c)
  BY <1>1, StopKept DEF Destroy, StopDownload
<1>2. CASE ProcessMsg(c)
  <2>1. PICK jump \in Jumps :
          /\ fsm[c] = jump[1] /\ fsm' = [fsm EXCEPT ![c] = jump[3]]
          /\ IF jump[3] \in {"UPLOAD", "CLOSE"} THEN StopDownload(c) ELSE UNCHANGED <<vars, queue>>
    BY <1>2 DEF ProcessMsg
  <2>2. /\ fsm[c] # "GONE" /\ work' = work
        /\ jump[3] \in {"BLOCK", "DOWNLOAD", "TRANSFER", "UPLOAD", "CLOSE"}
    BY <1>2, <2>1 DEF Jumps, ProcessMsg
  <2>3. CASE jump[3] \in {"UPLOAD", "CLOSE"}
    BY <2>1, <2>2, <2>3, StopKept
  <2>4. CASE jump[3] \notin {"UPLOAD", "CLOSE"}
    <3>1. UNCHANGED <<held, picking, left, inFlight, tried, failed>>
      BY <2>1, <2>4 DEF vars, callers, queue
    <3>2. QueueOK' /\ Control'
      BY <1>0, <2>1, <2>2, <3>1 DEF Kept, QueueOK, Control
    <3>3. GoneRests'
      BY <1>0, <2>1, <2>2, <3>1 DEF Kept, GoneRests, WorksFor, Control
    <3> QED
      BY <3>2, <3>3 DEF Kept
  <2> QED
    BY <2>3, <2>4
<1> QED
  BY <1>1, <1>2

LEMMA BInvStep ==
  ASSUME BInv, [BlockNext]_bvars
  PROVE  BInv'
<1>0. Kept /\ MapsOK /\ IInv
  BY ControlHolds DEF BInv, BlockTypeOK, MapsOK
<1>1. IInv' /\ MapsOK'
  BY <1>0, PickerStep, MapsStep, IInvStep
<1>2. ASSUME NEW c \in Clients, TickSend(c)
      PROVE  Kept'
  BY <1>2, TrySendKept DEF TickSend, Downloads
<1>3. ASSUME NEW c \in Clients, WorkSend(c)
      PROVE  Kept'
  <2>1. fsm[c] # "GONE"
    BY <1>0, <1>3 DEF WorkSend, Kept, GoneRests, WorksFor
  <2> QED
    BY <1>3, <2>1, TrySendKept DEF WorkSend
<1>4. ASSUME NEW c \in Clients,
             \/ ContinuePick(c) \/ DownloadTimeoutProc(c) \/ ProcessMsg(c) \/ Destroy(c)
             \/ \E p \in Pieces : \E b \in Blocks(p) : \E n \in 0 .. FragNum - 1 :
                  ReceivedDataResponse(c, <<p, b, n>>)
      PROVE  Kept'
  BY <1>4, ContinuePickKept, TimeoutKept, MessageKept, ResponseKept
<1>5. Kept'
  BY <1>2, <1>3, <1>4, OthersKept DEF BlockNext, WorkThread
<1> QED
  BY <1>1, <1>5 DEF Kept, Control, BInv, BlockTypeOK, IInv, MapsOK

(* The inductive invariant of the connections. *)
THEOREM ConnectionsInvariant == BlockSpec => []BInv
  BY BlockInitInv, BInvStep, PTL DEF BlockSpec, bvars

(* The queues, the state machines and the picker agree, and a connection   *)
(* that is destroyed has given back its block.                             *)
THEOREM QueuesConsistent == BlockSpec => []BlockConsistent
<1>1. BInv => BlockConsistent
  BY DEF BInv, BlockConsistent, GoneHoldsNothing, GoneRests
<1> QED
  BY <1>1, ConnectionsInvariant, PTL

-----------------------------------------------------------------------------
(* A block of one fragment, as in BT: a response that is waited for ends   *)
(* its block, so what is queued has been asked for.                        *)
AskedFor == \A c \in Clients : held[c] # {} => inFlight[c]

LEMMA AskedForStep ==
  ASSUME FragNum = 1, BInv, AskedFor, [BlockNext]_bvars
  PROVE  AskedFor'
<1>0. /\ held \in [Clients -> SUBSET (Pieces \X Nat)]
      /\ inFlight \in [Clients -> BOOLEAN]
      /\ has \in [Clients -> SUBSET Pieces]
  BY HeldTyped DEF BInv, BlockTypeOK
<1>1. ASSUME NEW c \in Clients,
             \/ \E filter \in SUBSET Pieces : PickBlocksFromDownloadingPieces(c, filter)
             \/ PickBlocksFromWaitingPieces(c),
             StartBlock(c)
      PROVE  AskedFor'
  <2>1. \A d \in Clients \ {c} : held'[d] = held[d]
    BY <1>1, PickQueue
  <2>2. CASE held'[c] = {}
    BY <1>1, <2>1, <2>2 DEF StartBlock, AskedFor
  <2>3. CASE held'[c] # {}
    BY <1>0, <1>1, <2>1, <2>3 DEF StartBlock, AskedFor
  <2> QED
    BY <2>2, <2>3
<1>2. ASSUME NEW c \in Clients, TrySendDataRequest(c)
      PROVE  AskedFor'
  <2>1. CASE PickBlocksFromDownloadingPieces(c, has[c]) /\ StartBlock(c)
    BY <1>0, <1>1, <2>1
  <2>2. CASE UNCHANGED <<held, inFlight>>
    BY <2>2 DEF AskedFor
  <2>3. CASE held' = held /\ inFlight' = [inFlight EXCEPT ![c] = TRUE]
    BY <1>0, <2>3 DEF AskedFor
  <2> QED
    BY <1>2, <2>1, <2>2, <2>3 DEF TrySendDataRequest, vars, callers
<1>3. ASSUME NEW c \in Clients,
             \/ StopDownload(c)
             \/ \E pb \in held[c] : FailToDownloadFragment(c, pb)
      PROVE  AskedFor'
  <2>1. held'[c] = {} /\ \A d \in Clients : held'[d] # {} => held[d] # {}
    BY <1>3, StopQueue
  <2>2. inFlight' = inFlight \/ inFlight' = [inFlight EXCEPT ![c] = FALSE]
    BY <1>3 DEF StopDownload, FailToDownloadFragment, EmptyQueue, queue
  <2> QED
    BY <1>0, <2>1, <2>2 DEF AskedFor
<1>4. ASSUME NEW c \in Clients, NEW p \in Pieces, NEW b \in Blocks(p), NEW n \in 0 .. FragNum - 1,
             ReceivedDataResponse(c, <<p, b, n>>)
      PROVE  AskedFor'
  <2>1. CASE UNCHANGED <<held, inFlight>>
    BY <2>1 DEF AskedFor
  <2>2. ASSUME NEW pb \in held[c], <<p, b, n>> = Fragment(pb, left[c]),
               inFlight' = [inFlight EXCEPT ![c] = FALSE],
               IF left[c] = 1 THEN MarkBlockFinished(c, p, b) ELSE UNCHANGED vars
        PROVE  AskedFor'
    <3>1. left[c] = 1
      BY <2>2 DEF BInv, BlockTypeOK, QueueOK
    <3>2. held[c] = {<<p, b>>}
      BY <1>0, <2>2 DEF Fragment, BInv, QueueOK
    <3>3. held' = [held EXCEPT ![c] = {}]
      BY <1>0, <2>2, <3>1, <3>2 DEF MarkBlockFinished
    <3> QED
      BY <1>0, <2>2, <3>3 DEF AskedFor
  <2> QED
    BY <1>4, <2>1, <2>2 DEF ReceivedDataResponse, vars, callers
<1>5. ASSUME UNCHANGED <<held, inFlight>>
      PROVE  AskedFor'
  BY <1>5 DEF AskedFor
<1>6. ASSUME NEW c \in Clients, ContinuePick(c) \/ TickSend(c) \/ WorkSend(c) \/ DownloadTimeoutProc(c)
                                  \/ ProcessMsg(c) \/ Destroy(c)
      PROVE  AskedFor'
  BY <1>1, <1>2, <1>3, <1>5, <1>6
     DEF ContinuePick, TickSend, WorkSend, DownloadTimeoutProc, ProcessMsg, Destroy, vars, callers, queue
<1>7. ASSUME \/ UNCHANGED bvars
             \/ \E p \in Pieces : VerifyDone(p) \/ Announce(p)
             \/ \E c \in Clients :
                  \/ WorkCheck(c)
                  \/ \E f \in Fragments : AnswerArrives(c, f)
                  \/ \E p \in Pieces : ReceivedHaveMsg(c, p)
      PROVE  UNCHANGED <<held, inFlight>>
  BY <1>7 DEF bvars, vars, dvars, queue, callers, VerifyDone, OnVerifyPieceOk, FailToVerifyPieceProc,
              Announce, AnnouncePiece, WorkCheck, AnswerArrives, ReceivedHaveMsg
<1> QED
  BY <1>4, <1>5, <1>6, <1>7 DEF BlockNext, WorkThread

(* BC_ASSERT(download_frag_queue_.front().downloading) never fails where a *)
(* block is one fragment, however late or often answers come.  (Where it   *)
(* is several it may: see the README.)                                     *)
THEOREM ResponseMeetsAssert == FragNum = 1 /\ BlockSpec => []HeadInFlight
<1> SUFFICES ASSUME FragNum = 1
             PROVE  BlockSpec => []HeadInFlight
  OBVIOUS
<1>1. BlockInit => AskedFor
  BY DEF BlockInit, Init, AskedFor
<1>2. BInv /\ AskedFor /\ [BlockNext]_bvars => AskedFor'
  BY AskedForStep
<1>3. AskedFor => HeadInFlight
  BY DEF AskedFor, HeadInFlight
<1> QED
  BY <1>1, <1>2, <1>3, ConnectionsInvariant, PTL DEF BlockSpec, bvars

-----------------------------------------------------------------------------
(* A sponsor keeps the contract of the PiecePicker, and owes it nothing    *)
(* once its connection is gone, for every torrent, whatever the proxies    *)
(* send.                                                                   *)

svars == <<vars, mvars>>

(* MarkBlockFailed and MarkBlockFinished are called for a block of the     *)
(* queue, which is one of the picker's.                                    *)
LEMMA HeldIsBlock ==
  ASSUME IInv, NEW c \in Clients, NEW pb \in held[c]
  PROVE  /\ pb[1] \in Pieces /\ pb[2] \in Blocks(pb[1]) /\ pb = <<pb[1], pb[2]>>
<1>1. pb \in Pieces \X Nat
  BY DEF IInv, TypeOK
<1>2. pb = <<pb[1], pb[2]>>
  BY <1>1
<1> QED
  BY <1>1, <1>2, HeldBlock

(* What a connection owes.  A closed one has returned its block and takes  *)
(* none; it may be given a piece until it is gone, but by then the thread  *)
(* that gives it has ended.                                                *)
Owes(c) ==
  /\ \A x, y \in held[c] : x = y
  /\ \A p, q \in assigned[c] : p = q
  /\ conn[c] # "open" => held[c] = {} /\ picking[c] = {}
  /\ conn[c] = "gone" => assigned[c] = {} /\ ~resuming[c]
  /\ conn[c] = "open" => waited[c] < MaxWait

HaveIsCached ==
  \A c \in Clients : \A i \in 1 .. Len(fromProxy[c]) :
    fromProxy[c][i].kind = "have" => fromProxy[c][i].piece \in cached[c]

Callers ==
  /\ conn \in [Clients -> {"open", "closed", "gone"}]
  /\ waited \in [Clients -> 0 .. MaxWait]
  /\ resuming \in [Clients -> BOOLEAN]
  /\ \A c \in Clients : Owes(c)

Messages ==
  /\ told \in [Clients -> SUBSET Pieces]
  /\ toProxy \in [Clients -> Seq(Pieces)]
  /\ fromProxy \in [Clients -> Seq(Message)]
  /\ cached \in [Clients -> SUBSET Pieces]
  /\ \A c \in Clients : told[c] \subseteq cached[c]
  /\ HaveIsCached

(* The inductive invariant. *)
DInv == IInv /\ Callers /\ Messages

(* A step of the sponsor as a step of the picker. *)
LEMMA SponsorStep ==
  ASSUME IInv, Messages, [DistriNext]_svars
  PROVE  [Next]_vars
<1>0. Sponsors \subseteq Clients /\ told \in [Clients -> SUBSET Pieces]
  BY DistriAssumption DEF Messages
<1>1. ASSUME NEW c \in Clients, NEW pb \in held[c],
             MarkBlockFailed(c, pb[1], pb[2]) \/ MarkBlockFinished(c, pb[1], pb[2])
      PROVE  Next
  BY <1>1, HeldIsBlock DEF Next
<1>2. ASSUME NEW c \in Clients, Stop(c)
      PROVE  [Next]_vars
  BY <1>1, <1>2 DEF Stop
<1>3. ASSUME NEW c \in Clients, NEW p \in assigned[c], MarkPieceFailed(c, p)
      PROVE  Next
  BY <1>3, AssignedPiece DEF Next
<1>4. ASSUME NEW c \in Sponsors, OnTick(c) \/ TryAssignPieces(c)
      PROVE  [Next]_vars
  BY <1>0, <1>2, <1>4 DEF OnTick, TryAssignPieces, AssignPieces, Next
<1>5. ASSUME NEW c \in Sponsors, OnHavePiece(c)
      PROVE  [Next]_vars
  BY <1>0, <1>3, <1>5 DEF OnHavePiece, MarkPieceFailed
<1>6. ASSUME NEW c \in Sponsors, OnRejectPieceMsg(c) \/ ProcessRecvError(c)
      PROVE  [Next]_vars
  BY <1>0, <1>2, <1>6 DEF OnRejectPieceMsg, ProcessRecvError
<1>7. ASSUME NEW c \in Sponsors, DestroyPeerConnection(c)
      PROVE  [Next]_vars
  BY <1>0, <1>3, <1>7 DEF DestroyPeerConnection
<1>8. ASSUME NEW c \in Clients, Download(c)
      PROVE  [Next]_vars
  BY <1>0, <1>1, <1>8 DEF Download, Next
<1>9. ASSUME NEW p \in Pieces, OnVerifyPiece(p)
      PROVE  [Next]_vars
  BY <1>9 DEF OnVerifyPiece, Next
<1>10. ASSUME NEW c \in Sponsors, OnAssignPieceMsg(c) \/ \E p \in Pieces : HavePiece(c, p)
       PROVE  [Next]_vars
  BY <1>10 DEF OnAssignPieceMsg, HavePiece
<1> QED
  BY <1>4, <1>5, <1>6, <1>7, <1>8, <1>9, <1>10 DEF DistriNext, svars

LEMMA DistriInitInv == DistriInit => DInv
<1> SUFFICES ASSUME DistriInit
             PROVE  DInv
  OBVIOUS
<1>1. IInv
  BY InitIInv DEF DistriInit
<1>2. /\ held = [c \in Clients |-> {}] /\ picking = [c \in Clients |-> {}]
      /\ assigned = [c \in Clients |-> {}]
  BY DEF DistriInit, Init
<1>3. Callers
  BY <1>2, DistriAssumption DEF DistriInit, Callers, Owes
<1>4. Messages
  BY DEF DistriInit, Messages, HaveIsCached
<1> QED
  BY <1>1, <1>3, <1>4 DEF DInv

LEMMA CallersTyped ==
  ASSUME IInv
  PROVE  /\ held \in [Clients -> SUBSET (Pieces \X Nat)]
         /\ picking \in [Clients -> SUBSET Pieces]
         /\ assigned \in [Clients -> SUBSET Pieces]
  BY DEF IInv, TypeOK

(* Only what c owes changes. *)
LEMMA OwesChange ==
  ASSUME Callers, NEW c \in Clients, Owes(c)',
         \A d \in Clients \ {c} : /\ held'[d] = held[d] /\ picking'[d] = picking[d]
                                  /\ assigned'[d] = assigned[d] /\ conn'[d] = conn[d]
                                  /\ resuming'[d] = resuming[d] /\ waited'[d] = waited[d]
  PROVE  \A d \in Clients : Owes(d)'
<1> SUFFICES ASSUME NEW d \in Clients
             PROVE  Owes(d)'
  OBVIOUS
<1>1. CASE d = c
  BY <1>1
<1>2. CASE d # c
  BY <1>2 DEF Callers, Owes
<1> QED
  BY <1>1, <1>2

(* A block download, which is none of a closed connection's. *)
LEMMA DownloadKept ==
  ASSUME DInv, NEW c \in Clients, Download(c)
  PROVE  Callers'
<1>0. /\ Callers
      /\ held \in [Clients -> SUBSET (Pieces \X Nat)]
      /\ picking \in [Clients -> SUBSET Pieces]
  BY CallersTyped DEF DInv
<1>1. UNCHANGED <<assigned, conn, resuming, waited>>
  BY DEF Download, mvars, PickBlocksFromDownloadingPieces, PickBlocksFromWaitingPieces,
         MarkBlockFailed, MarkBlockFinished
<1>2. /\ \A d \in Clients \ {c} : held'[d] = held[d] /\ picking'[d] = picking[d]
      /\ \A x, y \in held'[c] : x = y
      /\ conn[c] # "open" => held'[c] = {} /\ picking'[c] = {}
  <2>1. ASSUME NEW filter, conn[c] = "open", PickBlocksFromDownloadingPieces(c, filter)
        PROVE  /\ \A d \in Clients \ {c} : held'[d] = held[d] /\ picking'[d] = picking[d]
               /\ \A x, y \in held'[c] : x = y
               /\ conn[c] # "open" => held'[c] = {} /\ picking'[c] = {}
    <3>1. held' = held \/ \E x : held' = [held EXCEPT ![c] = {x}]
      BY <2>1 DEF PickBlocksFromDownloadingPieces
    <3>2. \A d \in Clients \ {c} : picking'[d] = picking[d]
      BY <1>0, <2>1 DEF PickBlocksFromDownloadingPieces
    <3> QED
      BY <1>0, <2>1, <3>1, <3>2 DEF Callers, Owes
  <2>2. ASSUME PickBlocksFromWaitingPieces(c)
        PROVE  /\ \A d \in Clients \ {c} : held'[d] = held[d] /\ picking'[d] = picking[d]
               /\ \A x, y \in held'[c] : x = y
               /\ conn[c] # "open" => held'[c] = {} /\ picking'[c] = {}
    <3>1. held' = held \/ \E x : held' = [held EXCEPT ![c] = {x}]
      BY <2>2 DEF PickBlocksFromWaitingPieces
    <3>2. picking[c] # {} /\ picking' = [picking EXCEPT ![c] = {}]
      BY <2>2 DEF PickBlocksFromWaitingPieces
    <3> QED
      BY <1>0, <3>1, <3>2 DEF Callers, Owes
  <2>3. ASSUME NEW pb \in held[c], MarkBlockFailed(c, pb[1], pb[2]) \/ MarkBlockFinished(c, pb[1], pb[2])
        PROVE  /\ \A d \in Clients \ {c} : held'[d] = held[d] /\ picking'[d] = picking[d]
               /\ \A x, y \in held'[c] : x = y
               /\ conn[c] # "open" => held'[c] = {} /\ picking'[c] = {}
    <3>1. held' = [held EXCEPT ![c] = @ \ {<<pb[1], pb[2]>>}] /\ picking' = picking
      BY <2>3 DEF MarkBlockFailed, MarkBlockFinished
    <3> QED
      BY <1>0, <3>1 DEF Callers, Owes
  <2> QED
    BY <2>1, <2>2, <2>3 DEF Download
<1>3. Owes(c)'
  BY <1>0, <1>1, <1>2 DEF Callers, Owes
<1> QED
  BY <1>0, <1>1, <1>2, <1>3, OwesChange DEF Callers

(* A piece is taken by a connection that is not gone.                      *)
LEMMA AssignKept ==
  ASSUME DInv, NEW c \in Clients, PickPieces(c), conn[c] # "gone",
         waited' = [waited EXCEPT ![c] = 0] \/ waited' = [waited EXCEPT ![c] = 1],
         resuming' = resuming \/ resuming' = [resuming EXCEPT ![c] = FALSE],
         conn' = conn
  PROVE  Callers'
<1>0. /\ Callers
      /\ assigned \in [Clients -> SUBSET Pieces]
      /\ MaxWait \in Nat /\ MaxWait > 1
  BY CallersTyped, DistriAssumption DEF DInv
<1>1. /\ UNCHANGED <<held, picking>>
      /\ \E p : assigned' = [assigned EXCEPT ![c] = {p}]
  BY DEF PickPieces
<1>2. /\ \A d \in Clients \ {c} : /\ assigned'[d] = assigned[d] /\ waited'[d] = waited[d]
                                  /\ resuming'[d] = resuming[d]
      /\ \A p, q \in assigned'[c] : p = q
      /\ waited'[c] < MaxWait
      /\ waited' \in [Clients -> 0 .. MaxWait] /\ resuming' \in [Clients -> BOOLEAN]
  <2>1. PICK p : assigned' = [assigned EXCEPT ![c] = {p}]
    BY <1>1
  <2>2. /\ \A d \in Clients \ {c} : assigned'[d] = assigned[d]
        /\ assigned'[c] = {p}
    BY <1>0, <2>1
  <2>3. PICK t \in {0, 1} : waited' = [waited EXCEPT ![c] = t]
    OBVIOUS
  <2>4. waited \in [Clients -> 0 .. MaxWait] /\ t \in 0 .. MaxWait /\ t < MaxWait
    BY <1>0 DEF Callers
  <2>5. /\ \A d \in Clients \ {c} : waited'[d] = waited[d]
        /\ waited'[c] < MaxWait
        /\ waited' \in [Clients -> 0 .. MaxWait]
    BY <2>3, <2>4
  <2>6. /\ \A d \in Clients \ {c} : resuming'[d] = resuming[d]
        /\ resuming' \in [Clients -> BOOLEAN]
    BY <1>0 DEF Callers
  <2> QED
    BY <2>2, <2>5, <2>6
<1>3. Owes(c)'
  BY <1>0, <1>1, <1>2 DEF Callers, Owes
<1> QED
  BY <1>0, <1>1, <1>2, <1>3, OwesChange DEF Callers

(* The connection is closed, which returns its block. *)
LEMMA SponsorStopKept ==
  ASSUME DInv, NEW c \in Clients, Stop(c), conn[c] # "gone", resuming' = resuming,
         waited' \in [Clients -> 0 .. MaxWait], \A d \in Clients \ {c} : waited'[d] = waited[d]
  PROVE  Callers'
<1>0. /\ Callers
      /\ held \in [Clients -> SUBSET (Pieces \X Nat)]
  BY CallersTyped DEF DInv
<1>1. held' = [held EXCEPT ![c] = {}] /\ UNCHANGED <<assigned, picking>>
  <2>1. ASSUME held[c] = {}, UNCHANGED vars
        PROVE  held' = [held EXCEPT ![c] = {}] /\ UNCHANGED <<assigned, picking>>
    BY <1>0, <2>1 DEF vars, callers
  <2>2. ASSUME NEW pb \in held[c], MarkBlockFailed(c, pb[1], pb[2])
        PROVE  held' = [held EXCEPT ![c] = {}] /\ UNCHANGED <<assigned, picking>>
    <3>1. held[c] = {<<pb[1], pb[2]>>}
      BY <1>0, <2>2, HeldIsBlock DEF Callers, Owes, DInv
    <3> QED
      BY <1>0, <2>2, <3>1 DEF MarkBlockFailed
  <2> QED
    BY <2>1, <2>2 DEF Stop
<1>2. picking[c] = {} /\ conn' = [conn EXCEPT ![c] = "closed"]
  BY DEF Stop
<1>3. Owes(c)'
  BY <1>0, <1>1, <1>2 DEF Callers, Owes
<1> QED
  BY <1>0, <1>1, <1>2, <1>3, OwesChange DEF Callers

(* The tick of the timer: a piece, or a second less for the one there is.  *)
LEMMA TickKept ==
  ASSUME DInv, NEW c \in Clients, OnTick(c)
  PROVE  Callers'
<1>0. Callers /\ MaxWait \in Nat /\ conn[c] = "open" /\ waited[c] < MaxWait
  BY DistriAssumption DEF DInv, Callers, Owes, OnTick
<1>1. CASE AssignPieces(c, 1) /\ UNCHANGED conn
  BY <1>0, <1>1, AssignKept DEF AssignPieces, OnTick
<1>2. CASE waited' = [waited EXCEPT ![c] = @ + 1]
  <2>1. /\ waited' \in [Clients -> 0 .. MaxWait]
        /\ \A d \in Clients \ {c} : waited'[d] = waited[d]
        /\ waited'[c] = waited[c] + 1
    BY <1>0, <1>2 DEF Callers
  <2>2. CASE Stop(c)
    BY <1>0, <2>1, <2>2, SponsorStopKept DEF OnTick
  <2>3. CASE UNCHANGED <<vars, conn>> /\ ~(waited'[c] >= MaxWait)
    <3>1. UNCHANGED <<held, assigned, picking, conn, resuming>>
      BY <2>3 DEF vars, callers, OnTick
    <3>2. Owes(c)'
      BY <1>0, <2>1, <2>3, <3>1 DEF Callers, Owes
    <3> QED
      BY <1>0, <2>1, <3>1, <3>2, OwesChange DEF Callers
  <2> QED
    BY <1>1, <1>2, <2>2, <2>3 DEF OnTick
<1> QED
  BY <1>1, <1>2 DEF OnTick

(* A piece is returned, and the connection may go. *)
LEMMA ReturnKept ==
  ASSUME DInv, NEW c \in Clients, OnHavePiece(c) \/ DestroyPeerConnection(c)
  PROVE  Callers'
<1>0. /\ Callers
      /\ assigned \in [Clients -> SUBSET Pieces]
  BY CallersTyped DEF DInv
<1>1. /\ UNCHANGED <<held, picking, waited>>
      /\ \A d \in Clients \ {c} : assigned'[d] = assigned[d]
      /\ assigned'[c] \subseteq assigned[c]
      /\ DestroyPeerConnection(c) => assigned'[c] = {}
  <2>1. CASE UNCHANGED vars /\ (DestroyPeerConnection(c) => assigned[c] = {})
    BY <2>1 DEF vars, callers, OnHavePiece, DestroyPeerConnection
  <2>2. ASSUME NEW p \in assigned[c], MarkPieceFailed(c, p)
        PROVE  /\ UNCHANGED <<held, picking, waited>>
               /\ \A d \in Clients \ {c} : assigned'[d] = assigned[d]
               /\ assigned'[c] = {}
    <3>1. assigned' = [assigned EXCEPT ![c] = @ \ {p}] /\ UNCHANGED <<held, picking, waited>>
      BY <2>2 DEF MarkPieceFailed, OnHavePiece, DestroyPeerConnection
    <3>2. assigned[c] = {p}
      BY <1>0, <2>2 DEF Callers, Owes
    <3> QED
      BY <1>0, <3>1, <3>2
  <2> QED
    BY <2>1, <2>2 DEF OnHavePiece, DestroyPeerConnection, MarkPieceFailed
<1>2. CASE OnHavePiece(c)
  <2>1. /\ conn[c] = "open" /\ conn' = conn
        /\ resuming' = resuming \/ resuming' = [resuming EXCEPT ![c] = TRUE]
    BY <1>2 DEF OnHavePiece
  <2>2. Owes(c)'
    BY <1>0, <1>1, <2>1 DEF Callers, Owes
  <2> QED
    BY <1>0, <1>1, <2>1, <2>2, OwesChange DEF Callers
<1>3. CASE DestroyPeerConnection(c)
  <2>1. conn[c] = "closed" /\ conn' = [conn EXCEPT ![c] = "gone"] /\ ~resuming[c] /\ resuming' = resuming
    BY <1>3 DEF DestroyPeerConnection
  <2>2. Owes(c)'
    BY <1>0, <1>1, <1>3, <2>1 DEF Callers, Owes
  <2> QED
    BY <1>0, <1>1, <2>1, <2>2, OwesChange DEF Callers
<1> QED
  BY <1>2, <1>3

(* The rest of OnHavePiece: the connection that is told is not gone. *)
LEMMA TryKept ==
  ASSUME DInv, NEW c \in Clients, TryAssignPieces(c)
  PROVE  Callers'
<1>0. /\ Callers /\ resuming[c] /\ conn[c] # "gone" /\ conn' = conn
      /\ resuming' = [resuming EXCEPT ![c] = FALSE]
  BY DEF DInv, Callers, Owes, TryAssignPieces
<1>1. CASE AssignPieces(c, 0)
  BY <1>0, <1>1, AssignKept DEF AssignPieces
<1>2. CASE UNCHANGED <<vars, waited, toProxy>>
  <2>1. UNCHANGED <<held, assigned, picking, waited>>
    BY <1>2 DEF vars, callers
  <2>2. resuming' \in [Clients -> BOOLEAN] /\ resuming'[c] = FALSE
        /\ \A d \in Clients \ {c} : resuming'[d] = resuming[d]
    BY <1>0 DEF Callers
  <2>3. Owes(c)'
    BY <1>0, <2>1, <2>2 DEF Callers, Owes
  <2> QED
    BY <1>0, <2>1, <2>2, <2>3, OwesChange DEF Callers
<1> QED
  BY <1>1, <1>2 DEF TryAssignPieces

(* Every step keeps what the connections owe. *)
LEMMA CallersKept ==
  ASSUME DInv, DistriNext
  PROVE  Callers'
<1>0. Sponsors \subseteq Clients
  BY DistriAssumption
<1>1. ASSUME NEW c \in Sponsors, OnTick(c)
      PROVE  Callers'
  BY <1>0, <1>1, TickKept
<1>2. ASSUME NEW c \in Sponsors, OnHavePiece(c) \/ DestroyPeerConnection(c)
      PROVE  Callers'
  BY <1>0, <1>2, ReturnKept
<1>3. ASSUME NEW c \in Sponsors, TryAssignPieces(c)
      PROVE  Callers'
  BY <1>0, <1>3, TryKept
<1>4. ASSUME NEW c \in Sponsors, OnRejectPieceMsg(c) \/ ProcessRecvError(c)
      PROVE  Callers'
  <2>1. Stop(c) /\ conn[c] # "gone" /\ resuming' = resuming /\ waited' = waited
    BY <1>4 DEF OnRejectPieceMsg, ProcessRecvError
  <2>2. waited \in [Clients -> 0 .. MaxWait]
    BY DEF DInv, Callers
  <2> QED
    BY <1>0, <2>1, <2>2, SponsorStopKept
<1>5. ASSUME NEW c \in Clients, Download(c)
      PROVE  Callers'
  BY <1>5, DownloadKept
<1>6. ASSUME UNCHANGED <<held, picking, assigned, conn, resuming, waited>>
      PROVE  Callers'
  BY <1>6 DEF DInv, Callers, Owes
<1>7. ASSUME NEW p \in Pieces, OnVerifyPiece(p)
      PROVE  Callers'
  BY <1>6, <1>7 DEF OnVerifyPiece, mvars, callers, OnVerifyPieceOk, AnnouncePiece, FailToVerifyPieceProc
<1>8. ASSUME NEW c \in Sponsors, OnAssignPieceMsg(c) \/ \E p \in Pieces : HavePiece(c, p)
      PROVE  Callers'
  BY <1>6, <1>8 DEF OnAssignPieceMsg, HavePiece, vars, callers
<1> QED
  BY <1>1, <1>2, <1>3, <1>4, <1>5, <1>7, <1>8 DEF DistriNext

(* What is between the sponsor and its proxies: pieces and messages, and   *)
(* a HAVE only of what the proxy has.                                      *)
LEMMA MessagesKept ==
  ASSUME DInv, DistriNext
  PROVE  Messages'
<1>0. Messages /\ Sponsors \subseteq Clients /\ assigned \in [Clients -> SUBSET Pieces]
  BY DistriAssumption, CallersTyped DEF DInv
<1>1. ASSUME UNCHANGED <<told, toProxy, fromProxy, cached>>
      PROVE  Messages'
  BY <1>0, <1>1 DEF Messages, HaveIsCached
<1>2. ASSUME NEW c \in Clients, NEW time, AssignPieces(c, time),
             UNCHANGED <<told, fromProxy, cached>>
      PROVE  Messages'
  <2>1. PICK p \in Pieces : assigned'[c] = {p}
    <3>1. PICK p \in waiting : assigned' = [assigned EXCEPT ![c] = {p}]
      BY <1>2 DEF AssignPieces, PickPieces, Best
    <3>2. p \in Pieces
      BY <3>1 DEF DInv, IInv, TypeOK
    <3> QED
      BY <1>0, <3>1, <3>2
  <2>2. toProxy' = [toProxy EXCEPT ![c] = Append(@, p)]
    BY <1>2, <2>1 DEF AssignPieces
  <2>3. toProxy' \in [Clients -> Seq(Pieces)]
    BY <1>0, <2>2 DEF Messages
  <2> QED
    BY <1>0, <1>2, <2>3 DEF Messages, HaveIsCached
<1>3. ASSUME NEW c \in Clients, fromProxy[c] # <<>>,
             fromProxy' = [fromProxy EXCEPT ![c] = Tail(@)],
             \/ told' = told
             \/ /\ IsNext(c, "have")
                /\ told' = [told EXCEPT ![c] = @ \cup {Head(fromProxy[c]).piece}],
             UNCHANGED <<toProxy, cached>>
      PROVE  Messages'
  <2>1. /\ fromProxy[c] \in Seq(Message) /\ Len(fromProxy[c]) >= 1
        /\ Head(fromProxy[c]) = fromProxy[c][1]
        /\ fromProxy[c][1] \in Message
    BY <1>0, <1>3 DEF Messages
  <2>2. fromProxy' \in [Clients -> Seq(Message)]
    BY <1>0, <1>3 DEF Messages
  <2>3. HaveIsCached'
    <3>1. \A d \in Clients : \A i \in 1 .. Len(fromProxy'[d]) :
            \E j \in 1 .. Len(fromProxy[d]) : fromProxy'[d][i] = fromProxy[d][j]
      <4> SUFFICES ASSUME NEW d \in Clients, NEW i \in 1 .. Len(fromProxy'[d])
                   PROVE  \E j \in 1 .. Len(fromProxy[d]) : fromProxy'[d][i] = fromProxy[d][j]
        OBVIOUS
      <4>1. CASE d # c
        BY <1>0, <1>3, <4>1 DEF Messages
      <4>2. CASE d = c
        <5>1. fromProxy'[c] = Tail(fromProxy[c])
          BY <1>0, <1>3 DEF Messages
        <5>2. i + 1 \in 1 .. Len(fromProxy[c]) /\ fromProxy'[c][i] = fromProxy[c][i + 1]
          BY <2>1, <4>2, <5>1
        <5> QED
          BY <4>2, <5>2
      <4> QED
        BY <4>1, <4>2
    <3> QED
      BY <1>0, <1>3, <3>1 DEF Messages, HaveIsCached
  <2>4. told' \in [Clients -> SUBSET Pieces] /\ \A d \in Clients : told'[d] \subseteq cached'[d]
    <3>1. CASE told' = told
      BY <1>0, <1>3, <3>1 DEF Messages
    <3>2. CASE told' # told
      <4>1. fromProxy[c][1].kind = "have" /\ told' = [told EXCEPT ![c] = @ \cup {fromProxy[c][1].piece}]
        BY <1>3, <2>1, <3>2 DEF IsNext
      <4>2. fromProxy[c][1].piece \in cached[c] /\ fromProxy[c][1].piece \in Pieces
        BY <1>0, <2>1, <4>1 DEF Messages, HaveIsCached, Message
      <4> QED
        BY <1>0, <1>3, <4>1, <4>2 DEF Messages
    <3> QED
      BY <3>1, <3>2
  <2> QED
    BY <1>0, <1>3, <2>2, <2>3, <2>4 DEF Messages
<1>4. ASSUME NEW c \in Clients, NEW m \in Message,
             fromProxy' = [fromProxy EXCEPT ![c] = Append(@, m)],
             cached' \in [Clients -> SUBSET Pieces],
             \A d \in Clients : cached[d] \subseteq cached'[d],
             m.kind = "have" => m.piece \in cached'[c],
             toProxy' \in [Clients -> Seq(Pieces)], told' = told
      PROVE  Messages'
  <2>1. fromProxy' \in [Clients -> Seq(Message)]
    BY <1>0, <1>4 DEF Messages
  <2>2. HaveIsCached'
    <3> SUFFICES ASSUME NEW d \in Clients, NEW i \in 1 .. Len(fromProxy'[d]),
                        fromProxy'[d][i].kind = "have"
                 PROVE  fromProxy'[d][i].piece \in cached'[d]
      BY DEF HaveIsCached
    <3>1. CASE d # c
      <4>1. fromProxy'[d] = fromProxy[d]
        BY <1>0, <1>4, <3>1 DEF Messages
      <4> QED
        BY <1>0, <1>4, <4>1 DEF Messages, HaveIsCached
    <3>2. CASE d = c
      <4>1. fromProxy'[c] = Append(fromProxy[c], m) /\ fromProxy[c] \in Seq(Message)
        BY <1>0, <1>4 DEF Messages
      <4>2. CASE i = Len(fromProxy[c]) + 1
        BY <1>4, <3>2, <4>1, <4>2
      <4>3. CASE i # Len(fromProxy[c]) + 1
        <5>1. i \in 1 .. Len(fromProxy[c]) /\ fromProxy'[c][i] = fromProxy[c][i]
          BY <3>2, <4>1, <4>3
        <5> QED
          BY <1>0, <1>4, <3>2, <5>1 DEF Messages, HaveIsCached
      <4> QED
        BY <4>2, <4>3
    <3> QED
      BY <3>1, <3>2
  <2>3. told' \in [Clients -> SUBSET Pieces] /\ \A d \in Clients : told'[d] \subseteq cached'[d]
    BY <1>0, <1>4 DEF Messages
  <2> QED
    BY <1>4, <2>1, <2>2, <2>3 DEF Messages
<1>5. ASSUME NEW c \in Clients, OnAssignPieceMsg(c)
      PROVE  Messages'
  <2>1. /\ toProxy[c] \in Seq(Pieces) /\ toProxy[c] # <<>> /\ Head(toProxy[c]) \in Pieces
        /\ toProxy' \in [Clients -> Seq(Pieces)]
    BY <1>0, <1>5 DEF OnAssignPieceMsg, Messages
  <2>2. CASE fromProxy' = fromProxy
    BY <1>0, <1>5, <2>1, <2>2 DEF OnAssignPieceMsg, Messages, HaveIsCached
  <2>3. CASE fromProxy' = [fromProxy EXCEPT ![c] = Append(@, Reject(Head(toProxy[c])))]
    <3>1. Reject(Head(toProxy[c])) \in Message /\ Reject(Head(toProxy[c])).kind # "have"
      BY <2>1 DEF Reject, Message
    <3>2. cached' = cached /\ told' = told /\ cached \in [Clients -> SUBSET Pieces]
      BY <1>0, <1>5 DEF OnAssignPieceMsg, Messages
    <3> QED
      BY <1>4, <2>1, <2>3, <3>1, <3>2
  <2> QED
    BY <1>5, <2>2, <2>3 DEF OnAssignPieceMsg
<1>6. ASSUME NEW c \in Clients, NEW p \in Pieces, HavePiece(c, p)
      PROVE  Messages'
  <2>1. Have(p) \in Message /\ Have(p).piece = p
    BY DEF Have, Message
  <2>2. /\ cached' \in [Clients -> SUBSET Pieces] /\ p \in cached'[c]
        /\ \A d \in Clients : cached[d] \subseteq cached'[d]
    BY <1>0, <1>6 DEF HavePiece, Messages
  <2>3. toProxy' \in [Clients -> Seq(Pieces)] /\ told' = told
    BY <1>0, <1>6 DEF HavePiece, Messages
  <2> QED
    BY <1>4, <1>6, <2>1, <2>2, <2>3 DEF HavePiece
<1>7. ASSUME NEW c \in Clients, OnTick(c) \/ TryAssignPieces(c)
      PROVE  Messages'
  BY <1>1, <1>2, <1>7 DEF OnTick, TryAssignPieces
<1>8. ASSUME NEW c \in Clients, OnHavePiece(c) \/ OnRejectPieceMsg(c)
      PROVE  Messages'
  <2>1. CASE OnHavePiece(c)
    BY <1>3, <2>1 DEF OnHavePiece, IsNext
  <2>2. CASE OnRejectPieceMsg(c)
    BY <1>3, <2>2 DEF OnRejectPieceMsg, IsNext
  <2> QED
    BY <1>8, <2>1, <2>2
<1>9. ASSUME NEW c \in Clients, ProcessRecvError(c) \/ DestroyPeerConnection(c) \/ Download(c)
      PROVE  Messages'
  BY <1>1, <1>9 DEF ProcessRecvError, DestroyPeerConnection, Download, mvars
<1>10. ASSUME NEW p \in Pieces, OnVerifyPiece(p)
       PROVE  Messages'
  BY <1>1, <1>10 DEF OnVerifyPiece, mvars
<1> QED
  BY <1>0, <1>5, <1>6, <1>7, <1>8, <1>9, <1>10 DEF DistriNext

LEMMA DInvStep ==
  ASSUME DInv, [DistriNext]_svars
  PROVE  DInv'
<1>1. IInv'
  BY SponsorStep, IInvStep DEF DInv
<1>2. CASE DistriNext
  BY <1>1, <1>2, CallersKept, MessagesKept DEF DInv
<1>3. CASE UNCHANGED svars
  BY <1>1, <1>3 DEF DInv, Callers, Owes, Messages, HaveIsCached, svars, vars, mvars, callers
<1> QED
  BY <1>2, <1>3

(* The inductive invariant of the sponsor. *)
THEOREM SponsorInvariant == DistriSpec => []DInv
  BY DistriInitInv, DInvStep, PTL DEF DistriSpec, svars

(* The sponsor of a distributed download is a caller the PiecePicker       *)
(* expects: whole pieces and blocks are picked from it side by side.       *)
THEOREM SponsorsUsePicker == DistriSpec => Spec
<1>1. DistriInit => Init
  BY DEF DistriInit
<1>2. DInv /\ [DistriNext]_svars => [Next]_vars
  BY SponsorStep DEF DInv
<1> QED
  BY <1>1, <1>2, SponsorInvariant, PTL DEF DistriSpec, Spec, svars

(* What is proved of the picker with arbitrary callers, for a sponsor: a   *)
(* piece given to a proxy is never at the same time downloaded here.       *)
THEOREM PickerHoldsWithSponsors ==
  DistriSpec => [](PickerConsistent /\ OneHolder /\ MarksMeetAsserts) /\ DownloadedOnce
  BY SponsorsUsePicker, RecordsAgree, BlockHasOneHolder, AssertsHold,
     NothingDownloadedTwice, PTL

(* A sponsor believes no more of its proxy than is so, and a connection    *)
(* that is gone owes neither a block nor a piece.                          *)
THEOREM SponsorsConsistent == DistriSpec => []DistriConsistent
<1>1. DInv => DistriConsistent
  BY DEF DInv, IInv, Callers, Owes, Messages, DistriConsistent, DistriTypeOK, GoneOwesNothing
<1> QED
  BY <1>1, SponsorInvariant, PTL

=============================================================================
