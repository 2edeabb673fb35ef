---------------------------- MODULE BlockDownload ----------------------------
(***************************************************************************)
(* How the peer connections of a torrent download blocks: the download     *)
(* half of TrafficController, the states of P2PFsm from BLOCK on that      *)
(* drive it, the network, the disk IO queue and the PiecePicker.           *)
(*                                                                         *)
(* Three kinds of threads meet here.  The timer thread runs OnTick of one  *)
(* connection after the other; the socket threads deliver messages to the  *)
(* state machine under its fsm_mutex_; the work thread runs the callbacks  *)
(* of the disk IO jobs, one at a time and in the order of the jobs.  What  *)
(* download_mutex_ makes atomic is one action, except that PickBlocks      *)
(* takes the picker's lock twice: picking[c] # {} says that download_mutex_*)
(* of c is held by a thread between these two.                             *)
(*                                                                         *)
(* A fragment queue holds the rest of one block, for the connection asks   *)
(* for one block at a time (APPLY_DOWNLOAD_BLOCK_NUM): held[c] names the   *)
(* block and left[c] counts its fragments still queued.                    *)
(*                                                                         *)
(* Connections here are common ones, not the proxies and sponsors of a     *)
(* distributed download.                                                   *)
(***************************************************************************)
EXTENDS PiecePicker, Sequences

CONSTANTS Tries,       \* kTryDownloadFragmentTimes, 3 in the code
          FragNum,     \* fragments of a block: 1 for BT, 16 for PPS
          FirstMap,    \* the pieces of a peer's first bitfield
          MayLimit,    \* TRUE when IsDownloadSpeedLimited may be true
          MaxPending,  \* bound: answers still to come for one fragment
          MaxJobs      \* bound: jobs in the queue when an answer arrives

ASSUME BlockAssumption ==
  /\ Tries \in Nat \ {0} /\ FragNum \in Nat \ {0}
  /\ FirstMap \subseteq Pieces

VARIABLES
  fsm,       \* fsm[c]: P2PFsm::current_state_, "GONE" once c is destroyed
  has,       \* has[c]: PeerConnection::piece_map_
  left,      \* left[c]: length of download_frag_queue_
  inFlight,  \* inFlight[c]: downloading of the fragment at its front
  tried,     \* tried[c]: tried_times of the fragment at its front
  failed,    \* failed[c]: download_block_failed
  requests,  \* requests[c][f]: how often the peer may still send fragment f
  jobs,      \* the disk IO queue together with the callbacks it posts
  work       \* what the work thread does: <<>>, or a step of
             \* TrySendDataRequest after a response and its connection

queue == <<left, inFlight, tried, failed>>
dvars == <<fsm, has, queue, requests, jobs, work>>

WriteJob(c, f) == [kind |-> "write", conn |-> c, frag |-> f]
VerifyJob(p) == [kind |-> "verify", piece |-> p]

IsWrite(job, c) == job.kind = "write" /\ job.conn = c

Downloads(c) == fsm[c] \in {"DOWNLOAD", "TRANSFER"}
Locked(c) == picking[c] # {}
TimerIdle == \A c \in Clients : Locked(c) => work = <<"pick", c>>
WorksFor(c) == work # <<>> /\ work[2] = c
WorkIdle == work = <<>> /\ announcing = {}

(* The fragment of block pb at the front of a queue of length n. *)
Fragment(pb, n) == <<pb[1], pb[2], FragNum - n>>

Fragments == UNION {{p} \X Blocks(p) \X (0 .. FragNum - 1) : p \in Pieces}
NoRequests == [f \in Fragments |-> 0]

(* SendFragmentDataRequest.  Past the bound, and on a closed connection,   *)
(* the request is a lost one.                                              *)
Ask(c, f) ==
  requests' = IF requests[c][f] < MaxPending /\ fsm[c] # "CLOSE"
                THEN [requests EXCEPT ![c][f] = @ + 1]
                ELSE requests

EmptyQueue(c) ==
  /\ left' = [left EXCEPT ![c] = 0]
  /\ inFlight' = [inFlight EXCEPT ![c] = FALSE]
  /\ tried' = [tried EXCEPT ![c] = 0]

BlockInit ==
  /\ Init
  /\ fsm = [c \in Clients |-> "BLOCK"]
  /\ has = [c \in Clients |-> FirstMap]
  /\ left = [c \in Clients |-> 0]
  /\ inFlight = [c \in Clients |-> FALSE]
  /\ tried = [c \in Clients |-> 0]
  /\ failed = [c \in Clients |-> FALSE]
  /\ requests = [c \in Clients |-> NoRequests]
  /\ jobs = <<>>
  /\ work = <<>>

-----------------------------------------------------------------------------
MutantFailToDownloadFragment(c, pb) ==
  /\ held' = [held EXCEPT ![c] = @ \ {pb}]
  /\ UNCHANGED <<containers, pieceInfo, verification, picking, assigned>>
  /\ EmptyQueue(c)
  /\ failed' = [failed EXCEPT ![c] = TRUE]

(* FailToDownloadFragment for block pb: the whole block goes back. *)
FailToDownloadFragment(c, pb) ==
  /\ MarkBlockFailed(c, pb[1], pb[2])
  /\ EmptyQueue(c)
  /\ failed' = [failed EXCEPT ![c] = TRUE]

StopDownload(c) ==
  /\ ~Locked(c)
  /\ \/ /\ held[c] = {}
        /\ UNCHANGED <<vars, queue>>
     \/ \E pb \in held[c] : FailToDownloadFragment(c, pb)

MutantStartBlock(c) ==
  IF held'[c] = {}
    THEN UNCHANGED <<left, inFlight, tried, requests>>
    ELSE /\ left' = [left EXCEPT ![c] = FragNum]
         /\ UNCHANGED <<inFlight, tried, requests>>

(* ResolveBlockToDownloadFragments and the first request, if PickBlocks    *)
(* found a block.                                                          *)
StartBlock(c) ==
  IF held'[c] = {}
    THEN UNCHANGED <<left, inFlight, tried, requests>>
    ELSE /\ left' = [left EXCEPT ![c] = FragNum]
         /\ inFlight' = [inFlight EXCEPT ![c] = TRUE]
         /\ tried' = [tried EXCEPT ![c] = 1]
         /\ \E pb \in held'[c] : Ask(c, Fragment(pb, FragNum))

(* TrySendDataRequest from download_mutex_ on. *)
TrySendDataRequest(c) ==
  /\ ~Locked(c)
  /\ UNCHANGED failed
  /\ \/ /\ held[c] = {}
        /\ PickBlocksFromDownloadingPieces(c, has[c])
        /\ StartBlock(c)
     \/ /\ held[c] # {}
        /\ inFlight[c]
        /\ UNCHANGED <<vars, left, inFlight, tried, requests>>
     \/ \E pb \in held[c] :
          /\ ~inFlight[c]
          /\ inFlight' = [inFlight EXCEPT ![c] = TRUE]
          /\ tried' = [tried EXCEPT ![c] = @ + 1]
          /\ Ask(c, Fragment(pb, left[c]))
          /\ UNCHANGED <<vars, left>>

(* FSM_MSG_TICK in DOWNLOAD and TRANSFER.  The timer thread keeps          *)
(* fsm_mutex_, so download_block_failed does not change under its feet.    *)
TickSend(c) ==
  /\ TimerIdle
  /\ Downloads(c)
  /\ ~failed[c]
  /\ TrySendDataRequest(c)
  /\ UNCHANGED <<fsm, has, jobs, work>>

(* The second half of PickBlocks, by whichever thread began it. *)
ContinuePick(c) ==
  /\ PickBlocksFromWaitingPieces(c)
  /\ StartBlock(c)
  /\ work' = IF work = <<"pick", c>> THEN <<>> ELSE work
  /\ UNCHANGED <<fsm, has, failed, jobs>>

(* DownloadTimeoutProc once kWaitDataResponseTimeout has passed. *)
DownloadTimeoutProc(c) ==
  /\ TimerIdle
  /\ ~Locked(c)
  /\ fsm[c] # "GONE"
  /\ \E pb \in held[c] :
       /\ inFlight[c]
       /\ \/ /\ tried[c] >= Tries
             /\ FailToDownloadFragment(c, pb)
             /\ UNCHANGED requests
          \/ /\ tried[c] < Tries
             /\ tried' = [tried EXCEPT ![c] = @ + 1]
             /\ Ask(c, Fragment(pb, left[c]))
             /\ UNCHANGED <<vars, left, inFlight, failed>>
  /\ UNCHANGED <<fsm, has, jobs, work>>

(* The peer's answer reaches OnPieceMsg, which the message maps of the     *)
(* other states do not list, and becomes a write job.                      *)
AnswerArrives(c, f) ==
  /\ Downloads(c)
  /\ requests[c][f] > 0
  /\ Len(jobs) < MaxJobs
  /\ requests' = [requests EXCEPT ![c][f] = @ - 1]
  /\ jobs' = Append(jobs, WriteJob(c, f))
  /\ UNCHANGED <<vars, fsm, has, queue, work>>

(* OnWriteData and ReceivedDataResponse up to the release of               *)
(* download_mutex_.  BC_ASSERT(front().downloading) is HeadInFlight.       *)
ReceivedDataResponse(c, f) ==
  /\ jobs # <<>>
  /\ Head(jobs) = WriteJob(c, f)
  /\ WorkIdle
  /\ ~Locked(c)
  /\ IF \E pb \in held[c] : f = Fragment(pb, left[c])
       THEN /\ work' = <<"check", c>>
            /\ inFlight' = [inFlight EXCEPT ![c] = FALSE]
            /\ tried' = [tried EXCEPT ![c] = 0]
            /\ left' = [left EXCEPT ![c] = @ - 1]
            /\ IF left[c] = 1
                 THEN /\ MarkBlockFinished(c, f[1], f[2])
                      /\ jobs' = Tail(jobs) \o
                           (IF f[1] \in verifying' THEN <<VerifyJob(f[1])>> ELSE <<>>)
                 ELSE /\ jobs' = Tail(jobs)
                      /\ UNCHANGED vars
       ELSE /\ jobs' = Tail(jobs)
            /\ UNCHANGED <<vars, work, left, inFlight, tried>>
  /\ UNCHANGED <<fsm, has, failed, requests>>

(* The tests TrySendDataRequest makes before it locks download_mutex_. *)
WorkCheck(c) ==
  /\ work = <<"check", c>>
  /\ \/ /\ ~failed[c]
        /\ work' = <<"send", c>>
     \/ /\ failed[c] \/ MayLimit
        /\ work' = <<>>
  /\ UNCHANGED <<vars, fsm, has, queue, requests, jobs>>

WorkSend(c) ==
  /\ work = <<"send", c>>
  /\ TrySendDataRequest(c)
  /\ work' = IF picking'[c] = {} THEN <<>> ELSE <<"pick", c>>
  /\ UNCHANGED <<fsm, has, jobs>>

(* The verify job's callback, OnVerifyPiece. *)
VerifyDone(p) ==
  /\ jobs # <<>>
  /\ Head(jobs) = VerifyJob(p)
  /\ WorkIdle
  /\ jobs' = Tail(jobs)
  /\ OnVerifyPieceOk(p) \/ FailToVerifyPieceProc(p)
  /\ UNCHANGED <<fsm, has, queue, requests, work>>

Announce(p) ==
  /\ AnnouncePiece(p)
  /\ UNCHANGED dvars

-----------------------------------------------------------------------------
(* The jumps of P2PFsm from BLOCK on, by the message that causes them. *)
Jumps ==
  {<<"BLOCK", "UNCHOKED", "DOWNLOAD">>, <<"BLOCK", "INTEREST", "UPLOAD">>,
   <<"TRANSFER", "CHOKED", "UPLOAD">>, <<"TRANSFER", "NONINTEREST", "DOWNLOAD">>,
   <<"DOWNLOAD", "CHOKED", "CLOSE">>, <<"DOWNLOAD", "INTEREST", "TRANSFER">>,
   <<"UPLOAD", "NONINTEREST", "CLOSE">>, <<"UPLOAD", "UNCHOKED", "TRANSFER">>}
  \cup {<<s, "CLOSE", "CLOSE">> :
          s \in {"BLOCK", "TRANSFER", "DOWNLOAD", "UPLOAD", "CLOSE"}}

(* ProcessMsg: UPLOAD and CLOSE stop the download on entry.  A closed      *)
(* connection drops what the peer still sends.                             *)
ProcessMsg(c) ==
  /\ ~Locked(c)
  /\ \E jump \in Jumps :
       /\ fsm[c] = jump[1]
       /\ fsm' = [fsm EXCEPT ![c] = jump[3]]
       /\ IF jump[3] \in {"UPLOAD", "CLOSE"}
            THEN StopDownload(c)
            ELSE UNCHANGED <<vars, queue>>
       /\ requests' = IF jump[3] = "CLOSE" THEN [requests EXCEPT ![c] = NoRequests]
                                           ELSE requests
  /\ UNCHANGED <<has, jobs, work>>

ReceivedHaveMsg(c, p) ==
  /\ fsm[c] \notin {"CLOSE", "GONE"}
  /\ p \notin has[c]
  /\ has' = [has EXCEPT ![c] = @ \cup {p}]
  /\ UNCHANGED <<vars, fsm, queue, requests, jobs, work>>

MutantDestroy(c) ==
  /\ fsm[c] = "CLOSE"
  /\ TimerIdle
  /\ ~Locked(c)
  /\ \A i \in 1 .. Len(jobs) : ~IsWrite(jobs[i], c)
  /\ ~WorksFor(c)
  /\ fsm' = [fsm EXCEPT ![c] = "GONE"]
  /\ requests' = [requests EXCEPT ![c] = NoRequests]
  /\ UNCHANGED <<vars, queue, has, jobs, work>>

(* ~PeerConnection, once Policy has dropped a closed connection and no     *)
(* callback refers to it any more.                                         *)
Destroy(c) ==
  /\ fsm[c] = "CLOSE"
  /\ TimerIdle
  /\ \A i \in 1 .. Len(jobs) : ~IsWrite(jobs[i], c)
  /\ ~WorksFor(c)
  /\ StopDownload(c)
  /\ fsm' = [fsm EXCEPT ![c] = "GONE"]
  /\ requests' = [requests EXCEPT ![c] = NoRequests]
  /\ UNCHANGED <<has, jobs, work>>

WorkThread ==
  \/ \E c \in Clients :
       \/ WorkCheck(c)
       \/ WorkSend(c)
       \/ \E p \in Pieces : \E b \in Blocks(p) : \E i \in 0 .. FragNum - 1 :
            ReceivedDataResponse(c, <<p, b, i>>)
  \/ \E p \in Pieces : VerifyDone(p) \/ Announce(p)

BlockNext ==
  \/ WorkThread
  \/ \E c \in Clients :
       \/ TickSend(c)
       \/ ContinuePick(c)
       \/ DownloadTimeoutProc(c)
       \/ \E f \in Fragments : AnswerArrives(c, f)
       \/ ProcessMsg(c)
       \/ \E p \in Pieces : ReceivedHaveMsg(c, p)
       \/ Destroy(c)

BlockSpec == BlockInit /\ [][BlockNext]_<<vars, dvars>>

(* The threads go on: the timer ticks every connection, a lock holder goes *)
(* on, and the work thread runs its callbacks and gets download_mutex_     *)
(* though the timer takes it again and again.  A speed limit passes, for   *)
(* the window it looks at empties while nothing arrives, and a piece whose *)
(* check is repeated for ever passes it some time.  Nothing is assumed of  *)
(* the peers.                                                              *)
BlockFairness ==
  /\ SF_<<vars, dvars>>(WorkThread)
  /\ \A c \in Clients : /\ WF_<<vars, dvars>>(ContinuePick(c))
                        /\ SF_<<vars, dvars>>(TickSend(c))
                        /\ SF_<<vars, dvars>>(DownloadTimeoutProc(c))
  /\ \A p \in Pieces : SF_<<vars, dvars>>(VerifyDone(p) /\ p \in verified')

FairBlockSpec == BlockSpec /\ BlockFairness

-----------------------------------------------------------------------------
(* The queue, the state machine and the threads are in states they have. *)
BlockTypeOK ==
  /\ TypeOK
  /\ fsm \in [Clients -> {"BLOCK", "DOWNLOAD", "TRANSFER", "UPLOAD", "CLOSE", "GONE"}]
  /\ has \in [Clients -> SUBSET Pieces]
  /\ left \in [Clients -> 0 .. FragNum]
  /\ inFlight \in [Clients -> BOOLEAN]
  /\ tried \in [Clients -> 0 .. Tries]
  /\ failed \in [Clients -> BOOLEAN]
  /\ work = <<>> \/ work \in {"check", "send", "pick"} \X Clients

(* BC_ASSERT(download_frag_queue_.front().downloading): when a response is *)
(* handled while a fragment is queued, the fragment has been asked for.    *)
HeadInFlight ==
  \A c \in Clients :
    jobs # <<>> /\ WorkIdle /\ IsWrite(Head(jobs), c) /\ held[c] # {} => inFlight[c]

(* A connection that is destroyed answers for no block.  TrySendDataRequest*)
(* after a response is not under fsm_mutex_ and may pick a block for a     *)
(* connection that has just been closed; only the second CLOSE, sent by    *)
(* the destructor, returns it.                                             *)
GoneHoldsNothing == \A c \in Clients : fsm[c] = "GONE" => held[c] = {}

(* The state machines, the queues, the marks of the picker and what a      *)
(* destroyed connection has given back agree.                              *)
BlockConsistent == BlockTypeOK /\ GoneHoldsNothing

(* Every block a connection takes is finished or returned, whatever the    *)
(* peer does: silence, choking, late and repeated answers, a closed socket.*)
LeaseEnds == \A c \in Clients : held[c] # {} ~> held[c] = {}

(* One peer that keeps answering is enough: if it has every piece, stays   *)
(* unchoked and never lets a block fail, the torrent completes whatever    *)
(* the other connections do.                                               *)
OnePeerSuffices ==
  \A c \in Clients :
    <>[](Downloads(c) /\ ~failed[c] /\ has[c] = Pieces) => <>(pieceMap = Pieces)

=============================================================================
