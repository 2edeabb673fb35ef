-------------------------------- MODULE Upload --------------------------------
(***************************************************************************)
(* The upload half of one connection: the requests of the peer             *)
(* (rcs/src/frame/traffic_controller.cpp), the reads of the disk IO thread *)
(* with its read cache (disk_io_thread.cpp), the send queue of the socket  *)
(* (pub/socket_connection.cpp) and the speed meter that limits it all.     *)
(*                                                                         *)
(* A request is answered in four places, one after the other: the queue of *)
(* requests, the queue of disk jobs, the queue of callbacks of the work    *)
(* thread, the send queue.  Requests arrive, and uploading is stopped,     *)
(* under fsm_mutex_; the rest happens without it.                          *)
(***************************************************************************)
EXTENDS Naturals, Sequences, FiniteSets, SequencesExt

CONSTANTS Requests,     \* the requests a peer sends: [piece, start, length]
          Pieces,       \* the finished pieces
          PieceSize,    \* Torrent::GetPieceSize(piece), CommonSize but for the last
          CommonSize,   \* Torrent::GetCommonPieceSize()
          BlockSize,    \* Torrent::GetCommonBlockSize()
          CacheLimit,   \* read_cache_limit_
          Window,       \* kSpeedQueueMaxSize, 10 in the code
          SpeedLimit,   \* upload_speed_limit_
          Width,        \* the counters hold 0 .. Width - 1, 2^64 in the code
          MaxRequests,  \* bound: requests received
          MaxControl    \* bound: messages without an answer in the send queue

ASSUME UploadAssumption ==
  /\ CacheLimit \in Nat \ {0}
  /\ Window \in Nat \ {0, 1}
  /\ SpeedLimit \in Nat \ {0}
  /\ Width \in Nat \ {0}
  /\ CommonSize \in Nat /\ BlockSize \in Nat /\ MaxRequests \in Nat /\ MaxControl \in Nat
  /\ PieceSize \in [Pieces -> 1 .. CommonSize]
  /\ \A r \in Requests : r.piece \in Pieces /\ r.start \in Nat /\ r.length \in Nat \ {0}

VARIABLES
  mode,       \* "opening" before BLOCK; "serving"; "stopped" in DOWNLOAD; "closed"
  received,   \* how many requests were accepted; a request has its number
  requests,   \* peer_request_queue_
  jobs,       \* the read jobs of the disk IO thread
  callbacks,  \* OnReadData, posted to the work thread
  sendQueue,  \* send_buffer_queue_; a message that is no answer has number 0
  ready,      \* is_ready_
  passiveUdp, \* a passive UDP connection, which has no send queue
  tick,       \* where the timer thread is in PeerConnection::OnTick
  trying,     \* trying[t]: where thread t is in TryProcPeerRequest
  window,     \* upload_speed_queue_
  total,      \* total_upload_size_in_queue_
  cache,      \* the pieces of read_cache_set_ in the order of its last-use view
  answered,   \* history: the numbers of the requests whose answers were sent
  interrupted,\* history: uploading was stopped with an answer under way
  aborted     \* the assertion that ended the process

rvars == <<received, requests>>
pipe == <<jobs, callbacks, sendQueue, ready>>
meter == <<window, total>>
uvars == <<mode, rvars, pipe, passiveUdp, tick, trying, meter, cache, answered,
           interrupted, aborted>>

(* The threads that call TryProcPeerRequest: those that hold fsm_mutex_,   *)
(* and the socket thread that holds send_queue_mutex_.                     *)
Callers == {"fsm", "sender"}

Control == [id |-> 0]

Numbers(q) == {q[i].id : i \in DOMAIN q} \ {0}

UnderWay == Numbers(jobs) \cup Numbers(callbacks) \cup Numbers(sendQueue)

Total(w) == LET sum[i \in 0 .. Len(w)] == IF i = 0 THEN 0 ELSE sum[i - 1] + w[i]
            IN  sum[Len(w)]

FsmFree == trying["fsm"] = "idle"
SendFree == trying["sender"] = "idle"

UploadInit ==
  /\ mode = "opening"
  /\ received = 0
  /\ requests = << >>
  /\ jobs = << >>
  /\ callbacks = << >>
  /\ sendQueue = << >>
  /\ ready = TRUE
  /\ passiveUdp \in BOOLEAN
  /\ tick = "idle"
  /\ trying = [t \in Callers |-> "idle"]
  /\ window = <<0>>
  /\ total = 0
  /\ cache = << >>
  /\ answered = << >>
  /\ interrupted = FALSE
  /\ aborted = "no"

-----------------------------------------------------------------------------
(* The speed meter.  The oldest second is subtracted on every tick but     *)
(* leaves the window only when that is full.                               *)
UpdateUploadSpeed ==
  /\ total' = (total + Width - Head(window)) % Width
  /\ window' = Append(IF Len(window) >= Window THEN Tail(window) ELSE window, 0)

CountUpload(n) ==
  /\ total' = (total + n) % Width
  /\ window' = [window EXCEPT ![Len(window)] = @ + n]

(* The limit within the present second is 1.1 times upload_speed_limit_,   *)
(* cut to whole bytes: the same for the small limits used here.            *)
IsUploadSpeedLimited ==
  \/ total \div Len(window) >= SpeedLimit
  \/ Last(window) >= (11 * SpeedLimit) \div 10

-----------------------------------------------------------------------------
(* TryProcPeerRequest: the limit is looked at before the lock is taken.    *)
LookAtLimit(t) ==
  /\ trying[t] = "try"
  /\ trying' = [trying EXCEPT ![t] = IF IsUploadSpeedLimited THEN "idle" ELSE "lock"]
  /\ UNCHANGED <<mode, rvars, pipe, passiveUdp, tick, meter, cache, answered,
                 interrupted, aborted>>

(* A bug UnderWayIsFront must find: a request that is being processed is   *)
(* processed again.                                                        *)
MutantTryProcPeerRequest(t) ==
  /\ trying[t] = "lock"
  /\ trying' = [trying EXCEPT ![t] = "idle"]
  /\ IF requests # << >>
       THEN /\ jobs' = Append(jobs, [id |-> Head(requests).id, req |-> Head(requests).req])
            /\ requests' = [requests EXCEPT ![1].processing = TRUE]
       ELSE UNCHANGED <<jobs, requests>>
  /\ UNCHANGED <<mode, received, callbacks, sendQueue, ready, passiveUdp, tick,
                 meter, cache, answered, interrupted, aborted>>

TryProcPeerRequest(t) ==
  /\ trying[t] = "lock"
  /\ trying' = [trying EXCEPT ![t] = "idle"]
  /\ IF requests # << >> /\ ~Head(requests).processing
       THEN /\ jobs' = Append(jobs, [id |-> Head(requests).id, req |-> Head(requests).req])
            /\ requests' = [requests EXCEPT ![1].processing = TRUE]
       ELSE UNCHANGED <<jobs, requests>>
  /\ UNCHANGED <<mode, received, callbacks, sendQueue, ready, passiveUdp, tick,
                 meter, cache, answered, interrupted, aborted>>

(* PeerConnection::ReceivedDataRequest: a finished piece, and no byte past *)
(* the size pieces commonly have.  A request past the end of a shorter     *)
(* last piece, or longer than a block, gets through and fails to be read.  *)
ReceivedDataRequest(r) ==
  /\ FsmFree
  /\ mode = "serving"
  /\ received < MaxRequests
  /\ r.start + r.length <= CommonSize
  /\ received' = received + 1
  /\ requests' = Append(requests, [id |-> received', req |-> r, processing |-> FALSE])
  /\ trying' = [trying EXCEPT !["fsm"] = "try"]
  /\ UNCHANGED <<mode, pipe, passiveUdp, tick, meter, cache, answered,
                 interrupted, aborted>>

-----------------------------------------------------------------------------
(* PeerConnection::OnTick on the timer thread: the meter first, then the   *)
(* state machine.                                                          *)
OnTick ==
  /\ tick = "idle"
  /\ mode # "closed"
  /\ tick' = "fsm"
  /\ UpdateUploadSpeed
  /\ UNCHANGED <<mode, rvars, pipe, passiveUdp, trying, cache, answered,
                 interrupted, aborted>>

(* A bug MeterExact must find: the state machine is ticked before the      *)
(* meter, so that the first second of the meter need not be an idle one.   *)
MutantFsmTick ==
  /\ tick = "idle"
  /\ FsmFree
  /\ \/ mode = "opening" /\ mode' \in {"opening", "serving", "stopped"}
     \/ mode # "opening" /\ mode # "closed" /\ UNCHANGED mode
  /\ trying' = IF mode = "serving" THEN [trying EXCEPT !["fsm"] = "try"] ELSE trying
  /\ UNCHANGED <<rvars, pipe, passiveUdp, tick, meter, cache, answered, interrupted,
                 aborted>>

(* The tick takes a connection from METADATA through BLOCK, where it may   *)
(* have a request at once; one that serves tries the next request.         *)
FsmTick ==
  /\ tick = "fsm"
  /\ FsmFree
  /\ tick' = "idle"
  /\ \/ mode = "opening" /\ mode' \in {"opening", "serving", "stopped"}
     \/ mode # "opening" /\ UNCHANGED mode
  /\ trying' = IF mode = "serving" THEN [trying EXCEPT !["fsm"] = "try"] ELSE trying
  /\ UNCHANGED <<rvars, pipe, passiveUdp, meter, cache, answered, interrupted,
                 aborted>>

(* The messages of the peer that start the upload, and what ends it:       *)
(* StopUpload on entering DOWNLOAD or CLOSE, whatever is under way.        *)
Interest ==
  /\ FsmFree
  /\ mode = "stopped"
  /\ mode' = "serving"
  /\ UNCHANGED <<rvars, pipe, passiveUdp, tick, trying, meter, cache, answered,
                 interrupted, aborted>>

StopUpload(m) ==
  /\ FsmFree
  /\ mode # "closed"
  /\ m = "stopped" => mode = "serving"
  /\ mode' = m
  /\ requests' = << >>
  /\ interrupted' = (interrupted \/ UnderWay # {})
  /\ UNCHANGED <<received, pipe, passiveUdp, tick, trying, meter, cache, answered,
                 aborted>>

-----------------------------------------------------------------------------
(* The disk IO thread.  ReadData refuses a read past the end of the piece  *)
(* or longer than a block.                                                 *)
CanRead(r) == r.start + r.length <= PieceSize[r.piece] /\ r.length <= BlockSize

(* A bug CacheSound must find: one entry too many.                         *)
MutantGetReadCacheEntry(p) ==
  IF Contains(cache, p)
    THEN UNCHANGED cache
    ELSE cache' = Append(IF Len(cache) > CacheLimit THEN Tail(cache) ELSE cache, p)

(* A hit changes last_use, but not the place in the view that is ordered   *)
(* by it: the entry that makes room for another is the one inserted first. *)
GetReadCacheEntry(p) ==
  IF Contains(cache, p)
    THEN UNCHANGED cache
    ELSE cache' = Append(IF Len(cache) = CacheLimit THEN Tail(cache) ELSE cache, p)

(* A read that is refused or succeeds is posted to the work thread.  One   *)
(* that fails on the file leaves its entry in the cache and ends the       *)
(* process, BC_ASSERT(piece_entry).                                        *)
ReadData ==
  /\ jobs # << >>
  /\ jobs' = Tail(jobs)
  /\ LET r == Head(jobs).req IN
       \/ /\ ~CanRead(r)
          /\ callbacks' = Append(callbacks, [id |-> Head(jobs).id, req |-> r, ok |-> FALSE])
          /\ UNCHANGED <<cache, aborted>>
       \/ /\ CanRead(r)
          /\ GetReadCacheEntry(r.piece)
          /\ callbacks' = Append(callbacks, [id |-> Head(jobs).id, req |-> r, ok |-> TRUE])
          /\ UNCHANGED aborted
       \/ /\ CanRead(r)
          /\ ~Contains(cache, r.piece)
          /\ GetReadCacheEntry(r.piece)
          /\ aborted' = "read"
          /\ UNCHANGED callbacks
  /\ UNCHANGED <<mode, rvars, sendQueue, ready, passiveUdp, tick, trying, meter,
                 answered, interrupted>>

(* SocketConnection::SendData: the message waits if another is being sent. *)
SendData(m) ==
  /\ SendFree
  /\ sendQueue' = Append(sendQueue, m)
  /\ ready' = FALSE

(* PeerConnection::OnReadData on the work thread: nothing is sent for a    *)
(* read that was refused.                                                  *)
OnReadData ==
  /\ callbacks # << >>
  /\ callbacks' = Tail(callbacks)
  /\ IF Head(callbacks).ok
       THEN SendData([id |-> Head(callbacks).id, req |-> Head(callbacks).req])
       ELSE UNCHANGED <<sendQueue, ready>>
  /\ UNCHANGED <<mode, rvars, jobs, passiveUdp, tick, trying, meter, cache,
                 answered, interrupted, aborted>>

(* Any other message to the peer.                                          *)
SendControl ==
  /\ Cardinality({i \in DOMAIN sendQueue : sendQueue[i].id = 0}) < MaxControl
  /\ mode # "closed"
  /\ SendData(Control)
  /\ UNCHANGED <<mode, rvars, jobs, callbacks, passiveUdp, tick, trying, meter,
                 cache, answered, interrupted, aborted>>

-----------------------------------------------------------------------------
(* SocketConnection::OnSend: a message has been sent or could not be, and  *)
(* leaves the queue when its handler has returned.  The handler of an      *)
(* answer is TrafficController::OnSendDataResponse, which asserts that the *)
(* answer is the one to the request in front, and tries the next request.  *)
PopRequest(r) ==
  \/ /\ requests = << >>
     /\ UNCHANGED <<requests, meter, trying, aborted>>
  \/ /\ requests # << >>
     /\ Head(requests).req = r
     /\ requests' = Tail(requests)
     /\ CountUpload(r.length)
     /\ trying' = [trying EXCEPT !["sender"] = "try"]
     /\ UNCHANGED aborted
  \/ /\ requests # << >>
     /\ Head(requests).req # r
     /\ aborted' = "front"
     /\ UNCHANGED <<requests, meter, trying>>

Sending == ~ready /\ SendFree

(* A bug RequestsLeave must find: the handler is not told of a failure.    *)
MutantOnSend(ok) ==
  /\ Sending
  /\ LET m == Head(sendQueue) IN
       /\ answered' = IF ok /\ m.id # 0 THEN Append(answered, m.id) ELSE answered
       /\ sendQueue' = Tail(sendQueue)
       /\ ready' = (Tail(sendQueue) = << >>)
       /\ IF ok /\ m.id # 0 /\ ~passiveUdp
            THEN PopRequest(m.req)
            ELSE UNCHANGED <<requests, meter, trying, aborted>>
  /\ UNCHANGED <<mode, received, jobs, callbacks, passiveUdp, tick, cache,
                 interrupted>>

OnSend(ok) ==
  /\ Sending
  /\ LET m == Head(sendQueue) IN
       /\ answered' = IF ok /\ m.id # 0 THEN Append(answered, m.id) ELSE answered
       /\ sendQueue' = Tail(sendQueue)
       /\ ready' = (Tail(sendQueue) = << >>)
       /\ IF m.id # 0 /\ ~passiveUdp
            THEN PopRequest(m.req)
            ELSE UNCHANGED <<requests, meter, trying, aborted>>
  /\ UNCHANGED <<mode, received, jobs, callbacks, passiveUdp, tick, cache,
                 interrupted>>

UploadNext ==
  /\ aborted = "no"
  /\ \/ OnTick
     \/ FsmTick
     \/ Interest
     \/ StopUpload("stopped")
     \/ StopUpload("closed")
     \/ ReadData
     \/ OnReadData
     \/ SendControl
     \/ \E ok \in BOOLEAN : OnSend(ok)
     \/ \E r \in Requests : ReceivedDataRequest(r)
     \/ \E t \in Callers : LookAtLimit(t) \/ TryProcPeerRequest(t)

UploadSpec == UploadInit /\ [][UploadNext]_uvars

(* The threads go on; nothing is assumed of the peer.  A message that is   *)
(* being sent is sent or fails.                                            *)
FairUploadSpec ==
  /\ UploadSpec
  /\ WF_uvars(aborted = "no" /\ OnTick)
  /\ WF_uvars(aborted = "no" /\ FsmTick)
  /\ WF_uvars(aborted = "no" /\ ReadData)
  /\ WF_uvars(aborted = "no" /\ OnReadData)
  /\ WF_uvars(aborted = "no" /\ \E ok \in BOOLEAN : OnSend(ok))
  /\ \A t \in Callers :
       WF_uvars(aborted = "no" /\ (LookAtLimit(t) \/ TryProcPeerRequest(t)))

-----------------------------------------------------------------------------
Asked == [id : 1 .. MaxRequests, req : Requests]

(* The queues hold requests of the peer, and the counters fit their width. *)
UploadTypeOK ==
  /\ mode \in {"opening", "serving", "stopped", "closed"}
  /\ received \in 0 .. MaxRequests
  /\ requests \in Seq([id : 1 .. MaxRequests, req : Requests, processing : BOOLEAN])
  /\ jobs \in Seq(Asked)
  /\ callbacks \in Seq([id : 1 .. MaxRequests, req : Requests, ok : BOOLEAN])
  /\ sendQueue \in Seq(Asked \cup {Control})
  /\ ready \in BOOLEAN
  /\ passiveUdp \in BOOLEAN
  /\ tick \in {"idle", "fsm"}
  /\ trying \in [Callers -> {"idle", "try", "lock"}]
  /\ window \in Seq(Nat) /\ Len(window) \in 1 .. Window
  /\ total \in 0 .. Width - 1
  /\ cache \in Seq(Pieces)
  /\ answered \in Seq(1 .. MaxRequests)
  /\ interrupted \in BOOLEAN
  /\ aborted \in {"no", "read", "front"}

(* The answers of a connection go out in the order of its requests and     *)
(* none twice, also when uploading is stopped while an answer is read or   *)
(* sent and starts again with new requests.                                *)
InOrder == \A i, j \in DOMAIN answered : i < j => answered[i] < answered[j]

(* BC_ASSERT(pending_request.request == request): while uploading has not  *)
(* been stopped in the middle of an answer, one answer at most is under    *)
(* way, it is the one to the front request, which is marked as being       *)
(* processed, and so the assertion holds.                                  *)
UnderWayIsFront ==
  ~interrupted =>
    /\ aborted # "front"
    /\ Cardinality(UnderWay) <= 1
    /\ Len(jobs) + Len(callbacks) <= 1
    /\ \A id \in UnderWay :
         requests # << >> /\ Head(requests).id = id /\ Head(requests).processing

(* The peer gets one answer at a time, in the order it asked.              *)
AnsweredInOrder == InOrder /\ UnderWayIsFront

(* BC_ASSERT(read_cache_set_.size() <= read_cache_limit_), also when the   *)
(* read that is to fill an entry fails, and a piece has one entry.         *)
CacheSound == Len(cache) <= CacheLimit /\ IsInjective(cache)

(* The queues, the meter and the read cache are within their limits.       *)
UploadConsistent == UploadTypeOK /\ CacheSound

(* total_upload_size_in_queue_ is the sum of the window, although the      *)
(* oldest second is subtracted before it leaves: the first tick comes      *)
(* before the state machine lets the connection upload, so that until the  *)
(* window is full its oldest second is an idle one.                        *)
MeterExact == total = Total(window) % Width

(* A request that was accepted leaves the queue, answered, failed to be    *)
(* sent or dropped: the limit lifts, and a request that finds another one  *)
(* being processed is taken up when that is done.  Not so after a read     *)
(* that was refused, which stops the uploads of the connection for good,   *)
(* on a passive UDP connection, which does not tell of a send, and when    *)
(* the process ends.                                                       *)
RequestsLeave ==
  [](aborted = "no" /\ ~passiveUdp /\ \A i \in DOMAIN callbacks : callbacks[i].ok) =>
    \A id \in 1 .. MaxRequests :
      id \in Numbers(requests) ~> id \notin Numbers(requests)

=============================================================================
