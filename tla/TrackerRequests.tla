---------------------------- MODULE TrackerRequests ----------------------------
(***************************************************************************)
(* How the torrents of an RCS come by peers.  A torrent asks the UGS for   *)
(* its trackers (rcs/src/protocol/bt/bt_torrent.cpp) through the           *)
(* communicator, and the trackers for peers, through the requests of the   *)
(* tracker request manager (frame/tracker_request_manager.cpp,             *)
(* frame/tracker_request.cpp): TCP ones, which know no timeout, and UDP    *)
(* ones (protocol/bt/bt_udp_tracker_request.cpp), which ask twice.         *)
(*                                                                         *)
(* Four kinds of threads meet: the timer of the torrent asks, the main     *)
(* thread brings the replies of the UGS and ticks the requests, the        *)
(* manager's own thread starts one request after the other, and socket     *)
(* threads bring the trackers' answers.  A request lives while the queue,  *)
(* the manager's thread or the table of the manager holds it; what the     *)
(* sockets bring to a request that is gone is dropped.                     *)
(*                                                                         *)
(* Torrents are not destroyed here.                                        *)
(***************************************************************************)
EXTENDS Naturals, Sequences, FiniteSets, SequencesExt

CONSTANTS Torrents,
          Http, Udp,    \* the trackers of the two kinds
          Timeout,      \* TIMEOUT, 15 in the code
          MaxRequests,  \* bound: requests ever made
          MaxAsked      \* bound: how often a torrent asks the UGS

ASSUME TrackerAssumption ==
  /\ Http \cap Udp = {} /\ IsFiniteSet(Http \cup Udp)
  /\ Timeout \in Nat \ {0} /\ MaxRequests \in Nat \ {0} /\ MaxAsked \in Nat

Trackers == Http \cup Udp
Requests == 1 .. MaxRequests
Nobody == 0

VARIABLES
  retrieving,  \* retrieving[t]: retrieving_peer_
  known,       \* known[t]: the trackers in fast_resume_
  awaited,     \* awaited[t]: replies still to come, one or two per question
  asked,       \* asked[t]: how often t has asked the UGS
  lost,        \* history: torrents of whose messages one has been lost
  target,      \* target[r]: tracker_address_, for the requests made
  phase,       \* phase[r]: what the socket of r has brought last
  age,         \* age[r]: alive_time_
  late,        \* late[r]: send_time_ is not zero
  queue,       \* request_queue_
  thread,      \* what ThreadFunc has in its hands, Nobody, and its step
  entered,     \* processing_requests_
  missed,      \* history: entered after the last its socket had to bring
  crashed      \* an iterator that was erased has been used

torrents == <<retrieving, known, awaited, asked, lost>>
sockets == <<target, phase, age, late>>
manager == <<queue, thread, entered, missed>>
rvars == <<torrents, sockets, manager, crashed>>

Idle == [id |-> Nobody, step |-> "pop"]

TrackerInit ==
  /\ retrieving = [t \in Torrents |-> FALSE]
  /\ known \in [Torrents -> SUBSET Trackers]
  /\ awaited = [t \in Torrents |-> {}]
  /\ asked = [t \in Torrents |-> 0]
  /\ lost = {}
  /\ target = << >>
  /\ phase = [r \in Requests |-> "no"]
  /\ age = [r \in Requests |-> 0]
  /\ late = [r \in Requests |-> FALSE]
  /\ queue = << >> /\ thread = Idle /\ entered = << >> /\ missed = {}
  /\ crashed = FALSE

Entered == {entered[k] : k \in DOMAIN entered}

(* Somebody holds a shared pointer to the request. *)
Lives(r) == r \in ToSet(queue) \/ thread.id = r \/ r \in Entered

-----------------------------------------------------------------------------
(* The torrent.                                                            *)

(* One request for every tracker of K, HTTP first. *)
RetrievePeersFromTrackers(t, K) ==
  LET order == SetToSeq(K \cap Http) \o SetToSeq(K \cap Udp)
      first == Len(target) + 1
      last == Len(target) + Len(order) IN
  /\ last <= MaxRequests
  /\ target' = target \o order
  /\ phase' = [r \in Requests |-> IF r \in first .. last THEN "made" ELSE phase[r]]
  /\ queue' = queue \o [i \in 1 .. Len(order) |-> first + i - 1]
  /\ retrieving' = [retrieving EXCEPT ![t] = FALSE]

(* Policy has run out of candidates, the interval is over. *)
RetrivePeers(t) ==
  /\ ~crashed /\ ~retrieving[t]
  /\ IF known[t] \cap Http # {}
       THEN /\ RetrievePeersFromTrackers(t, known[t])
            /\ UNCHANGED <<awaited, asked>>
       ELSE /\ asked[t] < MaxAsked
            /\ retrieving' = [retrieving EXCEPT ![t] = TRUE]
            /\ asked' = [asked EXCEPT ![t] = @ + 1]
            /\ awaited' = [awaited EXCEPT ![t] = @ \cup ({asked'[t]} \X {"http", "udp"})]
            /\ UNCHANGED <<target, phase, queue>>
  /\ UNCHANGED <<known, lost, age, late, thread, entered, missed, crashed>>

(* The question, or its reply, is lost with the connection to the UGS, or  *)
(* there is none.                                                          *)
LoseReply(t) ==
  /\ \E m \in awaited[t] : awaited' = [awaited EXCEPT ![t] = @ \ {m}]
  /\ lost' = lost \cup {t}
  /\ UNCHANGED <<retrieving, known, asked, sockets, manager, crashed>>

(* A bug AsksAgain must find: the torrent does not ask trackers for        *)
(* nothing.                                                                *)
MutantOnReplyTrackerMsg(t) ==
  /\ ~crashed
  /\ \E m \in awaited[t] : \E K \in SUBSET (IF m[2] = "http" THEN Http ELSE Udp) :
       /\ awaited' = [awaited EXCEPT ![t] = @ \ {m}]
       /\ known' = [known EXCEPT ![t] = @ \cup K]
       /\ IF K = {} THEN UNCHANGED <<retrieving, target, phase, queue>>
                    ELSE RetrievePeersFromTrackers(t, known'[t])
  /\ UNCHANGED <<asked, lost, age, late, thread, entered, missed, crashed>>

OnReplyTrackerMsg(t) ==
  /\ ~crashed
  /\ \E m \in awaited[t] : \E K \in SUBSET (IF m[2] = "http" THEN Http ELSE Udp) :
       /\ awaited' = [awaited EXCEPT ![t] = @ \ {m}]
       /\ known' = [known EXCEPT ![t] = @ \cup K]
       /\ RetrievePeersFromTrackers(t, known'[t])
  /\ UNCHANGED <<asked, lost, age, late, thread, entered, missed, crashed>>

-----------------------------------------------------------------------------
(* The thread of the manager.                                              *)
PopRequest ==
  /\ ~crashed /\ thread = Idle /\ queue # << >>
  /\ thread' = [id |-> Head(queue), step |-> "process"]
  /\ queue' = Tail(queue)
  /\ UNCHANGED <<torrents, sockets, entered, missed, crashed>>

(* TCP connects; UDP is connected, and sends its first question.           *)
Process ==
  /\ ~crashed /\ thread.step = "process"
  /\ thread' = [thread EXCEPT !.step = "insert"]
  /\ phase' = [phase EXCEPT ![thread.id] =
                 IF target[thread.id] \in Http THEN "connecting" ELSE "asked"]
  /\ UNCHANGED <<torrents, target, age, late, queue, entered, missed, crashed>>

(* unordered_map::insert replaces nothing: a request for a tracker that is *)
(* being asked is let go of, and goes.                                     *)
InsertRequest ==
  LET r == thread.id
      free == target[r] \notin DOMAIN entered IN
  /\ ~crashed /\ thread.step = "insert"
  /\ thread' = Idle
  /\ entered' = IF free THEN [k \in DOMAIN entered \cup {target[r]} |->
                                IF k = target[r] THEN r ELSE entered[k]]
                        ELSE entered
  /\ missed' = IF free /\ phase[r] = "closed" THEN missed \cup {r} ELSE missed
  /\ UNCHANGED <<torrents, sockets, queue, crashed>>

-----------------------------------------------------------------------------
(* The sockets.  Whoever finishes takes out of the table what is entered   *)
(* for its tracker, be it itself or another.                               *)
Without(K) == [k \in DOMAIN entered \ K |-> entered[k]]

(* A bug DroppedForAnother must find: the first that is found goes.        *)
MutantFinish(r) == \E k \in DOMAIN entered : entered' = Without({k})

Finish(r) == entered' = Without({target[r]})

Reach(r, p) == phase' = [phase EXCEPT ![r] = p]
SocketUnchanged == UNCHANGED <<torrents, target, age, queue, thread, missed, crashed>>
Hears(r, kind) == ~crashed /\ r <= Len(target) /\ target[r] \in kind /\ Lives(r)

(* A connection that fails is also read from, in vain. *)
OnConnect(r) ==
  /\ Hears(r, Http) /\ phase[r] = "connecting"
  /\ \/ Reach(r, "asked") /\ UNCHANGED entered
     \/ Reach(r, "failed") /\ Finish(r)
  /\ UNCHANGED late /\ SocketUnchanged

(* Whatever is read at first is the answer, and what comes later as well. *)
OnReceiveAnswer(r) ==
  /\ Hears(r, Http) /\ phase[r] = "asked"
  /\ Reach(r, "answered") /\ Finish(r)
  /\ UNCHANGED late /\ SocketUnchanged

(* A bug RequestEnds must find: a read that fails is only logged.          *)
MutantOnReceiveError(r) ==
  /\ Hears(r, Http) /\ phase[r] \in {"asked", "failed", "answered"}
  /\ Reach(r, "closed") /\ UNCHANGED entered
  /\ UNCHANGED late /\ SocketUnchanged

OnReceiveError(r) ==
  /\ Hears(r, Http) /\ phase[r] \in {"asked", "failed", "answered"}
  /\ Reach(r, "closed") /\ Finish(r)
  /\ UNCHANGED late /\ SocketUnchanged

(* The state of the request is not looked at, and its transaction number   *)
(* is always the same: datagrams may come twice and after one another.     *)
Datagrams == {"asked", "announced", "answered"}

(* A connect response is followed by the announcement, whose time of       *)
(* sending is kept.                                                        *)
OnReceiveConnect(r) ==
  /\ Hears(r, Udp) /\ phase[r] \in Datagrams
  /\ Reach(r, "announced")
  /\ late' = [late EXCEPT ![r] = age[r] > 0]
  /\ UNCHANGED entered /\ SocketUnchanged

(* The peers, an error, or something that cannot be understood.            *)
OnReceiveDatagram(r) ==
  /\ Hears(r, Udp) /\ phase[r] \in Datagrams
  /\ Reach(r, "answered") /\ Finish(r)
  /\ UNCHANGED late /\ SocketUnchanged

-----------------------------------------------------------------------------
(* A bug TrackerTypeOK must find: only what was sent after the first tick  *)
(* is timed out.                                                           *)
MutantIsTimeout(r) == late[r] /\ age'[r] >= Timeout

(* BtUdpTrackerRequest::IsTimeout: !send_time_ where send_time_ is meant,  *)
(* so that only what was sent before the first tick is timed out.          *)
IsTimeout(r) == ~late[r] /\ age'[r] >= Timeout

(* The tick, in the order of a hash table.  A request that is finished     *)
(* erases the iterator the loop stands on: the loop may end the process,   *)
(* stop, or go on.                                                         *)
TickRequests ==
  LET ticked == {r \in Entered : target[r] \in Udp} IN
  /\ ~crashed /\ Entered # {}
  /\ \E T \in SUBSET ticked :
       /\ age' = [r \in Requests |-> IF r \in T /\ ~(late[r] /\ age[r] >= Timeout)
                                     THEN age[r] + 1 ELSE age[r]]
       /\ LET due == {r \in T : IsTimeout(r)} IN
            /\ T = ticked \/ due # {}
            /\ entered' = Without({target[r] : r \in due})
            /\ phase' = [r \in Requests |-> IF r \in due THEN "timeout" ELSE phase[r]]
            /\ crashed' \in {FALSE, due # {}}
  /\ UNCHANGED <<torrents, target, late, queue, thread, missed>>

-----------------------------------------------------------------------------
TrackerNext ==
  \/ \E t \in Torrents : RetrivePeers(t) \/ LoseReply(t) \/ OnReplyTrackerMsg(t)
  \/ PopRequest \/ Process \/ InsertRequest
  \/ \E r \in Requests :
       \/ OnConnect(r) \/ OnReceiveAnswer(r) \/ OnReceiveError(r)
       \/ OnReceiveConnect(r) \/ OnReceiveDatagram(r)
  \/ TickRequests

TrackerSpec == TrackerInit /\ [][TrackerNext]_rvars

(* The threads go on; a message to or from the UGS arrives or is lost; an  *)
(* attempt to connect ends, and so does a connection to an HTTP tracker    *)
(* (the request says "Connection: Close").  A UDP tracker may be silent.   *)
FairTrackerSpec ==
  /\ TrackerSpec
  /\ WF_rvars(PopRequest) /\ WF_rvars(Process) /\ WF_rvars(InsertRequest) /\ WF_rvars(TickRequests)
  /\ \A r \in Requests : WF_rvars(OnConnect(r)) /\ WF_rvars(OnReceiveError(r))
  /\ \A t \in Torrents : WF_rvars(LoseReply(t) \/ OnReplyTrackerMsg(t))

-----------------------------------------------------------------------------
(* Types; and a request is in one place, under the address of its tracker, *)
(* and not there any more once its time has run out.                       *)
TrackerTypeOK ==
  /\ retrieving \in [Torrents -> BOOLEAN]
  /\ known \in [Torrents -> SUBSET Trackers]
  /\ target \in Seq(Trackers) /\ Len(target) <= MaxRequests
  /\ age \in [Requests -> 0 .. Timeout] /\ late \in [Requests -> BOOLEAN]
  /\ queue \in Seq(1 .. Len(target)) /\ IsInjective(queue)
  /\ thread.id \notin ToSet(queue) \cup Entered
  /\ Entered \cap ToSet(queue) = {}
  /\ \A k \in DOMAIN entered : target[entered[k]] = k
  /\ \A k \in DOMAIN entered : age[entered[k]] = Timeout => late[entered[k]]

(* A request that has not been answered, has not failed and has not timed  *)
(* out goes only because another one asks the same tracker at the time.    *)
DroppedForAnother ==
  [][\A r \in Requests :
       (Lives(r) /\ ~Lives(r)' /\ phase'[r] \in {"connecting", "asked", "announced"}) =>
         \E q \in Requests \ {r} : Lives(q) /\ target[q] = target[r]]_rvars

(* A torrent that waits for its trackers asks again later, unless one of   *)
(* its messages to or from the UGS was lost.                               *)
AsksAgain ==
  \A t \in Torrents : retrieving[t] ~> (~retrieving[t] \/ t \in lost \/ crashed)

(* A request ends and frees its tracker for those to come, but for two     *)
(* cases: all that its TCP connection had to say came before it was        *)
(* entered; or a UDP tracker answers the first question after a tick and   *)
(* the second never.                                                       *)
RequestEnds ==
  \A r \in Requests :
    Lives(r) ~> (~Lives(r) \/ r \in missed \/ (phase[r] = "announced" /\ late[r]) \/ crashed)

=============================================================================
