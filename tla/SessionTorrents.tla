---------------------------- MODULE SessionTorrents ----------------------------
(***************************************************************************)
(* Session (rcs/src/frame/session.cpp) and the lives of its torrents and   *)
(* passive connections: a connection is accepted, obtains its info hash    *)
(* and is handed to the torrent of that hash, which it may have to create; *)
(* the timer ticks torrents and erases those that are idle; a torrent is   *)
(* destroyed by whoever lets go of it last, with its files if it is a      *)
(* proxy.  There is one info hash.                                         *)
(*                                                                         *)
(* Locks: Session::peer_conn_mutex_, Session::torrent_mutex_, the          *)
(* peer_conn_mutex_ of the Policy of each torrent, the fsm_mutex_ of each  *)
(* connection.  A lock that is taken and given back within one step is not *)
(* in the state; the step waits for it to be free.                         *)
(***************************************************************************)
EXTENDS Naturals, FiniteSets

CONSTANTS Conns,     \* passive connections, each from its own address
          Torrents,  \* torrent objects that may be created
          MaxIdle,   \* max_alive_time_without_conn_
          None

ASSUME SessionAssumption ==
  /\ IsFiniteSet(Conns) /\ IsFiniteSet(Torrents)
  /\ MaxIdle \in Nat \ {0}
  /\ None \notin Conns \cup Torrents

VARIABLES
  accept,     \* accept[c]: where the thread in OnNewConnection(c) is
  fsm,        \* fsm[c]: the state machine, as far as it matters
  early,      \* history: c's handshake came before its machine was started
  handle,     \* handle[c]: where the socket thread in c's handshake is
  found,      \* found[c]: the torrent that thread holds
  pending,    \* Session's peer_conn_map_
  torrentOf,  \* torrentOf[c]: torrent_, a weak pointer
  life,       \* life[t]: in Session's torrents_, before or after
  managed,    \* managed[t]: peer_conn_map_ of its Policy
  blocked,    \* blocked_for_proxy_
  ready,      \* ready[t]: no, or what its info was retrieved from
  job,        \* job[t]: a disk job holds t
  proxy,      \* is_proxy_
  proxyConn,  \* the connections of type PEER_CONN_PROXY
  setting,    \* setting[c]: inside SetProxy, past the test of is_ready_
  idle,       \* alive_time_without_conn_
  due,        \* torrents whose timer has expired, the handler being queued
  timer,      \* where the timer thread is
  files,      \* a fast-resume and data of this hash are on disk
  outlived,   \* history: torrents held by somebody when they were erased
  raced,      \* history: SetProxy met SetTorrentInfo
  lost,       \* history: connections whose NewTorrent came second
  crashed     \* the assertion or undefined behaviour that ended it all

conns == <<accept, fsm, early, handle, found, pending, torrentOf>>
torr == <<life, managed, blocked, ready, job, proxy, proxyConn, setting, idle>>
time == <<due, timer>>
hist == <<outlived, raced, lost>>
svars == <<conns, torr, time, files, hist, crashed>>

AtRest == [step |-> "rest"]

SessionInit ==
  /\ accept = [c \in Conns |-> "no"]
  /\ fsm = [c \in Conns |-> "init"]
  /\ early = {}
  /\ handle = [c \in Conns |-> "no"]
  /\ found = [c \in Conns |-> None]
  /\ pending = {}
  /\ torrentOf = [c \in Conns |-> None]
  /\ life = [t \in Torrents |-> "none"]
  /\ managed = [t \in Torrents |-> {}]
  /\ blocked = {}
  /\ ready = [t \in Torrents |-> "no"]
  /\ job = [t \in Torrents |-> FALSE]
  /\ proxy = {} /\ proxyConn = {} /\ setting = {}
  /\ idle = [t \in Torrents |-> 0]
  /\ due = {}
  /\ timer = AtRest
  /\ files \in BOOLEAN
  /\ outlived = {} /\ raced = {} /\ lost = {}
  /\ crashed = "no"

Alive == crashed = "no"

-----------------------------------------------------------------------------
(* Who holds which lock.                                                   *)
Accepting(c) == accept[c] \in {"connected", "ready"}
SessionConnsFree == \A c \in Conns : ~Accepting(c)
TorrentsFree == timer.step # "inactive"
PolicyFree(t) == ~(timer.step = "conns" /\ timer.torrent = t)
FsmFree(c) == handle[c] = "no"

InMap(t) == life[t] = "live"

(* What keeps a torrent alive besides the map: a disk job, or a thread     *)
(* that has locked its weak pointer.                                       *)
Held(t) ==
  job[t] \/ (\E c \in Conns : found[c] = t) \/ \E c \in setting : torrentOf[c] = t

Exists(t) == InMap(t) \/ Held(t)

(* A bug SessionConsistent must find: a dropped connection stays open.     *)
MutantDropped(C) == [c \in Conns |-> IF c \in C \cap proxyConn THEN "closed" ELSE fsm[c]]

(* The machines when nobody holds the connections C any more: they are     *)
(* destroyed, except for one whose handler is running.                     *)
Dropped(C) == [c \in Conns |-> IF c \in C /\ FsmFree(c) THEN "closed" ELSE fsm[c]]

-----------------------------------------------------------------------------
(* OnNewConnection, under Session::peer_conn_mutex_: the connection is     *)
(* entered and starts to receive; then it gets its handlers; then its      *)
(* machine is started, which asserts that it is in the state INIT.         *)
AcceptConnection(c) ==
  /\ Alive /\ accept[c] = "no" /\ SessionConnsFree
  /\ accept' = [accept EXCEPT ![c] = "connected"]
  /\ pending' = pending \cup {c}
  /\ UNCHANGED <<fsm, early, handle, found, torrentOf, torr, time, files, hist, crashed>>

InitConnection(c) ==
  /\ Alive /\ accept[c] = "connected"
  /\ accept' = [accept EXCEPT ![c] = "ready"]
  /\ UNCHANGED <<fsm, early, handle, found, pending, torrentOf, torr, time, files, hist, crashed>>

StartConnection(c) ==
  /\ Alive /\ accept[c] = "ready" /\ FsmFree(c)
  /\ accept' = [accept EXCEPT ![c] = "done"]
  /\ IF fsm[c] = "init"
       THEN fsm' = [fsm EXCEPT ![c] = "handshake"] /\ UNCHANGED crashed
       ELSE crashed' = "start" /\ UNCHANGED fsm
  /\ UNCHANGED <<early, handle, found, pending, torrentOf, torr, time, files, hist>>

-----------------------------------------------------------------------------
(* A bug NoCircularWait must find: what comes before the start is handled. *)
MutantReceiveTooEarly(c) ==
  /\ Alive /\ accept[c] = "ready" /\ handle[c] = "no" /\ fsm[c] = "init"
  /\ fsm' = [fsm EXCEPT ![c] = "handshake"]
  /\ handle' = [handle EXCEPT ![c] = "find"]
  /\ UNCHANGED <<accept, early, found, pending, torrentOf, torr, time, files, hist, crashed>>

(* The peer's handshake.  Without a handler it is dropped, and the state   *)
(* INIT goes on to HANDSHAKE whatever comes, without looking at it.        *)
ReceiveTooEarly(c) ==
  /\ Alive /\ c \notin early
  /\ \/ accept[c] = "connected" /\ UNCHANGED fsm
     \/ accept[c] = "ready" /\ fsm[c] = "init" /\ fsm' = [fsm EXCEPT ![c] = "handshake"]
  /\ early' = early \cup {c}
  /\ UNCHANGED <<accept, handle, found, pending, torrentOf, torr, time, files, hist, crashed>>

(* OnHandshakeMsg, under fsm_mutex_, up to the end of AttachToTorrent.     *)
ReceiveHandshake(c) ==
  /\ Alive /\ c \notin early
  /\ fsm[c] = "handshake" /\ accept[c] = "done" /\ FsmFree(c)
  /\ handle' = [handle EXCEPT ![c] = "find"]
  /\ UNCHANGED <<accept, fsm, early, found, pending, torrentOf, torr, time, files, hist, crashed>>

FindTorrent(c) ==
  /\ Alive /\ handle[c] = "find" /\ TorrentsFree
  /\ \/ \E t \in Torrents :
          /\ InMap(t)
          /\ found' = [found EXCEPT ![c] = t]
          /\ handle' = [handle EXCEPT ![c] = "add"]
     \/ /\ \A t \in Torrents : ~InMap(t)
        /\ handle' = [handle EXCEPT ![c] = "new"]
        /\ UNCHANGED found
  /\ UNCHANGED <<accept, fsm, early, pending, torrentOf, torr, time, files, hist, crashed>>

(* NewTorrent: the torrent is made, and reads its files, ...               *)
NewTorrent(c, t) ==
  /\ Alive /\ handle[c] = "new" /\ life[t] = "none"
  /\ life' = [life EXCEPT ![t] = "made"]
  /\ job' = [job EXCEPT ![t] = TRUE]
  /\ found' = [found EXCEPT ![c] = t]
  /\ handle' = [handle EXCEPT ![c] = "insert"]
  /\ UNCHANGED <<accept, fsm, early, pending, torrentOf, managed, blocked, ready, proxy,
                 proxyConn, setting, idle, time, files, hist, crashed>>

(* The insertion into torrents_ finds no torrent of the hash.              *)
HashIsFree == \A t \in Torrents : ~InMap(t)

(* ... before it is entered; who comes second attaches to nothing, and     *)
(* completes the handshake all the same.                                   *)
InsertTorrent(c) ==
  /\ Alive /\ handle[c] = "insert" /\ TorrentsFree
  /\ IF HashIsFree
       THEN /\ life' = [life EXCEPT ![found[c]] = "live"]
            /\ handle' = [handle EXCEPT ![c] = "add"]
            /\ UNCHANGED <<found, fsm, lost>>
       ELSE /\ life' = [life EXCEPT ![found[c]] = "erased"]
            /\ found' = [found EXCEPT ![c] = None]
            /\ handle' = [handle EXCEPT ![c] = "no"]
            /\ fsm' = [fsm EXCEPT ![c] = "shaken"]
            /\ lost' = lost \cup {c}
  /\ UNCHANGED <<accept, early, pending, torrentOf, managed, blocked, ready, job, proxy,
                 proxyConn, setting, idle, time, files, outlived, raced, crashed>>

IncommingPeerConnecton(c) ==
  /\ Alive /\ handle[c] = "add" /\ PolicyFree(found[c])
  /\ managed' = IF found[c] \in blocked THEN managed
                                        ELSE [managed EXCEPT ![found[c]] = @ \cup {c}]
  /\ handle' = [handle EXCEPT ![c] = "remove"]
  /\ UNCHANGED <<accept, fsm, early, found, pending, torrentOf, life, blocked, ready, job,
                 proxy, proxyConn, setting, idle, time, files, hist, crashed>>

RemovePeerConnection(c) ==
  /\ Alive /\ handle[c] = "remove" /\ SessionConnsFree
  /\ pending' = pending \ {c}
  /\ handle' = [handle EXCEPT ![c] = "attach"]
  /\ UNCHANGED <<accept, fsm, early, found, torrentOf, torr, time, files, hist, crashed>>

(* A connection the torrent did not take is destroyed with its handler.    *)
AttachTorrent(c) ==
  /\ Alive /\ handle[c] = "attach"
  /\ torrentOf' = [torrentOf EXCEPT ![c] = found[c]]
  /\ found' = [found EXCEPT ![c] = None]
  /\ handle' = [handle EXCEPT ![c] = "no"]
  /\ fsm' = [fsm EXCEPT ![c] = IF c \in managed[found[c]] THEN "shaken" ELSE "closed"]
  /\ UNCHANGED <<accept, early, pending, torr, time, files, hist, crashed>>

(* The connection breaks.                                                  *)
CloseConnection(c) ==
  /\ Alive /\ accept[c] = "done" /\ FsmFree(c) /\ fsm[c] \in {"handshake", "shaken"}
  /\ fsm' = [fsm EXCEPT ![c] = "closed"]
  /\ UNCHANGED <<accept, early, handle, found, pending, torrentOf, torr, time, files, hist, crashed>>

-----------------------------------------------------------------------------
(* OnAssignPieceMsg, the first of a connection: it becomes a proxy's, and  *)
(* if it is the only passive one the torrent becomes a proxy.  SetProxy    *)
(* asserts that it is none yet, and sets the flag after it has looked at   *)
(* is_ready_.                                                              *)
OnAssignPieceMsg(c) ==
  LET t == torrentOf[c] IN
    /\ Alive /\ fsm[c] = "shaken" /\ t # None /\ c \notin proxyConn
    /\ Exists(t) /\ PolicyFree(t)
    /\ proxyConn' = proxyConn \cup {c}
    /\ IF managed[t] # {c}
         THEN UNCHANGED <<proxy, setting, crashed>>
         ELSE IF t \in proxy
         THEN crashed' = "proxy" /\ UNCHANGED <<proxy, setting>>
         ELSE /\ setting' = IF ready[t] = "no" THEN setting \cup {c} ELSE setting
              /\ proxy' = IF ready[t] = "metadata" THEN proxy \cup {t} ELSE proxy
              /\ UNCHANGED crashed
    /\ UNCHANGED <<conns, life, managed, blocked, ready, job, idle, time, files, hist>>

SetProxy(c) ==
  /\ Alive /\ c \in setting
  /\ setting' = setting \ {c}
  /\ proxy' = proxy \cup {torrentOf[c]}
  /\ raced' = IF ready[torrentOf[c]] # "no" THEN raced \cup {torrentOf[c]} ELSE raced
  /\ UNCHANGED <<conns, life, managed, blocked, ready, job, proxyConn, idle, time, files,
                 outlived, lost, crashed>>

(* A bug CachedIsKept must find: the flag is not looked at again.          *)
MutantSetTorrentInfo(t) ==
  /\ Alive /\ job[t] /\ ready[t] = "no"
  /\ ready' = [ready EXCEPT ![t] = IF files THEN "resume" ELSE "metadata"]
  /\ files' = TRUE
  /\ UNCHANGED <<conns, life, managed, blocked, job, proxy, proxyConn, setting, idle, time,
                 hist, crashed>>

(* SetTorrentInfo, from the files if they are there; else the metadata is  *)
(* retrieved, and files are made.                                          *)
SetTorrentInfo(t) ==
  /\ Alive /\ job[t] /\ ready[t] = "no"
  /\ ready' = [ready EXCEPT ![t] = IF files THEN "resume" ELSE "metadata"]
  /\ proxy' = IF files THEN proxy \ {t} ELSE proxy
  /\ files' = TRUE
  /\ UNCHANGED <<conns, life, managed, blocked, job, proxyConn, setting, idle, time,
                 hist, crashed>>

(* Disk jobs come and go.                                                  *)
BeginJob(t) ==
  /\ Alive /\ InMap(t) /\ ~job[t] /\ ready[t] # "no"
  /\ job' = [job EXCEPT ![t] = TRUE]
  /\ UNCHANGED <<conns, life, managed, blocked, ready, proxy, proxyConn, setting, idle,
                 time, files, hist, crashed>>

EndJob(t) ==
  /\ Alive /\ job[t] /\ ready[t] # "no"
  /\ job' = [job EXCEPT ![t] = FALSE]
  /\ UNCHANGED <<conns, life, managed, blocked, ready, proxy, proxyConn, setting, idle,
                 time, files, hist, crashed>>

-----------------------------------------------------------------------------
(* The timer thread.  The handler of a timer is bound to the object.       *)
Expire(t) ==
  /\ Alive /\ life[t] \in {"made", "live", "erased"} /\ t \notin due
  /\ PolicyFree(t)
  /\ due' = due \cup {t}
  /\ UNCHANGED <<conns, torr, timer, files, hist, crashed>>

(* Torrent::OnTick: Policy clears what is closed, under its lock, and      *)
(* shuts a proxy that has lost its proxies, ...                            *)
BeginTorrentTick(t) ==
  /\ Alive /\ timer = AtRest /\ t \in due
  /\ due' = due \ {t}
  /\ IF life[t] = "dead"
       THEN crashed' = "tick" /\ UNCHANGED <<fsm, managed, blocked, timer>>
       ELSE LET open == {c \in managed[t] : fsm[c] # "closed"}
                shut == open # managed[t] /\ t \in proxy /\ open \cap proxyConn = {} IN
              /\ managed' = [managed EXCEPT ![t] = IF shut THEN {} ELSE open]
              /\ blocked' = IF shut THEN blocked \cup {t} ELSE blocked
              /\ fsm' = Dropped(IF shut THEN managed[t] ELSE {})
              /\ timer' = [step |-> "conns", torrent |-> t, left |-> managed'[t]]
              /\ UNCHANGED crashed
  /\ UNCHANGED <<accept, early, handle, found, pending, torrentOf, life, ready, job, proxy, proxyConn, setting, idle, files, hist>>

(* ... ticks the others under the same lock, each with its fsm_mutex_, ... *)
TickConnection(c) ==
  /\ Alive /\ timer.step = "conns" /\ c \in timer.left /\ FsmFree(c)
  /\ timer' = [timer EXCEPT !.left = @ \ {c}]
  /\ UNCHANGED <<conns, torr, due, files, hist, crashed>>

(* ... and counts the time without any.                                    *)
EndTorrentTick ==
  /\ Alive /\ timer.step = "conns" /\ timer.left = {}
  /\ LET t == timer.torrent IN
       idle' = [idle EXCEPT ![t] = IF managed[t] # {} THEN 0
                                   ELSE IF @ < MaxIdle THEN @ + 1 ELSE @]
  /\ timer' = AtRest
  /\ UNCHANGED <<conns, life, managed, blocked, ready, job, proxy, proxyConn, setting,
                 due, files, hist, crashed>>

(* ClearInactiveTorrents, under torrent_mutex_ and, for the question, the  *)
(* lock of each Policy.                                                    *)
BeginClearInactive ==
  /\ Alive /\ timer = AtRest
  /\ timer' = [step |-> "inactive"]
  /\ UNCHANGED <<conns, torr, due, files, hist, crashed>>

IsInactive(t) == (t \in proxy /\ managed[t] \cap proxyConn = {}) \/ idle[t] >= MaxIdle

(* ~Torrent for all of D: their connections go, and the files if one is a  *)
(* proxy; who is in the map meanwhile does not matter.                     *)
Destroy(D) ==
  /\ files' = (files /\ D \cap proxy = {})
  /\ fsm' = Dropped(UNION {managed[t] : t \in D})
  /\ managed' = [t \in Torrents |-> IF t \in D THEN {} ELSE managed[t]]

(* Erasing a torrent that nobody else holds destroys it on the spot.       *)
ClearInactiveTorrents ==
  /\ Alive /\ timer.step = "inactive"
  /\ timer' = AtRest
  /\ LET gone == {t \in Torrents : InMap(t) /\ IsInactive(t)}
         kept == {t \in gone : Held(t)} IN
       /\ life' = [t \in Torrents |-> IF t \in kept THEN "erased"
                                     ELSE IF t \in gone THEN "dead" ELSE life[t]]
       /\ outlived' = outlived \cup kept
       /\ Destroy(gone \ kept)
  /\ UNCHANGED <<accept, early, handle, found, pending, torrentOf, blocked, ready, job, proxy,
                 proxyConn, setting, idle, due, raced, lost, crashed>>

(* Whoever lets go of an erased torrent last destroys it; the timer may be *)
(* inside it.                                                              *)
DestroyTorrent(t) ==
  /\ Alive /\ life[t] = "erased" /\ ~Held(t)
  /\ life' = [life EXCEPT ![t] = "dead"]
  /\ Destroy({t})
  /\ crashed' = IF timer.step = "conns" /\ timer.torrent = t THEN "tick" ELSE "no"
  /\ UNCHANGED <<accept, early, handle, found, pending, torrentOf, blocked, ready, job,
                 proxy, proxyConn, setting, idle, time, hist>>

SessionNext ==
  \/ \E c \in Conns :
       \/ AcceptConnection(c) \/ InitConnection(c) \/ StartConnection(c)
       \/ ReceiveTooEarly(c) \/ ReceiveHandshake(c)
       \/ FindTorrent(c) \/ InsertTorrent(c)
       \/ IncommingPeerConnecton(c) \/ RemovePeerConnection(c) \/ AttachTorrent(c)
       \/ CloseConnection(c)
       \/ OnAssignPieceMsg(c) \/ SetProxy(c)
       \/ TickConnection(c)
       \/ \E t \in Torrents : NewTorrent(c, t)
  \/ \E t \in Torrents :
       \/ SetTorrentInfo(t) \/ BeginJob(t) \/ EndJob(t)
       \/ Expire(t) \/ BeginTorrentTick(t)
       \/ DestroyTorrent(t)
  \/ EndTorrentTick
  \/ BeginClearInactive \/ ClearInactiveTorrents

SessionSpec == SessionInit /\ [][SessionNext]_svars

-----------------------------------------------------------------------------
(* Types; and one torrent at most is in the map, a connection that has a   *)
(* torrent is out of the session's hands, and only what nothing refers to  *)
(* is dead.                                                                *)
SessionTypeOK ==
  /\ accept \in [Conns -> {"no", "connected", "ready", "done"}]
  /\ fsm \in [Conns -> {"init", "handshake", "shaken", "closed"}]
  /\ handle \in [Conns -> {"no", "find", "new", "insert", "add", "remove", "attach"}]
  /\ found \in [Conns -> Torrents \cup {None}]
  /\ torrentOf \in [Conns -> Torrents \cup {None}]
  /\ life \in [Torrents -> {"none", "made", "live", "erased", "dead"}]
  /\ managed \in [Torrents -> SUBSET Conns]
  /\ ready \in [Torrents -> {"no", "metadata", "resume"}]
  /\ idle \in [Torrents -> 0 .. MaxIdle]
  /\ timer.step \in {"rest", "conns", "inactive"}
  /\ crashed \in {"no", "start", "proxy", "tick"}
  /\ \A t, u \in Torrents : InMap(t) /\ InMap(u) => t = u
  /\ \A c \in Conns : torrentOf[c] # None => c \notin pending
  /\ \A t \in Torrents : life[t] = "dead" => ~Held(t)

(* Who waits for a lock that somebody else holds.                          *)
Waits ==
  {<<<<"accept", c>>, <<"handle", c>>>> : c \in {d \in Conns : accept[d] = "ready" /\ ~FsmFree(d)}}
  \cup {<<<<"handle", c>>, <<"timer", None>>>> : c \in {d \in Conns :
          \/ handle[d] \in {"find", "insert"} /\ ~TorrentsFree
          \/ handle[d] = "add" /\ ~PolicyFree(found[d])}}
  \cup {<<<<"handle", c>>, <<"accept", d>>>> : c \in {e \in Conns : handle[e] = "remove"},
                                             d \in {e \in Conns : Accepting(e)}}
  \cup {<<<<"timer", None>>, <<"handle", c>>>> : c \in {d \in Conns :
          timer.step = "conns" /\ d \in timer.left /\ ~FsmFree(d)}}

(* The locks are taken in both orders - the session's before and after     *)
(* fsm_mutex_, the policy's before and after it - but never so that        *)
(* threads wait for one another in a circle.                               *)
NoCircularWait ==
  \A D \in SUBSET {w[1] : w \in Waits} :
    D # {} => \E a \in D : \A b \in D : <<a, b>> \notin Waits

(* A connection that has completed its handshake is out of the session's   *)
(* hands and managed by its torrent, and goes when that torrent drops it   *)
(* or goes; unless another connection has created the torrent at the same  *)
(* time: then nobody manages it, and it stays with the session.            *)
ShakenIsManaged ==
  \A c \in Conns : fsm[c] = "shaken" =>
    IF c \in lost THEN c \in pending /\ torrentOf[c] = None
                  ELSE c \notin pending /\ c \in managed[torrentOf[c]]

(* SetTorrentInfo says: what was read from a fast-resume has been cached   *)
(* before, and is no proxy whatever connections there are.  So its files   *)
(* are not removed, unless SetProxy had looked at is_ready_ before; nor    *)
(* are they by another torrent of the same hash, unless that one was held  *)
(* by somebody when it was erased.                                         *)
CachedIsKept ==
  [][\A t \in Torrents :
       (files /\ ~files' /\ life[t] # "dead" /\ life'[t] = "dead") =>
          /\ ready[t] = "resume" => t \in raced
          /\ \A u \in Torrents \ {t} :
               InMap(u) /\ ready[u] = "resume" => t \in outlived]_svars

(* The records of the session, of its torrents and of its connections      *)
(* agree: one torrent for a hash, and one owner for a connection.          *)
SessionConsistent == SessionTypeOK /\ ShakenIsManaged

=============================================================================
