-------------------------- MODULE HashOwnersProofs --------------------------
(* Who answers for a hash: the torrent in the session of an RCS, and the   *)
(* RCS in the map of the UGS.                                              *)
EXTENDS SessionTorrents, RcsMapper, TLAPS

(* The records of the session agree, its threads do not wait for one       *)
(* another in a circle, and cached files are kept, for any number of       *)
(* connections and torrents.                                               *)

(* The types, by what they are the state of. *)
ConnsOK ==
  /\ accept \in [Conns -> {"no", "connected", "ready", "done"}]
  /\ fsm \in [Conns -> {"init", "handshake", "shaken", "closed"}]
  /\ handle \in [Conns -> {"no", "find", "new", "insert", "add", "remove", "attach"}]
  /\ found \in [Conns -> Torrents \cup {None}]
  /\ torrentOf \in [Conns -> Torrents \cup {None}]

TorrentsOK ==
  /\ life \in [Torrents -> {"none", "made", "live", "erased", "dead"}]
  /\ managed \in [Torrents -> SUBSET Conns]
  /\ ready \in [Torrents -> {"no", "metadata", "resume"}]
  /\ job \in [Torrents -> BOOLEAN]
  /\ idle \in [Torrents -> 0 .. MaxIdle]

RestOK ==
  /\ due \subseteq Torrents
  /\ \/ timer.step \in {"rest", "inactive"}
     \/ /\ timer = [step |-> "conns", torrent |-> timer.torrent, left |-> timer.left]
        /\ timer.torrent \in Torrents /\ timer.left \subseteq Conns
  /\ crashed \in {"no", "start", "proxy", "tick"}

(* The steps of a socket thread that holds a torrent. *)
Holding == {"insert", "add", "remove", "attach"}

(* A handler runs for a connection that was started and is in its          *)
(* handshake; it holds a torrent from the moment it found or made one.     *)
HandlerOK(c) ==
  /\ handle[c] # "no" => accept[c] = "done" /\ fsm[c] = "handshake"
  /\ handle[c] \in Holding <=> found[c] # None

(* Until its handshake is through, a connection has no torrent and is in   *)
(* the session's hands, except between RemovePeerConnection and the end.   *)
YoungOK(c) ==
  /\ accept[c] = "no" => fsm[c] = "init"
  /\ fsm[c] \in {"init", "handshake"} =>
       /\ torrentOf[c] = None /\ c \notin lost
       /\ accept[c] # "no" => (c \in pending <=> handle[c] # "attach")

(* Whoever a torrent manages has come as far as RemovePeerConnection, and  *)
(* never handles a handshake again.                                        *)
Beyond(c) ==
  /\ accept[c] = "done"
  /\ handle[c] \in {"remove", "attach"} \/ fsm[c] \in {"shaken", "closed"}

ManagedOK ==
  /\ \A t \in Torrents : \A c \in managed[t] : Beyond(c)
  /\ timer.step = "conns" => \A c \in timer.left : Beyond(c)

ShakenOK(c) ==
  fsm[c] = "shaken" =>
    IF c \in lost THEN c \in pending /\ torrentOf[c] = None
                  ELSE torrentOf[c] \in Torrents /\ c \in managed[torrentOf[c]]

OwnerOK ==
  /\ \A c \in Conns : torrentOf[c] # None => c \notin pending
  /\ \A c \in setting : c \in Conns /\ torrentOf[c] # None

OneLive == \A t, u \in Torrents : InMap(t) /\ InMap(u) => t = u

DeadIsFree == \A t \in Torrents : life[t] = "dead" => ~Held(t)

EveryConn == \A c \in Conns : HandlerOK(c) /\ YoungOK(c) /\ ShakenOK(c)

(* What the two kinds of properties need of the connections and torrents.  *)
SInv == ConnsOK /\ TorrentsOK /\ RestOK /\ EveryConn /\ ManagedOK /\ OwnerOK /\ OneLive /\ DeadIsFree

-----------------------------------------------------------------------------
(* For the files: a connection that has got hold of a torrent, other than  *)
(* by making it.                                                           *)
Reached(t) ==
  \E c \in Conns : torrentOf[c] = t \/ (found[c] = t /\ handle[c] # "insert")

(* A torrent that was made and not yet entered is held by its maker only.  *)
MadeOK ==
  /\ \A c \in Conns : found[c] # None => life[found[c]] # "none"
  /\ \A c \in Conns : handle[c] = "insert" =>
       /\ life[found[c]] = "made"
       /\ \A d \in Conns : found[d] = found[c] => d = c

(* What a connection has reached, and what is a proxy, has been in the map;*)
(* it was erased there only while somebody held it.                        *)
ReachedOK ==
  \A t \in Torrents : Reached(t) \/ t \in proxy =>
    life[t] \in {"live", "dead"} \/ (life[t] = "erased" /\ t \in outlived)

(* A proxy that was read from a fast-resume has met SetProxy's race. *)
RacedOK == \A t \in Torrents : t \in proxy /\ ready[t] = "resume" => t \in raced

FInv == MadeOK /\ ReachedOK /\ RacedOK

-----------------------------------------------------------------------------
LEMMA SessionInitInv == SessionInit => SInv /\ FInv
<1> SUFFICES ASSUME SessionInit
             PROVE  SInv /\ FInv
  OBVIOUS
<1>0. MaxIdle \in Nat /\ None \notin Conns \cup Torrents
  BY SessionAssumption
<1>1. ConnsOK /\ TorrentsOK /\ RestOK
  BY <1>0 DEF SessionInit, ConnsOK, TorrentsOK, RestOK, AtRest
<1>2. EveryConn /\ ManagedOK /\ OwnerOK
  BY DEF SessionInit, AtRest, EveryConn, HandlerOK, YoungOK, ShakenOK, ManagedOK, OwnerOK, Holding
<1>3. OneLive /\ DeadIsFree
  BY DEF SessionInit, OneLive, DeadIsFree, InMap
<1>4. MadeOK /\ ReachedOK /\ RacedOK
  BY <1>0 DEF SessionInit, MadeOK, ReachedOK, RacedOK, Reached
<1> QED
  BY <1>1, <1>2, <1>3, <1>4 DEF SInv, FInv

(* The machines of connections that are dropped. *)
LEMMA DroppedTyped ==
  ASSUME ConnsOK, NEW C
  PROVE  /\ Dropped(C) \in [Conns -> {"init", "handshake", "shaken", "closed"}]
         /\ \A c \in Conns : Dropped(C)[c] = fsm[c] \/ (Dropped(C)[c] = "closed" /\ c \in C /\ handle[c] = "no")
         /\ \A c \in Conns : c \in C /\ handle[c] = "no" => Dropped(C)[c] = "closed"
BY DEF Dropped, ConnsOK, FsmFree

LEMMA ConnsKept ==
  ASSUME ConnsOK, TorrentsOK, RestOK, SessionNext
  PROVE  ConnsOK'
<1>1. ASSUME NEW c \in Conns,
             \/ AcceptConnection(c) \/ InitConnection(c) \/ StartConnection(c)
             \/ ReceiveTooEarly(c) \/ ReceiveHandshake(c) \/ CloseConnection(c)
      PROVE  ConnsOK'
  BY <1>1 DEF AcceptConnection, InitConnection, StartConnection, ReceiveTooEarly, ReceiveHandshake,
              CloseConnection, ConnsOK
<1>2. ASSUME NEW c \in Conns, FindTorrent(c) \/ InsertTorrent(c)
      PROVE  ConnsOK'
  BY <1>2 DEF FindTorrent, InsertTorrent, ConnsOK
<1>3. ASSUME NEW c \in Conns, IncommingPeerConnecton(c) \/ RemovePeerConnection(c) \/ AttachTorrent(c)
      PROVE  ConnsOK'
  BY <1>3 DEF IncommingPeerConnecton, RemovePeerConnection, AttachTorrent, ConnsOK
<1>4. ASSUME NEW c \in Conns, NEW t \in Torrents, NewTorrent(c, t)
      PROVE  ConnsOK'
  BY <1>4 DEF NewTorrent, ConnsOK
<1>5. CASE UNCHANGED conns
  BY <1>5 DEF conns, ConnsOK
<1>6. ASSUME NEW C, fsm' = Dropped(C), UNCHANGED <<accept, handle, found, torrentOf>>
      PROVE  ConnsOK'
  BY <1>6, DroppedTyped DEF ConnsOK
<1>7. ASSUME NEW t \in Torrents, BeginTorrentTick(t)
      PROVE  ConnsOK'
  <2>1. UNCHANGED fsm \/ \E C : fsm' = Dropped(C)
    BY <1>7 DEF BeginTorrentTick
  <2> QED
    BY <1>6, <1>7, <2>1 DEF BeginTorrentTick, ConnsOK
<1>8. CASE ClearInactiveTorrents \/ \E t \in Torrents : DestroyTorrent(t)
  BY <1>6, <1>8 DEF ClearInactiveTorrents, DestroyTorrent, Destroy
<1> QED
  BY <1>1, <1>2, <1>3, <1>4, <1>5, <1>7, <1>8
     DEF SessionNext, OnAssignPieceMsg, SetProxy, TickConnection, SetTorrentInfo, BeginJob, EndJob,
         Expire, EndTorrentTick, BeginClearInactive

LEMMA TorrentsKept ==
  ASSUME ConnsOK, TorrentsOK, RestOK, SessionNext
  PROVE  TorrentsOK'
<1>0. MaxIdle \in Nat
  BY SessionAssumption
<1>1. CASE UNCHANGED torr
  BY <1>1 DEF torr, TorrentsOK
<1>2. ASSUME NEW c \in Conns, InsertTorrent(c) \/ IncommingPeerConnecton(c)
      PROVE  TorrentsOK'
  BY <1>2 DEF InsertTorrent, IncommingPeerConnecton, TorrentsOK
<1>3. ASSUME NEW c \in Conns, NEW t \in Torrents, NewTorrent(c, t)
      PROVE  TorrentsOK'
  BY <1>3 DEF NewTorrent, TorrentsOK
<1>4. ASSUME NEW t \in Torrents, SetTorrentInfo(t) \/ BeginJob(t) \/ EndJob(t)
      PROVE  TorrentsOK'
  BY <1>4 DEF SetTorrentInfo, BeginJob, EndJob, TorrentsOK
<1>5. ASSUME NEW t \in Torrents, BeginTorrentTick(t)
      PROVE  TorrentsOK'
  BY <1>5 DEF BeginTorrentTick, TorrentsOK
<1>6. CASE EndTorrentTick
  <2> DEFINE t == timer.torrent
             more == IF managed[t] # {} THEN 0 ELSE IF idle[t] < MaxIdle THEN idle[t] + 1 ELSE idle[t]
  <2>1. t \in Torrents => more \in 0 .. MaxIdle
    BY <1>0 DEF TorrentsOK
  <2>2. idle' = [idle EXCEPT ![t] = more]
    BY <1>6 DEF EndTorrentTick
  <2>3. idle' \in [Torrents -> 0 .. MaxIdle]
    BY <2>1, <2>2 DEF TorrentsOK
  <2> QED
    BY <1>6, <2>3 DEF EndTorrentTick, TorrentsOK
<1>7. CASE ClearInactiveTorrents \/ \E t \in Torrents : DestroyTorrent(t)
  BY <1>7 DEF ClearInactiveTorrents, DestroyTorrent, Destroy, TorrentsOK
<1>8. ASSUME NEW c \in Conns, OnAssignPieceMsg(c) \/ SetProxy(c)
      PROVE  TorrentsOK'
  BY <1>8 DEF OnAssignPieceMsg, SetProxy, TorrentsOK
<1> QED
  BY <1>1, <1>2, <1>3, <1>4, <1>5, <1>6, <1>7, <1>8
     DEF SessionNext, AcceptConnection, InitConnection, StartConnection, ReceiveTooEarly,
         ReceiveHandshake, FindTorrent, RemovePeerConnection, AttachTorrent, CloseConnection,
         TickConnection, Expire, BeginClearInactive

LEMMA RestKept ==
  ASSUME ConnsOK, TorrentsOK, RestOK, SessionNext
  PROVE  RestOK'
<1>1. CASE UNCHANGED <<time, crashed>>
  BY <1>1 DEF time, RestOK
<1>2. CASE UNCHANGED time /\ crashed' \in {"no", "start", "proxy", "tick"}
  BY <1>2 DEF time, RestOK
<1>3. ASSUME NEW t \in Torrents, BeginTorrentTick(t)
      PROVE  RestOK'
  <2>1. managed' \in [Torrents -> SUBSET Conns]
    BY <1>3 DEF BeginTorrentTick, TorrentsOK
  <2>2. timer' = timer \/ timer' = [step |-> "conns", torrent |-> t, left |-> managed'[t]]
    BY <1>3 DEF BeginTorrentTick
  <2>3. crashed' \in {"no", "start", "proxy", "tick"} /\ due' \subseteq Torrents
    BY <1>3 DEF BeginTorrentTick, RestOK
  <2> QED
    BY <2>1, <2>2, <2>3 DEF RestOK
<1>4. ASSUME NEW c \in Conns, TickConnection(c)
      PROVE  RestOK'
  BY <1>4 DEF TickConnection, RestOK
<1>5. CASE EndTorrentTick \/ BeginClearInactive \/ ClearInactiveTorrents \/ \E t \in Torrents : Expire(t)
  BY <1>5 DEF EndTorrentTick, BeginClearInactive, ClearInactiveTorrents, Expire, AtRest, RestOK
<1>6. ASSUME NEW c \in Conns, OnAssignPieceMsg(c) \/ StartConnection(c)
      PROVE  RestOK'
  BY <1>2, <1>6 DEF OnAssignPieceMsg, StartConnection, RestOK
<1>7. ASSUME NEW t \in Torrents, DestroyTorrent(t)
      PROVE  RestOK'
  BY <1>2, <1>7 DEF DestroyTorrent
<1> QED
  BY <1>1, <1>3, <1>4, <1>5, <1>6, <1>7
     DEF SessionNext, AcceptConnection, InitConnection, ReceiveTooEarly,
         ReceiveHandshake, FindTorrent, InsertTorrent, NewTorrent, IncommingPeerConnecton,
         RemovePeerConnection, AttachTorrent, CloseConnection,
         SetProxy, SetTorrentInfo, BeginJob, EndJob

(* What a step does that touches no connection but, perhaps, the machines  *)
(* of those that were dropped.                                             *)
LEMMA DropKeepsConns ==
  ASSUME SInv, NEW D, UNCHANGED <<accept, handle, found, torrentOf, pending, lost>>,
         fsm' = Dropped(D), \A c \in D : Beyond(c),
         \A t \in Torrents, c \in Conns : c \in managed[t] => c \in managed'[t] \/ c \in D \/ fsm[c] = "closed"
  PROVE  EveryConn'
<1> SUFFICES ASSUME NEW c \in Conns
             PROVE  HandlerOK(c)' /\ YoungOK(c)' /\ ShakenOK(c)'
  BY DEF EveryConn
<1>1. /\ fsm'[c] = fsm[c] \/ (fsm'[c] = "closed" /\ c \in D /\ handle[c] = "no")
      /\ c \in D /\ handle[c] = "no" => fsm'[c] = "closed"
  BY DroppedTyped DEF SInv
<1>2. HandlerOK(c) /\ YoungOK(c) /\ ShakenOK(c)
  BY DEF SInv, EveryConn
<1>3. HandlerOK(c)'
  BY <1>1, <1>2 DEF HandlerOK, Holding
<1>4. YoungOK(c)'
  BY <1>1, <1>2 DEF YoungOK, Beyond
<1>5. ShakenOK(c)'
  BY <1>1, <1>2 DEF ShakenOK, HandlerOK
<1> QED
  BY <1>3, <1>4, <1>5

LEMMA EveryConnKept ==
  ASSUME SInv, SessionNext
  PROVE  EveryConn'
<1> USE DEF EveryConn, HandlerOK, YoungOK, ShakenOK, Holding
<1>0. EveryConn /\ ConnsOK /\ TorrentsOK /\ None \notin Torrents
  BY SessionAssumption DEF SInv
<1>1. ASSUME NEW c \in Conns, AcceptConnection(c) \/ InitConnection(c) \/ StartConnection(c)
      PROVE  EveryConn'
  BY <1>0, <1>1 DEF AcceptConnection, InitConnection, StartConnection, torr, hist, ConnsOK
<1>2. ASSUME NEW c \in Conns, ReceiveTooEarly(c) \/ ReceiveHandshake(c)
      PROVE  EveryConn'
  BY <1>0, <1>2 DEF ReceiveTooEarly, ReceiveHandshake, FsmFree, torr, hist, ConnsOK
<1>3. ASSUME NEW c \in Conns, FindTorrent(c)
      PROVE  EveryConn'
  BY <1>0, <1>3 DEF FindTorrent, torr, hist, ConnsOK
<1>4. ASSUME NEW c \in Conns, InsertTorrent(c)
      PROVE  EveryConn'
  BY <1>0, <1>4 DEF InsertTorrent, ConnsOK
<1>5. ASSUME NEW c \in Conns, IncommingPeerConnecton(c)
      PROVE  EveryConn'
  BY <1>0, <1>5 DEF IncommingPeerConnecton, hist, ConnsOK, TorrentsOK
<1>6. ASSUME NEW c \in Conns, RemovePeerConnection(c)
      PROVE  EveryConn'
  BY <1>0, <1>6 DEF RemovePeerConnection, torr, hist, ConnsOK
<1>7. ASSUME NEW c \in Conns, AttachTorrent(c)
      PROVE  EveryConn'
  BY <1>0, <1>7 DEF AttachTorrent, torr, hist, ConnsOK
<1>8. ASSUME NEW c \in Conns, CloseConnection(c)
      PROVE  EveryConn'
  BY <1>0, <1>8 DEF CloseConnection, FsmFree, torr, hist, ConnsOK
<1>9. ASSUME NEW c \in Conns, NEW t \in Torrents, NewTorrent(c, t)
      PROVE  EveryConn'
  BY <1>0, <1>9 DEF NewTorrent, hist, ConnsOK
<1>10. CASE UNCHANGED <<conns, managed, lost>>
  BY <1>0, <1>10 DEF conns
<1>11. ASSUME NEW t \in Torrents, BeginTorrentTick(t)
       PROVE  EveryConn'
  <2> DEFINE open == {c \in managed[t] : fsm[c] # "closed"}
             shut == open # managed[t] /\ t \in proxy /\ open \cap proxyConn = {}
             D == IF shut THEN managed[t] ELSE {}
  <2>1. CASE life[t] = "dead"
    BY <1>10, <1>11, <2>1 DEF BeginTorrentTick, conns, hist
  <2>2. CASE life[t] # "dead"
    <3>1. /\ fsm' = Dropped(D)
          /\ managed' = [managed EXCEPT ![t] = IF shut THEN {} ELSE open]
          /\ UNCHANGED <<accept, handle, found, torrentOf, pending, lost>>
      BY <1>11, <2>2 DEF BeginTorrentTick, hist
    <3>2. D \subseteq managed[t]
      OBVIOUS
    <3>3. \A u \in Torrents, c \in Conns : c \in managed[u] => c \in managed'[u] \/ c \in D \/ fsm[c] = "closed"
      BY <1>0, <3>1 DEF TorrentsOK
    <3>4. \A c \in D : Beyond(c)
      BY <3>2 DEF SInv, ManagedOK
    <3> HIDE DEF D
    <3> QED
      BY <3>1, <3>3, <3>4, DropKeepsConns
  <2> QED
    BY <2>1, <2>2
<1>12. ASSUME NEW U, U \subseteq Torrents, Destroy(U),
              UNCHANGED <<accept, handle, found, torrentOf, pending, lost>>
       PROVE  EveryConn'
  <2> DEFINE D == UNION {managed[t] : t \in U}
  <2>1. fsm' = Dropped(D) /\ \A c \in D : Beyond(c)
    BY <1>12 DEF Destroy, SInv, ManagedOK
  <2>2. \A u \in Torrents, c \in Conns : c \in managed[u] => c \in managed'[u] \/ c \in D
    BY <1>12 DEF Destroy
  <2> HIDE DEF D
  <2> QED
    BY <1>12, <2>1, <2>2, DropKeepsConns
<1>13. CASE ClearInactiveTorrents \/ \E t \in Torrents : DestroyTorrent(t)
  BY <1>12, <1>13 DEF ClearInactiveTorrents, DestroyTorrent, hist
<1> QED
  BY <1>1, <1>2, <1>3, <1>4, <1>5, <1>6, <1>7, <1>8, <1>9, <1>10, <1>11, <1>13
     DEF SessionNext, OnAssignPieceMsg, SetProxy, TickConnection, SetTorrentInfo, BeginJob, EndJob,
         Expire, EndTorrentTick, BeginClearInactive, torr, hist

(* Once beyond, always beyond. *)
LEMMA BeyondStays ==
  ASSUME SInv, SessionNext, NEW c \in Conns, Beyond(c)
  PROVE  Beyond(c)'
<1> USE DEF Beyond
<1>0. /\ ConnsOK
      /\ handle[c] # "no" => fsm[c] = "handshake"
      /\ accept[c] = "done"
  BY DEF SInv, EveryConn, HandlerOK
<1>1. CASE UNCHANGED <<accept, handle, fsm>>
  BY <1>1
<1>2. ASSUME NEW d \in Conns,
             \/ AcceptConnection(d) \/ InitConnection(d) \/ StartConnection(d)
             \/ ReceiveTooEarly(d) \/ ReceiveHandshake(d) \/ CloseConnection(d)
      PROVE  Beyond(c)'
  BY <1>0, <1>2 DEF AcceptConnection, InitConnection, StartConnection, ReceiveTooEarly,
                    ReceiveHandshake, CloseConnection, FsmFree, ConnsOK
<1>3. ASSUME NEW d \in Conns,
             \/ FindTorrent(d) \/ InsertTorrent(d) \/ IncommingPeerConnecton(d)
             \/ RemovePeerConnection(d) \/ AttachTorrent(d) \/ \E t \in Torrents : NewTorrent(d, t)
      PROVE  Beyond(c)'
  BY <1>0, <1>3 DEF FindTorrent, InsertTorrent, IncommingPeerConnecton, RemovePeerConnection,
                    AttachTorrent, NewTorrent, ConnsOK
<1>4. ASSUME NEW D, fsm' = Dropped(D), UNCHANGED <<accept, handle>>
      PROVE  Beyond(c)'
  BY <1>0, <1>4, DroppedTyped
<1>5. ASSUME NEW t \in Torrents, BeginTorrentTick(t)
      PROVE  Beyond(c)'
  <2>1. UNCHANGED fsm \/ \E D : fsm' = Dropped(D)
    BY <1>5 DEF BeginTorrentTick
  <2> QED
    BY <1>1, <1>4, <1>5, <2>1 DEF BeginTorrentTick
<1>6. CASE ClearInactiveTorrents \/ \E t \in Torrents : DestroyTorrent(t)
  BY <1>4, <1>6 DEF ClearInactiveTorrents, DestroyTorrent, Destroy
<1> QED
  BY <1>1, <1>2, <1>3, <1>5, <1>6
     DEF SessionNext, OnAssignPieceMsg, SetProxy, TickConnection, SetTorrentInfo, BeginJob, EndJob,
         Expire, EndTorrentTick, BeginClearInactive, conns

LEMMA ManagedKept ==
  ASSUME SInv, SessionNext
  PROVE  ManagedOK'
<1>0. /\ ConnsOK /\ TorrentsOK /\ ManagedOK /\ EveryConn
      /\ timer.step = "conns" => timer.left \subseteq Conns
      /\ \A c \in Conns : Beyond(c) => Beyond(c)'
  BY BeyondStays DEF SInv, RestOK
<1>1. \A t \in Torrents : \A c \in managed'[t] : c \in Conns /\ Beyond(c)'
  <2>1. CASE \A t \in Torrents : managed'[t] \subseteq managed[t]
    BY <1>0, <2>1 DEF ManagedOK, TorrentsOK
  <2>2. ASSUME NEW d \in Conns, IncommingPeerConnecton(d)
        PROVE  \A t \in Torrents : \A c \in managed'[t] : c \in Conns /\ Beyond(c)'
    <3>1. Beyond(d)'
      BY <1>0, <2>2 DEF IncommingPeerConnecton, Beyond, EveryConn, HandlerOK, ConnsOK
    <3>2. \A t \in Torrents : managed'[t] \subseteq managed[t] \cup {d}
      BY <1>0, <2>2 DEF IncommingPeerConnecton, TorrentsOK
    <3> QED
      BY <1>0, <3>1, <3>2 DEF ManagedOK, TorrentsOK
  <2>3. ASSUME NEW u \in Torrents, BeginTorrentTick(u)
        PROVE  \A t \in Torrents : managed'[t] \subseteq managed[t]
    BY <1>0, <2>3 DEF BeginTorrentTick, TorrentsOK
  <2>4. CASE ClearInactiveTorrents \/ \E t \in Torrents : DestroyTorrent(t)
    <3>1. PICK U : Destroy(U)
      BY <2>4 DEF ClearInactiveTorrents, DestroyTorrent
    <3> QED
      BY <2>1, <3>1 DEF Destroy
  <2>5. CASE UNCHANGED managed
    BY <2>1, <2>5
  <2> QED
    BY <2>1, <2>2, <2>3, <2>4, <2>5
       DEF SessionNext, AcceptConnection, InitConnection, StartConnection, ReceiveTooEarly,
           ReceiveHandshake, CloseConnection, FindTorrent, InsertTorrent, RemovePeerConnection,
           AttachTorrent, NewTorrent, OnAssignPieceMsg, SetProxy, TickConnection, SetTorrentInfo,
           BeginJob, EndJob, Expire, EndTorrentTick, BeginClearInactive, torr
<1>2. ASSUME timer'.step = "conns"
      PROVE  \A c \in timer'.left : Beyond(c)'
  <2>1. CASE timer' = timer
    BY <1>0, <1>2, <2>1 DEF ManagedOK
  <2>2. ASSUME NEW d \in Conns, TickConnection(d)
        PROVE  \A c \in timer'.left : Beyond(c)'
    <3>1. timer.step = "conns" /\ timer'.left = timer.left \ {d}
      BY <2>2 DEF TickConnection, SInv, RestOK
    <3> QED
      BY <1>0, <3>1 DEF ManagedOK
  <2>3. ASSUME NEW u \in Torrents, BeginTorrentTick(u), timer' # timer
        PROVE  \A c \in timer'.left : Beyond(c)'
    <3>1. timer'.left = managed'[u]
      BY <2>3 DEF BeginTorrentTick
    <3> QED
      BY <1>1, <3>1
  <2>4. CASE EndTorrentTick \/ BeginClearInactive \/ ClearInactiveTorrents
    BY <1>2, <2>4 DEF EndTorrentTick, BeginClearInactive, ClearInactiveTorrents, AtRest
  <2> QED
    BY <2>1, <2>2, <2>3, <2>4
       DEF SessionNext, AcceptConnection, InitConnection, StartConnection, ReceiveTooEarly,
           ReceiveHandshake, CloseConnection, FindTorrent, InsertTorrent, IncommingPeerConnecton,
           RemovePeerConnection, AttachTorrent, NewTorrent, OnAssignPieceMsg, SetProxy,
           SetTorrentInfo, BeginJob, EndJob, Expire, DestroyTorrent, time
<1> QED
  BY <1>1, <1>2 DEF ManagedOK

LEMMA OwnerKept ==
  ASSUME SInv, SessionNext
  PROVE  OwnerOK'
<1> USE DEF OwnerOK
<1>0. OwnerOK /\ EveryConn /\ ConnsOK
  BY DEF SInv
<1>1. CASE UNCHANGED <<torrentOf, pending, setting>>
  BY <1>0, <1>1
<1>2. ASSUME NEW c \in Conns, AcceptConnection(c)
      PROVE  OwnerOK'
  BY <1>0, <1>2 DEF AcceptConnection, torr, EveryConn, YoungOK
<1>3. ASSUME NEW c \in Conns, RemovePeerConnection(c)
      PROVE  OwnerOK'
  BY <1>0, <1>3 DEF RemovePeerConnection, torr
<1>4. ASSUME NEW c \in Conns, AttachTorrent(c)
      PROVE  OwnerOK'
  BY <1>0, <1>4 DEF AttachTorrent, torr, ConnsOK, EveryConn, YoungOK, HandlerOK, Holding
<1>5. ASSUME NEW c \in Conns, OnAssignPieceMsg(c) \/ SetProxy(c)
      PROVE  OwnerOK'
  BY <1>0, <1>5 DEF OnAssignPieceMsg, SetProxy, conns
<1> QED
  BY <1>1, <1>2, <1>3, <1>4, <1>5
     DEF SessionNext, InitConnection, StartConnection, ReceiveTooEarly, ReceiveHandshake,
         CloseConnection, FindTorrent, InsertTorrent, IncommingPeerConnecton, NewTorrent,
         TickConnection, SetTorrentInfo, BeginJob, EndJob, Expire, BeginTorrentTick,
         EndTorrentTick, BeginClearInactive, ClearInactiveTorrents, DestroyTorrent, conns, torr

LEMMA OneLiveKept ==
  ASSUME SInv, SessionNext
  PROVE  OneLive'
<1> USE DEF OneLive, InMap
<1>0. OneLive /\ TorrentsOK /\ ConnsOK
  BY DEF SInv
<1>1. CASE \A t \in Torrents : life'[t] = "live" => life[t] = "live"
  BY <1>0, <1>1
<1>2. ASSUME NEW c \in Conns, InsertTorrent(c)
      PROVE  OneLive'
  <2>1. CASE HashIsFree
    <3>1. \A t \in Torrents : life'[t] = "live" => t = found[c]
      BY <1>0, <1>2, <2>1 DEF InsertTorrent, HashIsFree, TorrentsOK
    <3> QED
      BY <3>1
  <2>2. CASE ~HashIsFree
    BY <1>0, <1>2, <2>2 DEF InsertTorrent, TorrentsOK
  <2> QED
    BY <2>1, <2>2
<1>3. ASSUME NEW c \in Conns, NEW t \in Torrents, NewTorrent(c, t)
      PROVE  OneLive'
  BY <1>0, <1>3 DEF NewTorrent, TorrentsOK
<1>4. CASE ClearInactiveTorrents \/ \E t \in Torrents : DestroyTorrent(t)
  BY <1>0, <1>4 DEF ClearInactiveTorrents, DestroyTorrent, TorrentsOK
<1>5. CASE UNCHANGED life
  BY <1>1, <1>5
<1> QED
  BY <1>2, <1>3, <1>4, <1>5
     DEF SessionNext, AcceptConnection, InitConnection, StartConnection, ReceiveTooEarly,
         ReceiveHandshake, CloseConnection, FindTorrent, IncommingPeerConnecton,
         RemovePeerConnection, AttachTorrent, OnAssignPieceMsg, SetProxy, TickConnection,
         SetTorrentInfo, BeginJob, EndJob, Expire, BeginTorrentTick, EndTorrentTick,
         BeginClearInactive, torr

(* Nobody comes to hold a torrent that is dead. *)
LEMMA DeadKept ==
  ASSUME SInv, SessionNext
  PROVE  DeadIsFree'
<1> USE DEF DeadIsFree
<1>0. DeadIsFree /\ TorrentsOK /\ ConnsOK /\ OwnerOK /\ None \notin Torrents
  BY SessionAssumption DEF SInv
<1>1. CASE /\ \A t \in Torrents : life'[t] = "dead" => life[t] = "dead"
           /\ UNCHANGED <<job, found, torrentOf>> /\ setting' \subseteq setting
  BY <1>0, <1>1 DEF Held
<1>2. ASSUME NEW c \in Conns, FindTorrent(c)
      PROVE  DeadIsFree'
  BY <1>0, <1>2 DEF FindTorrent, Held, InMap, torr, ConnsOK
<1>3. ASSUME NEW c \in Conns, InsertTorrent(c)
      PROVE  DeadIsFree'
  <2>1. \A t \in Torrents : life'[t] = "dead" => life[t] = "dead"
    BY <1>0, <1>3 DEF InsertTorrent, TorrentsOK
  <2> QED
    BY <1>0, <1>3, <2>1 DEF InsertTorrent, Held, ConnsOK
<1>4. ASSUME NEW c \in Conns, AttachTorrent(c)
      PROVE  DeadIsFree'
  <2>1. found[c] # None /\ c \notin setting
    BY <1>4 DEF AttachTorrent, SInv, EveryConn, YoungOK, HandlerOK, Holding, OwnerOK
  <2> QED
    BY <1>0, <1>4, <2>1 DEF AttachTorrent, Held, torr, ConnsOK
<1>5. ASSUME NEW c \in Conns, NEW t \in Torrents, NewTorrent(c, t)
      PROVE  DeadIsFree'
  BY <1>0, <1>5 DEF NewTorrent, Held, TorrentsOK, ConnsOK
<1>6. ASSUME NEW c \in Conns, OnAssignPieceMsg(c)
      PROVE  DeadIsFree'
  BY <1>0, <1>6 DEF OnAssignPieceMsg, Held, Exists, InMap, conns
<1>7. ASSUME NEW t \in Torrents, BeginJob(t) \/ EndJob(t)
      PROVE  DeadIsFree'
  BY <1>0, <1>7 DEF BeginJob, EndJob, Held, InMap, conns, TorrentsOK
<1>8. CASE ClearInactiveTorrents
  <2>1. \A t \in Torrents : life'[t] = "dead" => life[t] = "dead" \/ ~Held(t)
    BY <1>0, <1>8 DEF ClearInactiveTorrents, TorrentsOK
  <2> QED
    BY <1>0, <1>8, <2>1 DEF ClearInactiveTorrents, Held
<1>9. ASSUME NEW t \in Torrents, DestroyTorrent(t)
      PROVE  DeadIsFree'
  <2>1. \A u \in Torrents : life'[u] = "dead" => life[u] = "dead" \/ ~Held(u)
    BY <1>0, <1>9 DEF DestroyTorrent, TorrentsOK
  <2> QED
    BY <1>0, <1>9, <2>1 DEF DestroyTorrent, Held
<1> QED
  BY <1>1, <1>2, <1>3, <1>4, <1>5, <1>6, <1>7, <1>8, <1>9
     DEF SessionNext, AcceptConnection, InitConnection, StartConnection, ReceiveTooEarly,
         ReceiveHandshake, CloseConnection, IncommingPeerConnecton,
         RemovePeerConnection, SetProxy, TickConnection,
         SetTorrentInfo, Expire, BeginTorrentTick, EndTorrentTick,
         BeginClearInactive, torr, conns

LEMMA SessionStep == SInv /\ [SessionNext]_svars => SInv'
<1> SUFFICES ASSUME SInv, [SessionNext]_svars
             PROVE  SInv'
  OBVIOUS
<1>1. CASE SessionNext
  BY <1>1, ConnsKept, TorrentsKept, RestKept, EveryConnKept, ManagedKept, OwnerKept, OneLiveKept,
     DeadKept DEF SInv
<1>2. CASE UNCHANGED svars
  <2>1. ConnsOK' /\ TorrentsOK' /\ RestOK'
    BY <1>2 DEF SInv, ConnsOK, TorrentsOK, RestOK, svars, conns, torr, time, hist
  <2>2. EveryConn' /\ ManagedOK' /\ OwnerOK'
    BY <1>2 DEF SInv, EveryConn, HandlerOK, YoungOK, ShakenOK, ManagedOK, OwnerOK, Beyond, svars,
                conns, torr, time, hist
  <2>3. OneLive' /\ DeadIsFree'
    BY <1>2 DEF SInv, OneLive, DeadIsFree, InMap, Held, svars, conns, torr, time, hist
  <2> QED
    BY <2>1, <2>2, <2>3 DEF SInv
<1> QED
  BY <1>1, <1>2

-----------------------------------------------------------------------------
(* The maker of a torrent is alone with it until it is entered. *)
LEMMA MadeKept ==
  ASSUME SInv, MadeOK, SessionNext
  PROVE  MadeOK'
<1> USE DEF MadeOK
<1>0. /\ MadeOK /\ ConnsOK /\ TorrentsOK /\ None \notin Torrents
      /\ \A c \in Conns : handle[c] \in Holding <=> found[c] # None
  BY SessionAssumption DEF SInv, EveryConn, HandlerOK
<1>1. CASE UNCHANGED <<found, life, handle>>
  BY <1>0, <1>1
<1>2. ASSUME NEW c \in Conns, ReceiveHandshake(c)
      PROVE  MadeOK'
  BY <1>0, <1>2 DEF ReceiveHandshake, torr, ConnsOK
<1>3. ASSUME NEW c \in Conns, FindTorrent(c)
      PROVE  MadeOK'
  <2>1. CASE UNCHANGED found
    BY <1>0, <1>3, <2>1 DEF FindTorrent, torr, ConnsOK, Holding
  <2>2. CASE ~UNCHANGED found
    <3>1. PICK t \in Torrents : /\ life[t] = "live" /\ life' = life
                                /\ found' = [found EXCEPT ![c] = t]
                                /\ handle' = [handle EXCEPT ![c] = "add"]
      BY <1>3, <2>2 DEF FindTorrent, InMap, torr
    <3> QED
      BY <1>0, <3>1 DEF ConnsOK
  <2> QED
    BY <2>1, <2>2
<1>4. ASSUME NEW c \in Conns, InsertTorrent(c)
      PROVE  MadeOK'
  <2>1. /\ handle[c] = "insert" /\ found[c] \in Torrents
        /\ \A d \in Conns \ {c} : found[d] # found[c]
    BY <1>0, <1>4 DEF InsertTorrent, Holding, ConnsOK
  <2>2. /\ \A d \in Conns \ {c} : found'[d] = found[d] /\ handle'[d] = handle[d]
        /\ handle'[c] # "insert" /\ found'[c] \in {None, found[c]}
        /\ \A t \in Torrents \ {found[c]} : life'[t] = life[t]
        /\ life'[found[c]] \in {"live", "erased"}
    BY <1>0, <1>4, <2>1 DEF InsertTorrent, ConnsOK, TorrentsOK
  <2> QED
    BY <1>0, <2>1, <2>2 DEF ConnsOK
<1>5. ASSUME NEW c \in Conns, IncommingPeerConnecton(c) \/ RemovePeerConnection(c)
      PROVE  MadeOK'
  <2>1. UNCHANGED <<found, life>> /\ \A d \in Conns : handle'[d] = "insert" => handle[d] = "insert"
    BY <1>0, <1>5 DEF IncommingPeerConnecton, RemovePeerConnection, torr, ConnsOK
  <2> QED
    BY <1>0, <2>1
<1>6. ASSUME NEW c \in Conns, AttachTorrent(c)
       PROVE  MadeOK'
  <2>1. /\ UNCHANGED life /\ found'[c] = None /\ handle'[c] # "insert"
        /\ \A d \in Conns \ {c} : found'[d] = found[d] /\ handle'[d] = handle[d]
    BY <1>0, <1>6 DEF AttachTorrent, torr, ConnsOK
  <2>2. \A d \in Conns : handle[d] = "insert" => found[d] # None
    BY <1>0 DEF Holding
  <2> QED
    BY <1>0, <2>1, <2>2
<1>7. ASSUME NEW c \in Conns, NEW t \in Torrents, NewTorrent(c, t)
      PROVE  MadeOK'
  BY <1>0, <1>7 DEF NewTorrent, TorrentsOK, ConnsOK
<1>8. ASSUME UNCHANGED <<found, handle>>,
             \A t \in Torrents : \/ life'[t] = life[t]
                                 \/ life[t] \in {"live", "erased"} /\ life'[t] \in {"erased", "dead"}
      PROVE  MadeOK'
  BY <1>0, <1>8 DEF ConnsOK, Holding
<1>9. CASE ClearInactiveTorrents \/ \E t \in Torrents : DestroyTorrent(t)
  <2>1. /\ UNCHANGED <<found, handle>>
        /\ \A t \in Torrents : \/ life'[t] = life[t]
                               \/ life[t] \in {"live", "erased"} /\ life'[t] \in {"erased", "dead"}
    BY <1>0, <1>9, ZenonT(60) DEF ClearInactiveTorrents, DestroyTorrent, TorrentsOK, InMap
  <2> QED
    BY <1>8, <2>1
<1> QED
  BY <1>1, <1>2, <1>3, <1>4, <1>5, <1>6, <1>7, <1>9
     DEF SessionNext, AcceptConnection, InitConnection, StartConnection, ReceiveTooEarly,
         CloseConnection, OnAssignPieceMsg, SetProxy, TickConnection, SetTorrentInfo,
         BeginJob, EndJob, Expire, BeginTorrentTick, EndTorrentTick, BeginClearInactive, torr, conns

(* What was reached has been in the map. *)
LEMMA ReachedKept ==
  ASSUME SInv, FInv, SessionNext
  PROVE  ReachedOK'
<1> USE DEF ReachedOK, Reached
<1>0. /\ MadeOK /\ ReachedOK /\ ConnsOK /\ TorrentsOK /\ OwnerOK /\ None \notin Torrents
      /\ \A c \in Conns : handle[c] \in Holding <=> found[c] # None
  BY SessionAssumption DEF SInv, FInv, EveryConn, HandlerOK
<1>1. CASE UNCHANGED <<found, life, handle, torrentOf, proxy, outlived>>
  BY <1>0, <1>1
<1>2. ASSUME NEW c \in Conns, ReceiveHandshake(c)
      PROVE  ReachedOK'
  BY <1>0, <1>2 DEF ReceiveHandshake, torr, hist, ConnsOK, FsmFree, Holding
<1>3. ASSUME NEW c \in Conns, FindTorrent(c)
      PROVE  ReachedOK'
  <2>1. CASE UNCHANGED found
    BY <1>0, <1>3, <2>1 DEF FindTorrent, torr, hist, ConnsOK, Holding
  <2>2. CASE ~UNCHANGED found
    <3>1. PICK t \in Torrents : /\ life[t] = "live"
                                /\ UNCHANGED <<life, torrentOf, proxy, outlived>>
                                /\ found' = [found EXCEPT ![c] = t]
                                /\ handle' = [handle EXCEPT ![c] = "add"]
      BY <1>3, <2>2 DEF FindTorrent, InMap, torr, hist
    <3> QED
      BY <1>0, <3>1 DEF ConnsOK
  <2> QED
    BY <2>1, <2>2
<1>4. ASSUME NEW c \in Conns, InsertTorrent(c)
      PROVE  ReachedOK'
  <2>1. PICK t \in Torrents :
          /\ t = found[c] /\ handle[c] = "insert" /\ life[t] = "made"
          /\ \A d \in Conns \ {c} : found[d] # t
    BY <1>0, <1>4 DEF InsertTorrent, Holding, ConnsOK, MadeOK
  <2>2. ~Reached(t) /\ t \notin proxy
    BY <1>0, <2>1
  <2>3. /\ UNCHANGED <<torrentOf, proxy, outlived>>
        /\ \A d \in Conns \ {c} : found'[d] = found[d] /\ handle'[d] = handle[d]
        /\ \A u \in Torrents \ {t} : life'[u] = life[u]
        /\ \/ life'[t] = "live" /\ found'[c] = t
           \/ life'[t] = "erased" /\ found'[c] = None
    BY <1>0, <1>4, <2>1 DEF InsertTorrent, ConnsOK, TorrentsOK
  <2>4. ASSUME NEW u \in Torrents \ {t}, Reached(u)' \/ u \in proxy'
        PROVE  Reached(u) \/ u \in proxy
    BY <1>0, <2>1, <2>3, <2>4 DEF ConnsOK
  <2>5. life'[t] = "live" \/ (~Reached(t)' /\ t \notin proxy')
    BY <1>0, <2>1, <2>2, <2>3 DEF ConnsOK
  <2> QED
    BY <1>0, <2>3, <2>4, <2>5
<1>5. ASSUME NEW c \in Conns, IncommingPeerConnecton(c) \/ RemovePeerConnection(c)
      PROVE  ReachedOK'
  BY <1>0, <1>5 DEF IncommingPeerConnecton, RemovePeerConnection, torr, hist, ConnsOK
<1>6. ASSUME NEW c \in Conns, AttachTorrent(c)
      PROVE  ReachedOK'
  BY <1>0, <1>6 DEF AttachTorrent, torr, hist, ConnsOK
<1>7. ASSUME NEW c \in Conns, NEW t \in Torrents, NewTorrent(c, t)
      PROVE  ReachedOK'
  <2>1. /\ life[t] = "none" /\ life' = [life EXCEPT ![t] = "made"]
        /\ found' = [found EXCEPT ![c] = t] /\ handle' = [handle EXCEPT ![c] = "insert"]
        /\ UNCHANGED <<torrentOf, proxy, outlived>>
    BY <1>7 DEF NewTorrent, hist
  <2>2. ~Reached(t) /\ t \notin proxy
    BY <1>0, <2>1
  <2> QED
    BY <1>0, <2>1, <2>2 DEF ConnsOK, TorrentsOK
<1>8. ASSUME NEW c \in Conns, OnAssignPieceMsg(c) \/ SetProxy(c)
      PROVE  ReachedOK'
  <2>1. /\ UNCHANGED <<life, found, handle, torrentOf, outlived>>
        /\ proxy' = proxy \/ (proxy' = proxy \cup {torrentOf[c]} /\ torrentOf[c] \in Torrents)
    BY <1>0, <1>8 DEF OnAssignPieceMsg, SetProxy, conns, hist, OwnerOK, ConnsOK
  <2> QED
    BY <1>0, <2>1
<1>9. ASSUME NEW t \in Torrents, SetTorrentInfo(t)
      PROVE  ReachedOK'
  BY <1>0, <1>9 DEF SetTorrentInfo, conns, hist
<1>10. ASSUME UNCHANGED <<found, handle, torrentOf, proxy>>, outlived \subseteq outlived',
              \A t \in Torrents : \/ life'[t] \in {life[t], "dead"}
                                  \/ life'[t] = "erased" /\ t \in outlived'
       PROVE  ReachedOK'
  BY <1>0, <1>10
<1>11. CASE ClearInactiveTorrents
  <2>1. /\ UNCHANGED <<found, handle, torrentOf, proxy>> /\ outlived \subseteq outlived'
        /\ \A t \in Torrents : \/ life'[t] \in {life[t], "dead"}
                               \/ life'[t] = "erased" /\ t \in outlived'
    BY <1>0, <1>11 DEF ClearInactiveTorrents, TorrentsOK
  <2> QED
    BY <1>10, <2>1
<1>12. ASSUME NEW t \in Torrents, DestroyTorrent(t)
       PROVE  ReachedOK'
  BY <1>0, <1>10, <1>12 DEF DestroyTorrent, TorrentsOK, hist
<1> QED
  BY <1>1, <1>2, <1>3, <1>4, <1>5, <1>6, <1>7, <1>8, <1>9, <1>11, <1>12
     DEF SessionNext, AcceptConnection, InitConnection, StartConnection, ReceiveTooEarly,
         CloseConnection, TickConnection, BeginJob, EndJob, Expire, BeginTorrentTick,
         EndTorrentTick, BeginClearInactive, torr, conns, hist

LEMMA RacedKept ==
  ASSUME SInv, RacedOK, SessionNext
  PROVE  RacedOK'
<1> USE DEF RacedOK
<1>0. TorrentsOK
  BY DEF SInv
<1>1. CASE UNCHANGED <<proxy, ready, raced>>
  BY <1>1
<1>2. ASSUME NEW c \in Conns, OnAssignPieceMsg(c) \/ SetProxy(c)
      PROVE  RacedOK'
  BY <1>0, <1>2 DEF OnAssignPieceMsg, SetProxy, hist, TorrentsOK
<1>3. ASSUME NEW t \in Torrents, SetTorrentInfo(t)
      PROVE  RacedOK'
  BY <1>0, <1>3 DEF SetTorrentInfo, hist, TorrentsOK
<1> QED
  BY <1>1, <1>2, <1>3
     DEF SessionNext, AcceptConnection, InitConnection, StartConnection, ReceiveTooEarly,
         ReceiveHandshake, FindTorrent, InsertTorrent, IncommingPeerConnecton, RemovePeerConnection,
         AttachTorrent, NewTorrent, CloseConnection, TickConnection, BeginJob, EndJob, Expire,
         BeginTorrentTick, EndTorrentTick, BeginClearInactive, ClearInactiveTorrents,
         DestroyTorrent, torr, hist

LEMMA FilesStep == SInv /\ FInv /\ [SessionNext]_svars => FInv'
<1> SUFFICES ASSUME SInv, FInv, [SessionNext]_svars
             PROVE  FInv'
  OBVIOUS
<1>1. CASE SessionNext
  BY <1>1, MadeKept, ReachedKept, RacedKept DEF FInv
<1>2. CASE UNCHANGED svars
  BY <1>2 DEF FInv, MadeOK, ReachedOK, Reached, RacedOK, svars, conns, torr, time, hist
<1> QED
  BY <1>1, <1>2

-----------------------------------------------------------------------------
(* Every record of the session is as SInv and FInv say: session.cpp,       *)
(* torrent.cpp and policy.cpp keep them together, whoever comes in between.*)
THEOREM SessionInvariant == SessionSpec => [](SInv /\ FInv)
BY SessionInitInv, SessionStep, FilesStep, PTL DEF SessionSpec

(* One torrent of a hash is in the map of the session, nothing dead is     *)
(* referred to, and a connection that has shaken hands is managed, unless  *)
(* it lost the race to create the torrent (session.cpp:349).               *)
THEOREM SessionAgrees == SessionSpec => []SessionConsistent
<1>1. SInv => SessionConsistent
  <2> SUFFICES ASSUME SInv
               PROVE  SessionConsistent
    OBVIOUS
  <2>1. SessionTypeOK
    BY DEF SInv, ConnsOK, TorrentsOK, RestOK, OwnerOK, OneLive, DeadIsFree, SessionTypeOK
  <2>2. ShakenIsManaged
    BY SessionAssumption DEF SInv, EveryConn, ShakenOK, OwnerOK, ShakenIsManaged
  <2> QED
    BY <2>1, <2>2 DEF SessionConsistent
<1> QED
  BY <1>1, SessionInvariant, PTL

(* The threads take the same locks in both orders and never wait for one   *)
(* another in a circle: what the timer ticks is beyond the steps in which  *)
(* a handler waits for the timer.                                          *)
THEOREM NoDeadlock == SessionSpec => []NoCircularWait
<1>1. SInv => NoCircularWait
  <2> SUFFICES ASSUME SInv,
                      NEW D \in SUBSET {w[1] : w \in Waits}, D # {}
               PROVE  \E a \in D : \A b \in D : <<a, b>> \notin Waits
    BY DEF NoCircularWait
  <2>1. ASSUME NEW a, NEW b, <<a, b>> \in Waits
        PROVE  \/ \E c \in Conns :
                    /\ a = <<"handle", c>>
                    /\ \/ b = <<"timer", None>> /\ handle[c] \in {"find", "insert", "add"}
                       \/ \E d \in Conns : b = <<"accept", d>>
               \/ /\ a = <<"timer", None>>
                  /\ \E c \in Conns : b = <<"handle", c>> /\ handle[c] \in {"remove", "attach"}
    <3>1. \A c \in Conns : accept[c] = "ready" => FsmFree(c)
      BY DEF SInv, EveryConn, HandlerOK, FsmFree
    <3>2. \A c \in Conns : timer.step = "conns" /\ c \in timer.left /\ ~FsmFree(c) =>
            handle[c] \in {"remove", "attach"}
      BY DEF SInv, EveryConn, HandlerOK, FsmFree, ManagedOK, Beyond
    <3> QED
      BY <2>1, <3>1, <3>2 DEF Waits
  <2>2. \A a \in D : a = <<"timer", None>> \/ \E c \in Conns : a = <<"handle", c>>
    BY <2>1 DEF Waits
  <2>3. CASE <<"timer", None>> \notin D
    BY <2>1, <2>2, <2>3
  <2>4. CASE \E c \in Conns : <<"handle", c>> \in D /\ handle[c] \in {"remove", "attach"}
    BY <2>1, <2>2, <2>4
  <2>5. CASE /\ <<"timer", None>> \in D
             /\ \A c \in Conns : <<"handle", c>> \in D => handle[c] \notin {"remove", "attach"}
    BY <2>1, <2>2, <2>5
  <2> QED
    BY <2>3, <2>4, <2>5
<1> QED
  BY <1>1, SessionInvariant, PTL

(* Cached files are removed with a torrent only in the two races named:    *)
(* what was read from a fast-resume is a proxy only if SetProxy had looked *)
(* before (torrent.cpp:385), and a torrent that is removed while another   *)
(* is in the map was held by somebody when it was erased.                  *)
THEOREM CachedFilesStay == SessionSpec => CachedIsKept
<1>1. ASSUME SInv, FInv, [SessionNext]_svars
      PROVE  [\A t \in Torrents :
                (files /\ ~files' /\ life[t] # "dead" /\ life'[t] = "dead") =>
                   /\ ready[t] = "resume" => t \in raced
                   /\ \A u \in Torrents \ {t} :
                        InMap(u) /\ ready[u] = "resume" => t \in outlived]_svars
  <2> SUFFICES ASSUME SessionNext, NEW t \in Torrents,
                      files, ~files', life[t] # "dead", life'[t] = "dead"
               PROVE  /\ ready[t] = "resume" => t \in raced
                      /\ \A u \in Torrents \ {t} :
                           InMap(u) /\ ready[u] = "resume" => t \in outlived
    BY <1>1
  <2>0. TorrentsOK /\ ReachedOK /\ RacedOK /\ OneLive
    BY <1>1 DEF SInv, FInv
  <2>1. ClearInactiveTorrents \/ \E u \in Torrents : DestroyTorrent(u)
    BY DEF SessionNext, AcceptConnection, InitConnection, StartConnection, ReceiveTooEarly,
         ReceiveHandshake, FindTorrent, InsertTorrent, IncommingPeerConnecton, RemovePeerConnection,
         AttachTorrent, NewTorrent, CloseConnection, OnAssignPieceMsg, SetProxy, SetTorrentInfo,
         TickConnection, BeginJob, EndJob, Expire, BeginTorrentTick, EndTorrentTick,
         BeginClearInactive
  <2>2. CASE ClearInactiveTorrents
    <3> DEFINE gone == {u \in Torrents : InMap(u) /\ IsInactive(u)}
               kept == {u \in gone : Held(u)}
    <3>1. (gone \ kept) \cap proxy # {} /\ t \in gone
      BY <2>0, <2>2 DEF ClearInactiveTorrents, Destroy, TorrentsOK
    <3>2. InMap(t) /\ t \in proxy
      BY <2>0, <3>1 DEF OneLive
    <3> QED
      BY <2>0, <3>2 DEF OneLive, RacedOK
  <2>3. ASSUME NEW u \in Torrents, DestroyTorrent(u)
        PROVE  /\ ready[t] = "resume" => t \in raced
               /\ t \in outlived
    <3>1. t = u /\ t \in proxy /\ life[t] = "erased"
      BY <2>0, <2>3 DEF DestroyTorrent, Destroy, TorrentsOK
    <3> QED
      BY <2>0, <3>1 DEF ReachedOK, RacedOK
  <2> QED
    BY <2>1, <2>2, <2>3
<1> QED
  BY <1>1, SessionInvariant, PTL DEF SessionSpec, CachedIsKept

-----------------------------------------------------------------------------
(* What the UGS knows of its nodes agrees, for any number of cache         *)
(* servers, hashes, connections and restarts.                              *)
(* The types by the part of the system that keeps them. *)
ServersOK ==
  /\ link \in [Rcs -> {"down", "address", "resource", "up"}]
  /\ conn \in [Rcs -> Nat]
  /\ \A r \in Rcs : conn[r] <= MaxConn[r]
  /\ up \in [Node -> Seq(Message)]

MapOK ==
  /\ alive \subseteq Node
  /\ DOMAIN rcsMap \subseteq Node
  /\ \A n \in DOMAIN rcsMap : rcsMap[n] \subseteq Hashes

AgesOK ==
  /\ DOMAIN age \subseteq Node
  /\ \A n \in DOMAIN age : age[n] \in 0 .. MaxTimes

OneNode == \A n, m \in DOMAIN rcsMap : rcsMap[n] \cap rcsMap[m] # {} => n = m

UInv == ServersOK /\ MapOK /\ AgesOK /\ OneNode /\ MappedIsAlive

LEMMA UgsInitInv == UgsInit => UInv
<1> SUFFICES ASSUME UgsInit
             PROVE  UInv
  OBVIOUS
<1>1. MaxConn \in [Rcs -> Nat \ {0}]
  BY UgsAssumption
<1>2. ServersOK
  BY <1>1 DEF UgsInit, ServersOK
<1>3. DOMAIN rcsMap = {} /\ DOMAIN age = {} /\ alive = {}
  BY DEF UgsInit, Empty
<1> QED
  BY <1>2, <1>3 DEF UInv, MapOK, AgesOK, OneNode, MappedIsAlive

(* A message put behind those on their way, or a tail that is lost. *)
LEMMA SendTyped ==
  ASSUME ServersOK, NEW r \in Rcs, NEW m \in Message, Send(r, m)
  PROVE  up' \in [Node -> Seq(Message)]
<1>1. CASE ~intact[r]
  BY <1>1 DEF Send, ServersOK
<1>2. CASE intact[r]
  <2>1. up' = [up EXCEPT ![Current(r)] = Append(@, m)]
    BY <1>2 DEF Send
  <2>2. Current(r) \in Node => Append(up[Current(r)], m) \in Seq(Message)
    BY DEF ServersOK
  <2> QED
    BY <2>1, <2>2 DEF ServersOK
<1> QED
  BY <1>1, <1>2

LEMMA ServersKept ==
  ASSUME ServersOK, UgsNext
  PROVE  ServersOK'
<1>0. MaxConn \in [Rcs -> Nat \ {0}] /\ Has \in [Rcs -> SUBSET Hashes]
  BY UgsAssumption
<1>1. ASSUME NEW r \in Rcs, Connect(r)
      PROVE  ServersOK'
  <2>1. /\ conn' \in [Rcs -> Nat] /\ \A s \in Rcs : conn'[s] <= MaxConn[s]
        /\ link' \in [Rcs -> {"down", "address", "resource", "up"}]
    BY <1>0, <1>1 DEF Connect, ServersOK
  <2> QED
    BY <1>1, <2>1 DEF Connect, ServersOK
<1>2. ASSUME NEW r \in Rcs, ReportServiceAddress(r) \/ ReportResource(r) \/ SendKeepAlive(r)
      PROVE  ServersOK'
  <2>1. \A k \in {"address", "alive"} : [kind |-> k] \in Message
    BY DEF Message
  <2>2. [kind |-> "resource", hashes |-> Has[r]] \in Message
    BY <1>0 DEF Message
  <2>3. up' \in [Node -> Seq(Message)]
    BY <1>2, <2>1, <2>2, SendTyped DEF ReportServiceAddress, ReportResource, SendKeepAlive
  <2>4. /\ link' \in [Rcs -> {"down", "address", "resource", "up"}]
        /\ conn' = conn
    BY <1>2 DEF ReportServiceAddress, ReportResource, SendKeepAlive, ServersOK, rvars
  <2> QED
    BY <2>3, <2>4 DEF ServersOK
<1>3. ASSUME NEW r \in Rcs, BreakLink(r)
      PROVE  ServersOK'
  <2>1. PICK k \in 0 .. Len(up[Current(r)]) :
          up' = [up EXCEPT ![Current(r)] = SubSeq(@, 1, k)]
    BY <1>3 DEF BreakLink
  <2>2. ASSUME Current(r) \in Node
        PROVE  SubSeq(up[Current(r)], 1, k) \in Seq(Message)
    <3>1. up[Current(r)] \in Seq(Message)
      BY <2>2 DEF ServersOK
    <3> QED
      BY <3>1
  <2>3. up' \in [Node -> Seq(Message)]
    BY <2>1, <2>2 DEF ServersOK
  <2> QED
    BY <1>3, <2>3 DEF BreakLink, rvars, ServersOK
<1>4. ASSUME NEW r \in Rcs, HandleReadError(r)
      PROVE  ServersOK'
  BY <1>4 DEF HandleReadError, net, ServersOK
<1>5. ASSUME NEW n \in Node, up[n] # <<>>, Pop(n), UNCHANGED rvars
      PROVE  ServersOK'
  <2>1. Tail(up[n]) \in Seq(Message)
    BY <1>5 DEF ServersOK
  <2> QED
    BY <1>5, <2>1 DEF Pop, rvars, ServersOK
<1>6. ASSUME NEW n \in Node, OnReportServiceAddressMsg(n) \/ OnReportResouceMsg(n) \/ OnKeepAliveMsg(n)
      PROVE  ServersOK'
  BY <1>5, <1>6 DEF OnReportServiceAddressMsg, OnReportResouceMsg, OnKeepAliveMsg, IsHead, rvars
<1>7. CASE RestartUgs
  BY <1>7 DEF RestartUgs, rvars, ServersOK
<1>8. CASE DetectorTimer \/ \E h \in Hashes : GetPeer(h)
  BY <1>8 DEF DetectorTimer, GetPeer, rvars, net, ServersOK
<1> QED
  BY <1>1, <1>2, <1>3, <1>4, <1>6, <1>7, <1>8 DEF UgsNext

(* The ages of the detector. *)
LEMMA AgesKept ==
  ASSUME AgesOK, UgsNext
  PROVE  AgesOK'
<1>0. MaxTimes \in Nat
  BY UgsAssumption
<1>1. CASE age' = age
  BY <1>1 DEF AgesOK
<1>2. CASE age' = Empty
  BY <1>2 DEF AgesOK, Empty
<1>3. CASE DetectorTimer
  <2>1. \A n \in DOMAIN age \ Overdue : age[n] + 1 <= MaxTimes
    BY <1>0 DEF Overdue, AgesOK
  <2> QED
    BY <1>0, <1>3, <2>1 DEF DetectorTimer, AgesOK
<1>4. ASSUME NEW n \in Node, OnKeepAliveMsg(n)
      PROVE  AgesOK'
  BY <1>0, <1>4 DEF OnKeepAliveMsg, AgesOK
<1> QED
  BY <1>1, <1>2, <1>3, <1>4
     DEF UgsNext, Connect, ReportServiceAddress, ReportResource, SendKeepAlive, BreakLink,
         HandleReadError, OnReportServiceAddressMsg, OnReportResouceMsg, RestartUgs, GetPeer, ugs

(* The map: a report of a new node takes only hashes nobody has, and a     *)
(* node leaves the map when it leaves the list.                            *)
LEMMA MapKept ==
  ASSUME UInv, UgsNext
  PROVE  MapOK' /\ OneNode' /\ MappedIsAlive'
<1>0. MapOK /\ OneNode /\ MappedIsAlive /\ up \in [Node -> Seq(Message)]
  BY DEF UInv, ServersOK
<1>1. CASE UNCHANGED <<alive, rcsMap, late>>
  BY <1>0, <1>1 DEF MapOK, OneNode, MappedIsAlive
<1>2. ASSUME NEW n \in Node, OnReportServiceAddressMsg(n)
      PROVE  MapOK' /\ OneNode' /\ MappedIsAlive'
  BY <1>0, <1>2 DEF OnReportServiceAddressMsg, MapOK, OneNode, MappedIsAlive
<1>3. ASSUME NEW n \in Node, OnReportResouceMsg(n)
      PROVE  MapOK' /\ OneNode' /\ MappedIsAlive'
  <2> DEFINE new == {h \in Head(up[n]).hashes : ~ExsitHash(h)}
  <2>1. Head(up[n]) \in Message /\ Head(up[n]).kind = "resource"
    BY <1>0, <1>3 DEF OnReportResouceMsg, IsHead
  <2>2. Head(up[n]).hashes \subseteq Hashes
    BY <2>1 DEF Message
  <2>3. new \subseteq Hashes /\ \A m \in DOMAIN rcsMap : rcsMap[m] \cap new = {}
    BY <2>2 DEF ExsitHash
  <2>4. /\ DOMAIN rcsMap' = DOMAIN rcsMap \cup {n}
        /\ \A m \in DOMAIN rcsMap : rcsMap'[m] = rcsMap[m]
        /\ n \notin DOMAIN rcsMap => rcsMap'[n] = new
    BY <1>3 DEF OnReportResouceMsg
  <2>5. alive' = alive /\ late \subseteq late' /\ (n \in alive \/ n \in late')
    BY <1>3 DEF OnReportResouceMsg
  <2> HIDE DEF new
  <2>6. MapOK'
    BY <1>0, <2>3, <2>4, <2>5 DEF MapOK
  <2>7. OneNode'
    BY <1>0, <2>3, <2>4 DEF OneNode
  <2> QED
    BY <1>0, <2>4, <2>5, <2>6, <2>7 DEF MappedIsAlive
<1>4. CASE DetectorTimer
  <2>1. /\ alive' = alive \ Overdue /\ late' = late \ Overdue
        /\ DOMAIN rcsMap' = DOMAIN rcsMap \ Overdue
        /\ \A n \in DOMAIN rcsMap' : rcsMap'[n] = rcsMap[n]
    BY <1>4 DEF DetectorTimer, RemoveServiceNodes
  <2> QED
    BY <1>0, <2>1 DEF MapOK, OneNode, MappedIsAlive
<1>5. CASE RestartUgs
  BY <1>5 DEF RestartUgs, Empty, MapOK, OneNode, MappedIsAlive
<1>6. ASSUME NEW h \in Hashes, GetPeer(h)
      PROVE  MapOK' /\ OneNode' /\ MappedIsAlive'
  <2>1. PICK n \in alive \cap DOMAIN rcsMap : rcsMap' = [rcsMap EXCEPT ![n] = @ \cup {h}]
    BY <1>6 DEF GetPeer
  <2>2. \A m \in DOMAIN rcsMap : h \notin rcsMap[m]
    BY <1>6 DEF GetPeer, ExsitHash
  <2>3. /\ DOMAIN rcsMap' = DOMAIN rcsMap /\ rcsMap'[n] = rcsMap[n] \cup {h}
        /\ \A m \in DOMAIN rcsMap \ {n} : rcsMap'[m] = rcsMap[m]
    BY <2>1
  <2>4. MapOK'
    BY <1>0, <1>6, <2>3 DEF MapOK, GetPeer
  <2>5. OneNode'
    BY <1>0, <2>2, <2>3 DEF OneNode
  <2> QED
    BY <1>0, <1>6, <2>3, <2>4, <2>5 DEF MappedIsAlive, GetPeer
<1>7. CASE \/ \E r \in Rcs : \/ Connect(r) \/ ReportServiceAddress(r) \/ ReportResource(r)
                             \/ SendKeepAlive(r) \/ BreakLink(r) \/ HandleReadError(r)
           \/ \E n \in Node : OnKeepAliveMsg(n)
  BY <1>1, <1>7 DEF Connect, ReportServiceAddress, ReportResource, SendKeepAlive, BreakLink,
                    HandleReadError, OnKeepAliveMsg, ugs
<1> QED
  BY <1>2, <1>3, <1>4, <1>5, <1>6, <1>7 DEF UgsNext

(* No hash is ever directed to two nodes, and a hash that is directed is   *)
(* directed to a node that is alive or was late, through any breaks,       *)
(* timeouts, late reports and restarts of the UGS.                         *)
THEOREM MapStaysConsistent == UgsSpec => []UgsConsistent
<1>1. UInv /\ [UgsNext]_uvars => UInv'
  <2> SUFFICES ASSUME UInv, [UgsNext]_uvars
               PROVE  UInv'
    OBVIOUS
  <2>1. CASE UgsNext
    BY <2>1, ServersKept, AgesKept, MapKept DEF UInv
  <2>2. CASE UNCHANGED uvars
    BY <2>2 DEF uvars, rvars, net, ugs, UInv, ServersOK, MapOK, AgesOK, OneNode, MappedIsAlive
  <2> QED
    BY <2>1, <2>2
<1>2. UInv => UgsConsistent
  <2> SUFFICES ASSUME UInv
               PROVE  UgsConsistent
    OBVIOUS
  <2>1. \A r \in Rcs : conn[r] \in 0 .. MaxConn[r]
    BY UgsAssumption DEF UInv, ServersOK
  <2> QED
    BY <2>1 DEF UInv, ServersOK, MapOK, AgesOK, OneNode, UgsConsistent, UgsTypeOK
<1> QED
  BY <1>1, <1>2, UgsInitInv, PTL DEF UgsSpec

=============================================================================
