-------------------------- MODULE PeerSupplyProofs --------------------------
(* Where the peers of a torrent come from: its trackers, which give their  *)
(* addresses to Policy, and Policy, which connects to them.                *)
EXTENDS Policy, TrackerRequests, FiniteSetTheorems, TLAPS

(* The containers of Policy keep together, for any number of peers,        *)
(* connections and tries.                                                  *)

(* The types of what the timer and the threads of the trackers put into    *)
(* the containers of peers.                                                *)
PeersOK ==
  /\ candidates \in [Types -> SUBSET Entry]
  /\ failed \in SUBSET Entry
  /\ chosen \in Entry \cup {None}
  /\ adding \in Entry \cup {None}

ConnOK ==
  /\ connMap \in SUBSET Conns
  /\ conn \in [Conns -> Connection \cup {None}]
  /\ \A c \in connMap : conn[c] \in Connection

(* What is being connected is managed already ... *)
Connecting(c) == conn[c] # None /\ conn[c].state = "connecting"

ConnectingIsManaged ==
  \A c \in Conns : Connecting(c) => c \in connMap /\ conn[c].active /\ conn[c].addr \in Addrs

(* ... and what is connected has been connected to its peer, actively. *)
ConnectedOK ==
  \A a \in DOMAIN connected :
    /\ connected[a] \in connMap
    /\ conn[connected[a]] \in Connection
    /\ conn[connected[a]].addr = a
    /\ conn[connected[a]].active
    /\ conn[connected[a]].state \in {"open", "closed"}

PInv == PeersOK /\ ConnOK /\ ConnectingIsManaged /\ ConnectedOK

LEMMA PolicyInitInv == PolicyInit => PInv
<1> SUFFICES ASSUME PolicyInit
             PROVE  PInv
  OBVIOUS
<1>1. PeersOK /\ ConnOK /\ ConnectingIsManaged
  BY DEF PolicyInit, PeersOK, ConnOK, ConnectingIsManaged, Connecting
<1>2. DOMAIN connected = {}
  BY DEF PolicyInit
<1> QED
  BY <1>1, <1>2 DEF PInv, ConnectedOK

LEMMA InsertTyped ==
  ASSUME NEW S \in SUBSET Entry, NEW e \in Entry
  PROVE  Insert(S, e) \in SUBSET Entry /\ S \subseteq Insert(S, e)
  BY DEF Insert

(* A peer that is put back among the failed ones has been tried once more. *)
LEMMA FailedEntry ==
  ASSUME ConnOK, ConnectingIsManaged, NEW c \in Conns, Connecting(c), ~(conn[c].tried >= MaxTries)
  PROVE  [addr |-> conn[c].addr, type |-> conn[c].type, tried |-> conn[c].tried + 1] \in Entry
<1>1. conn[c] \in Connection /\ conn[c].addr \in Addrs /\ MaxTries \in Nat
  BY PolicyAssumption DEF ConnOK, Connecting, ConnectingIsManaged
<1> QED
  BY <1>1 DEF Connection, Entry

-----------------------------------------------------------------------------
(* The containers of peers stay typed. *)
LEMMA PeersKept ==
  ASSUME PInv, PolicyNext
  PROVE  PeersOK'
<1>0. PeersOK /\ ConnOK /\ ConnectingIsManaged
  BY DEF PInv
<1>1. ASSUME UNCHANGED <<candidates, failed, chosen, adding>>
      PROVE  PeersOK'
  BY <1>0, <1>1 DEF PeersOK
<1>2. ASSUME NEW a \in Addrs, NEW t \in Types, AddPeer(a, t)
      PROVE  PeersOK'
  <2>1. [addr |-> a, type |-> t, tried |-> 0] \in Entry
    BY PolicyAssumption DEF Entry
  <2>2. adding' \in Entry \cup {None}
    BY <1>2, <2>1 DEF AddPeer
  <2> QED
    BY <1>0, <1>2, <2>2 DEF AddPeer, peers, PeersOK
<1>3. CASE AddCandidate
  <2>1. adding \in Entry /\ adding.type \in Types
    BY <1>0, <1>3 DEF AddCandidate, PeersOK, Entry
  <2>2. Insert(candidates[adding.type], adding) \in SUBSET Entry
    BY <1>0, <2>1, InsertTyped DEF PeersOK
  <2>3. candidates' \in [Types -> SUBSET Entry]
    BY <1>0, <1>3, <2>1, <2>2 DEF AddCandidate, PeersOK
  <2> QED
    BY <1>0, <1>3, <2>3 DEF AddCandidate, PeersOK
<1>4. ASSUME NEW c \in Conns, FailToConnectPeer(c)
      PROVE  PeersOK'
  <2>1. Connecting(c)
    BY <1>4 DEF FailToConnectPeer, Connecting
  <2>2. failed' \in SUBSET Entry
    <3>1. CASE conn[c].tried >= MaxTries
      BY <1>0, <1>4, <3>1 DEF FailToConnectPeer, PeersOK
    <3>2. CASE ~(conn[c].tried >= MaxTries)
      BY <1>0, <1>4, <2>1, <3>2, FailedEntry, InsertTyped DEF FailToConnectPeer, PeersOK
    <3> QED
      BY <3>1, <3>2
  <2> QED
    BY <1>0, <1>4, <2>2 DEF FailToConnectPeer, PeersOK
<1>5. CASE UpdateFailedPeers
  <2>1. PICK d \in SUBSET failed :
          /\ failed' = failed \ d
          /\ candidates' =
               [t \in Types |->
                  candidates[t] \cup {e \in d : e.type = t /\ t # "innerProxy"
                                                    /\ e.addr \notin Addresses(candidates[t])}]
          /\ UNCHANGED <<chosen, adding>>
    BY <1>5 DEF UpdateFailedPeers
  <2> QED
    BY <1>0, <2>1 DEF PeersOK
<1>6. ASSUME NEW t \in Types, TryConnect(t)
      PROVE  PeersOK'
  BY <1>0, <1>6 DEF TryConnect, PeersOK
<1>7. CASE ConnectOnePeer
  BY <1>0, <1>7 DEF ConnectOnePeer, peers, PeersOK
<1>8. CASE SetSeed
  BY <1>0, <1>8 DEF SetSeed, PeersOK
<1>9. CASE \/ ClearInactiveConnections \/ CheckBlocked \/ TryRetrieveConnectablePeers \/ SetBlocked
           \/ \E c \in Conns : \/ PeerConnected(c) \/ Close(c) \/ AddPeerConnection(c)
                               \/ IncommingPeerConnecton(c) \/ OnAssignPieceMsg(c)
  BY <1>1, <1>9 DEF ClearInactiveConnections, CheckBlocked, TryRetrieveConnectablePeers, SetBlocked,
                    PeerConnected, Close, AddPeerConnection, IncommingPeerConnecton, OnAssignPieceMsg, peers
<1> QED
  BY <1>2, <1>3, <1>4, <1>5, <1>6, <1>7, <1>8, <1>9 DEF PolicyNext, OnTick

-----------------------------------------------------------------------------
ConnsKept == ConnOK' /\ ConnectingIsManaged' /\ ConnectedOK'

(* The state of one connection changes. *)
LEMMA StateKept ==
  ASSUME PInv, NEW c \in Conns, NEW s \in {"open", "refused", "closed"}, conn[c] # None,
         SetState(c, s), connMap \subseteq connMap', connMap' \subseteq connMap \cup {c},
         s # "closed" => conn[c].state \notin {"open", "closed"},
         UNCHANGED connected
  PROVE  ConnsKept
<1>0. ConnOK /\ ConnectingIsManaged /\ ConnectedOK
  BY DEF PInv
<1>1. conn[c] \in Connection /\ conn' = [conn EXCEPT ![c] = [@ EXCEPT !.state = s]]
  BY <1>0 DEF ConnOK, SetState
<1>2. /\ [conn[c] EXCEPT !.state = s] \in Connection
      /\ [conn[c] EXCEPT !.state = s].state = s
      /\ [conn[c] EXCEPT !.state = s].addr = conn[c].addr
      /\ [conn[c] EXCEPT !.state = s].active = conn[c].active
  BY <1>1 DEF Connection
<1>3. \A d \in Conns \ {c} : conn'[d] = conn[d]
  BY <1>0, <1>1 DEF ConnOK
<1>4. conn'[c] = [conn[c] EXCEPT !.state = s]
  BY <1>0, <1>1 DEF ConnOK
<1>5. ConnOK'
  BY <1>0, <1>1, <1>2, <1>3, <1>4 DEF ConnOK
<1>6. ConnectingIsManaged'
  BY <1>0, <1>2, <1>3, <1>4 DEF ConnectingIsManaged, Connecting
<1>7. ConnectedOK'
  <2> SUFFICES ASSUME NEW a \in DOMAIN connected
               PROVE  /\ connected[a] \in connMap'
                      /\ conn'[connected[a]] \in Connection
                      /\ conn'[connected[a]].addr = a
                      /\ conn'[connected[a]].active
                      /\ conn'[connected[a]].state \in {"open", "closed"}
    BY DEF ConnectedOK
  <2>1. CASE connected[a] = c
    BY <1>0, <1>2, <1>4, <2>1 DEF ConnectedOK
  <2>2. CASE connected[a] # c
    BY <1>0, <1>3, <2>2 DEF ConnectedOK, ConnOK
  <2> QED
    BY <2>1, <2>2
<1> QED
  BY <1>5, <1>6, <1>7 DEF ConnsKept

(* A connection is made from nothing: nothing refers to it yet. *)
LEMMA NewKept ==
  ASSUME PInv, NEW c \in Conns, NEW r \in Connection, conn[c] = None,
         conn' = [conn EXCEPT ![c] = r],
         \/ connMap' = connMap /\ r.state = "arriving"
         \/ connMap' = connMap \cup {c} /\ r.active /\ r.addr \in Addrs,
         UNCHANGED connected
  PROVE  ConnsKept
<1>0. ConnOK /\ ConnectingIsManaged /\ ConnectedOK /\ None \notin Connection
  BY PolicyAssumption DEF PInv
<1>1. conn'[c] = r /\ \A d \in Conns \ {c} : conn'[d] = conn[d]
  BY <1>0 DEF ConnOK
<1>2. ConnOK'
  BY <1>0, <1>1 DEF ConnOK
<1>3. ConnectingIsManaged'
  BY <1>0, <1>1 DEF ConnectingIsManaged, Connecting
<1>4. \A a \in DOMAIN connected : connected[a] \in Conns /\ connected[a] # c
  BY <1>0 DEF ConnectedOK, ConnOK
<1>5. ConnectedOK'
  BY <1>0, <1>1, <1>4 DEF ConnectedOK
<1> QED
  BY <1>2, <1>3, <1>5 DEF ConnsKept

(* PeerConnected: the address is entered with this connection, if it is    *)
(* not there already.                                                      *)
LEMMA PeerConnectedKept ==
  ASSUME PInv, NEW c \in Conns, PeerConnected(c)
  PROVE  ConnsKept
<1>0. ConnOK /\ ConnectingIsManaged /\ ConnectedOK /\ Connecting(c)
  BY DEF PInv, PeerConnected, Connecting
<1>1. conn[c] \in Connection /\ c \in connMap /\ conn[c].active
  BY <1>0, PolicyAssumption DEF ConnOK, Connecting, ConnectingIsManaged
<1>2. /\ conn'[c] \in Connection /\ conn'[c].state = "open"
      /\ conn'[c].addr = conn[c].addr /\ conn'[c].active
      /\ \A d \in Conns \ {c} : conn'[d] = conn[d]
      /\ conn' \in [Conns -> Connection \cup {None}]
  BY <1>0, <1>1 DEF PeerConnected, SetState, ConnOK, Connection
<1>3. ConnOK' /\ ConnectingIsManaged' /\ connMap' = connMap
  BY <1>0, <1>2 DEF PeerConnected, ConnOK, ConnectingIsManaged, Connecting
<1>4. \A a \in DOMAIN connected : connected[a] \in Conns /\ connected[a] # c
  BY <1>0 DEF ConnectedOK, ConnOK, Connecting
<1>5. \A a \in DOMAIN connected' :
        (a \in DOMAIN connected /\ connected'[a] = connected[a]) \/ (a = conn[c].addr /\ connected'[a] = c)
  BY DEF PeerConnected
<1>6. ConnectedOK'
  BY <1>0, <1>1, <1>2, <1>3, <1>4, <1>5 DEF ConnectedOK
<1> QED
  BY <1>3, <1>6 DEF ConnsKept

(* FailToConnectPeer: the connection is given up or dropped. *)
LEMMA FailKept ==
  ASSUME PInv, NEW c \in Conns, FailToConnectPeer(c)
  PROVE  ConnsKept
<1>0. ConnOK /\ ConnectingIsManaged /\ ConnectedOK
  BY DEF PInv
<1>1. CASE conn[c].tried >= MaxTries
  BY <1>0, <1>1, StateKept DEF FailToConnectPeer, ConnOK
<1>2. CASE ~(conn[c].tried >= MaxTries)
  <2>1. /\ connMap' = connMap \ {c} /\ conn'[c] = None
        /\ \A d \in Conns \ {c} : conn'[d] = conn[d]
        /\ conn' \in [Conns -> Connection \cup {None}]
        /\ connected' = connected
    BY <1>0, <1>2 DEF FailToConnectPeer, Release, ConnOK
  <2>2. \A a \in DOMAIN connected : connected[a] \in Conns /\ connected[a] # c
    BY <1>0 DEF ConnectedOK, ConnOK, FailToConnectPeer
  <2> QED
    BY <1>0, <2>1, <2>2 DEF ConnsKept, ConnOK, ConnectingIsManaged, Connecting, ConnectedOK
<1> QED
  BY <1>1, <1>2

(* ClearInactiveConnections: a peer leaves connected_peers_ with its       *)
(* connection, which is looked up by its address.                          *)
LEMMA ClearKept ==
  ASSUME PInv, ClearInactiveConnections
  PROVE  ConnsKept
<1>0. ConnOK /\ ConnectingIsManaged /\ ConnectedOK
  BY DEF PInv
<1>1. PICK dead \in SUBSET connMap :
        /\ \A c \in connMap : IF conn[c].state = "closed" THEN c \in dead
                                                           ELSE c \in dead => conn[c].state = "open"
        /\ connected' = [a \in DOMAIN connected \ Cleared(dead) |-> connected[a]]
        /\ connMap' = connMap \ dead
        /\ conn' = Release(dead \ Range(connected'))
  BY DEF ClearInactiveConnections
<1>2. \A a \in DOMAIN connected' :
        a \in DOMAIN connected /\ connected'[a] = connected[a] /\ connected[a] \in connMap \ dead
  BY <1>0, <1>1 DEF Cleared, ConnectedOK
<1>3. \A c \in Conns \ dead : conn'[c] = conn[c]
  BY <1>1 DEF Release
<1>4. \A c \in Conns : conn'[c] = conn[c] \/ conn'[c] = None
  BY <1>1 DEF Release
<1>5. ConnOK'
  BY <1>0, <1>1, <1>3, <1>4 DEF ConnOK, Release
<1>6. ConnectingIsManaged'
  <2> SUFFICES ASSUME NEW c \in Conns, Connecting(c)'
               PROVE  c \in connMap' /\ conn'[c].active /\ conn'[c].addr \in Addrs
    BY DEF ConnectingIsManaged
  <2>1. conn'[c] = conn[c] /\ Connecting(c) /\ c \in connMap
    BY <1>0, <1>4 DEF Connecting, ConnectingIsManaged
  <2>2. c \notin dead
    BY <1>1, <2>1 DEF Connecting
  <2> QED
    BY <1>0, <1>1, <2>1, <2>2 DEF ConnectingIsManaged
<1>7. ConnectedOK'
  <2> SUFFICES ASSUME NEW a \in DOMAIN connected'
               PROVE  /\ connected'[a] \in connMap'
                      /\ conn'[connected'[a]] \in Connection
                      /\ conn'[connected'[a]].addr = a
                      /\ conn'[connected'[a]].active
                      /\ conn'[connected'[a]].state \in {"open", "closed"}
    BY DEF ConnectedOK
  <2>1. /\ a \in DOMAIN connected /\ connected'[a] = connected[a]
        /\ connected[a] \in connMap' /\ connected[a] \in Conns \ dead
    BY <1>0, <1>1, <1>2 DEF ConnOK
  <2>2. conn'[connected[a]] = conn[connected[a]]
    BY <1>3, <2>1
  <2> QED
    BY <1>0, <2>1, <2>2 DEF ConnectedOK
<1> QED
  BY <1>5, <1>6, <1>7 DEF ConnsKept

LEMMA ConnsStep ==
  ASSUME PInv, PolicyNext
  PROVE  ConnsKept
<1>0. PeersOK /\ ConnOK /\ ConnectingIsManaged /\ ConnectedOK
  BY DEF PInv
<1>1. ASSUME UNCHANGED <<connected, connMap, conn>>
      PROVE  ConnsKept
  BY <1>0, <1>1 DEF ConnsKept, ConnOK, ConnectingIsManaged, Connecting, ConnectedOK
<1>2. ASSUME NEW c \in Conns, Close(c) \/ AddPeerConnection(c)
      PROVE  ConnsKept
  BY <1>0, <1>2, StateKept DEF Close, AddPeerConnection, ConnOK, peers
<1>3. ASSUME NEW c \in Conns, IncommingPeerConnecton(c)
      PROVE  ConnsKept
  <2>1. [addr |-> None, type |-> "outer", tried |-> 0, active |-> FALSE, proxy |-> FALSE,
         state |-> "arriving"] \in Connection
    BY PolicyAssumption DEF Connection, Types
  <2> QED
    BY <1>3, <2>1, NewKept DEF IncommingPeerConnecton, peers
<1>4. CASE ConnectOnePeer
  <2>1. chosen \in Entry
    BY <1>0, <1>4 DEF ConnectOnePeer, PeersOK
  <2>2. [addr |-> chosen.addr, type |-> chosen.type, tried |-> chosen.tried, active |-> TRUE,
         proxy |-> FALSE, state |-> "connecting"] \in Connection /\ chosen.addr \in Addrs
    BY <2>1 DEF Entry, Connection
  <2> QED
    BY <1>1, <1>4, <2>2, NewKept DEF ConnectOnePeer, peers
<1>5. ASSUME NEW c \in Conns, OnAssignPieceMsg(c)
      PROVE  ConnsKept
  <2>1. c \in connMap /\ ~conn[c].active /\ conn' = [conn EXCEPT ![c].proxy = TRUE]
        /\ conn[c].state = "open" /\ UNCHANGED <<connMap, connected>>
    BY <1>5 DEF OnAssignPieceMsg, peers
  <2>2. \A d \in Conns \ {c} : conn'[d] = conn[d]
    BY <1>0, <2>1 DEF ConnOK
  <2>3. \A a \in DOMAIN connected : connected[a] \in Conns /\ connected[a] # c
    BY <1>0, <2>1 DEF ConnectedOK, ConnOK
  <2>4. ConnOK' /\ conn'[c].state = "open"
    <3>1. conn[c] \in Connection
      BY <1>0, <1>5, <2>1 DEF ConnOK, OnAssignPieceMsg
    <3>2. conn'[c] = [conn[c] EXCEPT !.proxy = TRUE]
      BY <1>0, <2>1 DEF ConnOK
    <3>3. conn'[c] \in Connection
      BY <3>1, <3>2 DEF Connection
    <3>4. conn'[c].state = "open"
      BY <2>1, <3>1, <3>2 DEF Connection
    <3> QED
      BY <1>0, <2>1, <2>2, <3>3, <3>4 DEF ConnOK
  <2>5. ConnectingIsManaged'
    BY <1>0, <2>1, <2>2, <2>4 DEF ConnectingIsManaged, Connecting
  <2>6. ConnectedOK'
    BY <1>0, <2>1, <2>2, <2>3 DEF ConnectedOK
  <2> QED
    BY <2>4, <2>5, <2>6 DEF ConnsKept
<1>6. CASE \/ CheckBlocked \/ UpdateFailedPeers \/ TryRetrieveConnectablePeers \/ SetSeed \/ SetBlocked
           \/ AddCandidate \/ \E t \in Types : TryConnect(t) \/ \E a \in Addrs : AddPeer(a, t)
  BY <1>1, <1>6 DEF CheckBlocked, UpdateFailedPeers, TryRetrieveConnectablePeers, SetSeed, SetBlocked,
                    AddCandidate, TryConnect, AddPeer, peers
<1> QED
  BY <1>2, <1>3, <1>4, <1>5, <1>6, PeerConnectedKept, FailKept, ClearKept DEF PolicyNext, OnTick

(* The inductive invariant. *)
THEOREM ContainersInvariant == PolicySpec => []PInv
<1>1. PInv /\ [PolicyNext]_pvars => PInv'
  <2> SUFFICES ASSUME PInv, [PolicyNext]_pvars
               PROVE  PInv'
    OBVIOUS
  <2>1. CASE PolicyNext
    BY <2>1, PeersKept, ConnsStep DEF ConnsKept, PInv
  <2>2. CASE UNCHANGED pvars
    BY <2>2 DEF pvars, peers, PInv, PeersOK, ConnOK, ConnectingIsManaged, Connecting, ConnectedOK
  <2> QED
    BY <2>1, <2>2
<1> QED
  BY <1>1, PolicyInitInv, PTL DEF PolicySpec

(* A connection that connected_peers_ keeps alive is in peer_conn_map_,    *)
(* where it is ticked, timed out and dropped, whatever the order of        *)
(* connects, refusals, closes and ticks.                                   *)
THEOREM ConnectedStaysManaged == PolicySpec => []ConnectedIsManaged
<1>1. PInv => ConnectedIsManaged
  BY DEF PInv, ConnectedOK, ConnectedIsManaged
<1> QED
  BY <1>1, ContainersInvariant, PTL

(* No step loses a peer that failed and has tries left, except a proxy. *)
THEOREM FailedIsNeverLost == PolicySpec => FailedIsRetried
<1>1. ASSUME PInv, [PolicyNext]_pvars
      PROVE  [\A e \in failed : \/ e.type = "innerProxy"
                                \/ e.addr \in Addresses(failed')
                                \/ e.addr \in Addresses(candidates'[e.type])]_pvars
  <2> SUFFICES ASSUME PolicyNext, NEW e \in failed, e.type # "innerProxy",
                      e.addr \notin Addresses(failed')
               PROVE  e.addr \in Addresses(candidates'[e.type])
    BY <1>1
  <2>1. e \notin failed'
    BY DEF Addresses
  <2>2. candidates \in [Types -> SUBSET Entry] /\ e \in Entry /\ e.type \in Types
    BY <1>1 DEF PInv, PeersOK, Entry
  <2>3. UpdateFailedPeers
    BY <2>1 DEF PolicyNext, OnTick, ClearInactiveConnections, CheckBlocked, TryRetrieveConnectablePeers,
                TryConnect, ConnectOnePeer, AddPeer, AddCandidate, PeerConnected, FailToConnectPeer, Insert,
                Close, AddPeerConnection, IncommingPeerConnecton, OnAssignPieceMsg, SetSeed, SetBlocked, peers
  <2>4. PICK d \in SUBSET failed :
          /\ failed' = failed \ d
          /\ candidates' =
               [t \in Types |->
                  candidates[t] \cup {x \in d : x.type = t /\ t # "innerProxy"
                                                    /\ x.addr \notin Addresses(candidates[t])}]
    BY <2>3 DEF UpdateFailedPeers
  <2>5. e \in d
    BY <2>1, <2>4
  <2>6. CASE e.addr \in Addresses(candidates[e.type])
    BY <2>2, <2>4, <2>6 DEF Addresses
  <2>7. CASE e.addr \notin Addresses(candidates[e.type])
    <3>1. e \in candidates'[e.type]
      BY <2>2, <2>4, <2>5, <2>7
    <3> QED
      BY <3>1 DEF Addresses
  <2> QED
    BY <2>6, <2>7
<1> QED
  BY <1>1, ContainersInvariant, PTL DEF PolicySpec, FailedIsRetried

-----------------------------------------------------------------------------
(* A set of peers has one entry of an address. *)
OneEach(S) == \A d, e \in S : d.addr = e.addr => d = e

EachOnce == OneEach(failed) /\ \A t \in Types : OneEach(candidates[t])

LEMMA InsertOne ==
  ASSUME NEW S, NEW e, OneEach(S)
  PROVE  OneEach(Insert(S, e))
  BY DEF OneEach, Insert, Addresses

LEMMA OneEachCounted ==
  ASSUME NEW S \in SUBSET Entry, OneEach(S)
  PROVE  Cardinality(Addresses(S)) = Cardinality(S)
<1> DEFINE f == [a \in Addresses(S) |-> CHOOSE e \in S : e.addr = a]
<1>1. Addresses(S) \subseteq Addrs /\ IsFiniteSet(Addresses(S))
  <2>1. Addresses(S) \subseteq Addrs
    BY DEF Addresses, Entry
  <2> QED
    BY <2>1, PolicyAssumption, FS_Subset
<1>2. \A a \in Addresses(S) : f[a] \in S /\ f[a].addr = a
  <2> SUFFICES ASSUME NEW a \in Addresses(S)
               PROVE  f[a] \in S /\ f[a].addr = a
    OBVIOUS
  <2>1. \E e \in S : e.addr = a
    BY DEF Addresses
  <2> QED
    BY <2>1
<1> HIDE DEF f
<1>3. \A e \in S : e.addr \in Addresses(S) /\ f[e.addr] = e
  BY <1>2 DEF Addresses, OneEach
<1>4. f \in Bijection(Addresses(S), S)
  <2>1. f \in [Addresses(S) -> S]
    BY <1>2 DEF f
  <2>2. IsInjective(f)
    BY <1>2, <2>1 DEF IsInjective
  <2>3. \A e \in S : \E a \in Addresses(S) : f[a] = e
    BY <1>3
  <2> QED
    BY <2>1, <2>2, <2>3 DEF Bijection, Injection, Surjection, IsInjective
<1> QED
  BY <1>1, <1>4, FS_Bijection DEF ExistsBijection

LEMMA EachOnceKept ==
  ASSUME PInv, EachOnce, [PolicyNext]_pvars
  PROVE  EachOnce'
<1>0. candidates \in [Types -> SUBSET Entry]
  BY DEF PInv, PeersOK
<1>1. ASSUME UNCHANGED <<candidates, failed>>
      PROVE  EachOnce'
  BY <1>1 DEF EachOnce
<1>2. CASE AddCandidate
  <2>1. /\ failed' = failed
        /\ \/ candidates' = candidates
           \/ candidates' = [candidates EXCEPT ![adding.type] = Insert(@, adding)]
    BY <1>2 DEF AddCandidate
  <2>2. \A t \in Types : candidates'[t] = candidates[t] \/ candidates'[t] = Insert(candidates[t], adding)
    BY <1>0, <2>1
  <2> QED
    BY <2>1, <2>2, InsertOne DEF EachOnce
<1>3. ASSUME NEW c \in Conns, FailToConnectPeer(c)
      PROVE  EachOnce'
  <2>1. failed' = failed \/ \E e : failed' = Insert(failed, e)
    BY <1>3 DEF FailToConnectPeer
  <2>2. candidates' = candidates
    BY <1>3 DEF FailToConnectPeer
  <2> QED
    BY <2>1, <2>2, InsertOne DEF EachOnce
<1>4. CASE UpdateFailedPeers
  <2>1. PICK due \in SUBSET failed :
          /\ failed' = failed \ due
          /\ candidates' =
               [t \in Types |->
                  candidates[t] \cup {e \in due : e.type = t /\ t # "innerProxy"
                                                    /\ e.addr \notin Addresses(candidates[t])}]
    BY <1>4 DEF UpdateFailedPeers
  <2>2. OneEach(failed')
    BY <2>1 DEF EachOnce, OneEach
  <2>3. ASSUME NEW t \in Types
        PROVE  OneEach(candidates'[t])
    BY <2>1 DEF EachOnce, OneEach, Addresses
  <2> QED
    BY <2>2, <2>3 DEF EachOnce
<1>5. ASSUME \A t \in Types : candidates'[t] \subseteq candidates[t], failed' = failed
      PROVE  EachOnce'
  BY <1>5 DEF EachOnce, OneEach
<1>6. ASSUME NEW t \in Types, TryConnect(t)
      PROVE  EachOnce'
  BY <1>0, <1>5, <1>6 DEF TryConnect
<1>7. CASE SetSeed
  BY <1>0, <1>5, <1>7 DEF SetSeed
<1>8. CASE \/ ClearInactiveConnections \/ CheckBlocked \/ TryRetrieveConnectablePeers \/ SetBlocked
           \/ ConnectOnePeer \/ \E a \in Addrs : \E t \in Types : AddPeer(a, t)
  BY <1>1, <1>8 DEF ClearInactiveConnections, CheckBlocked, TryRetrieveConnectablePeers, SetBlocked,
                    ConnectOnePeer, AddPeer, peers
<1>9. CASE \E c \in Conns : \/ PeerConnected(c) \/ Close(c) \/ AddPeerConnection(c)
                            \/ IncommingPeerConnecton(c) \/ OnAssignPieceMsg(c)
  BY <1>1, <1>9 DEF PeerConnected, Close, AddPeerConnection, IncommingPeerConnecton, OnAssignPieceMsg, peers
<1>10. CASE UNCHANGED pvars
  BY <1>1, <1>10 DEF pvars, peers
<1> QED
  BY <1>2, <1>3, <1>4, <1>6, <1>7, <1>8, <1>9, <1>10 DEF PolicyNext, OnTick

IsMap == connected = [a \in DOMAIN connected |-> connected[a]]

LEMMA MapKept ==
  ASSUME IsMap, [PolicyNext]_pvars
  PROVE  IsMap'
<1>1. ASSUME connected' = connected
      PROVE  IsMap'
  BY <1>1 DEF IsMap
<1>2. CASE ClearInactiveConnections
  <2>1. PICK K : connected' = [a \in DOMAIN connected \ K |-> connected[a]]
    BY <1>2 DEF ClearInactiveConnections
  <2> QED
    BY <2>1 DEF IsMap
<1>3. ASSUME NEW c \in Conns, PeerConnected(c)
      PROVE  IsMap'
  <2>1. CASE connected' = connected
    BY <1>1, <2>1
  <2>2. CASE connected' = [a \in DOMAIN connected \cup {conn[c].addr} |->
                             IF a = conn[c].addr THEN c ELSE connected[a]]
    BY <2>2 DEF IsMap
  <2> QED
    BY <1>3, <2>1, <2>2 DEF PeerConnected
<1>4. CASE \/ CheckBlocked \/ UpdateFailedPeers \/ TryRetrieveConnectablePeers \/ ConnectOnePeer
           \/ \E t \in Types : TryConnect(t)
           \/ AddCandidate \/ SetSeed \/ SetBlocked
           \/ \E a \in Addrs : \E t \in Types : AddPeer(a, t)
  BY <1>1, <1>4 DEF CheckBlocked, UpdateFailedPeers, TryRetrieveConnectablePeers, ConnectOnePeer,
                    TryConnect, AddCandidate, SetSeed, SetBlocked, AddPeer, peers
<1>5. CASE \E c \in Conns : \/ FailToConnectPeer(c) \/ Close(c) \/ AddPeerConnection(c)
                            \/ IncommingPeerConnecton(c) \/ OnAssignPieceMsg(c)
  BY <1>1, <1>5 DEF FailToConnectPeer, Close, AddPeerConnection, IncommingPeerConnecton,
                    OnAssignPieceMsg, peers
<1>6. CASE UNCHANGED pvars
  BY <1>1, <1>6 DEF pvars, peers
<1> QED
  BY <1>2, <1>3, <1>4, <1>5, <1>6 DEF PolicyNext, OnTick

(* The containers hold entries, one of each address, however often trackers *)
(* and the UGS name a peer.                                                *)
THEOREM ContainersTyped == PolicySpec => []PolicyTypeOK
<1>1. PolicyInit => EachOnce /\ IsMap
  BY DEF PolicyInit, EachOnce, OneEach, IsMap
<1>2. PInv /\ EachOnce /\ IsMap => PolicyTypeOK
  <2> SUFFICES ASSUME PInv, EachOnce, IsMap
               PROVE  PolicyTypeOK
    OBVIOUS
  <2>1. \A S \in {failed} \cup {candidates[t] : t \in Types} :
          Cardinality(Addresses(S)) = Cardinality(S)
    BY OneEachCounted DEF PInv, PeersOK, EachOnce
  <2>2. connected \in [DOMAIN connected -> Conns]
    <3>1. \A a \in DOMAIN connected : connected[a] \in Conns
      BY DEF PInv, ConnOK, ConnectedOK
    <3>2. connected = [a \in DOMAIN connected |-> connected[a]]
      BY DEF IsMap
    <3> QED
      BY <3>1, <3>2
  <2> QED
    BY <2>1, <2>2 DEF PInv, PeersOK, ConnOK, PolicyTypeOK
<1>3. EachOnce /\ IsMap /\ PInv /\ [PolicyNext]_pvars => EachOnce' /\ IsMap'
  BY EachOnceKept, MapKept
<1> QED
  BY <1>1, <1>2, <1>3, ContainersInvariant, PTL DEF PolicySpec

-----------------------------------------------------------------------------
(* What a peer that was named is waiting in, one place at a time: the      *)
(* hands of the thread that named it, those of the timer, the failed       *)
(* peers, the candidates of one type, or a connection under way or open.   *)
Places == ({"adding", "chosen", "failed"} \X {"peer"})
            \cup ({"candidate"} \X Types) \cup ({"connection"} \X Conns)

At(a, p) ==
  \/ p = <<"adding", "peer">> /\ adding # None /\ adding.addr = a
  \/ p = <<"chosen", "peer">> /\ chosen # None /\ chosen.addr = a
  \/ p = <<"failed", "peer">> /\ a \in Addresses(failed)
  \/ \E t \in Types : p = <<"candidate", t>> /\ a \in Addresses(candidates[t])
  \/ \E c \in Conns : /\ p = <<"connection", c>> /\ conn[c] # None /\ conn[c].active
                      /\ conn[c].addr = a /\ conn[c].state \in {"connecting", "open"}

AtOnePlace ==
  \A a \in Addrs :
    /\ \A p, q \in Places : At(a, p) /\ At(a, q) => p = q
    /\ adds[a] = 0 => \A p \in Places : ~At(a, p)

ActiveOK(r) == r.active => r.addr \in Addrs /\ r.state # "arriving"

ActiveIsNamed == \A c \in Conns : conn[c] # None => ActiveOK(conn[c])

OneInv == adds \in [Addrs -> Nat] /\ ActiveIsNamed /\ AtOnePlace

LEMMA Fewer ==
  ASSUME AtOnePlace, adds' = adds, \A a \in Addrs, p \in Places : At(a, p)' => At(a, p)
  PROVE  AtOnePlace'
  BY DEF AtOnePlace

LEMMA Moved ==
  ASSUME AtOnePlace, adds' = adds,
         NEW b \in Addrs, NEW p0 \in Places, NEW p1, At(b, p0),
         \A a \in Addrs, p \in Places :
           At(a, p)' => (At(a, p) /\ ~(a = b /\ p = p0)) \/ (a = b /\ p = p1)
  PROVE  AtOnePlace'
<1>1. adds[b] # 0 /\ \A p \in Places : At(b, p) => p = p0
  BY DEF AtOnePlace
<1>2. ASSUME NEW a \in Addrs, NEW p \in Places, At(a, p)'
      PROVE  IF a = b THEN p = p1 ELSE At(a, p)
  BY <1>1, <1>2
<1> QED
  BY <1>1, <1>2 DEF AtOnePlace

LEMMA NamedKept ==
  ASSUME PInv, OneInv, EachOnce, MaxAdds <= 1, NEW a \in Addrs, NEW t \in Types, AddPeer(a, t)
  PROVE  AtOnePlace'
<1>1. adds \in [Addrs -> Nat] /\ adds[a] = 0 /\ adds' = [adds EXCEPT ![a] = @ + 1]
  BY PolicyAssumption DEF OneInv, AddPeer
<1>2. ASSUME NEW x \in Addrs, NEW p \in Places, At(x, p)'
      PROVE  (x # a /\ At(x, p)) \/ (x = a /\ p = <<"adding", "peer">>)
  <2>1. adding' = None \/ adding'.addr = a
    BY <1>2 DEF AddPeer
  <2>2. UNCHANGED <<chosen, failed, candidates, conn>>
    BY DEF AddPeer, peers
  <2>3. ~At(a, p)
    BY <1>1 DEF OneInv, AtOnePlace
  <2> QED
    BY <1>2, <2>1, <2>2, <2>3 DEF At
<1>3. \A x \in Addrs : x # a => adds'[x] = adds[x]
  BY <1>1
<1>4. adds'[a] = 1
  BY <1>1
<1> QED
  BY <1>2, <1>3, <1>4 DEF OneInv, AtOnePlace

LEMMA AddedKept ==
  ASSUME PInv, OneInv, AddCandidate
  PROVE  AtOnePlace'
<1>1. adding \in Entry /\ adding # None
  BY DEF PInv, PeersOK, AddCandidate
<1>2. adding.addr \in Addrs /\ adding.type \in Types
  BY <1>1 DEF Entry
<1> DEFINE p0 == <<"adding", "peer">>
           p1 == <<"candidate", adding.type>>
<1>3. p0 \in Places /\ At(adding.addr, p0)
  BY <1>1 DEF Places, At
<1>4. /\ adding' = None
      /\ \A t \in Types : \/ candidates'[t] = candidates[t]
                          \/ t = adding.type /\ candidates'[t] = Insert(candidates[t], adding)
      /\ UNCHANGED <<chosen, failed, conn, adds>>
  BY DEF AddCandidate, PInv, PeersOK
<1>5. \A S, x : x \in Addresses(Insert(S, adding)) => x \in Addresses(S) \/ x = adding.addr
  BY DEF Addresses, Insert
<1>6. \A a \in Addrs, p \in Places :
        At(a, p)' => (At(a, p) /\ ~(a = adding.addr /\ p = p0)) \/ (a = adding.addr /\ p = p1)
  <2> SUFFICES ASSUME NEW a \in Addrs, NEW p \in Places, At(a, p)'
               PROVE  (At(a, p) /\ ~(a = adding.addr /\ p = p0)) \/ (a = adding.addr /\ p = p1)
    OBVIOUS
  <2>1. p # p0
    BY <1>4 DEF At
  <2>2. CASE \E t \in Types : p = <<"candidate", t>> /\ a \in Addresses(candidates'[t])
    BY <1>4, <1>5, <2>1, <2>2 DEF At
  <2>3. CASE ~\E t \in Types : p = <<"candidate", t>> /\ a \in Addresses(candidates'[t])
    BY <1>4, <2>1, <2>3 DEF At
  <2> QED
    BY <2>2, <2>3
<1> HIDE DEF p0, p1
<1>7. PICK b : b = adding.addr
  OBVIOUS
<1>8. PICK q : q = p1
  OBVIOUS
<1> QED
  BY <1>2, <1>3, <1>4, <1>6, <1>7, <1>8, Moved DEF OneInv

LEMMA FailedOnceKept ==
  ASSUME PInv, OneInv, NEW c \in Conns, FailToConnectPeer(c)
  PROVE  AtOnePlace'
<1> DEFINE p0 == <<"connection", c>>
           p1 == <<"failed", "peer">>
<1>1. conn[c] \in Connection /\ conn[c].active /\ conn[c].addr \in Addrs /\ conn[c] # None
  BY DEF PInv, ConnOK, ConnectingIsManaged, Connecting, FailToConnectPeer
<1>2. p0 \in Places /\ At(conn[c].addr, p0)
  BY <1>1 DEF Places, At, FailToConnectPeer
<1>3. /\ \A d \in Conns : d # c => conn'[d] = conn[d]
      /\ conn'[c] = None \/ conn'[c].state = "refused"
      /\ UNCHANGED <<chosen, adding, candidates, adds>>
      /\ \A x : x \in Addresses(failed') => x \in Addresses(failed) \/ x = conn[c].addr
  <2>1. conn \in [Conns -> Connection \cup {None}]
    BY DEF PInv, ConnOK
  <2>2. CASE conn[c].tried >= MaxTries
    <3>1. [conn[c] EXCEPT !.state = "refused"].state = "refused"
      BY <1>1 DEF Connection
    <3> QED
      BY <2>1, <2>2, <3>1 DEF FailToConnectPeer, SetState
  <2>3. CASE ~(conn[c].tried >= MaxTries)
    BY <2>1, <2>3 DEF FailToConnectPeer, Release, Insert, Addresses
  <2> QED
    BY <2>2, <2>3
<1>4. PICK b : b = conn[c].addr
  OBVIOUS
<1>5. \A a \in Addrs, p \in Places :
        At(a, p)' => (At(a, p) /\ ~(a = b /\ p = p0)) \/ (a = b /\ p = p1)
  <2> SUFFICES ASSUME NEW a \in Addrs, NEW p \in Places, At(a, p)'
               PROVE  (At(a, p) /\ ~(a = b /\ p = p0)) \/ (a = b /\ p = p1)
    OBVIOUS
  <2>1. p # p0
    BY <1>3 DEF At
  <2> QED
    BY <1>3, <1>4, <2>1 DEF At
<1> QED
  BY <1>1, <1>2, <1>3, <1>4, <1>5, Moved, SMTT(30) DEF OneInv

LEMMA RetriedKept ==
  ASSUME PInv, OneInv, EachOnce, UpdateFailedPeers
  PROVE  AtOnePlace'
<1>1. PICK due \in SUBSET failed :
        /\ failed' = failed \ due
        /\ candidates' =
             [t \in Types |->
                candidates[t] \cup {e \in due : e.type = t /\ t # "innerProxy"
                                                  /\ e.addr \notin Addresses(candidates[t])}]
  BY DEF UpdateFailedPeers
<1>2. UNCHANGED <<chosen, adding, conn, adds>>
  BY DEF UpdateFailedPeers
<1> DEFINE Again(a, p) == \E e \in due : e.addr = a /\ p = <<"candidate", e.type>>
<1>3. ASSUME NEW a \in Addrs, NEW p \in Places, At(a, p)'
      PROVE  Again(a, p) \/ (At(a, p) /\ ~\E e \in due : e.addr = a /\ p = <<"failed", "peer">>)
  <2>1. CASE p = <<"failed", "peer">>
    <3>1. a \in Addresses(failed')
      BY <1>3, <2>1 DEF At
    <3> QED
      BY <1>1, <2>1, <3>1 DEF At, Addresses, EachOnce, OneEach
  <2>2. CASE \E t \in Types : p = <<"candidate", t>> /\ a \in Addresses(candidates'[t])
    BY <1>1, <2>2 DEF At, Addresses
  <2>3. CASE p # <<"failed", "peer">> /\ ~\E t \in Types : p = <<"candidate", t>> /\ a \in Addresses(candidates'[t])
    BY <1>2, <1>3, <2>3 DEF At
  <2> QED
    BY <2>1, <2>2, <2>3
<1>4. \A a \in Addrs, e \in due : e.addr = a => At(a, <<"failed", "peer">>) /\ <<"failed", "peer">> \in Places
  BY DEF At, Addresses, Places
<1>5. ASSUME NEW a \in Addrs, NEW p \in Places, NEW q \in Places, At(a, p)', At(a, q)'
      PROVE  p = q
  <2>1. CASE Again(a, p) /\ Again(a, q)
    BY <2>1 DEF EachOnce, OneEach
  <2>2. CASE ~Again(a, p) /\ ~Again(a, q)
    BY <1>3, <1>5, <2>2 DEF OneInv, AtOnePlace
  <2>3. ASSUME NEW x \in Places, NEW y \in Places, Again(a, x), ~Again(a, y), At(a, y)'
        PROVE  FALSE
    <3>1. PICK e \in due : e.addr = a
      BY <2>3
    <3>2. At(a, y) /\ y # <<"failed", "peer">>
      BY <1>3, <2>3, <3>1
    <3> QED
      BY <1>4, <3>1, <3>2 DEF OneInv, AtOnePlace
  <2> QED
    BY <1>5, <2>1, <2>2, <2>3
<1>6. ASSUME NEW a \in Addrs, NEW p \in Places, At(a, p)'
      PROVE  adds[a] # 0
  BY <1>3, <1>4, <1>6 DEF OneInv, AtOnePlace
<1> QED
  BY <1>2, <1>5, <1>6 DEF AtOnePlace

LEMMA ChosenKept ==
  ASSUME PInv, OneInv, EachOnce, NEW t \in Types, TryConnect(t)
  PROVE  AtOnePlace'
<1>1. CASE UNCHANGED <<candidates, chosen>>
  <2>1. UNCHANGED <<candidates, chosen, adding, failed, conn, adds>>
    BY <1>1 DEF TryConnect
  <2> QED
    BY <2>1, Fewer DEF OneInv, At
<1>2. CASE \E e \in candidates[t] : /\ candidates' = [candidates EXCEPT ![t] = @ \ {e}]
                                    /\ chosen' = e
  <2>1. PICK e \in candidates[t] : candidates' = [candidates EXCEPT ![t] = @ \ {e}] /\ chosen' = e
    BY <1>2
  <2>2. UNCHANGED <<adding, failed, conn, adds>> /\ chosen = None
    BY DEF TryConnect
  <2>3. /\ e.addr \in Addrs
        /\ \A u \in Types : u # t => candidates'[u] = candidates[u]
        /\ candidates'[t] = candidates[t] \ {e}
    BY <2>1 DEF PInv, PeersOK, Entry
  <2> DEFINE p0 == <<"candidate", t>>
             p1 == <<"chosen", "peer">>
  <2>4. p0 \in Places /\ At(e.addr, p0)
    BY DEF Places, At, Addresses
  <2>5. e.addr \notin Addresses(candidates'[t]) /\ \A x \in Addresses(candidates'[t]) : x \in Addresses(candidates[t])
    BY <2>3 DEF Addresses, EachOnce, OneEach
  <2>6. ASSUME NEW a \in Addrs, NEW p \in Places, At(a, p)'
        PROVE  (At(a, p) /\ ~(a = e.addr /\ p = p0)) \/ (a = e.addr /\ p = p1)
    <3>1. CASE \E u \in Types : p = <<"candidate", u>> /\ a \in Addresses(candidates'[u])
      BY <2>3, <2>5, <3>1 DEF At
    <3>2. CASE ~\E u \in Types : p = <<"candidate", u>> /\ a \in Addresses(candidates'[u])
      BY <2>1, <2>2, <2>6, <3>2 DEF At
    <3> QED
      BY <3>1, <3>2
  <2> HIDE DEF p0, p1
  <2> QED
    BY <2>2, <2>3, <2>4, <2>6, Moved DEF OneInv
<1> QED
  BY <1>1, <1>2 DEF TryConnect

LEMMA ConnectKept ==
  ASSUME PInv, OneInv, ConnectOnePeer
  PROVE  AtOnePlace'
<1>1. chosen \in Entry /\ chosen # None /\ chosen' = None
  BY DEF PInv, PeersOK, ConnectOnePeer
<1>2. UNCHANGED <<adding, failed, candidates, adds>>
  BY DEF ConnectOnePeer, peers
<1>3. CASE conn' = conn
  BY <1>1, <1>2, <1>3, Fewer DEF OneInv, At
<1>4. ASSUME NEW c \in Conns,
             conn' = [conn EXCEPT ![c] = [addr |-> chosen.addr, type |-> chosen.type,
                                          tried |-> chosen.tried, active |-> TRUE,
                                          proxy |-> FALSE, state |-> "connecting"]]
      PROVE  AtOnePlace'
  <2> DEFINE p0 == <<"chosen", "peer">>
             p1 == <<"connection", c>>
  <2>1. PICK b : b = chosen.addr
    OBVIOUS
  <2>2. b \in Addrs /\ p0 \in Places /\ At(b, p0)
    BY <1>1, <2>1 DEF Places, At, Entry
  <2>3. conn'[c].addr = b /\ \A d \in Conns : d # c => conn'[d] = conn[d]
    BY <1>4, <2>1 DEF PInv, ConnOK
  <2>4. ASSUME NEW a \in Addrs, NEW p \in Places, At(a, p)'
        PROVE  (At(a, p) /\ ~(a = b /\ p = p0)) \/ (a = b /\ p = p1)
    <3>1. CASE \E d \in Conns : p = <<"connection", d>>
      BY <2>3, <2>4, <3>1 DEF At
    <3>2. CASE ~\E d \in Conns : p = <<"connection", d>>
      BY <1>1, <1>2, <2>4, <3>2 DEF At
    <3> QED
      BY <3>1, <3>2
  <2> HIDE DEF p0, p1
  <2> QED
    BY <1>2, <2>2, <2>4, Moved DEF OneInv
<1> QED
  BY <1>3, <1>4 DEF ConnectOnePeer

(* What else happens to connections takes none to where it was not. *)
LEMMA ConnectionsOnceKept ==
  ASSUME PInv, OneInv,
         ClearInactiveConnections \/ \E c \in Conns : \/ PeerConnected(c) \/ Close(c) \/ AddPeerConnection(c)
                                                      \/ IncommingPeerConnecton(c) \/ OnAssignPieceMsg(c)
  PROVE  AtOnePlace'
<1>1. UNCHANGED <<adding, chosen, failed, candidates, adds>>
  BY DEF ClearInactiveConnections, PeerConnected, Close, AddPeerConnection, IncommingPeerConnecton,
         OnAssignPieceMsg, peers
<1>2. ASSUME \A c \in Conns : conn'[c] # None =>
               \/ ~conn'[c].active
               \/ conn'[c].state \notin {"connecting", "open"}
               \/ /\ conn[c] # None /\ conn[c].active /\ conn[c].addr = conn'[c].addr
                  /\ conn[c].state \in {"connecting", "open"}
      PROVE  AtOnePlace'
  <2>1. ASSUME NEW a \in Addrs, NEW p \in Places, At(a, p)'
        PROVE  At(a, p)
    <3>1. CASE \E d \in Conns : p = <<"connection", d>>
      BY <1>2, <2>1, <3>1 DEF At
    <3>2. CASE ~\E d \in Conns : p = <<"connection", d>>
      BY <1>1, <2>1, <3>2 DEF At
    <3> QED
      BY <3>1, <3>2
  <2> QED
    BY <1>1, <2>1, Fewer DEF OneInv
<1>3. conn \in [Conns -> Connection \cup {None}] /\ None \notin Connection
  BY PolicyAssumption DEF PInv, ConnOK
<1>4. CASE ClearInactiveConnections
  <2>1. \A c \in Conns : conn'[c] = None \/ conn'[c] = conn[c]
    BY <1>4 DEF ClearInactiveConnections, Release
  <2>2. ASSUME NEW c \in Conns, conn'[c] # None, conn'[c].active, conn'[c].state \in {"connecting", "open"}
        PROVE  /\ conn[c] # None /\ conn[c].active /\ conn[c].addr = conn'[c].addr
               /\ conn[c].state \in {"connecting", "open"}
    BY <2>1, <2>2
  <2> QED
    BY <1>2, <2>2
<1>5. ASSUME NEW c \in Conns, NEW s, conn[c] # None, SetState(c, s),
             \/ s \notin {"connecting", "open"} \/ conn[c].state = "connecting" \/ ~conn[c].active
      PROVE  AtOnePlace'
  <2>1. conn[c] \in Connection /\ \A d \in Conns : d # c => conn'[d] = conn[d]
    BY <1>3, <1>5 DEF SetState
  <2>2. conn'[c] = [conn[c] EXCEPT !.state = s]
    BY <1>3, <1>5 DEF SetState
  <2>3. conn'[c].addr = conn[c].addr /\ (conn'[c].active <=> conn[c].active) /\ conn'[c].state = s
    BY <2>1, <2>2 DEF Connection
  <2>4. ASSUME NEW d \in Conns, conn'[d] # None, conn'[d].active, conn'[d].state \in {"connecting", "open"}
        PROVE  /\ conn[d] # None /\ conn[d].active /\ conn[d].addr = conn'[d].addr
               /\ conn[d].state \in {"connecting", "open"}
    <3>1. CASE d = c
      BY <1>5, <2>3, <2>4, <3>1
    <3>2. CASE d # c
      BY <2>1, <2>4, <3>2
    <3> QED
      BY <3>1, <3>2
  <2> QED
    BY <1>2, <2>4
<1>6. ASSUME NEW c \in Conns, PeerConnected(c) \/ Close(c) \/ AddPeerConnection(c)
      PROVE  AtOnePlace'
  <2>1. CASE PeerConnected(c)
    BY <1>5, <2>1 DEF PeerConnected
  <2>2. CASE Close(c)
    BY <1>5, <2>2 DEF Close
  <2>3. CASE AddPeerConnection(c)
    BY <1>5, <2>3 DEF AddPeerConnection, OneInv, ActiveIsNamed, ActiveOK
  <2> QED
    BY <1>6, <2>1, <2>2, <2>3
<1>7. ASSUME NEW c \in Conns, IncommingPeerConnecton(c)
      PROVE  AtOnePlace'
  <2>1. ~conn'[c].active /\ \A d \in Conns : d # c => conn'[d] = conn[d]
    BY <1>3, <1>7 DEF IncommingPeerConnecton
  <2>2. ASSUME NEW d \in Conns, conn'[d] # None, conn'[d].active, conn'[d].state \in {"connecting", "open"}
        PROVE  /\ conn[d] # None /\ conn[d].active /\ conn[d].addr = conn'[d].addr
               /\ conn[d].state \in {"connecting", "open"}
    BY <2>1, <2>2
  <2> QED
    BY <1>2, <2>2
<1>8. ASSUME NEW c \in Conns, OnAssignPieceMsg(c)
      PROVE  AtOnePlace'
  <2>1. /\ ~conn[c].active /\ conn' = [conn EXCEPT ![c].proxy = TRUE] /\ conn[c] \in Connection
    BY <1>3, <1>8 DEF OnAssignPieceMsg, PInv, ConnOK
  <2>2. conn'[c] = [conn[c] EXCEPT !.proxy = TRUE] /\ \A d \in Conns : d # c => conn'[d] = conn[d]
    BY <1>3, <2>1
  <2>3. ~conn'[c].active
    BY <2>1, <2>2 DEF Connection
  <2>4. ASSUME NEW d \in Conns, conn'[d] # None, conn'[d].active, conn'[d].state \in {"connecting", "open"}
        PROVE  /\ conn[d] # None /\ conn[d].active /\ conn[d].addr = conn'[d].addr
               /\ conn[d].state \in {"connecting", "open"}
    BY <2>2, <2>3, <2>4
  <2> QED
    BY <1>2, <2>4
<1> QED
  BY <1>4, <1>6, <1>7, <1>8

LEMMA ActiveKept ==
  ASSUME PInv, ActiveIsNamed, PolicyNext
  PROVE  ActiveIsNamed'
<1>1. conn \in [Conns -> Connection \cup {None}] /\ None \notin Connection
  BY PolicyAssumption DEF PInv, ConnOK
<1>2. ASSUME \A c \in Conns : \/ conn'[c] = None \/ conn'[c] = conn[c]
                             \/ ActiveOK(conn'[c])
      PROVE  ActiveIsNamed'
  BY <1>2 DEF ActiveIsNamed
<1>3. ASSUME NEW c \in Conns, NEW s \in {"open", "refused", "closed"}, conn[c] # None, SetState(c, s)
      PROVE  ActiveIsNamed'
  <2>1. conn'[c] = [conn[c] EXCEPT !.state = s] /\ conn[c] \in Connection
    BY <1>1, <1>3 DEF SetState
  <2>2. /\ conn'[c].state = s /\ conn'[c].addr = conn[c].addr /\ (conn'[c].active <=> conn[c].active)
        /\ \A d \in Conns : d # c => conn'[d] = conn[d]
    BY <1>1, <1>3, <2>1 DEF SetState, Connection
  <2>3. ActiveOK(conn'[c])
    BY <1>3, <2>2 DEF ActiveIsNamed, ActiveOK
  <2> QED
    BY <1>2, <2>2, <2>3
<1>4. ASSUME NEW c \in Conns, PeerConnected(c) \/ Close(c) \/ AddPeerConnection(c)
      PROVE  ActiveIsNamed'
  BY <1>3, <1>4 DEF PeerConnected, Close, AddPeerConnection
<1>5. ASSUME NEW c \in Conns, FailToConnectPeer(c)
      PROVE  ActiveIsNamed'
  <2>1. CASE SetState(c, "refused")
    BY <1>3, <1>5, <2>1 DEF FailToConnectPeer
  <2>2. CASE conn' = Release({c})
    BY <1>2, <2>2 DEF Release
  <2> QED
    BY <1>5, <2>1, <2>2 DEF FailToConnectPeer
<1>6. CASE ClearInactiveConnections
  BY <1>2, <1>6 DEF ClearInactiveConnections, Release
<1>7. ASSUME NEW c \in Conns, IncommingPeerConnecton(c)
      PROVE  ActiveIsNamed'
  <2>1. ~conn'[c].active /\ \A d \in Conns : d # c => conn'[d] = conn[d]
    BY <1>1, <1>7 DEF IncommingPeerConnecton
  <2> QED
    BY <1>2, <2>1 DEF ActiveOK
<1>8. ASSUME NEW c \in Conns, OnAssignPieceMsg(c)
      PROVE  ActiveIsNamed'
  <2>1. /\ ~conn[c].active /\ conn' = [conn EXCEPT ![c].proxy = TRUE] /\ conn[c] \in Connection
    BY <1>1, <1>8 DEF OnAssignPieceMsg, PInv, ConnOK
  <2>2. conn'[c] = [conn[c] EXCEPT !.proxy = TRUE] /\ \A d \in Conns : d # c => conn'[d] = conn[d]
    BY <1>1, <2>1
  <2>3. ~conn'[c].active
    BY <2>1, <2>2 DEF Connection
  <2> QED
    BY <1>2, <2>2, <2>3 DEF ActiveOK
<1>9. CASE ConnectOnePeer
  <2>1. chosen.addr \in Addrs
    BY <1>9 DEF ConnectOnePeer, PInv, PeersOK, Entry
  <2>2. \A c \in Conns : \/ conn'[c] = conn[c]
                         \/ conn'[c].state = "connecting" /\ conn'[c].addr = chosen.addr
    BY <1>1, <1>9 DEF ConnectOnePeer
  <2> QED
    BY <1>2, <2>1, <2>2 DEF ActiveOK
<1>10. CASE \/ CheckBlocked \/ UpdateFailedPeers \/ TryRetrieveConnectablePeers \/ SetSeed \/ SetBlocked
            \/ AddCandidate \/ \E t \in Types : TryConnect(t) \/ \E a \in Addrs : AddPeer(a, t)
  <2>1. conn' = conn
    BY <1>10 DEF CheckBlocked, UpdateFailedPeers, TryRetrieveConnectablePeers, SetSeed, SetBlocked,
                 AddCandidate, TryConnect, AddPeer
  <2> QED
    BY <1>2, <2>1
<1> QED
  BY <1>4, <1>5, <1>6, <1>7, <1>8, <1>9, <1>10 DEF PolicyNext, OnTick

LEMMA AtOnePlaceKept ==
  ASSUME PInv, EachOnce, OneInv, MaxAdds <= 1, PolicyNext
  PROVE  AtOnePlace'
<1>1. CASE \/ CheckBlocked \/ TryRetrieveConnectablePeers \/ SetBlocked
  BY <1>1, Fewer DEF CheckBlocked, TryRetrieveConnectablePeers, SetBlocked, OneInv, At, peers
<1>2. CASE SetSeed
  <2>1. \A t \in Types : candidates'[t] \subseteq candidates[t]
    BY <1>2 DEF SetSeed, PInv, PeersOK
  <2>2. UNCHANGED <<adding, chosen, failed, conn, adds>>
    BY <1>2 DEF SetSeed
  <2>3. ASSUME NEW a \in Addrs, NEW p \in Places, At(a, p)'
        PROVE  At(a, p)
    <3>1. CASE \E u \in Types : p = <<"candidate", u>> /\ a \in Addresses(candidates'[u])
      BY <2>1, <3>1 DEF At, Addresses
    <3>2. CASE ~\E u \in Types : p = <<"candidate", u>> /\ a \in Addresses(candidates'[u])
      BY <2>2, <2>3, <3>2 DEF At
    <3> QED
      BY <3>1, <3>2
  <2> QED
    BY <2>2, <2>3, Fewer DEF OneInv
<1>3. CASE ClearInactiveConnections \/ \E c \in Conns : \/ PeerConnected(c) \/ Close(c) \/ AddPeerConnection(c)
                                                        \/ IncommingPeerConnecton(c) \/ OnAssignPieceMsg(c)
  BY <1>3, ConnectionsOnceKept
<1>4. CASE \/ \E c \in Conns : FailToConnectPeer(c)
           \/ \E a \in Addrs : \E t \in Types : AddPeer(a, t)
           \/ \E t \in Types : TryConnect(t)
           \/ AddCandidate \/ UpdateFailedPeers \/ ConnectOnePeer
  BY <1>4, NamedKept, AddedKept, FailedOnceKept, RetriedKept, ChosenKept, ConnectKept
<1> QED
  BY <1>1, <1>2, <1>3, <1>4 DEF PolicyNext, OnTick

LEMMA OneInvKept ==
  ASSUME PInv, EachOnce, OneInv, MaxAdds <= 1, [PolicyNext]_pvars
  PROVE  OneInv'
<1>1. CASE PolicyNext
  <2>1. \/ adds' = adds
        \/ \E a \in Addrs : adds' = [adds EXCEPT ![a] = @ + 1]
    BY <1>1 DEF PolicyNext, OnTick, ClearInactiveConnections, CheckBlocked, UpdateFailedPeers,
                TryRetrieveConnectablePeers, TryConnect, ConnectOnePeer, AddPeer, AddCandidate,
                PeerConnected, FailToConnectPeer, Close, AddPeerConnection, IncommingPeerConnecton,
                OnAssignPieceMsg, SetSeed, SetBlocked
  <2>2. adds' \in [Addrs -> Nat]
    BY <2>1 DEF OneInv
  <2> QED
    BY <1>1, <2>2, ActiveKept, AtOnePlaceKept DEF OneInv
<1>2. CASE UNCHANGED pvars
  <2>1. UNCHANGED <<candidates, failed, chosen, adding, conn, adds>>
    BY <1>2 DEF pvars, peers
  <2> QED
    BY <2>1 DEF OneInv, ActiveIsNamed, ActiveOK, AtOnePlace, At
<1> QED
  BY <1>1, <1>2

(* A peer that trackers and UGS name no more than once has one connection  *)
(* at a time: what the timer connects to has left the candidates, and      *)
(* comes back through the failed peers only when its connection is gone.   *)
THEOREM OnePerPeer ==
  ASSUME MaxAdds <= 1
  PROVE  PolicySpec => []PolicyConsistent
<1>1. PolicyInit => OneInv /\ EachOnce
  BY DEF PolicyInit, OneInv, AtOnePlace, At, ActiveIsNamed, ActiveOK, Addresses, EachOnce, OneEach
<1>2. PInv /\ OneInv => OneConnectionPerPeer
  <2> SUFFICES ASSUME PInv, OneInv, NEW c \in connMap, NEW d \in connMap,
                      conn[c].active, conn[d].active, conn[c].addr = conn[d].addr,
                      {conn[c].state, conn[d].state} \subseteq {"connecting", "open"}
               PROVE  c = d
    BY DEF OneConnectionPerPeer
  <2>1. c \in Conns /\ d \in Conns /\ conn[c] # None /\ conn[d] # None
    BY PolicyAssumption DEF PInv, ConnOK
  <2>2. conn[c].addr \in Addrs
    BY <2>1 DEF OneInv, ActiveIsNamed, ActiveOK
  <2>3. /\ At(conn[c].addr, <<"connection", c>>) /\ <<"connection", c>> \in Places
        /\ At(conn[c].addr, <<"connection", d>>) /\ <<"connection", d>> \in Places
    BY <2>1 DEF At, Places
  <2> QED
    BY <2>2, <2>3 DEF OneInv, AtOnePlace
<1>3. PInv /\ EachOnce /\ OneInv /\ [PolicyNext]_pvars => EachOnce' /\ OneInv'
  BY EachOnceKept, OneInvKept
<1> QED
  BY <1>1, <1>2, <1>3, ContainersInvariant, ContainersTyped, PTL DEF PolicySpec, PolicyConsistent

-----------------------------------------------------------------------------
(* A request to a tracker is in one place at a time, under the address of  *)
(* its tracker, and goes only when it has ended or when another one asks   *)
(* the same tracker: for any torrents, trackers and number of requests.    *)

Known(r) == r \in 1 .. Len(target)

InQueue(r) == \E i \in 1 .. Len(queue) : queue[i] = r

TrInv ==
  /\ TrackerTypeOK
  /\ thread = Idle \/ (Known(thread.id) /\ thread.step \in {"process", "insert"})
  /\ DOMAIN thread = {"id", "step"}
  /\ DOMAIN entered \subseteq Trackers
  /\ \A k \in DOMAIN entered : Known(entered[k])
  /\ DOMAIN phase = Requests
  /\ \A r \in Requests : ~Known(r) \/ InQueue(r) \/ r = thread.id => age[r] = 0

LEMMA SetToSeqTyped ==
  ASSUME NEW S, IsFiniteSet(S)
  PROVE  SetToSeq(S) \in Seq(S)
<1>1. Cardinality(S) \in Nat /\ \E f \in [1 .. Cardinality(S) -> S] : IsInjective(f)
  <2>1. PICK n \in Nat : \E f : f \in Bijection(1 .. n, S)
    BY FS_NatBijection DEF ExistsBijection
  <2>2. Cardinality(S) = n
    BY <2>1, FS_CardinalityType, FS_CountingElements DEF ExistsBijection
  <2> QED
    BY <2>1, <2>2 DEF Bijection, Injection, IsInjective
<1>2. SetToSeq(S) \in [1 .. Cardinality(S) -> S]
  BY <1>1 DEF SetToSeq
<1> QED
  BY <1>1, <1>2

LEMMA Orders ==
  ASSUME NEW K \in SUBSET Trackers
  PROVE  SetToSeq(K \cap Http) \o SetToSeq(K \cap Udp) \in Seq(Trackers)
<1>1. IsFiniteSet(K \cap Http) /\ IsFiniteSet(K \cap Udp)
  BY TrackerAssumption, FS_Subset
<1>2. SetToSeq(K \cap Http) \in Seq(K \cap Http) /\ SetToSeq(K \cap Udp) \in Seq(K \cap Udp)
  BY <1>1, SetToSeqTyped
<1>3. \A S, T : S \subseteq T => Seq(S) \subseteq Seq(T)
  OBVIOUS
<1>4. SetToSeq(K \cap Http) \in Seq(Trackers) /\ SetToSeq(K \cap Udp) \in Seq(Trackers)
  BY <1>2, <1>3
<1> QED
  BY <1>4

LEMMA QueueSet ==
  ASSUME NEW S, queue \in Seq(S)
  PROVE  \A r : InQueue(r) <=> r \in ToSet(queue)
  BY DEF ToSet, InQueue

LEMMA InitTracker == TrackerInit => TrInv
<1> SUFFICES ASSUME TrackerInit
             PROVE  TrInv
  OBVIOUS
<1>1. ToSet(queue) = {} /\ Entered = {} /\ DOMAIN entered = {} /\ Len(queue) = 0 /\ Len(target) = 0
  BY DEF TrackerInit, ToSet, Entered
<1>2. TrackerTypeOK
  BY <1>1, TrackerAssumption DEF TrackerInit, TrackerTypeOK, IsInjective
<1> QED
  BY <1>1, <1>2, TrackerAssumption DEF TrackerInit, TrInv, Idle, InQueue, Known

(* The table without the entries of some trackers, or with one more.       *)
LEMMA Leaves ==
  ASSUME NEW K, entered' = Without(K)
  PROVE  /\ DOMAIN entered' = DOMAIN entered \ K
         /\ \A k \in DOMAIN entered' : entered'[k] = entered[k]
         /\ Entered' \subseteq Entered
<1>1. DOMAIN entered' = DOMAIN entered \ K /\ \A k \in DOMAIN entered' : entered'[k] = entered[k]
  BY DEF Without
<1> QED
  BY <1>1 DEF Entered

(* What is not in the table and waits for nothing else stays as it is.     *)
LEMMA FinishKept ==
  ASSUME TrInv, NEW r \in Requests, NEW p, Reach(r, p), entered' = entered \/ Finish(r),
         late' \in [Requests -> BOOLEAN], \A x \in Requests : age[x] = Timeout /\ late[x] => late'[x],
         SocketUnchanged
  PROVE  TrInv'
<1>1. UNCHANGED <<retrieving, known, target, age, queue, thread>>
  BY DEF SocketUnchanged, torrents
<1>2. /\ DOMAIN entered' \subseteq DOMAIN entered
      /\ \A k \in DOMAIN entered' : entered'[k] = entered[k]
      /\ Entered' \subseteq Entered
  <2>1. CASE entered' = entered
    BY <2>1 DEF Entered
  <2>2. CASE entered' = Without({target[r]})
    BY <2>2, Leaves
  <2> QED
    BY <2>1, <2>2 DEF Finish
<1>3. \A k \in DOMAIN entered : entered[k] \in Requests
  BY TrackerAssumption DEF TrInv, TrackerTypeOK, Known, Requests
<1>4. TrackerTypeOK'
  BY <1>1, <1>2, <1>3 DEF TrInv, TrackerTypeOK
<1>5. DOMAIN phase' = Requests
  BY DEF Reach, TrInv
<1> QED
  BY <1>1, <1>2, <1>4, <1>5 DEF TrInv, Known, InQueue

LEMMA SocketsKept ==
  ASSUME TrInv, NEW r \in Requests,
         \/ OnConnect(r) \/ OnReceiveAnswer(r) \/ OnReceiveError(r)
         \/ OnReceiveConnect(r) \/ OnReceiveDatagram(r)
  PROVE  TrInv'
<1>0. late \in [Requests -> BOOLEAN] /\ age \in [Requests -> 0 .. Timeout] /\ Timeout \in Nat \ {0}
  BY TrackerAssumption DEF TrInv, TrackerTypeOK
<1>1. CASE OnConnect(r)
  BY <1>0, <1>1, FinishKept DEF OnConnect
<1>2. CASE OnReceiveAnswer(r)
  BY <1>0, <1>2, FinishKept DEF OnReceiveAnswer
<1>3. CASE OnReceiveError(r)
  BY <1>0, <1>3, FinishKept DEF OnReceiveError
<1>4. CASE OnReceiveConnect(r)
  <2>1. /\ late' \in [Requests -> BOOLEAN]
        /\ \A x \in Requests : age[x] = Timeout /\ late[x] => late'[x]
    BY <1>0, <1>4 DEF OnReceiveConnect
  <2> QED
    BY <1>4, <2>1, FinishKept DEF OnReceiveConnect
<1>5. CASE OnReceiveDatagram(r)
  BY <1>0, <1>5, FinishKept DEF OnReceiveDatagram
<1> QED
  BY <1>1, <1>2, <1>3, <1>4, <1>5

(* New requests have new numbers, behind all that are in the queue.        *)
LEMMA RetrieveKept ==
  ASSUME TrInv, NEW t \in Torrents, NEW K \in SUBSET Trackers, RetrievePeersFromTrackers(t, K),
         known' \in [Torrents -> SUBSET Trackers],
         UNCHANGED <<age, late, thread, entered>>
  PROVE  TrInv'
<1> DEFINE order == SetToSeq(K \cap Http) \o SetToSeq(K \cap Udp)
           first == Len(target) + 1
           news == [i \in 1 .. Len(order) |-> first + i - 1]
<1>1. order \in Seq(Trackers)
  BY Orders
<1>2. /\ Len(target) + 1 + Len(order) - 1 <= MaxRequests
      /\ target' = target \o order /\ queue' = queue \o news
      /\ DOMAIN phase' = Requests
      /\ retrieving' = [retrieving EXCEPT ![t] = FALSE]
  <2>1. Len(target) + Len(order) <= MaxRequests
    BY DEF RetrievePeersFromTrackers
  <2> QED
    BY <1>1, <2>1 DEF RetrievePeersFromTrackers, TrInv, TrackerTypeOK
<1>3. target \in Seq(Trackers) /\ queue \in Seq(1 .. Len(target)) /\ Len(target) \in Nat
  BY DEF TrInv, TrackerTypeOK
<1> HIDE DEF order
<1> DEFINE n == Len(order)
<1>4. /\ n \in Nat /\ target' \in Seq(Trackers) /\ Len(target') = Len(target) + n
      /\ Len(target') <= MaxRequests /\ Len(order) = n
      /\ \A r \in 1 .. Len(target) : target'[r] = target[r]
  BY <1>1, <1>2, <1>3, TrackerAssumption
<1> HIDE DEF n
<1>5. /\ news \in Seq(1 .. Len(target')) /\ Len(news) = n
      /\ \A i \in 1 .. n : news[i] = Len(target) + i
  BY <1>3, <1>4
<1> HIDE DEF news
<1>6. queue' \in Seq(1 .. Len(target'))
  <2>1. queue \in Seq(1 .. Len(target'))
    BY <1>3, <1>4
  <2> QED
    BY <1>2, <1>5, <2>1
<1>7. \A i \in 1 .. Len(queue') :
        \/ i \in 1 .. Len(queue) /\ queue'[i] = queue[i] /\ queue'[i] <= Len(target)
        \/ /\ i - Len(queue) \in 1 .. n
           /\ queue'[i] = Len(target) + (i - Len(queue))
  BY <1>2, <1>3, <1>4, <1>5
<1>8. \A i \in 1 .. Len(queue) : i \in 1 .. Len(queue') /\ queue'[i] = queue[i]
  BY <1>2, <1>3, <1>4, <1>5
<1>9. IsInjective(queue')
  <2>1. \A i, j \in 1 .. Len(queue) : queue[i] = queue[j] => i = j
    BY <1>3 DEF TrInv, TrackerTypeOK, IsInjective
  <2>2. \A i, j \in 1 .. Len(queue') : queue'[i] = queue'[j] => i = j
    <3> SUFFICES ASSUME NEW i \in 1 .. Len(queue'), NEW j \in 1 .. Len(queue'), queue'[i] = queue'[j]
                 PROVE  i = j
      OBVIOUS
    <3>1. Len(queue) \in Nat /\ i \in Int /\ j \in Int
      BY <1>3
    <3>2. CASE i \in 1 .. Len(queue) /\ j \in 1 .. Len(queue)
      BY <1>3, <1>7, <2>1, <3>2
    <3>3. CASE i \notin 1 .. Len(queue) /\ j \notin 1 .. Len(queue)
      BY <1>3, <1>7, <3>1, <3>3
    <3>4. CASE (i \in 1 .. Len(queue)) # (j \in 1 .. Len(queue))
      BY <1>3, <1>4, <1>7, <3>1, <3>4, SMTT(30)
    <3> QED
      BY <3>2, <3>3, <3>4
  <2> QED
    BY <1>6, <2>2 DEF IsInjective
<1>10. /\ \A r \in ToSet(queue') : r \in ToSet(queue) \/ (r \notin 1 .. Len(target) /\ r \in Nat /\ r # 0)
       /\ \A r : InQueue(r) => InQueue(r)'
       /\ \A r : InQueue(r)' => InQueue(r) \/ ~Known(r)
  <2>1. \A r : InQueue(r)' => InQueue(r) \/ (r \notin 1 .. Len(target) /\ r \in Nat /\ r # 0)
    <3> SUFFICES ASSUME NEW i \in 1 .. Len(queue')
                 PROVE  \/ \E j \in 1 .. Len(queue) : queue[j] = queue'[i]
                        \/ queue'[i] \notin 1 .. Len(target) /\ queue'[i] \in Nat /\ queue'[i] # 0
      BY DEF InQueue
    <3>1. CASE i \in 1 .. Len(queue) /\ queue'[i] = queue[i]
      BY <3>1
    <3>2. CASE i - Len(queue) \in 1 .. n /\ queue'[i] = Len(target) + (i - Len(queue))
      BY <1>3, <1>4, <3>2
    <3> QED
      BY <1>7, <3>1, <3>2
  <2>2. \A r : InQueue(r) => InQueue(r)'
    BY <1>8 DEF InQueue
  <2>3. \A r : r \in ToSet(queue') => InQueue(r)'
    BY <1>6 DEF ToSet, InQueue
  <2>4. \A r : InQueue(r) => r \in ToSet(queue)
    BY <1>3, QueueSet
  <2> QED
    BY <2>1, <2>2, <2>3, <2>4 DEF Known
<1>11. Entered' = Entered /\ \A r \in Entered : r \in 1 .. Len(target)
  BY DEF Entered, TrInv, Known
<1>12. thread.id = 0 \/ thread.id \in 1 .. Len(target)
  BY DEF TrInv, Idle, Nobody, Known
<1>13. TrackerTypeOK'
  <2>1. thread'.id \notin ToSet(queue') \cup Entered' /\ Entered' \cap ToSet(queue') = {}
    BY <1>10, <1>11, <1>12 DEF TrInv, TrackerTypeOK
  <2>2. \A k \in DOMAIN entered' : target'[entered'[k]] = k
    BY <1>4 DEF TrInv, TrackerTypeOK, Known
  <2>3. retrieving' \in [Torrents -> BOOLEAN]
    BY <1>2 DEF TrInv, TrackerTypeOK
  <2> QED
    BY <1>4, <1>6, <1>9, <2>1, <2>2, <2>3 DEF TrInv, TrackerTypeOK
<1>14. \A r : Known(r) => Known(r)'
  BY <1>3, <1>4 DEF Known
<1>15. \A r \in Requests : ~Known(r)' \/ InQueue(r)' \/ r = thread'.id => age'[r] = 0
  BY <1>10, <1>14 DEF TrInv
<1> QED
  BY <1>2, <1>13, <1>14, <1>15 DEF TrInv

LEMMA TorrentKept ==
  ASSUME TrInv, NEW t \in Torrents, RetrivePeers(t) \/ LoseReply(t) \/ OnReplyTrackerMsg(t)
  PROVE  TrInv'
<1>0. known \in [Torrents -> SUBSET Trackers]
  BY DEF TrInv, TrackerTypeOK
<1>1. CASE UNCHANGED <<known, sockets, manager>> /\ retrieving' \in [Torrents -> BOOLEAN]
  <2>1. UNCHANGED <<known, target, phase, age, late, queue, thread, entered>>
    BY <1>1 DEF sockets, manager
  <2> QED
    BY <1>1, <2>1 DEF TrInv, TrackerTypeOK, Entered, Known, InQueue
<1>2. CASE RetrivePeers(t)
  <2>1. CASE RetrievePeersFromTrackers(t, known[t]) /\ UNCHANGED <<known, age, late, thread, entered>>
    <3>1. known[t] \in SUBSET Trackers
      BY <1>0
    <3> QED
      BY <1>0, <2>1, <3>1, RetrieveKept
  <2>2. CASE retrieving' = [retrieving EXCEPT ![t] = TRUE] /\ UNCHANGED <<known, sockets, manager>>
    BY <1>1, <2>2 DEF TrInv, TrackerTypeOK
  <2> QED
    BY <1>2, <2>1, <2>2 DEF RetrivePeers, sockets, manager
<1>3. CASE LoseReply(t)
  BY <1>1, <1>3 DEF LoseReply, TrInv, TrackerTypeOK
<1>4. CASE OnReplyTrackerMsg(t)
  <2>1. PICK m \in awaited[t] : \E K \in SUBSET (IF m[2] = "http" THEN Http ELSE Udp) :
          known' = [known EXCEPT ![t] = @ \cup K] /\ RetrievePeersFromTrackers(t, known'[t])
    BY <1>4 DEF OnReplyTrackerMsg
  <2>2. PICK K \in SUBSET Trackers :
          known' = [known EXCEPT ![t] = @ \cup K] /\ RetrievePeersFromTrackers(t, known'[t])
    BY <2>1 DEF Trackers
  <2>3. known' \in [Torrents -> SUBSET Trackers] /\ known'[t] \in SUBSET Trackers
    BY <1>0, <2>2
  <2>4. PICK L \in SUBSET Trackers : RetrievePeersFromTrackers(t, L)
    BY <2>2, <2>3
  <2>5. UNCHANGED <<age, late, thread, entered>>
    BY <1>4 DEF OnReplyTrackerMsg
  <2> QED
    BY <2>3, <2>4, <2>5, RetrieveKept
<1> QED
  BY <1>2, <1>3, <1>4

-----------------------------------------------------------------------------
LEMMA PopKept ==
  ASSUME TrInv, PopRequest
  PROVE  TrInv'
<1>1. /\ queue # << >> /\ queue' = Tail(queue) /\ thread = Idle
      /\ thread' = [id |-> Head(queue), step |-> "process"]
      /\ UNCHANGED <<retrieving, known, target, phase, age, late, entered>>
  BY DEF PopRequest, torrents, sockets
<1>2. queue \in Seq(1 .. Len(target)) /\ IsInjective(queue) /\ Len(target) \in Nat
  BY DEF TrInv, TrackerTypeOK
<1>3. /\ queue' \in Seq(1 .. Len(target)) /\ Head(queue) = queue[1] /\ 1 \in 1 .. Len(queue)
      /\ Head(queue) \in 1 .. Len(target)
      /\ \A k \in 1 .. Len(queue') : k + 1 \in 1 .. Len(queue) /\ queue'[k] = queue[k + 1]
  BY <1>1, <1>2
<1>4. \A i, j \in 1 .. Len(queue) : queue[i] = queue[j] => i = j
  BY <1>2 DEF IsInjective
<1>5. IsInjective(queue')
  <2>1. \A i, j \in 1 .. Len(queue') : queue'[i] = queue'[j] => i = j
    BY <1>3, <1>4
  <2>2. DOMAIN queue' = 1 .. Len(queue')
    BY <1>3
  <2> QED
    BY <2>1, <2>2 DEF IsInjective
<1>6. PICK h : h = Head(queue)
  OBVIOUS
<1>7. ~InQueue(h)' /\ InQueue(h)
  <2>1. \A k \in 1 .. Len(queue') : queue'[k] # h
    BY <1>3, <1>4, <1>6
  <2> QED
    BY <1>3, <1>6, <2>1 DEF InQueue
<1>8. \A r : InQueue(r)' => InQueue(r)
  BY <1>3 DEF InQueue
<1>9. \A r : InQueue(r) => InQueue(r)' \/ r = h
  <2> SUFFICES ASSUME NEW i \in 1 .. Len(queue), i # 1
               PROVE  \E k \in 1 .. Len(queue') : queue'[k] = queue[i]
    BY <1>3, <1>6 DEF InQueue
  <2>1. i - 1 \in 1 .. Len(queue') /\ queue'[i - 1] = queue[i]
    BY <1>1, <1>2, <1>3
  <2> QED
    BY <2>1
<1>10. /\ \A r : r \in ToSet(queue') <=> InQueue(r)'
       /\ \A r : r \in ToSet(queue) <=> InQueue(r)
  <2>1. \A r : r \in ToSet(queue') <=> InQueue(r)'
    BY <1>3 DEF ToSet, InQueue
  <2> QED
    BY <1>2, <2>1, QueueSet
<1>11. TrackerTypeOK'
  <2>1. Entered' = Entered
    BY <1>1 DEF Entered
  <2>2. thread'.id = h
    BY <1>1, <1>6
  <2>3. thread'.id \notin ToSet(queue') \cup Entered' /\ Entered' \cap ToSet(queue') = {}
    BY <1>7, <1>8, <1>10, <2>1, <2>2 DEF TrInv, TrackerTypeOK
  <2> QED
    BY <1>1, <1>3, <1>5, <2>3 DEF TrInv, TrackerTypeOK
<1>12. h \in 1 .. Len(target) /\ thread'.id = h /\ thread'.step = "process" /\ DOMAIN thread' = {"id", "step"}
  BY <1>1, <1>3, <1>6
<1>13. \A r \in Requests : ~Known(r)' \/ InQueue(r)' \/ r = thread'.id => age'[r] = 0
  BY <1>1, <1>7, <1>8, <1>12 DEF TrInv, Known
<1> QED
  BY <1>1, <1>11, <1>12, <1>13 DEF TrInv, Known

LEMMA ProcessKept ==
  ASSUME TrInv, Process
  PROVE  TrInv'
<1>1. /\ thread' = [thread EXCEPT !.step = "insert"] /\ thread.step = "process"
      /\ UNCHANGED <<retrieving, known, target, age, late, queue, entered>>
      /\ DOMAIN phase' = DOMAIN phase
  BY DEF Process, torrents
<1>2. thread'.id = thread.id /\ thread'.step = "insert" /\ DOMAIN thread' = {"id", "step"}
  BY <1>1 DEF TrInv
<1>3. Known(thread.id)
  BY <1>1 DEF TrInv, Idle
<1>4. TrackerTypeOK'
  BY <1>1, <1>2 DEF TrInv, TrackerTypeOK, Entered
<1> QED
  BY <1>1, <1>2, <1>3, <1>4 DEF TrInv, Known, InQueue

LEMMA InsertKept ==
  ASSUME TrInv, InsertRequest
  PROVE  TrInv'
<1> DEFINE r == thread.id
<1>1. /\ thread.step = "insert" /\ thread' = Idle
      /\ UNCHANGED <<retrieving, known, target, phase, age, late, queue>>
      /\ \/ entered' = entered
         \/ /\ target[r] \notin DOMAIN entered
            /\ entered' = [k \in DOMAIN entered \cup {target[r]} |->
                            IF k = target[r] THEN r ELSE entered[k]]
  BY DEF InsertRequest, torrents, sockets
<1>2. Known(r) /\ r \in Requests /\ age[r] = 0 /\ target[r] \in Trackers
  BY <1>1, TrackerAssumption DEF TrInv, TrackerTypeOK, Idle, Known, Requests
<1>3. \A x \in Entered' : x \in Entered \/ x = r
  BY <1>1 DEF Entered
<1>4. thread'.id = 0 /\ 0 \notin ToSet(queue) /\ 0 \notin Entered'
  <2>1. \A x \in ToSet(queue) : x \in 1 .. Len(target)
    <3>1. queue \in Seq(1 .. Len(target))
      BY DEF TrInv, TrackerTypeOK
    <3> QED
      BY <3>1 DEF ToSet
  <2>2. \A x \in Entered : x \in 1 .. Len(target)
    BY DEF Entered, TrInv, Known
  <2> QED
    BY <1>1, <1>2, <1>3, <2>1, <2>2 DEF Idle, Nobody, Known
<1>5. /\ DOMAIN entered' \subseteq Trackers
      /\ \A k \in DOMAIN entered' :
           /\ Known(entered'[k]) /\ target[entered'[k]] = k
           /\ age[entered'[k]] = Timeout => late[entered'[k]]
  BY <1>1, <1>2, TrackerAssumption DEF TrInv, TrackerTypeOK
<1>6. Entered' \cap ToSet(queue) = {}
  BY <1>3 DEF TrInv, TrackerTypeOK
<1>7. TrackerTypeOK'
  <2>1. /\ retrieving' = retrieving /\ known' = known /\ target' = target
        /\ age' = age /\ late' = late /\ queue' = queue
    BY <1>1
  <2>2. \A k \in DOMAIN entered' : target'[entered'[k]] = k
    BY <1>5, <2>1
  <2>3. \A k \in DOMAIN entered' : age'[entered'[k]] = Timeout => late'[entered'[k]]
    BY <1>5, <2>1
  <2>4. thread'.id \notin ToSet(queue') \cup Entered' /\ Entered' \cap ToSet(queue') = {}
    BY <1>4, <1>6, <2>1
  <2> QED
    BY <2>1, <2>2, <2>3, <2>4 DEF TrInv, TrackerTypeOK
<1>8. \A x \in Requests : ~Known(x)' \/ InQueue(x)' \/ x = thread'.id => age'[x] = 0
  BY <1>1, <1>4, TrackerAssumption DEF TrInv, Known, InQueue, Requests
<1>9. /\ thread' = Idle /\ DOMAIN thread' = {"id", "step"} /\ DOMAIN phase' = Requests
      /\ \A k \in DOMAIN entered' : entered'[k] \in 1 .. Len(target')
  BY <1>1, <1>5 DEF Idle, TrInv, Known
<1> QED
  BY <1>5, <1>7, <1>8, <1>9 DEF TrInv, Idle, Known

(* A request whose time has run out goes, whatever the loop does then.     *)
LEMMA TickKept ==
  ASSUME TrInv, TickRequests
  PROVE  TrInv'
<1>1. PICK T \in SUBSET {r \in Entered : target[r] \in Udp} :
        /\ age' = [r \in Requests |-> IF r \in T /\ ~(late[r] /\ age[r] >= Timeout)
                                      THEN age[r] + 1 ELSE age[r]]
        /\ entered' = Without({target[r] : r \in {x \in T : IsTimeout(x)}})
        /\ DOMAIN phase' = Requests
  BY DEF TickRequests
<1>2. UNCHANGED <<retrieving, known, target, late, queue, thread>>
  BY DEF TickRequests, torrents
<1>3. age \in [Requests -> 0 .. Timeout] /\ late \in [Requests -> BOOLEAN] /\ Timeout \in Nat \ {0}
  BY TrackerAssumption DEF TrInv, TrackerTypeOK
<1>4. \A k \in DOMAIN entered :
        /\ entered[k] \in Requests /\ target[entered[k]] = k
        /\ age[entered[k]] = Timeout => late[entered[k]]
  BY TrackerAssumption DEF TrInv, TrackerTypeOK, Known, Requests
<1>5. /\ DOMAIN entered' \subseteq DOMAIN entered
      /\ \A k \in DOMAIN entered' : entered'[k] = entered[k]
      /\ Entered' \subseteq Entered
  BY <1>1, Leaves
<1>6. \A r \in Entered : age[r] = Timeout => late[r]
  BY <1>4 DEF Entered
<1>7. age' \in [Requests -> 0 .. Timeout]
  BY <1>1, <1>3, <1>6
<1>8. ASSUME NEW k \in DOMAIN entered', age'[entered'[k]] = Timeout
      PROVE  late[entered'[k]]
  <2>1. k \notin {target[r] : r \in {x \in T : IsTimeout(x)}}
    BY <1>1, <1>8 DEF Without
  <2>2. entered[k] \notin T \/ ~IsTimeout(entered[k])
    BY <1>4, <1>5, <2>1
  <2>3. CASE entered[k] \notin T
    BY <1>1, <1>3, <1>4, <1>5, <1>8, <2>3
  <2>4. CASE ~IsTimeout(entered[k])
    BY <1>3, <1>4, <1>5, <1>8, <2>4 DEF IsTimeout
  <2> QED
    BY <2>2, <2>3, <2>4
<1>9. TrackerTypeOK'
  BY <1>2, <1>4, <1>5, <1>7, <1>8 DEF TrInv, TrackerTypeOK
<1>10. \A r \in Requests : r \notin Entered => age'[r] = age[r]
  BY <1>1
<1>11. \A r : InQueue(r) => r \notin Entered
  <2>1. queue \in Seq(1 .. Len(target))
    BY DEF TrInv, TrackerTypeOK
  <2> QED
    BY <2>1, QueueSet DEF TrInv, TrackerTypeOK
<1>12. \A r \in Requests : ~Known(r) \/ r = thread.id => r \notin Entered
  BY DEF TrInv, TrackerTypeOK, Entered
<1> QED
  BY <1>1, <1>2, <1>5, <1>9, <1>10, <1>11, <1>12 DEF TrInv, Known, InQueue

-----------------------------------------------------------------------------
LEMMA TrackerStep == TrInv /\ [TrackerNext]_rvars => TrInv'
<1> SUFFICES ASSUME TrInv, [TrackerNext]_rvars
             PROVE  TrInv'
  OBVIOUS
<1>1. CASE \E t \in Torrents : RetrivePeers(t) \/ LoseReply(t) \/ OnReplyTrackerMsg(t)
  BY <1>1, TorrentKept
<1>2. CASE PopRequest \/ Process \/ InsertRequest
  BY <1>2, PopKept, ProcessKept, InsertKept
<1>3. CASE \E r \in Requests : \/ OnConnect(r) \/ OnReceiveAnswer(r) \/ OnReceiveError(r)
                               \/ OnReceiveConnect(r) \/ OnReceiveDatagram(r)
  BY <1>3, SocketsKept
<1>4. CASE TickRequests
  BY <1>4, TickKept
<1>5. CASE UNCHANGED rvars
  BY <1>5 DEF rvars, torrents, sockets, manager, TrInv, TrackerTypeOK, Entered, Known, InQueue
<1> QED
  BY <1>1, <1>2, <1>3, <1>4, <1>5 DEF TrackerNext

(* The inductive invariant of the requests. *)
THEOREM TrackerInvariant == TrackerSpec => []TrInv
  BY InitTracker, TrackerStep, PTL DEF TrackerSpec

(* A request is queued, in the hands of the manager's thread or entered    *)
(* under the address of its tracker, one of the three, and one whose time  *)
(* has run out is not entered any more.                                    *)
THEOREM RequestsInPlace == TrackerSpec => []TrackerTypeOK
<1>1. TrInv => TrackerTypeOK
  BY DEF TrInv
<1> QED
  BY <1>1, TrackerInvariant, PTL

(* A request that is still waiting for its tracker is let go of only while *)
(* another request to the same tracker lives: two requests to one tracker  *)
(* share an entry of the table, and the one that ends takes the other out. *)
THEOREM GoesForAnother == TrackerSpec => DroppedForAnother
<1> DEFINE Goes(r) == Lives(r) /\ ~Lives(r)' /\ phase'[r] \in {"connecting", "asked", "announced"}
           Another(r) == \E q \in Requests \ {r} : Lives(q) /\ target[q] = target[r]
<1>1. TrInv /\ [TrackerNext]_rvars => [\A r \in Requests : Goes(r) => Another(r)]_rvars
  <2> SUFFICES ASSUME TrInv, TrackerNext, NEW r \in Requests, Goes(r)
               PROVE  Another(r)
    OBVIOUS
  <2> USE DEF Lives
  <2>0. /\ queue \in Seq(1 .. Len(target)) /\ \A x : InQueue(x) <=> x \in ToSet(queue)
        /\ \A k \in DOMAIN entered : entered[k] \in Requests /\ target[entered[k]] = k
    <3>1. queue \in Seq(1 .. Len(target))
      BY DEF TrInv, TrackerTypeOK
    <3> QED
      BY <3>1, QueueSet, TrackerAssumption DEF TrInv, TrackerTypeOK, Known, Requests
  <2>1. ASSUME ToSet(queue) \subseteq ToSet(queue'), thread' = thread
        PROVE  r \in Entered /\ r \notin Entered'
    BY <2>1
  <2>2. ASSUME UNCHANGED <<queue, thread>>,
               \E x \in Requests : Lives(x) /\ phase'[x] \notin {"connecting", "asked", "announced"} /\ Finish(x)
        PROVE  Another(r)
    <3>1. PICK x \in Requests : /\ Lives(x) /\ Finish(x)
                               /\ phase'[x] \notin {"connecting", "asked", "announced"}
      BY <2>2
    <3>2. PICK k \in DOMAIN entered : entered[k] = r /\ k \notin DOMAIN entered'
      <4>1. r \in Entered /\ r \notin Entered'
        BY <2>1, <2>2
      <4>2. PICK k \in DOMAIN entered : entered[k] = r
        BY <4>1 DEF Entered
      <4>3. k \in DOMAIN entered' => entered'[k] = r
        BY <3>1, <4>2, Leaves DEF Finish
      <4> QED
        BY <4>1, <4>2, <4>3 DEF Entered
    <3>3. DOMAIN entered' = DOMAIN entered \ {target[x]}
      BY <3>1, Leaves DEF Finish
    <3>4. k = target[x] /\ k = target[r]
      BY <2>0, <3>2, <3>3
    <3> QED
      BY <3>1, <3>4
  <2>3. ASSUME UNCHANGED <<queue, thread, entered>>
        PROVE  FALSE
    BY <2>3 DEF Entered
  <2>4. CASE \E t \in Torrents : RetrivePeers(t) \/ LoseReply(t) \/ OnReplyTrackerMsg(t)
    <3>1. UNCHANGED <<thread, entered>>
      BY <2>4 DEF RetrivePeers, LoseReply, OnReplyTrackerMsg, manager
    <3>2. queue' = queue \/ \E s \in Seq(Nat) : queue' = queue \o s
      <4>1. CASE \E t \in Torrents : \E K \in SUBSET Trackers : RetrievePeersFromTrackers(t, K)
        <5>1. PICK t \in Torrents, K \in SUBSET Trackers : RetrievePeersFromTrackers(t, K)
          BY <4>1
        <5> DEFINE order == SetToSeq(K \cap Http) \o SetToSeq(K \cap Udp)
        <5>2. queue' = queue \o [i \in 1 .. Len(order) |-> Len(target) + 1 + i - 1]
          BY <5>1 DEF RetrievePeersFromTrackers
        <5>3. Len(order) \in Nat /\ Len(target) \in Nat
          BY Orders DEF TrInv, TrackerTypeOK
        <5> HIDE DEF order
        <5>4. [i \in 1 .. Len(order) |-> Len(target) + 1 + i - 1] \in Seq(Nat)
          BY <5>3
        <5> QED
          BY <5>2, <5>4
      <4>2. CASE queue' = queue
        BY <4>2
      <4>3. known \in [Torrents -> SUBSET Trackers]
        BY DEF TrInv, TrackerTypeOK
      <4>4. \A t \in Torrents : OnReplyTrackerMsg(t) =>
              \E K \in SUBSET Trackers : RetrievePeersFromTrackers(t, K)
        <5> SUFFICES ASSUME NEW t \in Torrents, OnReplyTrackerMsg(t)
                     PROVE  \E K \in SUBSET Trackers : RetrievePeersFromTrackers(t, K)
          OBVIOUS
        <5>1. PICK m \in awaited[t] : \E K \in SUBSET (IF m[2] = "http" THEN Http ELSE Udp) :
                known' = [known EXCEPT ![t] = @ \cup K] /\ RetrievePeersFromTrackers(t, known'[t])
          BY DEF OnReplyTrackerMsg
        <5>2. PICK K \in SUBSET Trackers :
                known' = [known EXCEPT ![t] = @ \cup K] /\ RetrievePeersFromTrackers(t, known'[t])
          BY <5>1 DEF Trackers
        <5>3. known'[t] \in SUBSET Trackers
          BY <4>3, <5>2
        <5> QED
          BY <5>2, <5>3
      <4>5. \A t \in Torrents : RetrivePeers(t) =>
              queue' = queue \/ \E K \in SUBSET Trackers : RetrievePeersFromTrackers(t, K)
        BY <4>3 DEF RetrivePeers
      <4>6. \A t \in Torrents : LoseReply(t) => queue' = queue
        BY DEF LoseReply, manager
      <4> QED
        BY <2>4, <4>1, <4>2, <4>4, <4>5, <4>6
    <3>3. ToSet(queue) \subseteq ToSet(queue')
      <4>1. ASSUME NEW s \in Seq(Nat), queue' = queue \o s
            PROVE  \A i \in DOMAIN queue : i \in DOMAIN queue' /\ queue'[i] = queue[i]
        BY <2>0, <4>1
      <4> QED
        BY <3>2, <4>1 DEF ToSet
    <3> QED
      BY <2>1, <3>1, <3>3 DEF Entered
  <2>5. CASE PopRequest
    <3>1. /\ queue # << >> /\ queue' = Tail(queue) /\ thread = Idle /\ thread'.id = Head(queue)
          /\ UNCHANGED <<entered, target>>
      BY <2>5 DEF PopRequest, sockets
    <3>2. \A i \in DOMAIN queue : queue[i] = Head(queue) \/ queue[i] \in ToSet(queue')
      <4>1. \A i \in DOMAIN queue : i = 1 \/ (i - 1 \in DOMAIN queue' /\ queue'[i - 1] = queue[i])
        BY <2>0, <3>1
      <4>2. Head(queue) = queue[1]
        BY <2>0, <3>1
      <4>3. \A j \in DOMAIN queue' : queue'[j] \in ToSet(queue')
        BY DEF ToSet
      <4> QED
        BY <4>1, <4>2, <4>3
    <3>3. r # Nobody
      BY TrackerAssumption DEF Requests, Nobody
    <3> QED
      BY <3>1, <3>2, <3>3 DEF ToSet, Entered, Idle
  <2>6. CASE Process
    <3>1. thread'.id = thread.id /\ UNCHANGED <<queue, entered>>
      BY <2>6 DEF Process, TrInv
    <3> QED
      BY <3>1 DEF Entered
  <2>7. CASE InsertRequest
    <3>1. /\ UNCHANGED queue
          /\ \/ target[thread.id] \in DOMAIN entered /\ entered' = entered
             \/ /\ target[thread.id] \notin DOMAIN entered
                /\ entered' = [k \in DOMAIN entered \cup {target[thread.id]} |->
                                IF k = target[thread.id] THEN thread.id ELSE entered[k]]
      BY <2>7 DEF InsertRequest
    <3>2. CASE target[thread.id] \in DOMAIN entered /\ entered' = entered
      <4>1. r = thread.id
        BY <3>1, <3>2 DEF Entered
      <4>2. thread.id \notin Entered /\ entered[target[thread.id]] \in Entered
        BY <3>2 DEF TrInv, TrackerTypeOK, Entered
      <4> QED
        BY <2>0, <3>2, <4>1, <4>2
    <3>3. CASE entered' = [k \in DOMAIN entered \cup {target[thread.id]} |->
                             IF k = target[thread.id] THEN thread.id ELSE entered[k]]
               /\ target[thread.id] \notin DOMAIN entered
      <4>1. Entered \subseteq Entered' /\ thread.id \in Entered'
        <5>1. /\ \A k \in DOMAIN entered : k \in DOMAIN entered' /\ entered'[k] = entered[k]
              /\ target[thread.id] \in DOMAIN entered' /\ entered'[target[thread.id]] = thread.id
          BY <3>3
        <5> QED
          BY <5>1 DEF Entered
      <4> QED
        BY <3>1, <4>1
    <3> QED
      BY <3>1, <3>2, <3>3
  <2>8. ASSUME NEW x \in Requests, \/ OnConnect(x) \/ OnReceiveAnswer(x) \/ OnReceiveError(x)
                                  \/ OnReceiveConnect(x) \/ OnReceiveDatagram(x)
        PROVE  Another(r)
    <3>0. DOMAIN phase = Requests
      BY DEF TrInv
    <3>1. UNCHANGED <<queue, thread>> /\ Lives(x)
      BY <2>8 DEF OnConnect, OnReceiveAnswer, OnReceiveError, OnReceiveConnect, OnReceiveDatagram,
         SocketUnchanged, Hears
    <3>2. \/ entered' = entered
          \/ phase'[x] \notin {"connecting", "asked", "announced"} /\ Finish(x)
      BY <2>8, <3>0 DEF OnConnect, OnReceiveAnswer, OnReceiveError, OnReceiveConnect, OnReceiveDatagram, Reach
    <3> QED
      BY <2>2, <2>3, <3>1, <3>2
  <2>9. CASE TickRequests
    <3>1. PICK T \in SUBSET {x \in Entered : target[x] \in Udp} :
            /\ entered' = Without({target[x] : x \in {y \in T : IsTimeout(y)}})
            /\ phase' = [x \in Requests |-> IF x \in {y \in T : IsTimeout(y)} THEN "timeout" ELSE phase[x]]
      BY <2>9 DEF TickRequests
    <3> DEFINE due == {y \in T : IsTimeout(y)}
    <3>2. UNCHANGED <<queue, thread>>
      BY <2>9 DEF TickRequests
    <3>3. r \in Entered /\ r \notin Entered'
      BY <2>1, <3>2
    <3>4. PICK k \in DOMAIN entered : entered[k] = r /\ k \notin DOMAIN entered'
      <4>1. PICK k \in DOMAIN entered : entered[k] = r
        BY <3>3 DEF Entered
      <4>2. k \in DOMAIN entered' => entered'[k] = r
        BY <3>1, <4>1, Leaves
      <4> QED
        BY <3>3, <4>1, <4>2 DEF Entered
    <3>5. PICK d \in due : k = target[d]
      <4>1. DOMAIN entered' = DOMAIN entered \ {target[x] : x \in due}
        BY <3>1, Leaves
      <4> HIDE DEF due
      <4> QED
        BY <3>4, <4>1
    <3>6. d \in Entered
      OBVIOUS
    <3>7. d = entered[target[d]]
      BY <2>0, <3>6 DEF Entered
    <3>8. phase'[r] = "timeout"
      BY <3>1, <3>4, <3>5, <3>7
    <3> QED
      BY <3>8
  <2> QED
    BY <2>4, <2>5, <2>6, <2>7, <2>8, <2>9 DEF TrackerNext
<1> QED
  BY <1>1, TrackerInvariant, PTL DEF TrackerSpec, DroppedForAnother

=============================================================================
