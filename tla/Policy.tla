-------------------------------- MODULE Policy --------------------------------
(***************************************************************************)
(* The Policy of one torrent (rcs/src/frame/policy.cpp): the peers it may  *)
(* connect to, those it is connected to, those it failed to reach, and the *)
(* connections it manages.                                                 *)
(*                                                                         *)
(* The timer thread runs OnTick, one critical section after the other;     *)
(* tracker and UGS replies call AddPeer, the socket threads run the        *)
(* connect handlers and close connections, the work thread calls SetSeed   *)
(* and the resource monitor blocks the torrent.                            *)
(*                                                                         *)
(* Nobody adds peers of the types PEER_CACHED_RCS and PEER_OUTER_PROXY, so *)
(* their candidate sets stay empty and are left out.  Durations are left   *)
(* open: a retry interval or an inactivity timeout may have passed at any  *)
(* tick.                                                                   *)
(***************************************************************************)
EXTENDS Naturals, Sequences, FiniteSets, Functions

CONSTANTS Addrs,         \* the addresses of peers
          Conns,         \* bound: the connection objects alive at a time
          MaxTries,      \* kReConnectPeerTimes, 3 in the code
          MaxAdds,       \* bound: how often an address is retrieved
          AddTypes,      \* the types of the peers trackers and UGS name
          FromMetadata,  \* whether the metadata came from a peer, not from the disk
          None           \* no connection object, no peer, no address

Types == {"inner", "outer", "innerProxy"}

VARIABLES
  candidates,  \* candidates[t]: the candidate set of peers of type t
  connected,   \* connected_peers_: address -> connection it keeps alive
  failed,      \* failed_peers_
  connMap,     \* peer_conn_map_
  conn,        \* the connection objects
  tick,        \* where the timer thread is in OnTick
  chosen,      \* the peer GetOneCandidatePeer returned to it
  adding,      \* a peer for which AddPeer has looked at is_seed, or None
  seed,        \* "no", "flag" (is_seed_ is set), "yes" (SetSeed has returned)
  blocked,     \* blocked_for_monitor_
  blockedForProxy,
  isProxy,     \* Torrent::is_proxy_
  retrived,    \* retrived_inner_proxies_
  adds         \* adds[a]: how often a was retrieved

peers == <<candidates, connected, failed>>
pvars == <<peers, connMap, conn, tick, chosen, adding, seed, blocked,
           blockedForProxy, isProxy, retrived, adds>>

Entry == [addr : Addrs, type : Types, tried : 0 .. MaxTries]

Connection == [addr : Addrs \cup {None}, type : Types, tried : 0 .. MaxTries,
               active : BOOLEAN, proxy : BOOLEAN,
               state : {"arriving", "connecting", "open", "refused", "closed"}]

Addresses(S) == {e.addr : e \in S}

ASSUME PolicyAssumption ==
  /\ IsFiniteSet(Addrs) /\ IsFiniteSet(Conns)
  /\ MaxTries \in Nat /\ MaxAdds \in Nat /\ AddTypes \subseteq Types
  /\ None \notin Addrs \cup Entry \cup Connection

(* PeerSet and PeerMap are keyed by the address: insert keeps what is there. *)
Insert(S, e) == IF e.addr \in Addresses(S) THEN S ELSE S \cup {e}

IsBlocked == blocked \/ blockedForProxy

SetState(c, s) == conn' = [conn EXCEPT ![c].state = s]

(* A connection object lives as long as one of the two containers has it. *)
Release(S) == [c \in Conns |-> IF c \in S THEN None ELSE conn[c]]

PolicyInit ==
  /\ candidates = [t \in Types |-> {}]
  /\ connected = << >>
  /\ failed = {}
  /\ connMap = {}
  /\ conn = [c \in Conns |-> None]
  /\ tick = "idle"
  /\ chosen = None
  /\ adding = None
  /\ seed = "no"
  /\ blocked = FALSE
  /\ blockedForProxy = FALSE
  /\ isProxy = FALSE
  /\ retrived = FALSE
  /\ adds = [a \in Addrs |-> 0]

-----------------------------------------------------------------------------
(* AddPeer: the test of is_seed, then the critical section. *)
AddPeer(a, t) ==
  /\ adding = None
  /\ adds[a] < MaxAdds
  /\ t \in AddTypes
  /\ t = "innerProxy" => retrived
  /\ adds' = [adds EXCEPT ![a] = @ + 1]
  /\ adding' = IF seed # "no" /\ t # "inner"
                 THEN None
                 ELSE [addr |-> a, type |-> t, tried |-> 0]
  /\ UNCHANGED <<peers, connMap, conn, tick, chosen, seed, blocked,
                 blockedForProxy, isProxy, retrived>>

AddCandidate ==
  /\ adding # None
  /\ adding' = None
  /\ candidates' = IF adding.addr \in DOMAIN connected \cup Addresses(failed)
                     THEN candidates
                     ELSE [candidates EXCEPT ![adding.type] = Insert(@, adding)]
  /\ UNCHANGED <<connected, failed, connMap, conn, tick, chosen, seed, blocked,
                 blockedForProxy, isProxy, retrived, adds>>

(* OnActiveConnectionConnected without an error: PeerConnected. *)
PeerConnected(c) ==
  /\ conn[c] # None
  /\ conn[c].state = "connecting"
  /\ SetState(c, "open")
  /\ connected' = IF conn[c].addr \in DOMAIN connected
                    THEN connected
                    ELSE [a \in DOMAIN connected \cup {conn[c].addr} |->
                            IF a = conn[c].addr THEN c ELSE connected[a]]
  /\ UNCHANGED <<candidates, failed, connMap, tick, chosen, adding, seed,
                 blocked, blockedForProxy, isProxy, retrived, adds>>

(* OnActiveConnectionConnected with an error: FailToConnectPeer. *)
FailToConnectPeer(c) ==
  /\ conn[c] # None
  /\ conn[c].state = "connecting"
  /\ IF conn[c].tried >= MaxTries
       THEN /\ SetState(c, "refused")
            /\ UNCHANGED <<failed, connMap>>
       ELSE /\ connMap' = connMap \ {c}
            /\ failed' = Insert(failed, [addr |-> conn[c].addr, type |-> conn[c].type,
                                         tried |-> conn[c].tried + 1])
            /\ conn' = Release({c})
  /\ UNCHANGED <<candidates, connected, tick, chosen, adding, seed, blocked,
                 blockedForProxy, isProxy, retrived, adds>>

(* The socket, the protocol or a timeout closes a connection; a refused    *)
(* one is closed by the error its first read returns.                      *)
Close(c) ==
  /\ conn[c] # None
  /\ conn[c].state \in {"open", "refused"}
  /\ SetState(c, "closed")
  /\ UNCHANGED <<peers, connMap, tick, chosen, adding, seed, blocked,
                 blockedForProxy, isProxy, retrived, adds>>

(* IncommingPeerConnecton: the test of the flags, then AddPeerConnection.  *)
IncommingPeerConnecton(c) ==
  /\ conn[c] = None
  /\ ~IsBlocked
  /\ conn' = [conn EXCEPT ![c] = [addr |-> None, type |-> "outer", tried |-> 0,
                                  active |-> FALSE, proxy |-> FALSE, state |-> "arriving"]]
  /\ UNCHANGED <<peers, connMap, tick, chosen, adding, seed, blocked,
                 blockedForProxy, isProxy, retrived, adds>>

AddPeerConnection(c) ==
  /\ conn[c] # None
  /\ conn[c].state = "arriving"
  /\ tick # "spinning"
  /\ connMap' = connMap \cup {c}
  /\ SetState(c, "open")
  /\ UNCHANGED <<peers, tick, chosen, adding, seed, blocked, blockedForProxy,
                 isProxy, retrived, adds>>

(* The first assign-piece message of a passive connection.  If it is the   *)
(* only one the torrent becomes a proxy; BC_ASSERT(!is_proxy_) of SetProxy *)
(* ends the process if it is one already.  The timer that spins keeps      *)
(* peer_conn_mutex_.                                                       *)
OnAssignPieceMsg(c) ==
  LET passive == {d \in connMap : ~conn[d].active} IN
  /\ c \in passive
  /\ conn[c].state = "open"
  /\ ~conn[c].proxy
  /\ tick # "spinning"
  /\ conn' = [conn EXCEPT ![c].proxy = TRUE]
  /\ \/ /\ passive = {c}
        /\ ~isProxy
        /\ isProxy' = FromMetadata
     \/ /\ passive # {c}
        /\ UNCHANGED isProxy
  /\ UNCHANGED <<peers, connMap, tick, chosen, adding, seed, blocked,
                 blockedForProxy, retrived, adds>>

-----------------------------------------------------------------------------
(* OnTick.  ClearInactiveConnections removes the closed connections and    *)
(* those without traffic; ConnectionClosed looks the peer of an active one *)
(* up by its address.                                                      *)
Cleared(dead) ==
  {conn[c].addr : c \in {d \in dead : conn[d].active}}

(* ProxyProcForRemovedConn: the loop ends at an open proxy connection if   *)
(* that is the first one it looks at, and at the end of an empty map.      *)
ProxyProcForRemovedConn(left) ==
  \/ /\ left = {}
     /\ blockedForProxy' = TRUE
     /\ tick' = "ticked"
  \/ \E first \in left :
       /\ UNCHANGED blockedForProxy
       /\ tick' = IF conn[first].proxy /\ conn[first].state # "closed"
                    THEN "ticked"
                    ELSE "spinning"

MutantClearInactiveConnections ==
  \E dead \in SUBSET connMap :
    LET left == connMap \ dead
        kept == [a \in DOMAIN connected \ Cleared(dead) |-> connected[a]]
    IN
    /\ tick = "idle"
    /\ \A c \in connMap : IF conn[c].state = "closed"
                            THEN conn[c].active => c \in dead
                            ELSE c \in dead => conn[c].state = "open"
    /\ connected' = kept
    /\ connMap' = left
    /\ conn' = Release(dead \ Range(kept))
    /\ IF dead # {} /\ isProxy
         THEN ProxyProcForRemovedConn(left)
         ELSE /\ tick' = "ticked"
              /\ UNCHANGED blockedForProxy
    /\ UNCHANGED <<candidates, failed, chosen, adding, seed, blocked, isProxy,
                   retrived, adds>>

MutantClearInactiveConnectionsKept ==
  \E dead \in SUBSET connMap :
    LET left == connMap \ dead
    IN
    /\ tick = "idle"
    /\ \A c \in connMap : IF conn[c].state = "closed"
                            THEN c \in dead
                            ELSE c \in dead => conn[c].state = "open"
    /\ connMap' = left
    /\ conn' = Release(dead \ Range(connected))
    /\ tick' = "ticked"
    /\ UNCHANGED <<peers, blockedForProxy, isProxy, chosen, adding, seed, blocked,
                   retrived, adds>>

ClearInactiveConnections ==
  \E dead \in SUBSET connMap :
    LET left == connMap \ dead
        kept == [a \in DOMAIN connected \ Cleared(dead) |-> connected[a]]
    IN
    /\ tick = "idle"
    /\ \A c \in connMap : IF conn[c].state = "closed"
                            THEN c \in dead
                            ELSE c \in dead => conn[c].state = "open"
    /\ connected' = kept
    /\ connMap' = left
    /\ conn' = Release(dead \ Range(kept))
    /\ IF dead # {} /\ isProxy
         THEN ProxyProcForRemovedConn(left)
         ELSE /\ tick' = "ticked"
              /\ UNCHANGED blockedForProxy
    /\ UNCHANGED <<candidates, failed, chosen, adding, seed, blocked, isProxy,
                   retrived, adds>>

(* The tick of every connection changes nothing here; then the one test of *)
(* the flags.                                                              *)
CheckBlocked ==
  /\ tick = "ticked"
  /\ tick' = IF IsBlocked THEN "idle" ELSE "update"
  /\ UNCHANGED <<peers, connMap, conn, chosen, adding, seed, blocked,
                 blockedForProxy, isProxy, retrived, adds>>

MutantUpdateFailedPeers ==
  \E due \in SUBSET failed :
    /\ tick = "update"
    /\ tick' = "retrive"
    /\ candidates' =
         [t \in Types |->
            candidates[t] \cup {e \in due : e.type = t /\ t # "innerProxy"
                                              /\ e.addr \notin Addresses(candidates[t])}]
    /\ UNCHANGED <<connected, failed, connMap, conn, chosen, adding, seed, blocked,
                   blockedForProxy, isProxy, retrived, adds>>

MutantUpdateFailedPeersLost ==
  \E due \in SUBSET failed :
    /\ tick = "update"
    /\ tick' = "retrive"
    /\ failed' = failed \ due
    /\ candidates' =
         [t \in Types |->
            candidates[t] \cup {e \in due : e.type = t /\ t = "outer"
                                              /\ e.addr \notin Addresses(candidates[t])}]
    /\ UNCHANGED <<connected, connMap, conn, chosen, adding, seed, blocked,
                   blockedForProxy, isProxy, retrived, adds>>

(* UpdateFailedPeers: a peer whose interval is over becomes a candidate    *)
(* again, unless it is a proxy.                                            *)
UpdateFailedPeers ==
  \E due \in SUBSET failed :
    /\ tick = "update"
    /\ tick' = "retrive"
    /\ failed' = failed \ due
    /\ candidates' =
         [t \in Types |->
            candidates[t] \cup {e \in due : e.type = t /\ t # "innerProxy"
                                              /\ e.addr \notin Addresses(candidates[t])}]
    /\ UNCHANGED <<connected, connMap, conn, chosen, adding, seed, blocked,
                   blockedForProxy, isProxy, retrived, adds>>

(* TryRetrieveConnectablePeers: what it asks for comes through AddPeer. *)
TryRetrieveConnectablePeers ==
  /\ tick = "retrive"
  /\ tick' = "inner"
  /\ retrived' \in IF seed = "no" THEN {TRUE, retrived} ELSE {retrived}
  /\ UNCHANGED <<peers, connMap, conn, chosen, adding, seed, blocked,
                 blockedForProxy, isProxy, adds>>

AfterType == [inner |-> "outer", outer |-> "innerProxy", innerProxy |-> "idle"]

(* TryConnectInnerPeers, TryConnectOuterPeers, TryConnectInnerProxies up   *)
(* to GetOneCandidatePeer.  Which address is the least is left open.       *)
TryConnect(t) ==
  /\ tick = t
  /\ chosen = None
  /\ IF candidates[t] = {} \/ (t = "outer" /\ seed # "no")
       THEN /\ tick' = AfterType[t]
            /\ UNCHANGED <<candidates, chosen>>
       ELSE \E e \in candidates[t] :
              /\ candidates' = [candidates EXCEPT ![t] = @ \ {e}]
              /\ chosen' = e
              /\ UNCHANGED tick
  /\ UNCHANGED <<connected, failed, connMap, conn, adding, seed, blocked,
                 blockedForProxy, isProxy, retrived, adds>>

(* ConnectOnePeer: create the connection, add it to the map, connect.  Past *)
(* the bound on connections CreatePeerConnection fails.                    *)
ConnectOnePeer ==
  /\ chosen # None
  /\ chosen' = None
  /\ tick' = AfterType[tick]
  /\ \/ \E c \in Conns :
          /\ conn[c] = None
          /\ connMap' = connMap \cup {c}
          /\ conn' = [conn EXCEPT ![c] = [addr |-> chosen.addr, type |-> chosen.type,
                                          tried |-> chosen.tried, active |-> TRUE,
                                          proxy |-> FALSE, state |-> "connecting"]]
     \/ /\ \A c \in Conns : conn[c] # None
        /\ UNCHANGED <<connMap, conn>>
  /\ UNCHANGED <<peers, adding, seed, blocked, blockedForProxy, isProxy, retrived, adds>>

-----------------------------------------------------------------------------
(* Torrent::SetSeed: the flag, then Policy::SetSeed.  The tests in         *)
(* ClearOuterPeers and ClearOuterConnections negate the type before they   *)
(* compare it, and select no failed peer and no connection.                *)
SetSeed ==
  /\ \/ /\ seed = "no"
        /\ seed' = "flag"
        /\ UNCHANGED candidates
     \/ /\ seed = "flag"
        /\ seed' = "yes"
        /\ candidates' = [candidates EXCEPT !["outer"] = {}]
  /\ UNCHANGED <<connected, failed, connMap, conn, tick, chosen, adding, blocked,
                 blockedForProxy, isProxy, retrived, adds>>

(* set_stop_new_connection_flag *)
SetBlocked ==
  /\ blocked' = ~blocked
  /\ UNCHANGED <<peers, connMap, conn, tick, chosen, adding, seed,
                 blockedForProxy, isProxy, retrived, adds>>

OnTick ==
  \/ ClearInactiveConnections
  \/ CheckBlocked
  \/ UpdateFailedPeers
  \/ TryRetrieveConnectablePeers
  \/ \E t \in Types : TryConnect(t)
  \/ ConnectOnePeer

PolicyNext ==
  \/ OnTick
  \/ \E a \in Addrs : \E t \in Types : AddPeer(a, t)
  \/ AddCandidate
  \/ \E c \in Conns :
       \/ PeerConnected(c)
       \/ FailToConnectPeer(c)
       \/ Close(c)
       \/ AddPeerConnection(c)
       \/ IncommingPeerConnecton(c)
       \/ OnAssignPieceMsg(c)
  \/ SetSeed
  \/ SetBlocked

PolicySpec == PolicyInit /\ [][PolicyNext]_pvars

(* The timer of the torrent goes on ticking. *)
FairPolicySpec == PolicySpec /\ WF_pvars(OnTick)

-----------------------------------------------------------------------------
(* The containers hold entries, one of each address. *)
PolicyTypeOK ==
  /\ candidates \in [Types -> SUBSET Entry]
  /\ failed \in SUBSET Entry
  /\ \A S \in {failed} \cup {candidates[t] : t \in Types} :
       Cardinality(Addresses(S)) = Cardinality(S)
  /\ connMap \in SUBSET Conns
  /\ conn \in [Conns -> Connection \cup {None}]
  /\ connected \in [DOMAIN connected -> Conns]
  /\ chosen \in Entry \cup {None}

(* Policy promises that a peer has one connection at a time: what the      *)
(* timer connects to is neither connected nor being connected to.          *)
OneConnectionPerPeer ==
  \A c, d \in connMap :
    /\ conn[c].active /\ conn[d].active
    /\ conn[c].addr = conn[d].addr
    /\ {conn[c].state, conn[d].state} \subseteq {"connecting", "open"}
    => c = d

(* The containers of peers and of connections agree.                       *)
PolicyConsistent == PolicyTypeOK /\ OneConnectionPerPeer

(* connected_peers_ keeps its connections alive.  They are all in          *)
(* peer_conn_map_, so that somebody ticks them, times them out and drops   *)
(* them.                                                                   *)
ConnectedIsManaged ==
  \A a \in DOMAIN connected : /\ connected[a] \in connMap
                              /\ conn[connected[a]].addr = a

(* A peer that could not be reached and has tries left is tried again: it  *)
(* leaves the failed peers for the candidates, unless it is a proxy.       *)
FailedIsRetried ==
  [][\A e \in failed : \/ e.type = "innerProxy"
                       \/ e.addr \in Addresses(failed')
                       \/ e.addr \in Addresses(candidates'[e.type])]_pvars

(* Policy promises to delete a peer whose connection is closed; without    *)
(* that the torrent never becomes inactive.                                *)
ClosedLeaves ==
  \A c \in Conns :
    (c \in connMap /\ conn[c].state = "closed")
      ~> (c \notin connMap /\ c \notin Range(connected))

(* What is left of the promise: the timer drops what is closed, unless it  *)
(* hangs in the loop over the connections of a proxy torrent.              *)
ClosedIsDropped == [](tick # "spinning") => ClosedLeaves

=============================================================================
