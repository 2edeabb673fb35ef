------------------------------- MODULE RcsMapper -----------------------------
(***************************************************************************)
(* How the scheduler (UGS) directs peers to cache servers (RCS).  An RCS   *)
(* connects to the UGS, again and again (pub/client_socket_ex.cpp),        *)
(* reports its addresses and resources on each connection and sends        *)
(* keep-alives (rcs/src/protocol/bt/bt_session.cpp).  The UGS keeps the    *)
(* nodes that are alive and the node each info hash is directed to         *)
(* (ugs/src/frame/rcs_mapper.cpp), and removes a node that has been silent *)
(* too long (service_node_detector.cpp).                                   *)
(*                                                                         *)
(* A connection may break at any time, and with it any tail of what is on  *)
(* its way: to the UGS the restart of an RCS is no more.  The UGS may      *)
(* restart.  A message is in one piece.  The UGS                           *)
(* knows an RCS by the address of its end of the connection: every new     *)
(* connection is a new node.                                               *)
(***************************************************************************)
EXTENDS Naturals, FiniteSets, Sequences

CONSTANTS Rcs,
          Hashes,
          Has,        \* Has[r]: the hashes r has a directory for
          MaxTimes,   \* kTimeoutMaxTimes
          MaxConn,    \* bound: MaxConn[r] connections of r
          MaxUp       \* bound: messages on their way to the UGS

ASSUME UgsAssumption ==
  /\ IsFiniteSet(Rcs) /\ IsFiniteSet(Hashes) /\ Has \in [Rcs -> SUBSET Hashes]
  /\ MaxTimes \in Nat \ {0} /\ MaxConn \in [Rcs -> Nat \ {0}] /\ MaxUp \in Nat \ {0}

Node == UNION {{r} \X (1 .. MaxConn[r]) : r \in Rcs}
Message == [kind : {"address", "alive"}]
             \cup [kind : {"resource"}, hashes : SUBSET Hashes]

VARIABLES
  link,       \* link[r]: connected_, and what OnConnected is still to report
  conn,       \* conn[r]: how often r has connected
  intact,     \* intact[r]: the network still carries its last connection
  up,         \* up[n]: on the way from n to the UGS
  alive,      \* alive_rcs_nodes_
  rcsMap,     \* rcs_map_
  age,        \* timeout_times_
  late        \* history: nodes that reported resources after their timeout

rvars == <<link, conn>>
net == <<intact, up>>
ugs == <<alive, rcsMap, age, late>>
uvars == <<rvars, net, ugs>>

Empty == [n \in {} |-> {}]

UgsInit ==
  /\ link = [r \in Rcs |-> "down"]
  /\ conn = [r \in Rcs |-> 0]
  /\ intact = [r \in Rcs |-> FALSE]
  /\ up = [n \in Node |-> <<>>]
  /\ alive = {} /\ rcsMap = Empty /\ age = Empty /\ late = {}

Current(r) == <<r, conn[r]>>
Dead(n) == conn[n[1]] # n[2] \/ ~intact[n[1]]

-----------------------------------------------------------------------------
(* The RCS.                                                                *)

(* TcpClientSocketEx::Send: on a line that is broken, what is sent is      *)
(* lost; without a connection it is not sent at all.                       *)
Send(r, m) ==
  /\ intact[r] => Len(up[Current(r)]) < MaxUp
  /\ up' = IF intact[r] THEN [up EXCEPT ![Current(r)] = Append(@, m)] ELSE up

(* OnTimer, once a second: connected_ is set before the connected handler  *)
(* reports, and the other threads may send in between.                     *)
Connect(r) ==
  /\ link[r] = "down" /\ conn[r] < MaxConn[r]
  /\ link' = [link EXCEPT ![r] = "address"]
  /\ conn' = [conn EXCEPT ![r] = @ + 1]
  /\ intact' = [intact EXCEPT ![r] = TRUE]
  /\ UNCHANGED <<up, ugs>>

ReportServiceAddress(r) ==
  /\ link[r] = "address" /\ Send(r, [kind |-> "address"])
  /\ link' = [link EXCEPT ![r] = "resource"]
  /\ UNCHANGED <<conn, intact, ugs>>

ReportResource(r) ==
  /\ link[r] = "resource" /\ Send(r, [kind |-> "resource", hashes |-> Has[r]])
  /\ link' = [link EXCEPT ![r] = "up"]
  /\ UNCHANGED <<conn, intact, ugs>>

(* By the timer thread of the session, every second.                       *)
SendKeepAlive(r) ==
  /\ link[r] # "down" /\ intact[r] /\ Send(r, [kind |-> "alive"])
  /\ UNCHANGED <<rvars, intact, ugs>>

-----------------------------------------------------------------------------
(* The network, and the restart of the UGS.                                *)
BreakLink(r) ==
  /\ intact[r]
  /\ intact' = [intact EXCEPT ![r] = FALSE]
  /\ \E k \in 0 .. Len(up[Current(r)]) :
       up' = [up EXCEPT ![Current(r)] = SubSeq(@, 1, k)]
  /\ UNCHANGED <<rvars, ugs>>

(* TcpClientSocketEx::HandleRead fails.                                    *)
HandleReadError(r) ==
  /\ link[r] # "down" /\ ~intact[r]
  /\ link' = [link EXCEPT ![r] = "down"]
  /\ UNCHANGED <<conn, net, ugs>>

RestartUgs ==
  /\ intact' = [r \in Rcs |-> FALSE]
  /\ up' = [n \in Node |-> <<>>]
  /\ alive' = {} /\ rcsMap' = Empty /\ age' = Empty /\ late' = {}
  /\ UNCHANGED rvars

-----------------------------------------------------------------------------
(* The UGS, one thread.                                                    *)
IsHead(n, kind) == up[n] # <<>> /\ Head(up[n]).kind = kind
Pop(n) == up' = [up EXCEPT ![n] = Tail(@)]

(* AddRcsResource *)
OnReportServiceAddressMsg(n) ==
  /\ IsHead(n, "address") /\ Pop(n)
  /\ alive' = alive \cup {n}
  /\ UNCHANGED <<rvars, intact, rcsMap, age, late>>

ExsitHash(h) == \E n \in DOMAIN rcsMap : h \in rcsMap[n]

(* AddFileResource: what is directed to another node stays there, and what *)
(* was entered before is not replaced.                                     *)
OnReportResouceMsg(n) ==
  /\ IsHead(n, "resource") /\ Pop(n)
  /\ LET new == {h \in Head(up[n]).hashes : ~ExsitHash(h)} IN
       rcsMap' = [m \in DOMAIN rcsMap \cup {n} |-> IF m \in DOMAIN rcsMap THEN rcsMap[m] ELSE new]
  /\ late' = IF n \in alive THEN late ELSE late \cup {n}
  /\ UNCHANGED <<rvars, intact, alive, age>>

(* The detector knows a node from its first keep-alive on.                 *)
OnKeepAliveMsg(n) ==
  /\ IsHead(n, "alive") /\ Pop(n)
  /\ age' = [m \in DOMAIN age \cup {n} |-> IF m = n THEN 0 ELSE age[m]]
  /\ UNCHANGED <<rvars, intact, alive, rcsMap, late>>

(* A bug UgsConsistent must find: only the list of nodes is cleaned.       *)
MutantRemoveServiceNodes(N) ==
  /\ alive' = alive \ N
  /\ rcsMap' = [n \in DOMAIN rcsMap |-> rcsMap[n]]
  /\ late' = late \ N

RemoveServiceNodes(N) ==
  /\ alive' = alive \ N
  /\ rcsMap' = [n \in DOMAIN rcsMap \ N |-> rcsMap[n]]
  /\ late' = late \ N

Overdue == {n \in DOMAIN age : age[n] + 1 > MaxTimes}

(* A bug DeadNodeLeaves must find: who is overdue is forgotten, and stays. *)
MutantDetectorTimer ==
  /\ age' = [n \in DOMAIN age \ Overdue |-> age[n] + 1]
  /\ UNCHANGED <<rvars, net, alive, rcsMap, late>>

(* ServiceNodeDetector::OnTimer *)
DetectorTimer ==
  /\ age' = [n \in DOMAIN age \ Overdue |-> age[n] + 1]
  /\ RemoveServiceNodes(Overdue)
  /\ UNCHANGED <<rvars, net>>

(* GetPeer: a hash nobody has yet is directed to the node its value        *)
(* selects, if that has reported its resources.                            *)
GetPeer(h) ==
  /\ ~ExsitHash(h)
  /\ \E n \in alive \cap DOMAIN rcsMap : rcsMap' = [rcsMap EXCEPT ![n] = @ \cup {h}]
  /\ UNCHANGED <<rvars, net, alive, age, late>>

-----------------------------------------------------------------------------
UgsNext ==
  \/ \E r \in Rcs :
       \/ Connect(r) \/ ReportServiceAddress(r) \/ ReportResource(r)
       \/ SendKeepAlive(r)
       \/ BreakLink(r) \/ HandleReadError(r)
  \/ \E n \in Node :
       \/ OnReportServiceAddressMsg(n) \/ OnReportResouceMsg(n)
       \/ OnKeepAliveMsg(n)
  \/ RestartUgs \/ DetectorTimer
  \/ \E h \in Hashes : GetPeer(h)

UgsSpec == UgsInit /\ [][UgsNext]_uvars

(* The timer of the detector goes on.                                      *)
FairUgsSpec == UgsSpec /\ WF_uvars(DetectorTimer)

-----------------------------------------------------------------------------
(* Types; and a hash is directed to one node.                              *)
UgsTypeOK ==
  /\ link \in [Rcs -> {"down", "address", "resource", "up"}]
  /\ \A r \in Rcs : conn[r] \in 0 .. MaxConn[r]
  /\ up \in [Node -> Seq(Message)]
  /\ alive \subseteq Node
  /\ DOMAIN rcsMap \subseteq Node /\ \A n \in DOMAIN rcsMap : rcsMap[n] \subseteq Hashes
  /\ DOMAIN age \subseteq Node /\ \A n \in DOMAIN age : age[n] \in 0 .. MaxTimes
  /\ \A n, m \in DOMAIN rcsMap : rcsMap[n] \cap rcsMap[m] # {} => n = m

(* A hash is directed to a node that is alive: GetPeer answers with no     *)
(* address at all when its node is not.  Only a node that reports its      *)
(* resources after it has timed out is in the map and not alive, until it  *)
(* times out again.                                                        *)
MappedIsAlive == \A n \in DOMAIN rcsMap : n \in alive \/ n \in late

(* A node whose connection is gone is no longer offered, once it has sent  *)
(* a keep-alive that arrived.  (One that has not is offered for ever.)     *)
DeadNodeLeaves ==
  \A n \in Node : n \in alive /\ n \in DOMAIN age /\ Dead(n) ~> n \notin alive

(* What the UGS knows of its nodes agrees: no hash has two nodes, and the  *)
(* node of a hash is alive or was late.                                    *)
UgsConsistent == UgsTypeOK /\ MappedIsAlive

=============================================================================
