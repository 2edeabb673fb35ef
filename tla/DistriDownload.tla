---------------------------- MODULE DistriDownload ----------------------------
(***************************************************************************)
(* A distributed download seen from the RCS that sponsors it               *)
(* (rcs/src/frame/distri_download_mgr.cpp on top of the PiecePicker).      *)
(*                                                                         *)
(* The DistriDownloadMgr of a sponsor connection takes one whole piece at  *)
(* a time from the picker and assigns it to the proxy behind the           *)
(* connection.  The proxy downloads it from its own peers and announces it *)
(* with a HAVE; the sponsor puts the piece back for a normal download from *)
(* the proxy and assigns the next one.  A proxy that takes too long loses  *)
(* its connection.  A connection is destroyed some time after it is closed *)
(* and returns its piece only then.                                        *)
(*                                                                         *)
(* assigned_pieces_ has no lock in the code; here a test of it and the     *)
(* assignment it leads to are one step.  The accept message changes        *)
(* nothing at either end and is left out.                                  *)
(***************************************************************************)
EXTENDS PiecePicker, Sequences

CONSTANTS Sponsors,  \* the connections of type PEER_CONN_SPONSOR
          Supports,  \* those whose proxy has support-cache-proxy switched on
          MaxWait    \* kMaxWaitProxyDownloadTime, 30 in the code

ASSUME DistriAssumption == Sponsors \subseteq Clients /\ MaxWait \in Nat /\ MaxWait > 1

VARIABLES
  conn,       \* conn[c]: "open", "closed" (FSM_STATE_CLOSE) or "gone"
  told,       \* told[c]: PeerConnection::piece_map_
  waited,     \* waited[c]: after_assigned_piece_time_
  resuming,   \* resuming[c]: OnHavePiece is about to call TryAssignPieces
  toProxy,    \* toProxy[c]: assign-piece messages under way
  fromProxy,  \* fromProxy[c]: have and reject messages under way
  cached      \* cached[c]: the pieces the proxy has

mvars == <<conn, told, waited, resuming, toProxy, fromProxy, cached>>

Have(p) == [kind |-> "have", piece |-> p]
Reject(p) == [kind |-> "reject", piece |-> p]

Message == [kind : {"have", "reject"}, piece : Pieces]

IsNext(c, kind) == fromProxy[c] # <<>> /\ Head(fromProxy[c]).kind = kind

DistriInit ==
  /\ Init
  /\ conn = [c \in Clients |-> "open"]
  /\ told = [c \in Clients |-> {}]
  /\ waited = [c \in Clients |-> 0]
  /\ resuming = [c \in Clients |-> FALSE]
  /\ toProxy = [c \in Clients |-> <<>>]
  /\ fromProxy = [c \in Clients |-> <<>>]
  /\ cached = [c \in Clients |-> {}]

-----------------------------------------------------------------------------
(* AssignPieces: one piece, and the time it has been out is time. *)
AssignPieces(c, time) ==
  /\ PickPieces(c)
  /\ \A p \in assigned'[c] : toProxy' = [toProxy EXCEPT ![c] = Append(@, p)]
  /\ waited' = [waited EXCEPT ![c] = time]

(* PeerConnection::Stop: the state machine enters CLOSE, which returns the *)
(* block being downloaded once download_mutex_ is free.                    *)
Stop(c) ==
  /\ picking[c] = {}
  /\ conn' = [conn EXCEPT ![c] = "closed"]
  /\ \/ /\ held[c] = {}
        /\ UNCHANGED vars
     \/ \E pb \in held[c] : MarkBlockFailed(c, pb[1], pb[2])

MutantOnTick(c) ==
  /\ conn[c] = "open"
  /\ \/ /\ AssignPieces(c, 1)
        /\ UNCHANGED conn
     \/ /\ assigned[c] # {}
        /\ waited' = [waited EXCEPT ![c] = (@ + 1) % MaxWait]
        /\ UNCHANGED <<vars, conn, toProxy>>
  /\ UNCHANGED <<told, resuming, fromProxy, cached>>

(* OnTick: TryAssignPieces, then TimeoutProc. *)
OnTick(c) ==
  /\ conn[c] = "open"
  /\ \/ /\ AssignPieces(c, 1)
        /\ UNCHANGED conn
     \/ /\ assigned[c] # {}
        /\ waited' = [waited EXCEPT ![c] = @ + 1]
        /\ IF waited'[c] >= MaxWait
             THEN Stop(c)
             ELSE UNCHANGED <<vars, conn>>
        /\ UNCHANGED toProxy
  /\ UNCHANGED <<told, resuming, fromProxy, cached>>

(* ReceivedHaveMsg and OnHavePiece up to TryAssignPieces. *)
OnHavePiece(c) ==
  /\ conn[c] = "open"
  /\ ~resuming[c]
  /\ IsNext(c, "have")
  /\ LET p == Head(fromProxy[c]).piece IN
       /\ told' = [told EXCEPT ![c] = @ \cup {p}]
       /\ \/ /\ MarkPieceFailed(c, p)
             /\ resuming' = [resuming EXCEPT ![c] = TRUE]
          \/ /\ p \notin assigned[c]
             /\ UNCHANGED <<vars, resuming>>
  /\ fromProxy' = [fromProxy EXCEPT ![c] = Tail(@)]
  /\ UNCHANGED <<conn, waited, toProxy, cached>>

(* TryAssignPieces at the end of OnHavePiece. *)
TryAssignPieces(c) ==
  /\ resuming[c]
  /\ resuming' = [resuming EXCEPT ![c] = FALSE]
  /\ \/ AssignPieces(c, 0)
     \/ /\ assigned[c] # {} \/ waiting = {}
        /\ UNCHANGED <<vars, waited, toProxy>>
  /\ UNCHANGED <<conn, told, fromProxy, cached>>

OnRejectPieceMsg(c) ==
  /\ conn[c] = "open"
  /\ ~resuming[c]
  /\ IsNext(c, "reject")
  /\ Stop(c)
  /\ fromProxy' = [fromProxy EXCEPT ![c] = Tail(@)]
  /\ UNCHANGED <<told, waited, resuming, toProxy, cached>>

(* The proxy or the network closes the connection. *)
ProcessRecvError(c) ==
  /\ conn[c] = "open"
  /\ ~resuming[c]
  /\ Stop(c)
  /\ UNCHANGED <<told, waited, resuming, toProxy, fromProxy, cached>>

MutantDestroyPeerConnection(c) ==
  /\ conn[c] = "closed"
  /\ ~resuming[c]
  /\ conn' = [conn EXCEPT ![c] = "gone"]
  /\ UNCHANGED <<vars, told, waited, resuming, toProxy, fromProxy, cached>>

(* ~DistriDownloadMgr, when Policy has dropped the closed connection. *)
DestroyPeerConnection(c) ==
  /\ conn[c] = "closed"
  /\ ~resuming[c]
  /\ conn' = [conn EXCEPT ![c] = "gone"]
  /\ \/ /\ assigned[c] = {}
        /\ UNCHANGED vars
     \/ \E p \in assigned[c] : MarkPieceFailed(c, p)
  /\ UNCHANGED <<told, waited, resuming, toProxy, fromProxy, cached>>

-----------------------------------------------------------------------------
(* The proxy.  An assigned piece goes to the front of its own PiecePicker, *)
(* which does nothing for a piece the proxy has.                           *)
OnAssignPieceMsg(c) ==
  /\ toProxy[c] # <<>>
  /\ toProxy' = [toProxy EXCEPT ![c] = Tail(@)]
  /\ fromProxy' = IF c \in Supports
                    THEN fromProxy
                    ELSE [fromProxy EXCEPT ![c] = Append(@, Reject(Head(toProxy[c])))]
  /\ UNCHANGED <<vars, conn, told, waited, resuming, cached>>

(* A piece is verified at the proxy: Policy::HavePiece tells its peers. *)
HavePiece(c, p) ==
  /\ c \in Sponsors
  /\ p \notin cached[c]
  /\ cached' = [cached EXCEPT ![c] = @ \cup {p}]
  /\ fromProxy' = [fromProxy EXCEPT ![c] = Append(@, Have(p))]
  /\ UNCHANGED <<vars, conn, told, waited, resuming, toProxy>>

(* The block downloads of an open connection and the hash checks. *)
Download(c) ==
  /\ \/ /\ conn[c] = "open"
        /\ PickBlocksFromDownloadingPieces(c, IF c \in Sponsors THEN told[c] ELSE Pieces)
     \/ PickBlocksFromWaitingPieces(c)
     \/ \E pb \in held[c] : \/ MarkBlockFailed(c, pb[1], pb[2])
                            \/ MarkBlockFinished(c, pb[1], pb[2])
  /\ UNCHANGED mvars

OnVerifyPiece(p) ==
  /\ OnVerifyPieceOk(p) \/ AnnouncePiece(p) \/ FailToVerifyPieceProc(p)
  /\ UNCHANGED mvars

DistriNext ==
  \/ \E c \in Sponsors :
       \/ OnTick(c)
       \/ OnHavePiece(c)
       \/ TryAssignPieces(c)
       \/ OnRejectPieceMsg(c)
       \/ ProcessRecvError(c)
       \/ DestroyPeerConnection(c)
       \/ OnAssignPieceMsg(c)
       \/ \E p \in Pieces : HavePiece(c, p)
  \/ \E c \in Clients : Download(c)
  \/ \E p \in Pieces : OnVerifyPiece(p)

DistriSpec == DistriInit /\ [][DistriNext]_<<vars, mvars>>

(* The timer thread ticks, and gets download_mutex_ when it stops a        *)
(* connection; a socket thread ends what it began; Policy drops what is    *)
(* closed.  Nothing is assumed of the proxies.                             *)
FairDistriSpec ==
  /\ DistriSpec
  /\ \A c \in Sponsors : /\ SF_<<vars, mvars>>(OnTick(c))
                         /\ WF_<<vars, mvars>>(PickBlocksFromWaitingPieces(c) /\ UNCHANGED mvars)
                         /\ WF_<<vars, mvars>>(TryAssignPieces(c))
                         /\ WF_<<vars, mvars>>(DestroyPeerConnection(c))

-----------------------------------------------------------------------------
(* The connections and messages are what they are declared to be, and a    *)
(* sponsor believes no more of its proxy than is so.                       *)
DistriTypeOK ==
  /\ TypeOK
  /\ conn \in [Clients -> {"open", "closed", "gone"}]
  /\ told \in [Clients -> SUBSET Pieces]
  /\ waited \in [Clients -> 0 .. MaxWait]
  /\ resuming \in [Clients -> BOOLEAN]
  /\ toProxy \in [Clients -> Seq(Pieces)]
  /\ fromProxy \in [Clients -> Seq(Message)]
  /\ cached \in [Clients -> SUBSET Pieces]
  /\ \A c \in Clients : told[c] \subseteq cached[c]

(* A connection that is gone answers for nothing: neither for the block of *)
(* its TrafficController nor for the piece of its DistriDownloadMgr, which *)
(* are returned at different times.                                        *)
GoneOwesNothing ==
  \A c \in Clients : conn[c] = "gone" => held[c] = {} /\ assigned[c] = {}

(* The connections, the pieces assigned to them and the marks of the       *)
(* picker agree, also once a connection is gone.                           *)
DistriConsistent == DistriTypeOK /\ GoneOwesNothing

(* A piece given to a proxy comes back, though the proxy refuses, is       *)
(* silent, announces other pieces, or goes away.                           *)
PieceReturns ==
  \A c \in Sponsors : assigned[c] # {} ~> assigned[c] = {}

=============================================================================
