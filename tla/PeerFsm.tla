------------------------------- MODULE PeerFsm -------------------------------
(***************************************************************************)
(* The two ends of one BT connection, from the first handshake to CLOSE:   *)
(* the state machine (rcs/src/frame/p2p_fsm.cpp, protocol/bt/bt_fsm.cpp),  *)
(* the messages it sends and those it receives (bt_peer_connection.cpp,    *)
(* frame/peer_connection.cpp).  Each end has a torrent, which becomes      *)
(* ready at any time, and pieces, which are verified at any time.          *)
(*                                                                         *)
(* Messages, ticks and jumps run under fsm_mutex_.  The work thread        *)
(* announces a piece without it, so an announcement may come between the   *)
(* making of a bitfield and its sending.  TCP keeps the order of messages. *)
(* Requests and blocks are in BlockDownload and Upload.                    *)
(***************************************************************************)
EXTENDS Naturals, Sequences, FiniteSets

CONSTANTS Pieces,      \* the pieces of the torrent
          Unlucky,     \* the ends whose flags may hold garbage
          MayFail,     \* the ends whose socket may fail or be dropped at any time
          Foreign,     \* the ends of another implementation
          MaxForeign   \* bound: messages only another implementation sends

Ends == {"active", "passive"}

ASSUME FsmAssumption == Pieces # {} /\ MaxForeign \in Nat /\ Unlucky \cup MayFail \cup Foreign \subseteq Ends

Other(e) == IF e = "active" THEN "passive" ELSE "active"

VARIABLES
  fsm,        \* current_state_; INIT is left at once
  busy,       \* a handler inside fsm_mutex_: what it does next
  bitfield,   \* the piece map the handler has made and not yet sent
  flags,      \* recv_unchoke_before_block_state_, recv_interest_before_...
  attached,   \* the connection is in the Policy of the torrent
  open,       \* the socket is open
  torrent,    \* "none", "half": is_ready_ but no piece_picker_ yet, "ready"
  pieces,     \* the verified pieces of the end
  seed,       \* is_seed_
  announcing, \* verified pieces the work thread has not announced yet
  sized,      \* piece_map_ is not empty
  view,       \* piece_map_: the pieces the other end is believed to have
  channel,    \* channel[e]: the messages on their way to e
  foreign,    \* how many messages of another implementation were sent
  stale,      \* history: the last bitfield made was overtaken, or not sent
  heard,      \* history: the last choke and interest messages that arrived
  garbage,    \* history: flags held TRUE when the connection was created
  early,      \* history: a choke or a loss of interest arrived in METADATA
  aborted     \* the ends whose process an assertion has ended

state == <<fsm, busy, bitfield, flags>>
pvars == <<torrent, pieces, seed, announcing>>
maps == <<sized, view>>
history == <<stale, heard, garbage, early>>
fvars == <<state, attached, open, pvars, maps, channel, foreign, history, aborted>>

Exchange == {"TRANSFER", "UPLOAD", "DOWNLOAD", "SEED"}
Talk == {"choke", "unchoke", "interested", "notinterested"}

Msg(k) == [kind |-> k]
Have(p) == [kind |-> "have", piece |-> p]
Bitfield(s) == [kind |-> "bitfield", map |-> s]

Message == {Msg(k) : k \in Talk \cup {"handshake", "eof"}}
             \cup {Have(p) : p \in Pieces} \cup {Bitfield(s) : s \in SUBSET Pieces}

Nothing == [unchoke |-> FALSE, interest |-> FALSE]

IsReady(e) == torrent[e] # "none"

Free(e) == busy[e] = "no" /\ aborted = {}

(* SocketConnection::SendData: nothing goes out of a socket that is closed.*)
Send(e, msgs) ==
  channel' = IF open[e] /\ open[Other(e)]
               THEN [channel EXCEPT ![Other(e)] = @ \o msgs]
               ELSE channel

(* The active end was given its torrent before it started and has sent its *)
(* handshake; the passive end knows no torrent.  The constructor leaves    *)
(* the two flags uninitialised.                                            *)
FsmInit ==
  /\ fsm = [e \in Ends |-> "HANDSHAKE"]
  /\ busy = [e \in Ends |-> "no"]
  /\ bitfield = [e \in Ends |-> {}]
  /\ flags \in [Ends -> [unchoke : BOOLEAN, interest : BOOLEAN]]
  /\ \A e \in Ends \ Unlucky : flags[e] = Nothing
  /\ attached = [e \in Ends |-> e = "active"]
  /\ open = [e \in Ends |-> TRUE]
  /\ torrent \in [Ends -> {"none", "ready"}]
  /\ pieces \in [Ends -> SUBSET Pieces]
  /\ \A e \in Ends : torrent[e] = "none" => pieces[e] = {}
  /\ seed = [e \in Ends |-> pieces[e] = Pieces]
  /\ announcing = [e \in Ends |-> {}]
  /\ sized = [e \in Ends |-> e = "active" /\ torrent[e] # "none"]
  /\ view = [e \in Ends |-> {}]
  /\ channel = [e \in Ends |-> IF e = "passive" THEN <<Msg("handshake")>> ELSE << >>]
  /\ foreign = 0
  /\ stale = [e \in Ends |-> FALSE]
  /\ heard = [e \in Ends |-> Nothing]
  /\ garbage = flags
  /\ early = [e \in Ends |-> FALSE]
  /\ aborted = {}

-----------------------------------------------------------------------------
(* The handshake.  OnHandshakeMsg first attaches a passive connection to   *)
(* its torrent (ObtainedInfoHash, AttachToTorrent).                        *)
OnHandshakeMsg(e) ==
  /\ Free(e)
  /\ fsm[e] = "HANDSHAKE"
  /\ channel[e] # << >>
  /\ Head(channel[e]) = Msg("handshake")
  /\ channel' = [channel EXCEPT ![e] = Tail(@)]
  /\ attached' = [attached EXCEPT ![e] = TRUE]
  /\ sized' = [sized EXCEPT ![e] = @ \/ (~attached[e] /\ IsReady(e))]
  /\ busy' = [busy EXCEPT ![e] = "handshaked"]
  /\ UNCHANGED <<fsm, bitfield, flags, open, pvars, view, foreign, history, aborted>>

(* It answers with a handshake, if passive, and leaves HANDSHAKE: a        *)
(* torrent that is ready makes a bitfield.                                 *)
LeaveHandshake(e) ==
  /\ busy[e] = "handshaked"
  /\ Send(e, IF e = "passive" THEN <<Msg("handshake")>> ELSE << >>)
  /\ IF torrent[e] = "ready"
       THEN /\ busy' = [busy EXCEPT ![e] = "bitfield"]
            /\ bitfield' = [bitfield EXCEPT ![e] = pieces[e]]
            /\ UNCHANGED fsm
       ELSE /\ busy' = [busy EXCEPT ![e] = "no"]
            /\ fsm' = [fsm EXCEPT ![e] = "METADATA"]
            /\ UNCHANGED bitfield
  /\ UNCHANGED <<flags, attached, open, pvars, maps, foreign, history, aborted>>

(* The tick in METADATA finds the torrent ready and leaves for BLOCK, with *)
(* another bitfield; none if the picker has not been created yet.          *)
MetadataTick(e) ==
  /\ Free(e)
  /\ attached[e] /\ fsm[e] = "METADATA" /\ IsReady(e)
  /\ busy' = [busy EXCEPT ![e] = IF torrent[e] = "ready" THEN "again" ELSE "enter"]
  /\ bitfield' = [bitfield EXCEPT ![e] = pieces[e]]
  /\ stale' = [stale EXCEPT ![e] = torrent[e] = "half"]
  /\ UNCHANGED <<fsm, flags, attached, open, pvars, maps, channel, foreign, heard,
                 garbage, early, aborted>>

SendBitfieldMsg(e) ==
  /\ busy[e] \in {"bitfield", "again"}
  /\ Send(e, <<Bitfield(bitfield[e])>>)
  /\ busy' = [busy EXCEPT ![e] = IF @ = "bitfield" THEN "no" ELSE "enter"]
  /\ bitfield' = [bitfield EXCEPT ![e] = {}]
  /\ fsm' = [fsm EXCEPT ![e] = "METADATA"]
  /\ UNCHANGED <<flags, attached, open, pvars, maps, foreign, history, aborted>>

(* A bug ExchangeBegins must find: what was heard before BLOCK is forgotten.*)
MutantEnterBlock(e) ==
  /\ busy[e] = "enter"
  /\ busy' = [busy EXCEPT ![e] = "no"]
  /\ sized' = [sized EXCEPT ![e] = TRUE]
  /\ Send(e, <<Msg("unchoke"), Msg("interested")>>)
  /\ fsm' = [fsm EXCEPT ![e] = IF seed[e] THEN "SEED" ELSE "BLOCK"]
  /\ UNCHANGED <<bitfield, flags, attached, open, pvars, view, foreign, history, aborted>>

(* METADATA is left, which sizes the piece map, and BLOCK is entered.      *)
EnterBlock(e) ==
  /\ busy[e] = "enter"
  /\ busy' = [busy EXCEPT ![e] = "no"]
  /\ sized' = [sized EXCEPT ![e] = TRUE]
  /\ Send(e, <<Msg("unchoke"), Msg("interested")>>)
  /\ fsm' = [fsm EXCEPT ![e] =
       IF seed[e] THEN "SEED"
       ELSE IF flags[e].unchoke /\ flags[e].interest THEN "TRANSFER"
       ELSE IF flags[e].unchoke THEN "DOWNLOAD"
       ELSE IF flags[e].interest THEN "UPLOAD" ELSE "BLOCK"]
  /\ UNCHANGED <<bitfield, flags, attached, open, pvars, view, foreign, history, aborted>>

-----------------------------------------------------------------------------
(* The jumps of the states from BLOCK on.  Any other message of the peer   *)
(* leaves the state as it is.                                              *)
Jumps == {<<"BLOCK", "unchoke", "DOWNLOAD">>,
          <<"BLOCK", "interested", "UPLOAD">>,
          <<"TRANSFER", "choke", "UPLOAD">>,
          <<"TRANSFER", "notinterested", "DOWNLOAD">>,
          <<"UPLOAD", "notinterested", "CLOSE">>,
          <<"UPLOAD", "unchoke", "TRANSFER">>,
          <<"DOWNLOAD", "choke", "CLOSE">>,
          <<"DOWNLOAD", "interested", "TRANSFER">>}

After(s, k) ==
  IF \E j \in Jumps : j[1] = s /\ j[2] = k
    THEN (CHOOSE j \in Jumps : j[1] = s /\ j[2] = k)[3]
    ELSE s

Hear(e, k) ==
  heard' = [heard EXCEPT
    ![e].unchoke = IF k \in {"choke", "unchoke"} THEN k = "unchoke" ELSE @,
    ![e].interest = IF k \in {"interested", "notinterested"} THEN k = "interested" ELSE @]

(* A bug FollowsPeer must find: interest heard in METADATA is not          *)
(* remembered.                                                             *)
MutantOnTalk(e, k) ==
  /\ k \in Talk
  /\ fsm' = [fsm EXCEPT ![e] = After(@, k)]
  /\ flags' = IF fsm[e] = "METADATA"
                THEN [flags EXCEPT ![e].unchoke = @ \/ k = "unchoke"]
                ELSE flags
  /\ early' = [early EXCEPT ![e] = @ \/ (fsm[e] = "METADATA" /\ k \in {"choke", "notinterested"})]
  /\ Hear(e, k)
  /\ UNCHANGED <<maps, aborted>>

(* ReceivedChokeMsg, ReceivedInterestMsg and P2PFsm::ProcessMsg.  Before   *)
(* BLOCK an unchoke and an interest are remembered; a choke or a loss of   *)
(* interest does not take that back.                                       *)
OnTalk(e, k) ==
  /\ k \in Talk
  /\ fsm' = [fsm EXCEPT ![e] = After(@, k)]
  /\ flags' = IF fsm[e] = "METADATA"
                THEN [flags EXCEPT ![e] = [unchoke |-> @.unchoke \/ k = "unchoke",
                                           interest |-> @.interest \/ k = "interested"]]
                ELSE flags
  /\ early' = [early EXCEPT ![e] = @ \/ (fsm[e] = "METADATA" /\ k \in {"choke", "notinterested"})]
  /\ Hear(e, k)
  /\ UNCHANGED <<maps, aborted>>

(* ReceivedHaveMsg asserts that piece_map_ is large enough.                *)
OnHaveMsg(e, m) ==
  /\ m.kind = "have"
  /\ view' = [view EXCEPT ![e] = IF sized[e] THEN @ \cup {m.piece} ELSE @]
  /\ aborted' = IF sized[e] THEN aborted ELSE aborted \cup {e}
  /\ UNCHANGED <<fsm, flags, sized, heard, early>>

(* ReceivedBitfieldMsg replaces piece_map_.                                *)
OnBitfieldMsg(e, m) ==
  /\ m.kind = "bitfield"
  /\ view' = [view EXCEPT ![e] = m.map]
  /\ sized' = [sized EXCEPT ![e] = TRUE]
  /\ UNCHANGED <<fsm, flags, heard, early, aborted>>

(* The message map of HANDSHAKE has the handshake only, CLOSE drops all;   *)
(* a second handshake finds no entry.                                      *)
Dropped(e, m) ==
  /\ m.kind # "eof"
  /\ \/ fsm[e] = "HANDSHAKE" /\ m.kind # "handshake"
     \/ fsm[e] = "CLOSE"
     \/ fsm[e] # "HANDSHAKE" /\ m.kind = "handshake"
  /\ UNCHANGED <<fsm, flags, maps, heard, early, aborted>>

(* ProcessRecvError, which closes the socket as well.                      *)
OnRecvError(e, m) ==
  /\ m.kind = "eof"
  /\ fsm' = [fsm EXCEPT ![e] = "CLOSE"]
  /\ UNCHANGED <<flags, maps, heard, early, aborted>>

Receive(e) ==
  /\ Free(e)
  /\ channel[e] # << >>
  /\ channel' = [channel EXCEPT ![e] = Tail(@)]
  /\ LET m == Head(channel[e]) IN
       \/ Dropped(e, m)
       \/ OnRecvError(e, m)
       \/ /\ fsm[e] \notin {"HANDSHAKE", "CLOSE"}
          /\ \/ OnTalk(e, m.kind)
             \/ OnHaveMsg(e, m)
             \/ OnBitfieldMsg(e, m)
  /\ open' = [open EXCEPT ![e] = @ /\ Head(channel[e]) # Msg("eof")]
  /\ UNCHANGED <<busy, bitfield, attached, pvars, foreign, stale, garbage>>

-----------------------------------------------------------------------------
(* The torrent: SetTorrentInfo sets is_ready_, then creates the picker;    *)
(* pieces that were resumed come with it.  What happens to the torrent     *)
(* after the connection has closed is not followed.                        *)
SetReady(e) ==
  /\ torrent[e] = "none"
  /\ aborted = {} /\ open[e]
  /\ torrent' = [torrent EXCEPT ![e] = "half"]
  /\ UNCHANGED <<state, attached, open, pieces, seed, announcing, maps, channel,
                 foreign, history, aborted>>

CreatePicker(e) ==
  /\ torrent[e] = "half"
  /\ aborted = {}
  /\ torrent' = [torrent EXCEPT ![e] = "ready"]
  /\ \E s \in SUBSET Pieces :
       /\ pieces' = [pieces EXCEPT ![e] = s]
       /\ seed' = [seed EXCEPT ![e] = s = Pieces]
  /\ UNCHANGED <<state, attached, open, announcing, maps, channel, foreign, history,
                 aborted>>

(* PiecePicker::OnVerifyPiece on the work thread: the piece is entered in  *)
(* the map, then announced; the last one makes the torrent a seed.         *)
(* Bound: not after a message of another implementation or with garbage.   *)
VerifyPiece(e, p) ==
  /\ torrent[e] = "ready"
  /\ aborted = {} /\ open[e]
  /\ p \notin pieces[e]
  /\ announcing[e] = {}
  /\ foreign = 0 /\ garbage = [x \in Ends |-> Nothing]
  /\ pieces' = [pieces EXCEPT ![e] = @ \cup {p}]
  /\ announcing' = [announcing EXCEPT ![e] = {p}]
  /\ UNCHANGED <<state, attached, open, torrent, seed, maps, channel, foreign, history,
                 aborted>>

(* A bug FsmConsistent must find: a piece is announced to connections that *)
(* have left METADATA only.                                                *)
MutantAnnouncePiece(e, p) ==
  /\ p \in announcing[e]
  /\ aborted = {}
  /\ announcing' = [announcing EXCEPT ![e] = {}]
  /\ Send(e, IF fsm[e] \in Exchange THEN <<Have(p)>> ELSE << >>)
  /\ stale' = [stale EXCEPT ![e] =
       @ \/ (attached[e] /\ busy[e] \in {"bitfield", "again"} /\ p \notin bitfield[e])]
  /\ seed' = [seed EXCEPT ![e] = pieces[e] = Pieces]
  /\ UNCHANGED <<state, attached, open, torrent, pieces, maps, foreign, heard, garbage,
                 early, aborted>>

(* Policy::HavePiece: every connection of the torrent is told, whatever    *)
(* its state.                                                              *)
AnnouncePiece(e, p) ==
  /\ p \in announcing[e]
  /\ aborted = {}
  /\ announcing' = [announcing EXCEPT ![e] = {}]
  /\ Send(e, IF attached[e] THEN <<Have(p)>> ELSE << >>)
  /\ stale' = [stale EXCEPT ![e] =
       @ \/ (attached[e] /\ busy[e] \in {"bitfield", "again"} /\ p \notin bitfield[e])]
  /\ seed' = [seed EXCEPT ![e] = pieces[e] = Pieces]
  /\ UNCHANGED <<state, attached, open, torrent, pieces, maps, foreign, heard, garbage,
                 early, aborted>>

-----------------------------------------------------------------------------
(* An end of another implementation may choke and lose interest as well.   *)
(* Bounds: it has the metadata, and no flags were garbage.                 *)
ForeignTalk(e, k) ==
  /\ Free(e)
  /\ e \in Foreign
  /\ torrent[e] = "ready" /\ \A x \in Ends : garbage[x] = Nothing
  /\ foreign < MaxForeign
  /\ fsm[e] \notin {"HANDSHAKE", "CLOSE"}
  /\ foreign' = foreign + 1
  /\ Send(e, <<Msg(k)>>)
  /\ UNCHANGED <<state, attached, open, pvars, maps, history, aborted>>

(* The socket is closed: after an error, or by Policy, which drops what is *)
(* in CLOSE or inactive, and the destructor of the connection.  What the   *)
(* connection believed and heard goes with it.                             *)
CloseSocket(e) ==
  /\ Free(e)
  /\ open[e] /\ (fsm[e] = "CLOSE" \/ e \in MayFail)
  /\ open' = [open EXCEPT ![e] = FALSE]
  /\ fsm' = [fsm EXCEPT ![e] = "CLOSE"]
  /\ channel' = [channel EXCEPT ![e] = << >>,
                                ![Other(e)] = IF open[Other(e)] THEN Append(@, Msg("eof")) ELSE @]
  /\ view' = [view EXCEPT ![e] = {}]
  /\ heard' = [heard EXCEPT ![e] = Nothing]
  /\ flags' = [flags EXCEPT ![e] = Nothing]
  /\ garbage' = [garbage EXCEPT ![e] = Nothing]
  /\ early' = [early EXCEPT ![e] = FALSE]
  /\ UNCHANGED <<busy, bitfield, attached, pvars, sized, foreign, stale, aborted>>

Handler(e) ==
  \/ OnHandshakeMsg(e)
  \/ LeaveHandshake(e)
  \/ SendBitfieldMsg(e)
  \/ EnterBlock(e)
  \/ Receive(e)

FsmNext ==
  \E e \in Ends :
    \/ Handler(e)
    \/ MetadataTick(e)
    \/ SetReady(e)
    \/ CreatePicker(e)
    \/ CloseSocket(e)
    \/ \E p \in Pieces : VerifyPiece(e, p) \/ AnnouncePiece(e, p)
    \/ \E k \in Talk : ForeignTalk(e, k)

FsmSpec == FsmInit /\ [][FsmNext]_fvars

(* Messages arrive, the timer ticks, Policy drops a connection in CLOSE.   *)
FairFsmSpec ==
  /\ FsmSpec
  /\ \A e \in Ends :
       /\ WF_fvars(Handler(e))
       /\ SF_fvars(MetadataTick(e))
       /\ WF_fvars(CreatePicker(e))
       /\ WF_fvars(fsm[e] = "CLOSE" /\ attached[e] /\ CloseSocket(e))

-----------------------------------------------------------------------------
(* The types, and: a piece map that was never sized holds no piece, and    *)
(* only verified pieces are announced or in a bitfield.                    *)
FsmTypeOK ==
  /\ fsm \in [Ends -> Exchange \cup {"HANDSHAKE", "METADATA", "BLOCK", "CLOSE"}]
  /\ busy \in [Ends -> {"no", "handshaked", "bitfield", "again", "enter"}]
  /\ bitfield \in [Ends -> SUBSET Pieces]
  /\ flags \in [Ends -> [unchoke : BOOLEAN, interest : BOOLEAN]]
  /\ attached \in [Ends -> BOOLEAN]
  /\ open \in [Ends -> BOOLEAN]
  /\ torrent \in [Ends -> {"none", "half", "ready"}]
  /\ pieces \in [Ends -> SUBSET Pieces]
  /\ seed \in [Ends -> BOOLEAN]
  /\ announcing \in [Ends -> SUBSET Pieces]
  /\ sized \in [Ends -> BOOLEAN]
  /\ view \in [Ends -> SUBSET Pieces]
  /\ channel \in [Ends -> Seq(Message)]
  /\ foreign \in 0 .. MaxForeign
  /\ stale \in [Ends -> BOOLEAN]
  /\ heard \in [Ends -> [unchoke : BOOLEAN, interest : BOOLEAN]]
  /\ garbage \in [Ends -> [unchoke : BOOLEAN, interest : BOOLEAN]]
  /\ early \in [Ends -> BOOLEAN]
  /\ aborted \in SUBSET Ends
  /\ \A e \in Ends : /\ view[e] # {} => sized[e]
                     /\ announcing[e] \cup bitfield[e] \subseteq pieces[e]

(* What an end believes of the other is never too much, and is exact when  *)
(* both exchange and nothing is on its way: bitfields and announcements    *)
(* meet in the right order, although announcements are sent in any state.  *)
(* Not so if a piece was announced between the making and the sending of   *)
(* the last bitfield, which then erases it, or if no bitfield was sent.    *)
ViewExact ==
  \A e \in Ends :
    /\ view[e] \subseteq pieces[Other(e)]
    /\ (/\ fsm[e] \in Exchange /\ fsm[Other(e)] \in Exchange
        /\ channel[e] = << >> /\ announcing[Other(e)] = {} /\ ~stale[Other(e)])
         => view[e] = pieces[Other(e)]

(* Once in BLOCK an end that is no seed downloads exactly if the last it   *)
(* heard is an unchoke, and uploads exactly if it is an interest, wherever *)
(* in HANDSHAKE, METADATA or BLOCK the messages found it.  The exceptions: *)
(* flags that were garbage, and a choke or loss of interest in METADATA.   *)
FollowsPeer ==
  \A e \in Ends :
    (fsm[e] \in {"BLOCK", "TRANSFER", "UPLOAD", "DOWNLOAD"}
       /\ ~garbage[e].unchoke /\ ~garbage[e].interest /\ ~early[e])
      => /\ (fsm[e] \in {"TRANSFER", "DOWNLOAD"}) <=> heard[e].unchoke
         /\ (fsm[e] \in {"TRANSFER", "UPLOAD"}) <=> heard[e].interest

(* Two RCS whose torrents become ready, however late, end up transferring  *)
(* in both directions, or seeding, unless the connection closes or an      *)
(* assertion ends a process.                                               *)
ExchangeBegins ==
  (\A e \in Ends : torrent[e] = "ready") ~>
    \/ \A e \in Ends : fsm[e] \in {"TRANSFER", "SEED", "CLOSE"}
    \/ foreign > 0
    \/ aborted # {}

(* The two ends of a connection agree on which pieces each of them has.    *)
FsmConsistent == FsmTypeOK /\ ViewExact

=============================================================================
