---------------------------- MODULE PeerFsmProofs ----------------------------
(* The two ends of a connection never believe too much of each other, end  *)
(* up with the truth, and exchange what they have heard the other allows:  *)
(* for any torrent, any end that fails, and a peer of another program.     *)
EXTENDS PeerFsm, TLAPS

InBlock(e) == fsm[e] \in Exchange \cup {"BLOCK"}

(* The tick in METADATA has found the torrent of the end ready.            *)
Ticked(e) == busy[e] \in {"again", "enter"} \/ InBlock(e)

(* What an end knows of itself.  Once it has made its last bitfield, which *)
(* nothing has overtaken, what is not in it is still to be announced.      *)
OwnState(e) ==
  /\ busy[e] \in {"handshaked", "bitfield"} => fsm[e] = "HANDSHAKE"
  /\ busy[e] \in {"again", "enter"} => fsm[e] = "METADATA"
  /\ fsm[e] # "CLOSE" => open[e]
  /\ busy[e] # "no" \/ fsm[e] \notin {"HANDSHAKE", "CLOSE"} => attached[e]
  /\ InBlock(e) => sized[e]
  /\ e \in aborted => fsm[e] = "METADATA" /\ busy[e] = "no"

OwnPieces(e) ==
  /\ torrent[e] # "ready" => pieces[e] = {}
  /\ \A p, q \in announcing[e] : p = q
  /\ Ticked(e) /\ ~stale[e] => torrent[e] = "ready"
  /\ busy[e] = "again" /\ ~stale[e] => pieces[e] \ announcing[e] \subseteq bitfield[e]

(* Nothing on its way to e says more than the truth.                       *)
Truthful(e) ==
  /\ view[e] \subseteq pieces[Other(e)]
  /\ \A i \in 1 .. Len(channel[e]) :
       /\ channel[e][i].kind = "have" => channel[e][i].piece \in pieces[Other(e)]
       /\ channel[e][i].kind = "bitfield" => channel[e][i].map \subseteq pieces[Other(e)]

(* The handshake is in front of all that e must not drop.                  *)
Waiting(e) == fsm[e] = "HANDSHAKE" /\ busy[e] = "no"

Greeted(e) == \E h \in 1 .. Len(channel[e]) : channel[e][h] = Msg("handshake")

Speaks(e) == e = "active" \/ fsm[e] # "HANDSHAKE" \/ busy[e] = "bitfield"

Carries(m, p) == m = Have(p) \/ (m.kind = "bitfield" /\ p \in m.map)

Keeps(m, p) == m.kind = "bitfield" => p \in m.map

(* When e has received all that is on its way, it believes the other end   *)
(* to have p.                                                              *)
WillKnow(e, p) ==
  \/ /\ ~Waiting(e)
     /\ p \in view[e]
     /\ \A j \in 1 .. Len(channel[e]) : Keeps(channel[e][j], p)
  \/ \E i \in 1 .. Len(channel[e]) :
       /\ Carries(channel[e][i], p)
       /\ \A j \in 1 .. Len(channel[e]) : j > i => Keeps(channel[e][j], p)
       /\ Waiting(e) => \E h \in 1 .. Len(channel[e]) : h < i /\ channel[e][h] = Msg("handshake")

Alive(e) == fsm[e] # "CLOSE" /\ fsm[Other(e)] # "CLOSE"

Informed(e) ==
  /\ Alive(e) /\ Waiting(e) /\ Speaks(Other(e)) => Greeted(e)
  /\ Alive(e) /\ e \notin aborted /\ ~stale[Other(e)]
       /\ (busy[Other(e)] = "enter" \/ InBlock(Other(e)))
     => \A p \in pieces[Other(e)] \ announcing[Other(e)] : WillKnow(e, p)

FInv ==
  /\ FsmTypeOK
  /\ \A e \in Ends : OwnState(e) /\ OwnPieces(e) /\ Truthful(e) /\ Informed(e)

(* What an end has heard, and where it stands.                             *)
Follows(e) ==
  (~garbage[e].unchoke /\ ~garbage[e].interest) =>
    /\ fsm[e] = "HANDSHAKE" =>
         ~flags[e].unchoke /\ ~flags[e].interest /\ ~heard[e].unchoke /\ ~heard[e].interest
    /\ fsm[e] = "METADATA" /\ ~early[e] =>
         /\ flags[e].unchoke <=> heard[e].unchoke
         /\ flags[e].interest <=> heard[e].interest
    /\ fsm[e] \in {"BLOCK", "TRANSFER", "UPLOAD", "DOWNLOAD"} /\ ~early[e] =>
         /\ (fsm[e] \in {"TRANSFER", "DOWNLOAD"}) <=> heard[e].unchoke
         /\ (fsm[e] \in {"TRANSFER", "UPLOAD"}) <=> heard[e].interest

HeardInv == \A e \in Ends : Follows(e)

-----------------------------------------------------------------------------
LEMMA TwoEnds ==
  ASSUME NEW a \in Ends
  PROVE  Other(a) \in Ends /\ Other(a) # a /\ Other(Other(a)) = a /\ Ends = {a, Other(a)}
BY DEF Ends, Other

LEMMA Messages ==
  /\ \A k \in Talk \cup {"handshake", "eof"} : Msg(k) \in Message /\ Msg(k).kind = k
  /\ \A p \in Pieces : Have(p) \in Message /\ Have(p).kind = "have" /\ Have(p).piece = p
  /\ \A s \in SUBSET Pieces :
       Bitfield(s) \in Message /\ Bitfield(s).kind = "bitfield" /\ Bitfield(s).map = s
  /\ \A m \in Message :
       \/ m.kind \in Talk \cup {"handshake", "eof"} /\ m = Msg(m.kind)
       \/ m.kind = "have" /\ m.piece \in Pieces /\ m = Have(m.piece)
       \/ m.kind = "bitfield" /\ m.map \in SUBSET Pieces /\ m = Bitfield(m.map)
<1>1. \A k \in Talk \cup {"handshake", "eof"} : Msg(k) \in Message /\ Msg(k).kind = k
  BY DEF Message, Msg
<1>2. \A p \in Pieces : Have(p) \in Message /\ Have(p).kind = "have" /\ Have(p).piece = p
  BY DEF Message, Have
<1>3. \A s \in SUBSET Pieces :
        Bitfield(s) \in Message /\ Bitfield(s).kind = "bitfield" /\ Bitfield(s).map = s
  BY DEF Message, Bitfield
<1>4. ASSUME NEW m \in Message
      PROVE  \/ m.kind \in Talk \cup {"handshake", "eof"} /\ m = Msg(m.kind)
             \/ m.kind = "have" /\ m.piece \in Pieces /\ m = Have(m.piece)
             \/ m.kind = "bitfield" /\ m.map \in SUBSET Pieces /\ m = Bitfield(m.map)
  <2>1. \/ \E k \in Talk \cup {"handshake", "eof"} : m = Msg(k)
        \/ \E p \in Pieces : m = Have(p)
        \/ \E s \in SUBSET Pieces : m = Bitfield(s)
    BY DEF Message
  <2> QED
    BY <1>1, <1>2, <1>3, <2>1
<1> QED
  BY <1>1, <1>2, <1>3, <1>4

LEMMA Jumped ==
  /\ \A j \in Jumps : After(j[1], j[2]) = j[3]
  /\ \A s, k : (\A j \in Jumps : j[1] # s \/ j[2] # k) => After(s, k) = s
<1>1. \A i, j \in Jumps : i[1] = j[1] /\ i[2] = j[2] => i[3] = j[3]
  BY DEF Jumps
<1>2. ASSUME NEW j \in Jumps
      PROVE  After(j[1], j[2]) = j[3]
  BY <1>1 DEF After
<1>3. ASSUME NEW s, NEW k, \A j \in Jumps : j[1] # s \/ j[2] # k
      PROVE  After(s, k) = s
  BY <1>3, Zenon DEF After
<1> QED
  BY <1>2, <1>3

(* The states a message leads to.  CLOSE is never left, and BLOCK, SEED    *)
(* and the states before them are not entered by a message.                *)
LEMMA AfterFacts ==
  ASSUME NEW k \in Talk
  PROVE  /\ \A s \in {"HANDSHAKE", "METADATA", "SEED", "CLOSE"} : After(s, k) = s
         /\ After("BLOCK", k) = IF k = "unchoke" THEN "DOWNLOAD"
                                ELSE IF k = "interested" THEN "UPLOAD" ELSE "BLOCK"
         /\ After("TRANSFER", k) = IF k = "choke" THEN "UPLOAD"
                                   ELSE IF k = "notinterested" THEN "DOWNLOAD" ELSE "TRANSFER"
         /\ After("UPLOAD", k) = IF k = "notinterested" THEN "CLOSE"
                                 ELSE IF k = "unchoke" THEN "TRANSFER" ELSE "UPLOAD"
         /\ After("DOWNLOAD", k) = IF k = "choke" THEN "CLOSE"
                                   ELSE IF k = "interested" THEN "TRANSFER" ELSE "DOWNLOAD"
<1>1. /\ <<"BLOCK", "unchoke", "DOWNLOAD">> \in Jumps
      /\ <<"BLOCK", "interested", "UPLOAD">> \in Jumps
      /\ <<"TRANSFER", "choke", "UPLOAD">> \in Jumps
      /\ <<"TRANSFER", "notinterested", "DOWNLOAD">> \in Jumps
      /\ <<"UPLOAD", "notinterested", "CLOSE">> \in Jumps
      /\ <<"UPLOAD", "unchoke", "TRANSFER">> \in Jumps
      /\ <<"DOWNLOAD", "choke", "CLOSE">> \in Jumps
      /\ <<"DOWNLOAD", "interested", "TRANSFER">> \in Jumps
  BY DEF Jumps
<1>2. /\ After("BLOCK", "unchoke") = "DOWNLOAD"
      /\ After("BLOCK", "interested") = "UPLOAD"
      /\ After("TRANSFER", "choke") = "UPLOAD"
      /\ After("TRANSFER", "notinterested") = "DOWNLOAD"
      /\ After("UPLOAD", "notinterested") = "CLOSE"
      /\ After("UPLOAD", "unchoke") = "TRANSFER"
      /\ After("DOWNLOAD", "choke") = "CLOSE"
      /\ After("DOWNLOAD", "interested") = "TRANSFER"
  BY <1>1, Jumped
<1>3. \A s \in {"HANDSHAKE", "METADATA", "SEED", "CLOSE"} : After(s, k) = s
  <2>1. \A s \in {"HANDSHAKE", "METADATA", "SEED", "CLOSE"} : \A j \in Jumps : j[1] # s
    BY DEF Jumps
  <2> QED
    BY <2>1, Jumped
<1>4. \A s : (\A j \in Jumps : j[1] # s \/ j[2] # k) => After(s, k) = s
  BY Jumped
<1>5. CASE k = "choke"
  <2>1. \A s \in {"BLOCK", "UPLOAD"} : \A j \in Jumps : j[1] # s \/ j[2] # k
    BY <1>5 DEF Jumps
  <2> QED
    BY <1>2, <1>3, <1>4, <1>5, <2>1
<1>6. CASE k = "unchoke"
  <2>1. \A s \in {"TRANSFER", "DOWNLOAD"} : \A j \in Jumps : j[1] # s \/ j[2] # k
    BY <1>6 DEF Jumps
  <2> QED
    BY <1>2, <1>3, <1>4, <1>6, <2>1
<1>7. CASE k = "interested"
  <2>1. \A s \in {"TRANSFER", "UPLOAD"} : \A j \in Jumps : j[1] # s \/ j[2] # k
    BY <1>7 DEF Jumps
  <2> QED
    BY <1>2, <1>3, <1>4, <1>7, <2>1
<1>8. CASE k = "notinterested"
  <2>1. \A s \in {"BLOCK", "DOWNLOAD"} : \A j \in Jumps : j[1] # s \/ j[2] # k
    BY <1>8 DEF Jumps
  <2> QED
    BY <1>2, <1>3, <1>4, <1>8, <2>1
<1> QED
  BY <1>5, <1>6, <1>7, <1>8 DEF Talk

(* What is sent arrives behind what is on its way, if both ends are there. *)
LEMMA SendFacts ==
  ASSUME FsmTypeOK, NEW a \in Ends, NEW ms \in Seq(Message), Send(a, ms)
  PROVE  /\ channel' \in [Ends -> Seq(Message)]
         /\ channel'[a] = channel[a]
         /\ open[a] /\ open[Other(a)] => channel'[Other(a)] = channel[Other(a)] \o ms
         /\ ~(open[a] /\ open[Other(a)]) => channel'[Other(a)] = channel[Other(a)]
BY TwoEnds DEF FsmTypeOK, Send

LEMMA HearFacts ==
  ASSUME FsmTypeOK, NEW a \in Ends, NEW k \in Talk, Hear(a, k)
  PROVE  /\ heard' \in [Ends -> [unchoke : BOOLEAN, interest : BOOLEAN]]
         /\ heard'[Other(a)] = heard[Other(a)]
         /\ heard'[a].unchoke = IF k \in {"choke", "unchoke"} THEN k = "unchoke" ELSE heard[a].unchoke
         /\ heard'[a].interest = IF k \in {"interested", "notinterested"}
                                   THEN k = "interested" ELSE heard[a].interest
<1> DEFINE R == [unchoke : BOOLEAN, interest : BOOLEAN]
           u == IF k \in {"choke", "unchoke"} THEN k = "unchoke" ELSE heard[a].unchoke
           i == IF k \in {"interested", "notinterested"} THEN k = "interested" ELSE heard[a].interest
           r == [[heard[a] EXCEPT !.unchoke = u] EXCEPT !.interest = i]
<1>1. heard \in [Ends -> R] /\ heard[a] \in R
  BY DEF FsmTypeOK
<1>2. u \in BOOLEAN /\ i \in BOOLEAN
  BY <1>1
<1>3. heard' = [heard EXCEPT ![a] = r]
  BY <1>1 DEF Hear
<1>4. \A f \in R : \A x, y \in BOOLEAN :
        /\ [[f EXCEPT !.unchoke = x] EXCEPT !.interest = y] \in R
        /\ [[f EXCEPT !.unchoke = x] EXCEPT !.interest = y].unchoke = x
        /\ [[f EXCEPT !.unchoke = x] EXCEPT !.interest = y].interest = y
  OBVIOUS
<1>5. r \in R /\ r.unchoke = u /\ r.interest = i
  BY <1>1, <1>2, <1>4
<1> HIDE DEF r
<1>6. heard'[a] = r /\ heard'[Other(a)] = heard[Other(a)] /\ heard' \in [Ends -> R]
  BY <1>1, <1>3, <1>5, TwoEnds
<1> QED
  BY <1>5, <1>6

LEMMA ConcatFacts ==
  ASSUME NEW S, NEW s \in Seq(S), NEW t \in Seq(S)
  PROVE  /\ s \o t \in Seq(S) /\ Len(s \o t) = Len(s) + Len(t)
         /\ \A i \in 1 .. Len(s) : (s \o t)[i] = s[i]
         /\ \A i \in 1 .. Len(t) : (s \o t)[Len(s) + i] = t[i] /\ Len(s) + i \in 1 .. Len(s \o t)
         /\ \A i \in 1 .. Len(s \o t) :
              i \in 1 .. Len(s) \/ (i - Len(s) \in 1 .. Len(t) /\ (s \o t)[i] = t[i - Len(s)])
OBVIOUS

LEMMA TailFacts ==
  ASSUME NEW S, NEW s \in Seq(S), s # << >>
  PROVE  /\ Tail(s) \in Seq(S) /\ Head(s) \in S /\ Head(s) = s[1] /\ 1 \in 1 .. Len(s)
         /\ Len(Tail(s)) = Len(s) - 1 /\ Len(s) \in Nat
         /\ \A k \in 1 .. Len(Tail(s)) : k + 1 \in 1 .. Len(s) /\ Tail(s)[k] = s[k + 1]
OBVIOUS

-----------------------------------------------------------------------------
(* What e will know when a message is sent to it: what it was to know      *)
(* anyhow, unless a bitfield says otherwise, and what the message carries. *)
LEMMA SentKnown ==
  ASSUME NEW e \in Ends, NEW p, NEW ms \in Seq(Message), channel[e] \in Seq(Message),
         channel'[e] = channel[e] \o ms, fsm'[e] = fsm[e], busy'[e] = busy[e], view'[e] = view[e],
         WillKnow(e, p), \A i \in 1 .. Len(ms) : Keeps(ms[i], p)
  PROVE  WillKnow(e, p)'
<1> DEFINE s == channel[e]
           n == channel'[e]
<1>1. /\ \A i \in 1 .. Len(s) : n[i] = s[i] /\ i \in 1 .. Len(n)
      /\ \A i \in 1 .. Len(n) : i \in 1 .. Len(s) \/ (i - Len(s) \in 1 .. Len(ms) /\ n[i] = ms[i - Len(s)])
  BY ConcatFacts
<1>2. \A j \in 1 .. Len(n) : (j \in 1 .. Len(s) /\ n[j] = s[j]) \/ Keeps(n[j], p)
  BY <1>1
<1>3. Waiting(e)' = Waiting(e)
  BY DEF Waiting
<1>4. CASE ~Waiting(e) /\ p \in view[e] /\ \A j \in 1 .. Len(s) : Keeps(s[j], p)
  <2>1. \A j \in 1 .. Len(n) : Keeps(n[j], p)
    BY <1>2, <1>4
  <2> QED
    BY <1>3, <1>4, <2>1 DEF WillKnow, Keeps
<1>5. CASE \E i \in 1 .. Len(s) :
             /\ Carries(s[i], p)
             /\ \A j \in 1 .. Len(s) : j > i => Keeps(s[j], p)
             /\ Waiting(e) => \E h \in 1 .. Len(s) : h < i /\ s[h] = Msg("handshake")
  <2>1. PICK i \in 1 .. Len(s) :
          /\ Carries(s[i], p)
          /\ \A j \in 1 .. Len(s) : j > i => Keeps(s[j], p)
          /\ Waiting(e) => \E h \in 1 .. Len(s) : h < i /\ s[h] = Msg("handshake")
    BY <1>5
  <2>2. i \in 1 .. Len(n) /\ Carries(n[i], p)
    BY <1>1, <2>1
  <2>3. \A j \in 1 .. Len(n) : j > i => Keeps(n[j], p)
    BY <1>2, <2>1
  <2>4. Waiting(e) => \E h \in 1 .. Len(n) : h < i /\ n[h] = Msg("handshake")
    BY <1>1, <2>1
  <2> QED
    BY <1>3, <2>2, <2>3, <2>4 DEF WillKnow, Keeps, Carries
<1> QED
  BY <1>4, <1>5 DEF WillKnow

LEMMA CarriedKnown ==
  ASSUME NEW e \in Ends, NEW p, NEW m \in Message, channel[e] \in Seq(Message),
         channel'[e] = channel[e] \o <<m>>, fsm'[e] = fsm[e], busy'[e] = busy[e],
         Carries(m, p), Waiting(e) => Greeted(e)
  PROVE  WillKnow(e, p)'
<1> DEFINE s == channel[e]
           n == channel'[e]
           i == Len(s) + 1
<1>1. /\ i \in 1 .. Len(n) /\ n[i] = m /\ Len(n) = i /\ Len(s) \in Nat
      /\ \A h \in 1 .. Len(s) : n[h] = s[h] /\ h \in 1 .. Len(n) /\ h < i
  BY ConcatFacts
<1>2. Waiting(e)' = Waiting(e)
  BY DEF Waiting
<1>3. Waiting(e) => \E h \in 1 .. Len(n) : h < i /\ n[h] = Msg("handshake")
  BY <1>1 DEF Greeted
<1>4. \A j \in 1 .. Len(n) : ~(j > i)
  BY <1>1
<1> HIDE DEF i
<1>5. Carries(n[i], p)
  BY <1>1
<1> QED
  BY <1>1, <1>2, <1>3, <1>4, <1>5 DEF WillKnow, Carries

(* What e will know when it takes a message: no less, if its map takes in  *)
(* what the message carries, and loses only what the message denies.       *)
LEMMA TakenKnown ==
  ASSUME NEW e \in Ends, NEW p, channel[e] \in Seq(Message), channel[e] # << >>,
         channel'[e] = Tail(channel[e]), WillKnow(e, p),
         Waiting(e) => (Waiting(e)' => Head(channel[e]) # Msg("handshake")),
         ~Waiting(e) => /\ ~Waiting(e)'
                        /\ Carries(Head(channel[e]), p) => p \in view'[e]
                        /\ p \in view[e] /\ Keeps(Head(channel[e]), p) => p \in view'[e]
  PROVE  WillKnow(e, p)'
<1> DEFINE s == channel[e]
           n == channel'[e]
<1>1. /\ Head(s) = s[1] /\ Len(n) = Len(s) - 1 /\ Len(s) \in Nat /\ 1 \in 1 .. Len(s)
      /\ \A k \in 1 .. Len(n) : k + 1 \in 1 .. Len(s) /\ n[k] = s[k + 1]
  BY TailFacts
<1>2. CASE ~Waiting(e) /\ p \in view[e] /\ \A j \in 1 .. Len(s) : Keeps(s[j], p)
  <2>1. \A j \in 1 .. Len(n) : Keeps(n[j], p)
    BY <1>1, <1>2
  <2>2. p \in view'[e]
    BY <1>1, <1>2
  <2> QED
    BY <1>2, <2>1, <2>2 DEF WillKnow, Keeps
<1>3. CASE \E i \in 1 .. Len(s) :
             /\ Carries(s[i], p)
             /\ \A j \in 1 .. Len(s) : j > i => Keeps(s[j], p)
             /\ Waiting(e) => \E h \in 1 .. Len(s) : h < i /\ s[h] = Msg("handshake")
  <2>1. PICK i \in 1 .. Len(s) :
          /\ Carries(s[i], p)
          /\ \A j \in 1 .. Len(s) : j > i => Keeps(s[j], p)
          /\ Waiting(e) => \E h \in 1 .. Len(s) : h < i /\ s[h] = Msg("handshake")
    BY <1>3
  <2>2. \A j \in 1 .. Len(n) : j > i - 1 => Keeps(n[j], p)
    <3> SUFFICES ASSUME NEW j \in 1 .. Len(n), j > i - 1
                 PROVE  Keeps(n[j], p)
      OBVIOUS
    <3>1. j + 1 \in 1 .. Len(s) /\ n[j] = s[j + 1] /\ j + 1 > i
      BY <1>1
    <3> QED
      BY <2>1, <3>1
  <2>3. CASE i = 1
    <3>1. ~Waiting(e)
      BY <2>1, <2>3
    <3>2. p \in view'[e]
      BY <1>1, <2>1, <2>3, <3>1
    <3>3. \A j \in 1 .. Len(n) : Keeps(n[j], p)
      BY <1>1, <2>2, <2>3
    <3> QED
      BY <3>1, <3>2, <3>3 DEF WillKnow, Keeps
  <2>4. CASE i # 1
    <3>1. PICK k \in 1 .. Len(n) : k = i - 1 /\ n[k] = s[i]
      BY <1>1, <2>4
    <3>2. ASSUME Waiting(e)'
          PROVE  \E h \in 1 .. Len(n) : h < k /\ n[h] = Msg("handshake")
      <4>1. Waiting(e) /\ s[1] # Msg("handshake")
        BY <1>1, <3>2
      <4>2. PICK h \in 1 .. Len(s) : h < i /\ s[h] = Msg("handshake")
        BY <2>1, <4>1
      <4>3. h # 1
        BY <4>1, <4>2
      <4>4. h - 1 \in 1 .. Len(n) /\ h - 1 < k /\ n[h - 1] = s[h]
        BY <1>1, <3>1, <4>2, <4>3
      <4> QED
        BY <4>2, <4>4
    <3>3. Carries(n[k], p) /\ \A j \in 1 .. Len(n) : j > k => Keeps(n[j], p)
      BY <2>1, <2>2, <3>1
    <3> QED
      BY <3>2, <3>3 DEF WillKnow, Keeps, Carries
  <2> QED
    BY <2>3, <2>4
<1> QED
  BY <1>2, <1>3 DEF WillKnow

-----------------------------------------------------------------------------
ActsOf(a) ==
  \/ OnHandshakeMsg(a) \/ LeaveHandshake(a) \/ SendBitfieldMsg(a) \/ EnterBlock(a)
  \/ Receive(a) \/ MetadataTick(a) \/ SetReady(a) \/ CreatePicker(a) \/ CloseSocket(a)
  \/ \E p \in Pieces : VerifyPiece(a, p) \/ AnnouncePiece(a, p)
  \/ \E k \in Talk : ForeignTalk(a, k)

LEMMA TypeKept ==
  ASSUME FInv, NEW a \in Ends, ActsOf(a)
  PROVE  FsmTypeOK'
<1>0. FsmTypeOK /\ Other(a) \in Ends
  BY TwoEnds DEF FInv
<1>1. CASE OnHandshakeMsg(a)
  BY <1>0, <1>1, TailFacts DEF OnHandshakeMsg, FsmTypeOK, pvars, history
<1>2. CASE LeaveHandshake(a)
  <2> DEFINE ms == IF a = "passive" THEN <<Msg("handshake")>> ELSE << >>
  <2>1. ms \in Seq(Message)
    BY Messages
  <2>2. Send(a, ms)
    BY <1>2 DEF LeaveHandshake
  <2> HIDE DEF ms
  <2>3. channel' \in [Ends -> Seq(Message)]
    BY <1>0, <2>1, <2>2, SendFacts
  <2>4. CASE torrent[a] = "ready"
    <3>1. /\ busy' = [busy EXCEPT ![a] = "bitfield"]
          /\ bitfield' = [bitfield EXCEPT ![a] = pieces[a]]
          /\ UNCHANGED <<fsm, flags, attached, open, torrent, pieces, seed, announcing, sized, view,
                         foreign, stale, heard, garbage, early, aborted>>
      BY <1>2, <2>4 DEF LeaveHandshake, pvars, maps, history
    <3> QED
      BY <1>0, <2>3, <3>1 DEF FsmTypeOK
  <2>5. CASE torrent[a] # "ready"
    BY <1>0, <1>2, <2>3, <2>5 DEF LeaveHandshake, FsmTypeOK, pvars, maps, history
  <2> QED
    BY <2>4, <2>5
<1>3. CASE SendBitfieldMsg(a)
  <2>1. <<Bitfield(bitfield[a])>> \in Seq(Message)
    BY <1>0, Messages DEF FsmTypeOK
  <2>2. channel' \in [Ends -> Seq(Message)]
    BY <1>0, <1>3, <2>1, SendFacts DEF SendBitfieldMsg
  <2> QED
    BY <1>0, <1>3, <2>2 DEF SendBitfieldMsg, FsmTypeOK, pvars, maps, history
<1>4. CASE EnterBlock(a)
  <2>1. <<Msg("unchoke"), Msg("interested")>> \in Seq(Message)
    BY Messages DEF Talk
  <2>2. channel' \in [Ends -> Seq(Message)]
    BY <1>0, <1>4, <2>1, SendFacts DEF EnterBlock
  <2> QED
    BY <1>0, <1>4, <2>2 DEF EnterBlock, FsmTypeOK, pvars, history, Exchange
<1>5. CASE MetadataTick(a)
  BY <1>0, <1>5 DEF MetadataTick, FsmTypeOK, pvars, maps
<1>6. CASE SetReady(a)
  BY <1>0, <1>6 DEF SetReady, FsmTypeOK, state, maps, history
<1>7. CASE CreatePicker(a)
  <2>1. pieces[a] = {}
    BY <1>7 DEF CreatePicker, FInv, OwnPieces
  <2> QED
    BY <1>0, <1>7, <2>1 DEF CreatePicker, FsmTypeOK, state, maps, history
<1>8. CASE CloseSocket(a)
  <2>1. channel' \in [Ends -> Seq(Message)]
    <3>1. Msg("eof") \in Message /\ channel[Other(a)] \in Seq(Message) /\ << >> \in Seq(Message)
      BY <1>0, Messages DEF FsmTypeOK
    <3>2. Append(channel[Other(a)], Msg("eof")) \in Seq(Message)
      BY <3>1
    <3> QED
      BY <1>0, <1>8, <3>1, <3>2 DEF CloseSocket, FsmTypeOK
  <2>2. UNCHANGED <<busy, bitfield, attached, torrent, pieces, seed, announcing, sized, foreign, stale, aborted>>
    BY <1>8 DEF CloseSocket, pvars
  <2>3. /\ flags' \in [Ends -> [unchoke : BOOLEAN, interest : BOOLEAN]]
        /\ heard' \in [Ends -> [unchoke : BOOLEAN, interest : BOOLEAN]]
        /\ garbage' \in [Ends -> [unchoke : BOOLEAN, interest : BOOLEAN]]
    BY <1>0, <1>8 DEF CloseSocket, FsmTypeOK, Nothing
  <2> QED
    BY <1>0, <1>8, <2>1, <2>2, <2>3 DEF CloseSocket, FsmTypeOK
<1>9. ASSUME NEW p \in Pieces, VerifyPiece(a, p)
      PROVE  FsmTypeOK'
  BY <1>0, <1>9 DEF VerifyPiece, FsmTypeOK, state, maps, history
<1>10. ASSUME NEW p \in Pieces, AnnouncePiece(a, p)
       PROVE  FsmTypeOK'
  <2>1. << >> \in Seq(Message) /\ <<Have(p)>> \in Seq(Message)
    BY Messages
  <2>2. channel' \in [Ends -> Seq(Message)]
    BY <1>0, <1>10, <2>1, SendFacts DEF AnnouncePiece
  <2> QED
    BY <1>0, <1>10, <2>2 DEF AnnouncePiece, FsmTypeOK, state, maps
<1>11. ASSUME NEW k \in Talk, ForeignTalk(a, k)
       PROVE  FsmTypeOK'
  <2>1. <<Msg(k)>> \in Seq(Message)
    BY Messages
  <2>2. channel' \in [Ends -> Seq(Message)]
    BY <1>0, <1>11, <2>1, SendFacts DEF ForeignTalk
  <2> QED
    BY <1>0, <1>11, <2>2, FsmAssumption DEF ForeignTalk, FsmTypeOK, state, pvars, maps, history
<1>12. CASE Receive(a)
  <2> DEFINE m == Head(channel[a])
  <2>1. /\ channel' = [channel EXCEPT ![a] = Tail(@)] /\ channel[a] # << >>
        /\ Dropped(a, m) \/ OnRecvError(a, m) \/ OnTalk(a, m.kind) \/ OnHaveMsg(a, m) \/ OnBitfieldMsg(a, m)
        /\ open' = [open EXCEPT ![a] = @ /\ m # Msg("eof")]
        /\ UNCHANGED <<busy, bitfield, attached, pvars, foreign, stale, garbage>>
    BY <1>12 DEF Receive
  <2>2. m \in Message /\ channel' \in [Ends -> Seq(Message)]
    BY <1>0, <2>1, TailFacts DEF FsmTypeOK
  <2>3. open' \in [Ends -> BOOLEAN] /\ UNCHANGED <<torrent, pieces, seed, announcing>>
    BY <1>0, <2>1 DEF FsmTypeOK, pvars
  <2>4. CASE Dropped(a, m)
    BY <1>0, <2>1, <2>2, <2>3, <2>4 DEF Dropped, FsmTypeOK, maps
  <2>5. CASE OnRecvError(a, m)
    BY <1>0, <2>1, <2>2, <2>3, <2>5 DEF OnRecvError, FsmTypeOK, maps
  <2>6. CASE OnTalk(a, m.kind)
    <3>1. After(fsm[a], m.kind) \in Exchange \cup {"HANDSHAKE", "METADATA", "BLOCK", "CLOSE"}
      <4>1. fsm[a] \in Exchange \cup {"HANDSHAKE", "METADATA", "BLOCK", "CLOSE"} /\ m.kind \in Talk
        BY <1>0, <2>6 DEF OnTalk, FsmTypeOK
      <4> QED
        BY <4>1, AfterFacts DEF Exchange
    <3>2. fsm' \in [Ends -> Exchange \cup {"HANDSHAKE", "METADATA", "BLOCK", "CLOSE"}]
      BY <1>0, <2>6, <3>1 DEF OnTalk, FsmTypeOK
    <3>3. heard' \in [Ends -> [unchoke : BOOLEAN, interest : BOOLEAN]]
      BY <1>0, <2>6, HearFacts DEF OnTalk
    <3>4. flags' \in [Ends -> [unchoke : BOOLEAN, interest : BOOLEAN]]
      BY <1>0, <2>6 DEF OnTalk, FsmTypeOK
    <3>5. early' \in [Ends -> BOOLEAN]
      BY <1>0, <2>6 DEF OnTalk, FsmTypeOK
    <3> QED
      BY <1>0, <2>1, <2>2, <2>3, <2>6, <3>2, <3>3, <3>4, <3>5 DEF OnTalk, FsmTypeOK, maps
  <2>7. CASE OnHaveMsg(a, m)
    <3>1. m.piece \in Pieces
      BY <2>2, <2>7, Messages DEF OnHaveMsg, Talk
    <3> QED
      BY <1>0, <2>1, <2>2, <2>3, <2>7, <3>1 DEF OnHaveMsg, FsmTypeOK
  <2>8. CASE OnBitfieldMsg(a, m)
    <3>1. m.map \in SUBSET Pieces
      BY <2>2, <2>8, Messages DEF OnBitfieldMsg, Talk
    <3> QED
      BY <1>0, <2>1, <2>2, <2>3, <2>8, <3>1 DEF OnBitfieldMsg, FsmTypeOK
  <2> QED
    BY <2>1, <2>4, <2>5, <2>6, <2>7, <2>8
<1> QED
  BY <1>1, <1>2, <1>3, <1>4, <1>5, <1>6, <1>7, <1>8, <1>9, <1>10, <1>11, <1>12 DEF ActsOf

(* What an end does changes nothing of the other.                          *)
OtherEnd(o) ==
  /\ fsm'[o] = fsm[o] /\ busy'[o] = busy[o] /\ bitfield'[o] = bitfield[o]
  /\ flags'[o] = flags[o] /\ attached'[o] = attached[o] /\ open'[o] = open[o]
  /\ torrent'[o] = torrent[o] /\ pieces'[o] = pieces[o] /\ announcing'[o] = announcing[o]
  /\ sized'[o] = sized[o] /\ view'[o] = view[o] /\ stale'[o] = stale[o]
  /\ heard'[o] = heard[o] /\ garbage'[o] = garbage[o] /\ early'[o] = early[o]
  /\ (o \in aborted' <=> o \in aborted)

LEMMA OtherStays ==
  ASSUME FInv, NEW a \in Ends, NEW o \in Ends, o # a, ActsOf(a)
  PROVE  OtherEnd(o)
<1>0. FsmTypeOK
  BY DEF FInv
<1>1. CASE OnHandshakeMsg(a)
  BY <1>0, <1>1 DEF OnHandshakeMsg, pvars, history, FsmTypeOK, OtherEnd
<1>2. CASE LeaveHandshake(a)
  BY <1>0, <1>2 DEF LeaveHandshake, pvars, maps, history, FsmTypeOK, OtherEnd
<1>3. CASE SendBitfieldMsg(a)
  BY <1>0, <1>3 DEF SendBitfieldMsg, pvars, maps, history, FsmTypeOK, OtherEnd
<1>4. CASE EnterBlock(a)
  BY <1>0, <1>4 DEF EnterBlock, pvars, history, FsmTypeOK, OtherEnd
<1>5. CASE MetadataTick(a)
  BY <1>0, <1>5 DEF MetadataTick, pvars, maps, FsmTypeOK, OtherEnd
<1>6. CASE SetReady(a)
  BY <1>0, <1>6 DEF SetReady, state, maps, history, FsmTypeOK, OtherEnd
<1>7. CASE CreatePicker(a)
  BY <1>0, <1>7 DEF CreatePicker, state, maps, history, FsmTypeOK, OtherEnd
<1>8. CASE CloseSocket(a)
  BY <1>0, <1>8 DEF CloseSocket, pvars, FsmTypeOK, OtherEnd
<1>9. ASSUME NEW p \in Pieces, VerifyPiece(a, p)
      PROVE  OtherEnd(o)
  BY <1>0, <1>9 DEF VerifyPiece, state, maps, history, FsmTypeOK, OtherEnd
<1>10. ASSUME NEW p \in Pieces, AnnouncePiece(a, p)
      PROVE  OtherEnd(o)
  BY <1>0, <1>10 DEF AnnouncePiece, state, maps, FsmTypeOK, OtherEnd
<1>11. ASSUME NEW k \in Talk, ForeignTalk(a, k)
      PROVE  OtherEnd(o)
  BY <1>0, <1>11 DEF ForeignTalk, state, pvars, maps, history, FsmTypeOK, OtherEnd
<1>12. CASE Receive(a)
  <2> DEFINE m == Head(channel[a])
  <2>1. /\ \/ Dropped(a, m) \/ OnRecvError(a, m)
           \/ /\ fsm[a] \notin {"HANDSHAKE", "CLOSE"}
              /\ OnTalk(a, m.kind) \/ OnHaveMsg(a, m) \/ OnBitfieldMsg(a, m)
        /\ open' = [open EXCEPT ![a] = @ /\ m # Msg("eof")]
        /\ UNCHANGED <<busy, bitfield, attached, torrent, pieces, announcing, stale, garbage>>
    BY <1>12 DEF Receive, pvars
  <2> HIDE DEF m
  <2>2. CASE OnTalk(a, m.kind)
    <3>1. heard'[o] = heard[o]
      BY <1>0, <2>2, HearFacts, TwoEnds DEF OnTalk
    <3> QED
      BY <1>0, <2>1, <2>2, <3>1 DEF OnTalk, maps, FsmTypeOK, OtherEnd
  <2>3. CASE Dropped(a, m) \/ OnRecvError(a, m) \/ OnHaveMsg(a, m) \/ OnBitfieldMsg(a, m)
    BY <1>0, <2>1, <2>3 DEF Dropped, OnRecvError, OnHaveMsg, OnBitfieldMsg, maps, FsmTypeOK, OtherEnd
  <2> QED
    BY <2>1, <2>2, <2>3
<1> QED
  BY <1>1, <1>2, <1>3, <1>4, <1>5, <1>6, <1>7, <1>8, <1>9, <1>10, <1>11, <1>12 DEF ActsOf

LEMMA OwnStateKept ==
  ASSUME FInv, NEW a \in Ends, ActsOf(a)
  PROVE  OwnState(a)'
<1>0. FsmTypeOK /\ OwnState(a)
  BY DEF FInv
<1>1. CASE OnHandshakeMsg(a)
  BY <1>0, <1>1 DEF OnHandshakeMsg, pvars, history, FsmTypeOK, OwnState, InBlock, Exchange, Free
<1>2. CASE LeaveHandshake(a)
  BY <1>0, <1>2 DEF LeaveHandshake, pvars, maps, history, FsmTypeOK, OwnState, InBlock, Exchange, Free
<1>3. CASE SendBitfieldMsg(a)
  BY <1>0, <1>3 DEF SendBitfieldMsg, pvars, maps, history, FsmTypeOK, OwnState, InBlock, Exchange, Free
<1>4. CASE EnterBlock(a)
  BY <1>0, <1>4 DEF EnterBlock, pvars, history, FsmTypeOK, OwnState, InBlock, Exchange, Free
<1>5. CASE MetadataTick(a)
  BY <1>0, <1>5 DEF MetadataTick, pvars, maps, FsmTypeOK, OwnState, InBlock, Exchange, Free
<1>6. CASE SetReady(a)
  BY <1>0, <1>6 DEF SetReady, state, maps, history, FsmTypeOK, OwnState, InBlock, Exchange, Free
<1>7. CASE CreatePicker(a)
  BY <1>0, <1>7 DEF CreatePicker, state, maps, history, FsmTypeOK, OwnState, InBlock, Exchange, Free
<1>8. CASE CloseSocket(a)
  BY <1>0, <1>8 DEF CloseSocket, pvars, FsmTypeOK, OwnState, InBlock, Exchange, Free
<1>9. ASSUME NEW p \in Pieces, VerifyPiece(a, p)
      PROVE  OwnState(a)'
  BY <1>0, <1>9 DEF VerifyPiece, state, maps, history, FsmTypeOK, OwnState, InBlock, Exchange, Free
<1>10. ASSUME NEW p \in Pieces, AnnouncePiece(a, p)
      PROVE  OwnState(a)'
  BY <1>0, <1>10 DEF AnnouncePiece, state, maps, FsmTypeOK, OwnState, InBlock, Exchange, Free
<1>11. ASSUME NEW k \in Talk, ForeignTalk(a, k)
      PROVE  OwnState(a)'
  BY <1>0, <1>11 DEF ForeignTalk, state, pvars, maps, history, FsmTypeOK, OwnState, InBlock, Exchange, Free
<1>12. CASE Receive(a)
  <2> DEFINE m == Head(channel[a])
  <2>1. /\ \/ Dropped(a, m) \/ OnRecvError(a, m)
           \/ /\ fsm[a] \notin {"HANDSHAKE", "CLOSE"}
              /\ OnTalk(a, m.kind) \/ OnHaveMsg(a, m) \/ OnBitfieldMsg(a, m)
        /\ open' = [open EXCEPT ![a] = @ /\ m # Msg("eof")]
        /\ UNCHANGED <<busy, bitfield, attached, torrent, pieces, announcing, stale, garbage>>
    BY <1>12 DEF Receive, pvars
  <2> HIDE DEF m
  <2>2. fsm[a] \in Exchange \cup {"HANDSHAKE", "METADATA", "BLOCK", "CLOSE"} /\ Free(a) /\ busy[a] = "no"
    BY <1>0, <1>12 DEF FsmTypeOK, Receive, Free
  <2>3. CASE OnTalk(a, m.kind)
    <3>1. m.kind \in Talk /\ m # Msg("eof") /\ fsm'[a] = After(fsm[a], m.kind) /\ UNCHANGED <<sized, aborted>>
      BY <1>0, <2>3 DEF OnTalk, FsmTypeOK, Talk, Msg, maps
    <3>2. \/ fsm'[a] = fsm[a]
          \/ fsm[a] \in Exchange \cup {"BLOCK"} /\ fsm'[a] \in Exchange \cup {"CLOSE"}
      BY <2>2, <3>1, AfterFacts DEF Exchange
    <3> QED
      BY <1>0, <2>1, <2>2, <3>1, <3>2 DEF OwnState, InBlock, FsmTypeOK, Exchange, Free
  <2>4. CASE OnHaveMsg(a, m) /\ fsm[a] \notin {"HANDSHAKE", "CLOSE"}
    <3>1. fsm[a] \notin {"HANDSHAKE", "CLOSE"}
      BY <2>4
    <3>2. /\ m # Msg("eof") /\ UNCHANGED <<fsm, sized>> /\ aborted = {}
          /\ a \in aborted' => ~sized[a]
      BY <2>2, <2>4 DEF OnHaveMsg, Msg, Free
    <3>3. ~sized[a] => fsm[a] = "METADATA"
      BY <1>0, <2>2, <3>1 DEF OwnState, InBlock, Exchange
    <3> QED
      BY <1>0, <2>1, <2>2, <3>1, <3>2, <3>3 DEF OwnState, InBlock, FsmTypeOK
  <2>5. CASE OnBitfieldMsg(a, m) \/ Dropped(a, m)
    <3>1. /\ m # Msg("eof") /\ UNCHANGED <<fsm, aborted>>
          /\ sized[a] => sized'[a]
      BY <1>0, <2>5 DEF OnBitfieldMsg, Dropped, Msg, maps, FsmTypeOK
    <3> QED
      BY <1>0, <2>1, <2>2, <3>1 DEF OwnState, InBlock, FsmTypeOK
  <2>6. CASE OnRecvError(a, m)
    BY <1>0, <2>1, <2>2, <2>6 DEF OnRecvError, OwnState, InBlock, FsmTypeOK, Exchange, Free, maps
  <2> QED
    BY <2>1, <2>3, <2>4, <2>5, <2>6
<1> QED
  BY <1>1, <1>2, <1>3, <1>4, <1>5, <1>6, <1>7, <1>8, <1>9, <1>10, <1>11, <1>12 DEF ActsOf

LEMMA OwnPiecesKept ==
  ASSUME FInv, NEW a \in Ends, ActsOf(a)
  PROVE  OwnPieces(a)' /\ pieces[a] \subseteq pieces'[a]
<1>0. FsmTypeOK /\ OwnState(a) /\ OwnPieces(a)
  BY DEF FInv
<1>1. CASE OnHandshakeMsg(a)
  BY <1>0, <1>1 DEF OnHandshakeMsg, pvars, history, FsmTypeOK, OwnState, OwnPieces, Ticked, InBlock, Exchange, IsReady
<1>2. CASE LeaveHandshake(a)
  BY <1>0, <1>2 DEF LeaveHandshake, pvars, maps, history, FsmTypeOK, OwnState, OwnPieces, Ticked, InBlock, Exchange, IsReady
<1>3. CASE SendBitfieldMsg(a)
  BY <1>0, <1>3 DEF SendBitfieldMsg, pvars, maps, history, FsmTypeOK, OwnState, OwnPieces, Ticked, InBlock, Exchange, IsReady
<1>4. CASE EnterBlock(a)
  BY <1>0, <1>4 DEF EnterBlock, pvars, history, FsmTypeOK, OwnState, OwnPieces, Ticked, InBlock, Exchange, IsReady
<1>5. CASE MetadataTick(a)
  BY <1>0, <1>5 DEF MetadataTick, pvars, maps, FsmTypeOK, OwnState, OwnPieces, Ticked, InBlock, Exchange, IsReady
<1>6. CASE SetReady(a)
  BY <1>0, <1>6 DEF SetReady, state, maps, history, FsmTypeOK, OwnState, OwnPieces, Ticked, InBlock, Exchange, IsReady
<1>7. CASE CreatePicker(a)
  BY <1>0, <1>7 DEF CreatePicker, state, maps, history, FsmTypeOK, OwnState, OwnPieces, Ticked, InBlock, Exchange, IsReady
<1>8. CASE CloseSocket(a)
  BY <1>0, <1>8 DEF CloseSocket, pvars, FsmTypeOK, OwnState, OwnPieces, Ticked, InBlock, Exchange, IsReady
<1>9. ASSUME NEW p \in Pieces, VerifyPiece(a, p)
      PROVE  OwnPieces(a)' /\ pieces[a] \subseteq pieces'[a]
  BY <1>0, <1>9 DEF VerifyPiece, state, maps, history, FsmTypeOK, OwnState, OwnPieces, Ticked, InBlock, Exchange, IsReady
<1>10. ASSUME NEW p \in Pieces, AnnouncePiece(a, p)
      PROVE  OwnPieces(a)' /\ pieces[a] \subseteq pieces'[a]
  BY <1>0, <1>10 DEF AnnouncePiece, state, maps, FsmTypeOK, OwnState, OwnPieces, Ticked, InBlock, Exchange, IsReady
<1>11. ASSUME NEW k \in Talk, ForeignTalk(a, k)
      PROVE  OwnPieces(a)' /\ pieces[a] \subseteq pieces'[a]
  BY <1>0, <1>11 DEF ForeignTalk, state, pvars, maps, history, FsmTypeOK, OwnState, OwnPieces, Ticked, InBlock, Exchange, IsReady
<1>12. CASE Receive(a)
  <2> DEFINE m == Head(channel[a])
  <2>1. /\ \/ Dropped(a, m) \/ OnRecvError(a, m)
           \/ /\ fsm[a] \notin {"HANDSHAKE", "CLOSE"}
              /\ OnTalk(a, m.kind) \/ OnHaveMsg(a, m) \/ OnBitfieldMsg(a, m)
        /\ open' = [open EXCEPT ![a] = @ /\ m # Msg("eof")]
        /\ UNCHANGED <<busy, bitfield, attached, torrent, pieces, announcing, stale, garbage>>
    BY <1>12 DEF Receive, pvars
  <2> HIDE DEF m
  <2>2. UNCHANGED <<torrent, pieces, announcing, stale, bitfield, busy>>
    BY <2>1
  <2>3. InBlock(a)' => InBlock(a)
    <3>1. CASE OnTalk(a, m.kind)
      <4>1. m.kind \in Talk /\ fsm'[a] = After(fsm[a], m.kind)
        BY <1>0, <3>1 DEF OnTalk, FsmTypeOK
      <4>2. fsm[a] \in Exchange \cup {"HANDSHAKE", "METADATA", "BLOCK", "CLOSE"}
        BY <1>0 DEF FsmTypeOK
      <4> QED
        BY <4>1, <4>2, AfterFacts DEF InBlock, Exchange
    <3>2. CASE OnRecvError(a, m)
      BY <1>0, <3>2 DEF OnRecvError, FsmTypeOK, InBlock, Exchange
    <3>3. CASE UNCHANGED fsm
      BY <3>3 DEF InBlock
    <3> QED
      BY <2>1, <3>1, <3>2, <3>3 DEF Dropped, OnHaveMsg, OnBitfieldMsg
  <2> QED
    BY <1>0, <2>2, <2>3 DEF OwnPieces, Ticked
<1> QED
  BY <1>1, <1>2, <1>3, <1>4, <1>5, <1>6, <1>7, <1>8, <1>9, <1>10, <1>11, <1>12 DEF ActsOf

-----------------------------------------------------------------------------
LEMMA SentTruthful ==
  ASSUME FInv, NEW a \in Ends, NEW ms \in Seq(Message), Send(a, ms),
         view'[Other(a)] = view[Other(a)], pieces[a] \subseteq pieces'[a],
         \A i \in 1 .. Len(ms) :
           /\ ms[i].kind = "have" => ms[i].piece \in pieces'[a]
           /\ ms[i].kind = "bitfield" => ms[i].map \subseteq pieces'[a]
  PROVE  Truthful(Other(a))'
<1> DEFINE o == Other(a)
<1>0. FsmTypeOK /\ o \in Ends /\ Other(o) = a /\ Truthful(o)
  BY TwoEnds DEF FInv
<1>1. channel[o] \in Seq(Message)
  BY <1>0 DEF FsmTypeOK
<1>2. CASE channel'[o] = channel[o]
  BY <1>0, <1>2 DEF Truthful
<1>3. CASE channel'[o] = channel[o] \o ms
  <2>1. \A i \in 1 .. Len(channel'[o]) :
          \/ i \in 1 .. Len(channel[o]) /\ channel'[o][i] = channel[o][i]
          \/ i - Len(channel[o]) \in 1 .. Len(ms) /\ channel'[o][i] = ms[i - Len(channel[o])]
    BY <1>1, <1>3, ConcatFacts
  <2> QED
    BY <1>0, <2>1 DEF Truthful
<1> QED
  BY <1>0, <1>2, <1>3, SendFacts

LEMMA TruthfulKept ==
  ASSUME FInv, NEW a \in Ends, ActsOf(a)
  PROVE  Truthful(a)' /\ Truthful(Other(a))'
<1> DEFINE o == Other(a)
<1>0. /\ FsmTypeOK /\ OwnState(a) /\ Truthful(a) /\ Truthful(o)
      /\ a \in Ends /\ o \in Ends /\ Other(o) = a /\ o # a
      /\ OtherEnd(o) /\ pieces[a] \subseteq pieces'[a]
  BY TwoEnds, OtherStays, OwnPiecesKept DEF FInv
<1>a. channel[a] \in Seq(Message) /\ channel[o] \in Seq(Message) /\ pieces'[o] = pieces[o] /\ view'[o] = view[o]
  BY <1>0 DEF FsmTypeOK, OtherEnd
<1>b. ASSUME channel'[a] = channel[a], view'[a] = view[a]
      PROVE  Truthful(a)'
  BY <1>0, <1>a, <1>b DEF Truthful
<1>c. ASSUME channel'[o] = channel[o]
      PROVE  Truthful(o)'
  BY <1>0, <1>a, <1>c DEF Truthful
<1>d. ASSUME channel[a] # << >>, channel' = [channel EXCEPT ![a] = Tail(@)], view'[a] \subseteq pieces[o]
      PROVE  Truthful(a)' /\ Truthful(o)'
  <2>1. channel'[a] = Tail(channel[a]) /\ channel'[o] = channel[o]
    BY <1>0, <1>d DEF FsmTypeOK
  <2>2. \A k \in 1 .. Len(channel'[a]) : k + 1 \in 1 .. Len(channel[a]) /\ channel'[a][k] = channel[a][k + 1]
    <3> DEFINE s == channel[a]
    <3>1. s \in Seq(Message) /\ s # << >>
      BY <1>a, <1>d
    <3> HIDE DEF s
    <3>2. \A k \in 1 .. Len(Tail(s)) : k + 1 \in 1 .. Len(s) /\ Tail(s)[k] = s[k + 1]
      BY <3>1, TailFacts
    <3> QED
      BY <2>1, <3>2 DEF s
  <2> QED
    BY <1>0, <1>a, <1>c, <1>d, <2>1, <2>2 DEF Truthful
<1>e. ASSUME NEW ms \in Seq(Message), Send(a, ms),
             \A i \in 1 .. Len(ms) : ms[i].kind \notin {"have", "bitfield"},
             UNCHANGED view
      PROVE  Truthful(a)' /\ Truthful(o)'
  <2>1. channel'[a] = channel[a]
    BY <1>0, <1>e, SendFacts
  <2> QED
    BY <1>0, <1>a, <1>b, <1>e, <2>1, SentTruthful
<1>1. CASE OnHandshakeMsg(a)
  <2>1. view' = view /\ channel[a] # << >> /\ channel' = [channel EXCEPT ![a] = Tail(@)]
    BY <1>1 DEF OnHandshakeMsg
  <2> QED
    BY <1>0, <1>d, <2>1 DEF Truthful
<1>2. CASE LeaveHandshake(a)
  <2> DEFINE ms == IF a = "passive" THEN <<Msg("handshake")>> ELSE << >>
  <2>1. /\ ms \in Seq(Message)
        /\ \A i \in 1 .. Len(ms) : ms[i].kind \notin {"have", "bitfield"}
    BY Messages DEF Talk
  <2>2. Send(a, ms) /\ UNCHANGED view
    BY <1>2 DEF LeaveHandshake, maps
  <2> HIDE DEF ms
  <2> QED
    BY <2>1, <2>2, <1>e
<1>3. CASE SendBitfieldMsg(a)
  <2>1. Send(a, <<Bitfield(bitfield[a])>>) /\ UNCHANGED <<view, pieces>>
    BY <1>3 DEF SendBitfieldMsg, pvars, maps
  <2>2. <<Bitfield(bitfield[a])>> \in Seq(Message) /\ bitfield[a] \subseteq pieces'[a]
    BY <1>0, <2>1, Messages DEF FsmTypeOK
  <2>3. \A i \in 1 .. Len(<<Bitfield(bitfield[a])>>) :
          <<Bitfield(bitfield[a])>>[i].kind = "bitfield" /\ <<Bitfield(bitfield[a])>>[i].map \subseteq pieces'[a]
    BY <2>2 DEF Bitfield
  <2>4. channel'[a] = channel[a]
    BY <1>0, <2>1, <2>2, SendFacts
  <2>5. Truthful(o)'
    BY <1>0, <1>a, <2>1, <2>2, <2>3, SentTruthful
  <2> QED
    BY <1>b, <2>1, <2>4, <2>5
<1>4. CASE EnterBlock(a)
  <2> DEFINE ms == <<Msg("unchoke"), Msg("interested")>>
  <2>1. /\ ms \in Seq(Message)
        /\ \A i \in 1 .. Len(ms) : ms[i].kind \notin {"have", "bitfield"}
    BY Messages DEF Talk
  <2>2. Send(a, ms) /\ UNCHANGED view
    BY <1>4 DEF EnterBlock
  <2> HIDE DEF ms
  <2> QED
    BY <2>1, <2>2, <1>e
<1>5. CASE MetadataTick(a)
  <2>1. UNCHANGED <<channel, view>>
    BY <1>5 DEF MetadataTick, maps
  <2> QED
    BY <1>b, <1>c, <2>1
<1>6. CASE SetReady(a)
  <2>1. UNCHANGED <<channel, view>>
    BY <1>6 DEF SetReady, maps
  <2> QED
    BY <1>b, <1>c, <2>1
<1>7. CASE CreatePicker(a)
  <2>1. UNCHANGED <<channel, view>>
    BY <1>7 DEF CreatePicker, maps
  <2> QED
    BY <1>b, <1>c, <2>1
<1>8. CASE CloseSocket(a)
  <2>1. /\ view'[a] = {} /\ channel'[a] = << >>
        /\ channel'[o] \in {channel[o], Append(channel[o], Msg("eof"))}
    BY <1>0, <1>8 DEF CloseSocket, FsmTypeOK
  <2>2. Truthful(a)'
    BY <2>1 DEF Truthful
  <2>3. CASE channel'[o] = Append(channel[o], Msg("eof"))
    <3>1. \A i \in 1 .. Len(channel'[o]) :
            \/ i \in 1 .. Len(channel[o]) /\ channel'[o][i] = channel[o][i]
            \/ channel'[o][i] = Msg("eof")
      BY <1>a, <2>3
    <3>2. Msg("eof").kind = "eof"
      BY Messages
    <3> QED
      BY <1>0, <1>a, <2>2, <3>1, <3>2 DEF Truthful
  <2> QED
    BY <1>c, <2>1, <2>2, <2>3
<1>9. ASSUME NEW p \in Pieces, VerifyPiece(a, p)
      PROVE  Truthful(a)' /\ Truthful(o)'
  <2>1. UNCHANGED <<channel, view>>
    BY <1>9 DEF VerifyPiece, maps
  <2> QED
    BY <1>b, <1>c, <2>1
<1>10. ASSUME NEW p \in Pieces, AnnouncePiece(a, p)
      PROVE  Truthful(a)' /\ Truthful(o)'
  <2> DEFINE ms == IF attached[a] THEN <<Have(p)>> ELSE << >>
  <2>1. Send(a, ms) /\ UNCHANGED <<view, pieces>> /\ p \in pieces'[a]
    BY <1>0, <1>10 DEF AnnouncePiece, maps, FsmTypeOK
  <2>2. ms \in Seq(Message) /\ \A i \in 1 .. Len(ms) : ms[i].kind = "have" /\ ms[i].piece = p
    BY Messages
  <2> HIDE DEF ms
  <2>4. channel'[a] = channel[a]
    BY <1>0, <2>1, <2>2, SendFacts
  <2>5. Truthful(o)'
    BY <1>0, <1>a, <2>1, <2>2, SentTruthful
  <2> QED
    BY <1>b, <2>1, <2>4, <2>5
<1>11. ASSUME NEW k \in Talk, ForeignTalk(a, k)
      PROVE  Truthful(a)' /\ Truthful(o)'
  <2> DEFINE ms == <<Msg(k)>>
  <2>1. /\ ms \in Seq(Message)
        /\ \A i \in 1 .. Len(ms) : ms[i].kind \notin {"have", "bitfield"}
    BY Messages DEF Talk
  <2>2. Send(a, ms) /\ UNCHANGED view
    BY <1>11 DEF ForeignTalk, maps
  <2> HIDE DEF ms
  <2> QED
    BY <2>1, <2>2, <1>e
<1>12. CASE Receive(a)
  <2> DEFINE m == Head(channel[a])
  <2>1. /\ channel[a] # << >> /\ channel' = [channel EXCEPT ![a] = Tail(@)]
        /\ \/ Dropped(a, m) \/ OnRecvError(a, m) \/ OnTalk(a, m.kind)
           \/ OnHaveMsg(a, m) \/ OnBitfieldMsg(a, m)
    BY <1>12 DEF Receive
  <2>2. m = channel[a][1] /\ 1 \in 1 .. Len(channel[a])
    BY <1>a, <2>1, TailFacts
  <2> HIDE DEF m
  <2>3. /\ m.kind = "have" => m.piece \in pieces[o]
        /\ m.kind = "bitfield" => m.map \subseteq pieces[o]
        /\ view[a] \subseteq pieces[o]
    BY <1>0, <2>2 DEF Truthful
  <2>4. view'[a] \subseteq pieces[o]
    BY <1>0, <2>1, <2>3 DEF Dropped, OnRecvError, OnTalk, OnHaveMsg, OnBitfieldMsg, maps, FsmTypeOK
  <2> QED
    BY <1>d, <2>1, <2>4
<1> QED
  BY <1>1, <1>2, <1>3, <1>4, <1>5, <1>6, <1>7, <1>8, <1>9, <1>10, <1>11, <1>12 DEF ActsOf

-----------------------------------------------------------------------------
(* The last bitfield of the end has been sent.                             *)
Told(e) == busy[e] = "enter" \/ InBlock(e)

(* What an end sends, or does without sending, leaves the other informed.  *)
LEMMA SenderKept ==
  ASSUME FInv, NEW a \in Ends, NEW ms \in Seq(Message),
         Send(a, ms) \/ (ms = << >> /\ channel'[Other(a)] = channel[Other(a)]),
         OtherEnd(Other(a)), fsm'[a] # "CLOSE" => fsm[a] # "CLOSE",
         Speaks(a)' => fsm'[a] = "CLOSE" \/ Speaks(a) \/ \E i \in 1 .. Len(ms) : ms[i] = Msg("handshake"),
         ~stale'[a] /\ Told(a)' =>
           \A p \in pieces'[a] \ announcing'[a] :
             \/ /\ ~stale[a] /\ Told(a) /\ p \in pieces[a] \ announcing[a]
                /\ \A i \in 1 .. Len(ms) : Keeps(ms[i], p)
             \/ Speaks(a) /\ \E m \in Message : ms = <<m>> /\ Carries(m, p)
  PROVE  Informed(Other(a))'
<1> DEFINE o == Other(a)
<1>0. /\ FsmTypeOK /\ o \in Ends /\ Other(o) = a /\ Informed(o)
      /\ OwnState(a) /\ OwnState(o)
  BY TwoEnds DEF FInv
<1>1. /\ fsm'[o] = fsm[o] /\ busy'[o] = busy[o] /\ view'[o] = view[o]
      /\ o \in aborted' <=> o \in aborted
      /\ channel[o] \in Seq(Message)
  BY <1>0 DEF OtherEnd, FsmTypeOK
<1> SUFFICES ASSUME fsm'[o] # "CLOSE", fsm'[a] # "CLOSE"
             PROVE  Informed(o)'
  BY <1>0 DEF Informed, Alive
<1>2. channel'[o] = channel[o] \o ms /\ Alive(o)
  <2>1. open[a] /\ open[o] /\ Alive(o)
    BY <1>0, <1>1 DEF OwnState, Alive
  <2>2. channel[o] \o << >> = channel[o]
    BY <1>1
  <2> QED
    BY <1>0, <2>1, <2>2, SendFacts
<1>3. /\ \A i \in 1 .. Len(channel[o]) : channel'[o][i] = channel[o][i] /\ i \in 1 .. Len(channel'[o])
      /\ \A i \in 1 .. Len(ms) : /\ channel'[o][Len(channel[o]) + i] = ms[i]
                                /\ Len(channel[o]) + i \in 1 .. Len(channel'[o])
  BY <1>1, <1>2, ConcatFacts
<1>4. Waiting(o)' = Waiting(o)
  BY <1>1 DEF Waiting
<1>5. ASSUME Waiting(o)', Speaks(a)'
      PROVE  Greeted(o)'
  <2>1. CASE Speaks(a)
    <3>1. Greeted(o)
      BY <1>0, <1>2, <1>4, <1>5, <2>1 DEF Informed
    <3> QED
      BY <1>3, <3>1 DEF Greeted
  <2>2. CASE \E i \in 1 .. Len(ms) : ms[i] = Msg("handshake")
    BY <1>3, <2>2 DEF Greeted
  <2> QED
    BY <1>5, <2>1, <2>2
<1>6. ASSUME o \notin aborted', ~stale'[a], Told(a)', NEW p \in pieces'[a] \ announcing'[a]
      PROVE  WillKnow(o, p)'
  <2>1. CASE /\ ~stale[a] /\ Told(a) /\ p \in pieces[a] \ announcing[a]
             /\ \A i \in 1 .. Len(ms) : Keeps(ms[i], p)
    <3>1. WillKnow(o, p)
      BY <1>0, <1>1, <1>2, <1>6, <2>1 DEF Informed, Told
    <3> QED
      BY <1>0, <1>1, <1>2, <2>1, <3>1, SentKnown
  <2>2. CASE Speaks(a) /\ \E m \in Message : ms = <<m>> /\ Carries(m, p)
    <3>1. Waiting(o) => Greeted(o)
      BY <1>0, <1>2, <2>2 DEF Informed
    <3> QED
      BY <1>0, <1>1, <1>2, <2>2, <3>1, CarriedKnown
  <2> QED
    BY <1>6, <2>1, <2>2
<1> QED
  BY <1>0, <1>5, <1>6 DEF Informed, Told

(* An end that takes no message is as informed as it was.                  *)
LEMMA ReceiverKept ==
  ASSUME FInv, NEW a \in Ends, OtherEnd(Other(a)), channel'[a] = channel[a], view'[a] = view[a],
         Waiting(a)' <=> Waiting(a), fsm'[a] # "CLOSE" => fsm[a] # "CLOSE",
         a \in aborted' <=> a \in aborted
  PROVE  Informed(a)'
<1> DEFINE o == Other(a)
<1>0. Informed(a) /\ o \in Ends
  BY TwoEnds DEF FInv
<1>1. /\ Alive(a)' => Alive(a)
      /\ Speaks(o)' <=> Speaks(o)
      /\ Told(o)' <=> Told(o)
      /\ stale'[o] = stale[o] /\ pieces'[o] = pieces[o] /\ announcing'[o] = announcing[o]
  BY DEF OtherEnd, Alive, Speaks, Told, InBlock
<1>2. Greeted(a)' <=> Greeted(a)
  BY DEF Greeted
<1>3. \A p : WillKnow(a, p)' <=> WillKnow(a, p)
  BY DEF WillKnow
<1> QED
  BY <1>0, <1>1, <1>2, <1>3 DEF Informed, Told

(* A message that is taken leaves the end informed of the rest.            *)
LEMMA TakerKept ==
  ASSUME FInv, NEW a \in Ends, OtherEnd(Other(a)), channel[a] # << >>, channel'[a] = Tail(channel[a]),
         fsm'[a] # "CLOSE" => fsm[a] # "CLOSE", a \in aborted => a \in aborted',
         Waiting(a)' => Waiting(a) /\ Head(channel[a]) # Msg("handshake"),
         \A p : ~Waiting(a) /\ fsm'[a] # "CLOSE" /\ a \notin aborted' =>
                  /\ Carries(Head(channel[a]), p) => p \in view'[a]
                  /\ p \in view[a] /\ Keeps(Head(channel[a]), p) => p \in view'[a]
  PROVE  Informed(a)'
<1> DEFINE o == Other(a)
<1>0. Informed(a) /\ o \in Ends /\ channel[a] \in Seq(Message)
  BY TwoEnds DEF FInv, FsmTypeOK
<1>1. /\ Alive(a)' => Alive(a)
      /\ Speaks(o)' <=> Speaks(o)
      /\ Told(o)' <=> Told(o)
      /\ stale'[o] = stale[o] /\ pieces'[o] = pieces[o] /\ announcing'[o] = announcing[o]
  BY DEF OtherEnd, Alive, Speaks, Told, InBlock
<1> SUFFICES ASSUME Alive(a)'
             PROVE  Informed(a)'
  BY DEF Informed
<1>2. ASSUME Waiting(a)', Speaks(o)'
      PROVE  Greeted(a)'
  <2>1. PICK h \in 1 .. Len(channel[a]) : channel[a][h] = Msg("handshake")
    BY <1>0, <1>1, <1>2 DEF Informed, Greeted
  <2> DEFINE s == channel[a]
  <2>2. s \in Seq(Message) /\ s # << >>
    BY <1>0
  <2> HIDE DEF s
  <2>3. /\ Head(s) = s[1] /\ Len(Tail(s)) = Len(s) - 1 /\ Len(s) \in Nat
        /\ \A k \in 1 .. Len(Tail(s)) : Tail(s)[k] = s[k + 1]
    BY <2>2, TailFacts
  <2>4. s[h] = Msg("handshake") /\ h \in 1 .. Len(s) /\ Head(s) # Msg("handshake")
    BY <1>2, <2>1 DEF s
  <2>5. h - 1 \in 1 .. Len(Tail(s)) /\ Tail(s)[h - 1] = Msg("handshake")
    BY <2>3, <2>4
  <2>6. channel'[a] = Tail(s)
    BY DEF s
  <2> QED
    BY <2>5, <2>6 DEF Greeted
<1>3. ASSUME a \notin aborted', ~stale'[o], Told(o)', NEW p \in pieces'[o] \ announcing'[o]
      PROVE  WillKnow(a, p)'
  <2>1. WillKnow(a, p)
    BY <1>0, <1>1, <1>3 DEF Informed, Told
  <2>2. fsm'[a] # "CLOSE"
    BY DEF Alive
  <2> QED
    BY <1>0, <1>3, <2>1, <2>2, TakenKnown
<1> QED
  BY <1>2, <1>3 DEF Informed, Told

LEMMA InformedKept ==
  ASSUME FInv, NEW a \in Ends, ActsOf(a)
  PROVE  Informed(a)' /\ Informed(Other(a))'
<1> DEFINE o == Other(a)
<1>0. /\ FsmTypeOK /\ OwnState(a) /\ OwnPieces(a)
      /\ a \in Ends /\ o \in Ends /\ Other(o) = a /\ o # a
      /\ OtherEnd(o)
  BY TwoEnds, OtherStays DEF FInv
<1>a. << >> \in Seq(Message) /\ \A p : \A i \in 1 .. Len(<< >>) : Keeps(<< >>[i], p)
  OBVIOUS
<1>b. \A k \in Talk \cup {"handshake", "eof"} : \A p : Keeps(Msg(k), p)
  BY Messages DEF Keeps, Talk
<1>1. CASE OnHandshakeMsg(a)
  <2>1. /\ channel[a] # << >> /\ channel' = [channel EXCEPT ![a] = Tail(@)] /\ aborted' = aborted
        /\ fsm' = fsm /\ busy' = [busy EXCEPT ![a] = "handshaked"] /\ Waiting(a)
        /\ UNCHANGED <<stale, pieces, announcing>>
    BY <1>1 DEF OnHandshakeMsg, Free, Waiting, pvars, history
  <2>2. /\ channel'[a] = Tail(channel[a]) /\ channel'[o] = channel[o]
        /\ ~Waiting(a)' /\ busy'[a] = "handshaked" /\ fsm'[a] = "HANDSHAKE"
    BY <1>0, <2>1 DEF FsmTypeOK, Waiting
  <2>3. Informed(a)'
    BY <1>0, <2>1, <2>2, TakerKept
  <2>4. ~Told(a)' /\ (Speaks(a)' => Speaks(a))
    BY <2>1, <2>2 DEF Told, InBlock, Speaks, Exchange
  <2>5. Informed(o)'
    BY <1>0, <1>a, <2>1, <2>2, <2>4, SenderKept
  <2> QED
    BY <2>3, <2>5
<1>2. CASE LeaveHandshake(a)
  <2> DEFINE ms == IF a = "passive" THEN <<Msg("handshake")>> ELSE << >>
  <2>1. Send(a, ms)
    BY <1>2 DEF LeaveHandshake, maps
  <2>2. ms \in Seq(Message)
    BY <1>0, Messages DEF FsmTypeOK, Talk
  <2>3. \A p : \A i \in 1 .. Len(ms) : Keeps(ms[i], p)
    BY <1>b
  <2>4. Speaks(a)' => Speaks(a) \/ \E i \in 1 .. Len(ms) : ms[i] = Msg("handshake")
    <3>1. CASE a = "passive"
      <4>1. 1 \in 1 .. Len(ms) /\ ms[1] = Msg("handshake")
        BY <3>1
      <4> QED
        BY <4>1
    <3> QED
      BY <1>0, <3>1 DEF Speaks, Ends
  <2>5. /\ view' = view /\ aborted' = aborted /\ (Waiting(a)' <=> Waiting(a))
        /\ fsm'[a] # "CLOSE" => fsm[a] # "CLOSE"
    BY <1>0, <1>2 DEF LeaveHandshake, maps, Waiting, FsmTypeOK, OwnState
  <2>6. ~Told(a)'
    BY <1>0, <1>2 DEF LeaveHandshake, Told, InBlock, Exchange, FsmTypeOK, OwnState
  <2> HIDE DEF ms
  <2>7. channel'[a] = channel[a]
    BY <1>0, <2>1, <2>2, SendFacts
  <2>8. Informed(a)'
    BY <1>0, <2>5, <2>7, ReceiverKept
  <2>9. Informed(o)'
    BY <1>0, <2>1, <2>2, <2>3, <2>4, <2>5, <2>6, SenderKept
  <2> QED
    BY <2>8, <2>9
<1>3. CASE SendBitfieldMsg(a)
  <2> DEFINE ms == <<Bitfield(bitfield[a])>>
  <2>1. Send(a, ms)
    BY <1>3 DEF SendBitfieldMsg, maps
  <2>2. ms \in Seq(Message)
    BY <1>0, Messages DEF FsmTypeOK, Talk
  <2>3. TRUE
    OBVIOUS
  <2>4. Speaks(a)' => Speaks(a)
    BY <1>0, <1>3 DEF SendBitfieldMsg, maps, Speaks, FsmTypeOK, OwnState
  <2>5. /\ view' = view /\ aborted' = aborted /\ (Waiting(a)' <=> Waiting(a))
        /\ fsm'[a] # "CLOSE" => fsm[a] # "CLOSE"
    BY <1>0, <1>3 DEF SendBitfieldMsg, maps, Waiting, FsmTypeOK, OwnState
  <2>6. ~stale'[a] /\ Told(a)' =>
          \A p \in pieces'[a] \ announcing'[a] :
            Speaks(a) /\ \E m \in Message : ms = <<m>> /\ Carries(m, p)
    <3> SUFFICES ASSUME ~stale'[a], Told(a)', NEW p \in pieces'[a] \ announcing'[a]
                 PROVE  Speaks(a) /\ Carries(Bitfield(bitfield[a]), p) /\ Bitfield(bitfield[a]) \in Message
      OBVIOUS
    <3>1. busy[a] = "again" /\ ~stale[a] /\ p \in pieces[a] \ announcing[a]
      BY <1>0, <1>3 DEF SendBitfieldMsg, Told, InBlock, Exchange, FsmTypeOK, pvars, history
    <3>2. p \in bitfield[a] /\ bitfield[a] \in SUBSET Pieces /\ fsm[a] = "METADATA"
      BY <1>0, <3>1 DEF OwnPieces, OwnState, FsmTypeOK
    <3> QED
      BY <3>2, Messages DEF Carries, Speaks
  <2> HIDE DEF ms
  <2>7. channel'[a] = channel[a]
    BY <1>0, <2>1, <2>2, SendFacts
  <2>8. Informed(a)'
    BY <1>0, <2>5, <2>7, ReceiverKept
  <2>9. Informed(o)'
    BY <1>0, <2>1, <2>2, <2>3, <2>4, <2>5, <2>6, SenderKept
  <2> QED
    BY <2>8, <2>9
<1>4. CASE EnterBlock(a)
  <2> DEFINE ms == <<Msg("unchoke"), Msg("interested")>>
  <2>1. Send(a, ms)
    BY <1>4 DEF EnterBlock
  <2>2. ms \in Seq(Message)
    BY <1>0, Messages DEF FsmTypeOK, Talk
  <2>3. \A p : \A i \in 1 .. Len(ms) : Keeps(ms[i], p)
    BY <1>b DEF Talk
  <2>4. Speaks(a)' => Speaks(a)
    BY <1>0, <1>4 DEF EnterBlock, Speaks, FsmTypeOK, OwnState
  <2>5. /\ view' = view /\ aborted' = aborted /\ (Waiting(a)' <=> Waiting(a))
        /\ fsm'[a] # "CLOSE" => fsm[a] # "CLOSE"
    BY <1>0, <1>4 DEF EnterBlock, Waiting, FsmTypeOK, OwnState
  <2>6. ~stale'[a] /\ Told(a)' => /\ ~stale[a] /\ Told(a)
                                /\ pieces'[a] \ announcing'[a] \subseteq pieces[a] \ announcing[a]
    BY <1>0, <1>4 DEF EnterBlock, Told, pvars, history
  <2> HIDE DEF ms
  <2>7. channel'[a] = channel[a]
    BY <1>0, <2>1, <2>2, SendFacts
  <2>8. Informed(a)'
    BY <1>0, <2>5, <2>7, ReceiverKept
  <2>9. Informed(o)'
    BY <1>0, <2>1, <2>2, <2>3, <2>4, <2>5, <2>6, SenderKept
  <2> QED
    BY <2>8, <2>9
<1>5. CASE MetadataTick(a)
  <2>1. /\ channel' = channel /\ view'[a] = view[a] /\ aborted' = aborted
        /\ fsm'[a] = fsm[a] /\ (Waiting(a)' <=> Waiting(a))
    BY <1>0, <1>5 DEF MetadataTick, maps, pvars, history, Waiting, FsmTypeOK
  <2>2. Speaks(a)' => Speaks(a)
    BY <1>0, <1>5 DEF MetadataTick, maps, pvars, history, Speaks, FsmTypeOK
  <2>3. ~stale'[a] /\ Told(a)' =>
          /\ ~stale[a] /\ Told(a)
          /\ pieces'[a] \ announcing'[a] \subseteq pieces[a] \ announcing[a]
    BY <1>0, <1>5 DEF MetadataTick, IsReady, pvars, Told, InBlock, FsmTypeOK, Exchange
  <2> QED
    BY <1>0, <1>a, <2>1, <2>2, <2>3, SenderKept, ReceiverKept
<1>6. CASE SetReady(a)
  <2>1. /\ channel' = channel /\ view'[a] = view[a] /\ aborted' = aborted
        /\ fsm'[a] = fsm[a] /\ (Waiting(a)' <=> Waiting(a))
    BY <1>0, <1>6 DEF SetReady, maps, state, history, Waiting, FsmTypeOK
  <2>2. Speaks(a)' => Speaks(a)
    BY <1>0, <1>6 DEF SetReady, maps, state, history, Speaks, FsmTypeOK
  <2>3. ~stale'[a] /\ Told(a)' =>
          /\ ~stale[a] /\ Told(a)
          /\ pieces'[a] \ announcing'[a] \subseteq pieces[a] \ announcing[a]
    BY <1>0, <1>6 DEF SetReady, maps, state, history, Told, InBlock, FsmTypeOK
  <2> QED
    BY <1>0, <1>a, <2>1, <2>2, <2>3, SenderKept, ReceiverKept
<1>7. CASE CreatePicker(a)
  <2>1. /\ channel' = channel /\ view'[a] = view[a] /\ aborted' = aborted
        /\ fsm'[a] = fsm[a] /\ (Waiting(a)' <=> Waiting(a))
    BY <1>0, <1>7 DEF CreatePicker, maps, state, history, Waiting, FsmTypeOK
  <2>2. Speaks(a)' => Speaks(a)
    BY <1>0, <1>7 DEF CreatePicker, maps, state, history, Speaks, FsmTypeOK
  <2>3. ~stale'[a] /\ Told(a)' =>
          /\ ~stale[a] /\ Told(a)
          /\ pieces'[a] \ announcing'[a] \subseteq pieces[a] \ announcing[a]
    BY <1>0, <1>7 DEF CreatePicker, maps, state, history, Told, InBlock, FsmTypeOK, OwnPieces, Ticked
  <2> QED
    BY <1>0, <1>a, <2>1, <2>2, <2>3, SenderKept, ReceiverKept
<1>8. CASE CloseSocket(a)
  <2>1. fsm'[a] = "CLOSE"
    BY <1>0, <1>8 DEF CloseSocket, FsmTypeOK
  <2> QED
    BY <1>0, <2>1 DEF Informed, Alive
<1>9. ASSUME NEW p \in Pieces, VerifyPiece(a, p)
      PROVE  Informed(a)' /\ Informed(o)'
  <2>1. /\ channel' = channel /\ view'[a] = view[a] /\ aborted' = aborted
        /\ fsm'[a] = fsm[a] /\ (Waiting(a)' <=> Waiting(a))
    BY <1>0, <1>9 DEF VerifyPiece, maps, state, history, Waiting, FsmTypeOK
  <2>2. Speaks(a)' => Speaks(a)
    BY <1>0, <1>9 DEF VerifyPiece, maps, state, history, Speaks, FsmTypeOK
  <2>3. ~stale'[a] /\ Told(a)' =>
          /\ ~stale[a] /\ Told(a)
          /\ pieces'[a] \ announcing'[a] \subseteq pieces[a] \ announcing[a]
    BY <1>0, <1>9 DEF VerifyPiece, maps, state, history, Told, InBlock, FsmTypeOK
  <2> QED
    BY <1>0, <1>a, <2>1, <2>2, <2>3, SenderKept, ReceiverKept
<1>10. ASSUME NEW p \in Pieces, AnnouncePiece(a, p)
      PROVE  Informed(a)' /\ Informed(o)'
  <2> DEFINE ms == IF attached[a] THEN <<Have(p)>> ELSE << >>
  <2>1. Send(a, ms)
    BY <1>10 DEF AnnouncePiece, maps, state
  <2>2. ms \in Seq(Message)
    BY <1>0, Messages DEF FsmTypeOK, Talk
  <2>3. \A q : \A i \in 1 .. Len(ms) : Keeps(ms[i], q)
    BY Messages DEF Keeps
  <2>4. Speaks(a)' => Speaks(a)
    BY <1>0, <1>10 DEF AnnouncePiece, maps, state, Speaks, FsmTypeOK, OwnState
  <2>5. /\ view' = view /\ aborted' = aborted /\ (Waiting(a)' <=> Waiting(a))
        /\ fsm'[a] # "CLOSE" => fsm[a] # "CLOSE"
    BY <1>0, <1>10 DEF AnnouncePiece, maps, state, Waiting, FsmTypeOK, OwnState
  <2>6. ~stale'[a] /\ Told(a)' =>
          \A q \in pieces'[a] \ announcing'[a] :
            \/ ~stale[a] /\ Told(a) /\ q \in pieces[a] \ announcing[a]
            \/ Speaks(a) /\ \E m \in Message : ms = <<m>> /\ Carries(m, q)
    <3> SUFFICES ASSUME ~stale'[a], Told(a)', NEW q \in pieces'[a]
                 PROVE  \/ ~stale[a] /\ Told(a) /\ q \in pieces[a] \ announcing[a]
                        \/ Speaks(a) /\ \E m \in Message : ms = <<m>> /\ Carries(m, q)
      OBVIOUS
    <3>1. ~stale[a] /\ Told(a) /\ q \in pieces[a]
      BY <1>0, <1>10 DEF AnnouncePiece, Told, InBlock, FsmTypeOK, state
    <3>2. CASE q \in announcing[a]
      <4>1. q = p
        BY <1>0, <1>10, <3>2 DEF AnnouncePiece, OwnPieces
      <4>2. attached[a] /\ Speaks(a)
        BY <1>0, <3>1 DEF Told, InBlock, OwnState, Speaks, Exchange
      <4> QED
        BY <4>1, <4>2, Messages DEF Carries
    <3> QED
      BY <3>1, <3>2
  <2> HIDE DEF ms
  <2>7. channel'[a] = channel[a]
    BY <1>0, <2>1, <2>2, SendFacts
  <2>8. Informed(a)'
    BY <1>0, <2>5, <2>7, ReceiverKept
  <2>9. Informed(o)'
    BY <1>0, <2>1, <2>2, <2>3, <2>4, <2>5, <2>6, SenderKept
  <2> QED
    BY <2>8, <2>9
<1>11. ASSUME NEW k \in Talk, ForeignTalk(a, k)
      PROVE  Informed(a)' /\ Informed(o)'
  <2> DEFINE ms == <<Msg(k)>>
  <2>1. Send(a, ms)
    BY <1>11 DEF ForeignTalk, maps, state
  <2>2. ms \in Seq(Message)
    BY <1>0, Messages DEF FsmTypeOK, Talk
  <2>3. \A p : \A i \in 1 .. Len(ms) : Keeps(ms[i], p)
    BY <1>b
  <2>4. Speaks(a)' => Speaks(a)
    BY <1>0, <1>11 DEF ForeignTalk, maps, state, Speaks, FsmTypeOK, OwnState
  <2>5. /\ view' = view /\ aborted' = aborted /\ (Waiting(a)' <=> Waiting(a))
        /\ fsm'[a] # "CLOSE" => fsm[a] # "CLOSE"
    BY <1>0, <1>11 DEF ForeignTalk, maps, state, Waiting, FsmTypeOK, OwnState
  <2>6. ~stale'[a] /\ Told(a)' => /\ ~stale[a] /\ Told(a)
                                /\ pieces'[a] \ announcing'[a] \subseteq pieces[a] \ announcing[a]
    BY <1>0, <1>11 DEF ForeignTalk, Told, InBlock, pvars, history, state
  <2> HIDE DEF ms
  <2>7. channel'[a] = channel[a]
    BY <1>0, <2>1, <2>2, SendFacts
  <2>8. Informed(a)'
    BY <1>0, <2>5, <2>7, ReceiverKept
  <2>9. Informed(o)'
    BY <1>0, <2>1, <2>2, <2>3, <2>4, <2>5, <2>6, SenderKept
  <2> QED
    BY <2>8, <2>9
<1>12. CASE Receive(a)
  <2> DEFINE m == Head(channel[a])
  <2>1. /\ channel[a] # << >> /\ channel' = [channel EXCEPT ![a] = Tail(@)] /\ busy[a] = "no"
        /\ \/ Dropped(a, m) \/ OnRecvError(a, m)
           \/ /\ fsm[a] \notin {"HANDSHAKE", "CLOSE"}
              /\ OnTalk(a, m.kind) \/ OnHaveMsg(a, m) \/ OnBitfieldMsg(a, m)
        /\ UNCHANGED <<busy, pieces, announcing, stale>>
    BY <1>12 DEF Receive, pvars, Free
  <2>2. channel'[a] = Tail(channel[a]) /\ channel'[o] = channel[o] /\ m \in Message
    BY <1>0, <2>1, TailFacts DEF FsmTypeOK
  <2> HIDE DEF m
  <2>3. /\ m.kind = "have" => m = Have(m.piece)
        /\ m = Msg("handshake") => m.kind = "handshake"
        /\ \A p : Have(p).kind = "have" /\ Have(p).piece = p
    BY <2>2, Messages DEF Have, Talk
  <2>4. fsm'[a] = fsm[a] \/ fsm'[a] = "CLOSE" \/ (InBlock(a) /\ InBlock(a)')
    <3>1. CASE OnTalk(a, m.kind)
      <4>1. m.kind \in Talk /\ fsm'[a] = After(fsm[a], m.kind)
        BY <1>0, <3>1 DEF OnTalk, FsmTypeOK
      <4>2. fsm[a] \in Exchange \cup {"HANDSHAKE", "METADATA", "BLOCK", "CLOSE"}
        BY <1>0 DEF FsmTypeOK
      <4> QED
        BY <4>1, <4>2, AfterFacts DEF InBlock, Exchange
    <3>2. CASE OnRecvError(a, m)
      BY <1>0, <3>2 DEF OnRecvError, FsmTypeOK
    <3> QED
      BY <2>1, <3>1, <3>2 DEF Dropped, OnHaveMsg, OnBitfieldMsg
  <2>5. fsm'[a] # "CLOSE" => fsm[a] # "CLOSE"
    BY <2>1, <2>4 DEF Dropped, OnRecvError, InBlock, Exchange
  <2>6. Waiting(a)' => Waiting(a) /\ m # Msg("handshake")
    <3> SUFFICES ASSUME Waiting(a)'
                 PROVE  Waiting(a) /\ m.kind # "handshake"
      BY <2>3
    <3>1. fsm[a] = "HANDSHAKE"
      BY <2>4 DEF Waiting, InBlock, Exchange
    <3> QED
      BY <2>1, <3>1 DEF Waiting, Dropped, OnRecvError
  <2>7. a \in aborted => a \in aborted'
    BY <2>1 DEF Dropped, OnRecvError, OnTalk, OnHaveMsg, OnBitfieldMsg
  <2>8. ASSUME NEW p, ~Waiting(a), fsm'[a] # "CLOSE", a \notin aborted'
        PROVE  /\ Carries(m, p) => p \in view'[a]
               /\ p \in view[a] /\ Keeps(m, p) => p \in view'[a]
    <3>1. fsm[a] \notin {"HANDSHAKE", "CLOSE"}
      BY <2>1, <2>5, <2>8 DEF Waiting
    <3>2. CASE OnHaveMsg(a, m)
      <4>1. view'[a] = view[a] \cup {m.piece} /\ m.kind = "have"
        BY <1>0, <2>8, <3>2 DEF OnHaveMsg, FsmTypeOK
      <4> QED
        BY <2>3, <4>1 DEF Carries
    <3>3. CASE OnBitfieldMsg(a, m)
      <4>1. view'[a] = m.map /\ m.kind = "bitfield"
        BY <1>0, <3>3 DEF OnBitfieldMsg, FsmTypeOK
      <4> QED
        BY <2>3, <4>1 DEF Carries, Keeps
    <3>4. CASE OnTalk(a, m.kind) \/ Dropped(a, m) \/ OnRecvError(a, m)
      <4>1. view'[a] = view[a] /\ m.kind \notin {"have", "bitfield"}
        BY <3>1, <1>0, <2>8, <3>4 DEF OnTalk, Dropped, OnRecvError, maps, Talk, FsmTypeOK
      <4> QED
        BY <2>3, <4>1 DEF Carries
    <3> QED
      BY <2>1, <3>2, <3>3, <3>4
  <2>9. Informed(a)'
    BY <1>0, <2>1, <2>2, <2>5, <2>6, <2>7, <2>8, TakerKept DEF m
  <2>10. /\ Told(a)' => fsm'[a] = "CLOSE" \/ Told(a)
         /\ Speaks(a)' => fsm'[a] = "CLOSE" \/ Speaks(a)
    BY <2>1, <2>4 DEF Told, Speaks, InBlock, Exchange
  <2>11. fsm'[a] = "CLOSE" => ~Told(a)'
    BY <2>1 DEF Told, InBlock, Exchange
  <2>12. Informed(o)'
    BY <1>0, <1>a, <2>1, <2>2, <2>5, <2>10, <2>11, SenderKept
  <2> QED
    BY <2>9, <2>12
<1> QED
  BY <1>1, <1>2, <1>3, <1>4, <1>5, <1>6, <1>7, <1>8, <1>9, <1>10, <1>11, <1>12 DEF ActsOf

-----------------------------------------------------------------------------
LEMMA InitFsm == FsmInit => FInv /\ HeardInv
<1> SUFFICES ASSUME FsmInit
             PROVE  FInv /\ HeardInv
  OBVIOUS
<1>1. \A e \in Ends : channel[e] = IF e = "passive" THEN <<Msg("handshake")>> ELSE << >>
  BY DEF FsmInit
<1>2. Msg("handshake") \in Message /\ Msg("handshake").kind = "handshake"
  BY Messages
<1>3. FsmTypeOK
  <2>1. channel \in [Ends -> Seq(Message)]
    BY <1>2 DEF FsmInit
  <2>2. foreign \in 0 .. MaxForeign
    BY FsmAssumption DEF FsmInit
  <2>3. /\ heard \in [Ends -> [unchoke : BOOLEAN, interest : BOOLEAN]]
        /\ flags \in [Ends -> [unchoke : BOOLEAN, interest : BOOLEAN]]
        /\ garbage = flags
    BY DEF FsmInit, Nothing
  <2> QED
    BY <2>1, <2>2, <2>3 DEF FsmInit, FsmTypeOK
<1>4. ASSUME NEW e \in Ends
      PROVE  OwnState(e) /\ OwnPieces(e)
  BY DEF FsmInit, OwnState, OwnPieces, InBlock, Exchange, Ticked
<1>5. ASSUME NEW e \in Ends
      PROVE  Truthful(e)
  <2>1. \A i \in 1 .. Len(channel[e]) : channel[e][i].kind = "handshake"
    BY <1>1, <1>2
  <2> QED
    BY <2>1 DEF FsmInit, Truthful
<1>6. ASSUME NEW e \in Ends
      PROVE  Informed(e)
  <2>1. Speaks(Other(e)) => Greeted(e)
    <3>1. Speaks(Other(e)) => e = "passive"
      BY TwoEnds DEF FsmInit, Speaks, Other
    <3> QED
      BY <1>1, <3>1 DEF Greeted
  <2>2. ~(busy[Other(e)] = "enter" \/ InBlock(Other(e)))
    BY TwoEnds DEF FsmInit, InBlock, Exchange
  <2> QED
    BY <2>1, <2>2 DEF Informed
<1>7. HeardInv
  BY DEF FsmInit, HeardInv, Follows, Nothing
<1> QED
  BY <1>3, <1>4, <1>5, <1>6, <1>7 DEF FInv

LEMMA IdleKept ==
  ASSUME FInv, UNCHANGED fvars
  PROVE  FInv' /\ (HeardInv => HeardInv')
<1>1. UNCHANGED <<fsm, busy, bitfield, flags, attached, open, torrent, pieces, seed, announcing, sized,
                  view, channel, foreign, stale, heard, garbage, early, aborted>>
  BY DEF fvars, state, pvars, maps, history
<1>2. FsmTypeOK' /\ \A e \in Ends : OwnState(e)' /\ OwnPieces(e)' /\ Truthful(e)'
  BY <1>1 DEF FInv, FsmTypeOK, OwnState, OwnPieces, Truthful, InBlock, Ticked
<1>3. ASSUME NEW e \in Ends
      PROVE  Informed(e)'
  <2>1. \A p : WillKnow(e, p)' <=> WillKnow(e, p)
    BY <1>1 DEF WillKnow, Waiting
  <2> QED
    BY <1>1, <2>1 DEF FInv, Informed, Alive, Waiting, Speaks, Greeted, InBlock
<1>4. HeardInv => HeardInv'
  BY <1>1 DEF HeardInv, Follows
<1> QED
  BY <1>2, <1>3, <1>4 DEF FInv

LEMMA StepKept ==
  ASSUME FInv, FsmNext
  PROVE  FInv'
<1>1. PICK a \in Ends : ActsOf(a)
  BY DEF FsmNext, Handler, ActsOf
<1>2. Other(a) \in Ends /\ Ends = {a, Other(a)} /\ OtherEnd(Other(a))
  BY <1>1, TwoEnds, OtherStays
<1>3. OwnState(Other(a))' /\ OwnPieces(Other(a))'
  BY <1>2 DEF FInv, OwnState, OwnPieces, OtherEnd, InBlock, Ticked
<1>4. FsmTypeOK' /\ OwnState(a)' /\ OwnPieces(a)'
  BY <1>1, TypeKept, OwnStateKept, OwnPiecesKept
<1>5. Truthful(a)' /\ Truthful(Other(a))' /\ Informed(a)' /\ Informed(Other(a))'
  BY <1>1, TruthfulKept, InformedKept
<1> QED
  BY <1>2, <1>3, <1>4, <1>5 DEF FInv

LEMMA InvSays == FInv => FsmConsistent
<1> SUFFICES ASSUME FInv, NEW e \in Ends
             PROVE  /\ view[e] \subseteq pieces[Other(e)]
                    /\ (/\ fsm[e] \in Exchange /\ fsm[Other(e)] \in Exchange
                        /\ channel[e] = << >> /\ announcing[Other(e)] = {} /\ ~stale[Other(e)])
                         => view[e] = pieces[Other(e)]
  BY DEF FInv, FsmConsistent, ViewExact
<1>1. view[e] \subseteq pieces[Other(e)] /\ Informed(e) /\ OwnState(e)
  BY DEF FInv, Truthful
<1> SUFFICES ASSUME fsm[e] \in Exchange, fsm[Other(e)] \in Exchange, channel[e] = << >>,
                    announcing[Other(e)] = {}, ~stale[Other(e)]
             PROVE  pieces[Other(e)] \subseteq view[e]
  BY <1>1
<1>2. Alive(e) /\ InBlock(Other(e)) /\ e \notin aborted
  BY <1>1 DEF Alive, InBlock, Exchange, OwnState
<1>3. \A p \in pieces[Other(e)] : WillKnow(e, p)
  BY <1>1, <1>2 DEF Informed
<1>4. 1 .. Len(channel[e]) = {}
  OBVIOUS
<1> QED
  BY <1>3, <1>4 DEF WillKnow

(* The inductive invariant of a connection. *)
THEOREM FsmInvariant == FsmSpec => []FInv
<1>1. FInv /\ [FsmNext]_fvars => FInv'
  BY StepKept, IdleKept
<1> QED
  BY <1>1, InitFsm, PTL DEF FsmSpec

(* The ends of a connection agree on the pieces each of them has: neither  *)
(* ever believes too much of the other, and once both exchange and nothing *)
(* is on its way each knows all the other has, although haves are sent in  *)
(* any state and some are dropped, unless the last bitfield was overtaken. *)
THEOREM EndsAgree == FsmSpec => []FsmConsistent
<1> QED
  BY FsmInvariant, InvSays, PTL

-----------------------------------------------------------------------------
LEMMA HeardKept ==
  ASSUME FInv, NEW a \in Ends, Follows(a), ActsOf(a)
  PROVE  Follows(a)'
<1>0. FsmTypeOK /\ OwnState(a) /\ Follows(a)
  BY DEF FInv
<1>1. CASE OnHandshakeMsg(a)
  BY <1>0, <1>1 DEF OnHandshakeMsg, pvars, history, FsmTypeOK, OwnState, Follows, Exchange
<1>2. CASE LeaveHandshake(a)
  BY <1>0, <1>2 DEF LeaveHandshake, pvars, maps, history, FsmTypeOK, OwnState, Follows, Exchange
<1>3. CASE SendBitfieldMsg(a)
  BY <1>0, <1>3 DEF SendBitfieldMsg, pvars, maps, history, FsmTypeOK, OwnState, Follows, Exchange
<1>4. CASE EnterBlock(a)
  BY <1>0, <1>4 DEF EnterBlock, pvars, history, FsmTypeOK, OwnState, Follows, Exchange
<1>5. CASE MetadataTick(a)
  BY <1>0, <1>5 DEF MetadataTick, pvars, maps, FsmTypeOK, OwnState, Follows, Exchange
<1>6. CASE SetReady(a)
  BY <1>0, <1>6 DEF SetReady, state, maps, history, FsmTypeOK, OwnState, Follows, Exchange
<1>7. CASE CreatePicker(a)
  BY <1>0, <1>7 DEF CreatePicker, state, maps, history, FsmTypeOK, OwnState, Follows, Exchange
<1>8. CASE CloseSocket(a)
  BY <1>0, <1>8 DEF CloseSocket, pvars, FsmTypeOK, OwnState, Follows, Exchange
<1>9. ASSUME NEW p \in Pieces, VerifyPiece(a, p)
      PROVE  Follows(a)'
  BY <1>0, <1>9 DEF VerifyPiece, state, maps, history, FsmTypeOK, OwnState, Follows, Exchange
<1>10. ASSUME NEW p \in Pieces, AnnouncePiece(a, p)
      PROVE  Follows(a)'
  BY <1>0, <1>10 DEF AnnouncePiece, state, maps, FsmTypeOK, OwnState, Follows, Exchange
<1>11. ASSUME NEW k \in Talk, ForeignTalk(a, k)
      PROVE  Follows(a)'
  BY <1>0, <1>11 DEF ForeignTalk, state, pvars, maps, history, FsmTypeOK, OwnState, Follows, Exchange
<1>12. CASE Receive(a)
  <2> DEFINE m == Head(channel[a])
  <2>1. /\ \/ Dropped(a, m) \/ OnRecvError(a, m)
           \/ /\ fsm[a] \notin {"HANDSHAKE", "CLOSE"}
              /\ OnTalk(a, m.kind) \/ OnHaveMsg(a, m) \/ OnBitfieldMsg(a, m)
        /\ UNCHANGED garbage
    BY <1>12 DEF Receive
  <2> HIDE DEF m
  <2>2. CASE OnTalk(a, m.kind) /\ fsm[a] \notin {"HANDSHAKE", "CLOSE"}
    <3>1. PICK k \in Talk : OnTalk(a, k)
      BY <2>2 DEF OnTalk
    <3>2. /\ fsm'[a] = After(fsm[a], k)
          /\ fsm[a] \in Exchange \cup {"METADATA", "BLOCK"}
          /\ early'[a] <=> (early[a] \/ (fsm[a] = "METADATA" /\ k \in {"choke", "notinterested"}))
      BY <1>0, <2>2, <3>1, ZenonT(60) DEF OnTalk, FsmTypeOK
    <3>3. /\ heard'[a].unchoke = IF k \in {"choke", "unchoke"} THEN k = "unchoke" ELSE heard[a].unchoke
          /\ heard'[a].interest = IF k \in {"interested", "notinterested"}
                                    THEN k = "interested" ELSE heard[a].interest
      BY <1>0, <3>1, HearFacts DEF OnTalk
    <3>4. CASE fsm[a] = "METADATA"
      <4>1. fsm'[a] = "METADATA"
        BY <3>2, <3>4, AfterFacts
      <4>2. /\ flags'[a].unchoke = (flags[a].unchoke \/ k = "unchoke")
            /\ flags'[a].interest = (flags[a].interest \/ k = "interested")
        BY <1>0, <3>1, <3>4 DEF OnTalk, FsmTypeOK
      <4>3. k \in {"unchoke", "interested", "choke", "notinterested"}
        BY DEF Talk
      <4> QED
        BY <1>0, <2>1, <3>2, <3>3, <3>4, <4>1, <4>2, <4>3 DEF Follows
    <3>5. CASE fsm[a] \in Exchange \cup {"BLOCK"}
      <4>1. CASE k \in {"unchoke", "choke"}
        <5>1. /\ heard'[a].unchoke <=> k = "unchoke"
              /\ heard'[a].interest = heard[a].interest
          BY <3>3, <4>1
        <5>2. fsm'[a] \notin {"CLOSE", "SEED"} =>
                /\ fsm[a] \in {"BLOCK", "TRANSFER", "UPLOAD", "DOWNLOAD"}
                /\ fsm'[a] \in {"TRANSFER", "DOWNLOAD"} <=> k = "unchoke"
                /\ fsm'[a] \in {"TRANSFER", "UPLOAD"} <=> fsm[a] \in {"TRANSFER", "UPLOAD"}
          BY <3>2, <3>5, <4>1, AfterFacts DEF Exchange
        <5>3. UNCHANGED garbage /\ (~early'[a] => ~early[a]) /\ fsm'[a] \notin {"HANDSHAKE", "METADATA"}
          BY <2>1, <3>2, <3>5, <4>1, AfterFacts DEF Exchange
        <5> QED
          BY <1>0, <5>1, <5>2, <5>3 DEF Follows
      <4>2. CASE k \in {"interested", "notinterested"}
        <5>1. /\ heard'[a].interest <=> k = "interested"
              /\ heard'[a].unchoke = heard[a].unchoke
          BY <3>3, <4>2
        <5>2. fsm'[a] \notin {"CLOSE", "SEED"} =>
                /\ fsm[a] \in {"BLOCK", "TRANSFER", "UPLOAD", "DOWNLOAD"}
                /\ fsm'[a] \in {"TRANSFER", "UPLOAD"} <=> k = "interested"
                /\ fsm'[a] \in {"TRANSFER", "DOWNLOAD"} <=> fsm[a] \in {"TRANSFER", "DOWNLOAD"}
          BY <3>2, <3>5, <4>2, AfterFacts DEF Exchange
        <5>3. UNCHANGED garbage /\ (~early'[a] => ~early[a]) /\ fsm'[a] \notin {"HANDSHAKE", "METADATA"}
          BY <2>1, <3>2, <3>5, <4>2, AfterFacts DEF Exchange
        <5> QED
          BY <1>0, <5>1, <5>2, <5>3 DEF Follows
      <4> QED
        BY <4>1, <4>2 DEF Talk
    <3> QED
      BY <3>2, <3>4, <3>5
  <2>3. CASE Dropped(a, m) \/ OnHaveMsg(a, m) \/ OnBitfieldMsg(a, m)
    BY <1>0, <2>1, <2>3 DEF Dropped, OnHaveMsg, OnBitfieldMsg, Follows
  <2>4. CASE OnRecvError(a, m)
    <3>1. fsm'[a] = "CLOSE"
      BY <1>0, <2>4 DEF OnRecvError, FsmTypeOK
    <3> QED
      BY <3>1 DEF Follows
  <2> QED
    BY <2>1, <2>2, <2>3, <2>4
<1> QED
  BY <1>1, <1>2, <1>3, <1>4, <1>5, <1>6, <1>7, <1>8, <1>9, <1>10, <1>11, <1>12 DEF ActsOf

(* An end that exchanges blocks downloads exactly if it may and uploads    *)
(* exactly if the other wants it to, wherever in HANDSHAKE, METADATA or    *)
(* BLOCK it heard so, unless its flags held garbage or it heard a choke or *)
(* a loss of interest in METADATA, which the code does not take in.        *)
THEOREM EndsFollow == FsmSpec => []FollowsPeer
<1>1. FInv /\ HeardInv /\ [FsmNext]_fvars => HeardInv'
  <2> SUFFICES ASSUME FInv, HeardInv, FsmNext
               PROVE  HeardInv'
    BY IdleKept
  <2>1. PICK a \in Ends : ActsOf(a)
    BY DEF FsmNext, Handler, ActsOf
  <2>2. Other(a) \in Ends /\ Ends = {a, Other(a)} /\ OtherEnd(Other(a))
    BY <2>1, TwoEnds, OtherStays
  <2>3. Follows(a)'
    BY <2>1, HeardKept DEF HeardInv
  <2>4. Follows(Other(a))'
    BY <2>2 DEF HeardInv, Follows, OtherEnd
  <2> QED
    BY <2>2, <2>3, <2>4 DEF HeardInv
<1>2. HeardInv => FollowsPeer
  BY DEF HeardInv, Follows, FollowsPeer
<1> QED
  BY <1>1, <1>2, InitFsm, FsmInvariant, PTL DEF FsmSpec

=============================================================================
