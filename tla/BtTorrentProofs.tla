---------------------------- MODULE BtTorrentProofs ----------------------------
(* The metadata is retrieved in order, and a torrent that is ready knows   *)
(* the hashes of its pieces: for any number of connections, pieces and     *)
(* restarts, and answers that are late, bad or do not come.                *)
EXTENDS BtTorrent, SequenceTheorems, FiniteSetTheorems, TLAPS

Jobs ==
  {Job("readMetadata"), Job("readResume"), Job("writeMetadata")}
    \cup {WriteResumeJob(pm) : pm \in SUBSET Pieces}

(* The cache holds the first pieces, the queue those that follow.          *)
Rows ==
  /\ Len(cache) + Len(queue) = MetaNum
  /\ \A i \in 1 .. Len(cache) : cache[i] = i
  /\ \A i \in 1 .. Len(queue) : queue[i] = Len(cache) + i

(* A retrieval has not begun, is under way, or is over.                    *)
Stages ==
  /\ retriving => \/ cache = << >> /\ queue = << >> /\ finishing = "no"
                  \/ Rows /\ (queue = << >> <=> finishing # "no")
  /\ ~retriving =>
       /\ finishing = "no"
       /\ Len(cache) < MetaNum =>
            /\ cache = << >> /\ queue = << >> /\ candidates = << >>
            /\ ~ticking /\ ~downloading
            /\ \A c \in Conns : asked[c] = << >> /\ arrived[c] = NoMsg

(* Whoever is asked is the candidate in front, as long as nobody was given *)
(* up; when the retrieval ends nobody is asked any more.                   *)
Asking ==
  /\ downloading => candidates # << >> /\ finishing = "no"
  /\ candidates # << >> /\ finishing = "no" => queue # << >>
  /\ ~timedOut => \A c \in Conns :
       /\ finishing # "no" => asked[c] = << >>
       /\ ~retriving \/ finishing # "no" => arrived[c] = NoMsg
       /\ retriving /\ (asked[c] # << >> \/ arrived[c] # NoMsg) =>
            /\ downloading /\ Head(candidates) = c /\ queue # << >>
            /\ \/ asked[c] = <<Head(queue)>> /\ arrived[c] = NoMsg
               \/ asked[c] = << >> /\ arrived[c].piece = Head(queue)

RInv ==
  /\ RetriverTypeOK
  /\ ~timedOut => crashed \notin {"queue", "pop", "size"}
  /\ crashed = "hash" => ~retriving \/ finishing # "no"
  /\ crashed = "no" => Stages /\ Asking

-----------------------------------------------------------------------------
LEMMA TailFacts ==
  ASSUME NEW S, NEW s \in Seq(S), s # << >>
  PROVE  /\ Tail(s) \in Seq(S) /\ Head(s) \in S /\ Head(s) = s[1]
         /\ Len(s) \in Nat \ {0} /\ Len(Tail(s)) = Len(s) - 1
         /\ \A i \in 1 .. Len(s) - 1 : Tail(s)[i] = s[i + 1]
  OBVIOUS

LEMMA AppendFacts ==
  ASSUME NEW S, NEW s \in Seq(S), NEW x \in S
  PROVE  /\ Append(s, x) \in Seq(S) /\ Append(s, x) # << >>
         /\ Len(s) \in Nat /\ Len(Append(s, x)) = Len(s) + 1
         /\ \A i \in 1 .. Len(s) : Append(s, x)[i] = s[i]
         /\ Append(s, x)[Len(s) + 1] = x
  OBVIOUS

(* The connections are in some order.                                      *)
LEMMA SetToSeqTyped ==
  ASSUME NEW S \in SUBSET Conns
  PROVE  SetToSeq(S) \in Seq(Conns)
<1>1. IsFiniteSet(S)
  BY RetriverAssumption, FS_Subset
<1>2. Cardinality(S) \in Nat /\ \E f \in [1 .. Cardinality(S) -> S] : IsInjective(f)
  <2>1. PICK n \in Nat : \E f : f \in Bijection(1 .. n, S)
    BY <1>1, FS_NatBijection DEF ExistsBijection
  <2>2. Cardinality(S) = n
    BY <1>1, <2>1, FS_CardinalityType, FS_CountingElements DEF ExistsBijection
  <2> QED
    BY <2>1, <2>2 DEF Bijection, Injection, IsInjective
<1>3. SetToSeq(S) \in [1 .. Cardinality(S) -> S]
  BY <1>2 DEF SetToSeq
<1> QED
  BY <1>2, <1>3

LEMMA MetaPiecesTyped ==
  /\ MetaPieces \in Seq(1 .. MetaNum) /\ Len(MetaPieces) = MetaNum
  /\ MetaPieces # << >>
  /\ \A i \in 1 .. MetaNum : MetaPieces[i] = i
  BY RetriverAssumption DEF MetaPieces

LEMMA InvariantSays == RInv => RetrivalInStep
<1> SUFFICES ASSUME RInv
             PROVE  InOrder /\ AskedInFront
  BY DEF RetrivalInStep
<1>1. InOrder
  <2> SUFFICES ASSUME retriving, crashed = "no"
               PROVE  cache \o queue \in {<< >>, MetaPieces}
    BY DEF InOrder
  <2>0. cache \in Seq(1 .. MetaNum) /\ queue \in Seq(1 .. MetaNum)
    BY DEF RInv, RetriverTypeOK
  <2>1. CASE cache = << >> /\ queue = << >>
    BY <2>1
  <2>2. CASE Rows
    <3>1. /\ cache \o queue \in Seq(1 .. MetaNum) /\ Len(cache \o queue) = MetaNum
          /\ Len(cache) \in Nat /\ Len(queue) \in Nat
          /\ \A i \in 1 .. MetaNum :
               (cache \o queue)[i] = IF i <= Len(cache) THEN cache[i] ELSE queue[i - Len(cache)]
      BY <2>0, <2>2, ConcatProperties, RetriverAssumption DEF Rows
    <3>2. \A i \in 1 .. MetaNum : (cache \o queue)[i] = MetaPieces[i]
      BY <2>2, <3>1, MetaPiecesTyped, RetriverAssumption DEF Rows
    <3>3. cache \o queue = MetaPieces
      BY <3>1, <3>2, MetaPiecesTyped, SeqEqual
    <3> QED
      BY <3>3
  <2> QED
    BY <2>1, <2>2 DEF RInv, Stages
<1>2. AskedInFront
  <2>1. downloading /\ crashed = "no" => candidates # << >>
    BY DEF RInv, Asking
  <2>2. ASSUME ~timedOut, NEW c \in Conns,
               retriving, finishing = "no", asked[c] # << >> \/ arrived[c] # NoMsg
        PROVE  /\ downloading /\ Head(candidates) = c
               /\ asked[c] \in {<< >>, <<Head(queue)>>}
               /\ (asked[c] = << >>) # (arrived[c] = NoMsg)
    <3>1. crashed = "no"
      BY <2>2 DEF RInv, RetriverTypeOK
    <3> QED
      BY <2>2, <3>1 DEF RInv, Asking
  <2>3. ~timedOut => crashed \notin {"queue", "pop", "size"}
    BY DEF RInv
  <2> QED
    BY <2>1, <2>2, <2>3 DEF AskedInFront
<1> QED
  BY <1>1, <1>2

-----------------------------------------------------------------------------
(* The steps of the retriever.                                             *)
LEMMA InitRetriver == RetriverInit => RInv
<1> SUFFICES ASSUME RetriverInit
             PROVE  RInv
  OBVIOUS
<1>1. RetriverTypeOK
  <2>1. << >> \in Seq(1 .. MetaNum) /\ << >> \in Seq(Conns) /\ NoMsg \in Messages
    BY DEF Messages
  <2> QED
    BY <2>1 DEF RetriverInit, RetriverTypeOK
<1>2. Stages /\ Asking
  BY DEF RetriverInit, Stages, Asking
<1> QED
  BY <1>1, <1>2 DEF RInv, RetriverInit

LEMMA BeginTickKept ==
  ASSUME RInv, BeginTick
  PROVE  RInv'
<1>1. RetriverTypeOK'
  BY DEF RInv, BeginTick, RetriverTypeOK
<1>2. Stages' /\ Asking'
  BY DEF RInv, BeginTick, Stages, Rows, Asking
<1> QED
  BY <1>1, <1>2 DEF RInv, BeginTick

LEMMA AnnounceKept ==
  ASSUME RInv, NEW c \in Conns, Announce(c)
  PROVE  RInv'
<1>1. RetriverTypeOK'
  BY DEF RInv, Announce, RetriverTypeOK
<1>2. Stages' /\ Asking'
  BY DEF RInv, Announce, Stages, Rows, Asking
<1> QED
  BY <1>1, <1>2 DEF RInv, Announce

LEMMA LeaveKept ==
  ASSUME RInv, NEW c \in Conns, Leave(c)
  PROVE  RInv'
<1>1. RetriverTypeOK'
  BY DEF RInv, Leave, RetriverTypeOK
<1>2. Stages' /\ Asking'
  BY DEF RInv, Leave, Stages, Rows, Asking, RetriverTypeOK
<1> QED
  BY <1>1, <1>2 DEF RInv, Leave

(* An answer is taken in while the retrieval is on; it answers the         *)
(* request that is out.                                                    *)
LEMMA AnswerKept ==
  ASSUME RInv, NEW c \in Conns, NEW m \in Messages \ {NoMsg}, Answer(c, m)
  PROVE  RInv'
<1>0. /\ crashed = "no" /\ asked[c] # << >> /\ arrived[c] = NoMsg /\ m.piece = Head(asked[c])
      /\ asked' = [asked EXCEPT ![c] = Tail(@)]
      /\ arrived' = IF retriving THEN [arrived EXCEPT ![c] = m] ELSE arrived
      /\ UNCHANGED <<up, failed, retriving, queue, downloading, candidates, cache, cacheGood,
                     ticking, finishing, timedOut, crashed>>
  BY DEF Answer
<1>1. RetriverTypeOK'
  <2>1. asked \in [Conns -> Seq(1 .. MetaNum)] /\ Tail(asked[c]) \in Seq(1 .. MetaNum)
    BY <1>0, TailFacts DEF RInv, RetriverTypeOK
  <2>2. asked' \in [Conns -> Seq(1 .. MetaNum)] /\ arrived' \in [Conns -> Messages]
    BY <1>0, <2>1 DEF RInv, RetriverTypeOK
  <2> QED
    BY <1>0, <2>2 DEF RInv, RetriverTypeOK
<1>2. Stages'
  BY <1>0 DEF RInv, Stages, Rows
<1>3. Asking'
  <2>1. /\ downloading => candidates # << >> /\ finishing = "no"
        /\ candidates # << >> /\ finishing = "no" => queue # << >>
    BY <1>0 DEF RInv, Asking
  <2>2. ASSUME ~timedOut, NEW d \in Conns
        PROVE  /\ finishing # "no" => asked'[d] = << >>
               /\ ~retriving \/ finishing # "no" => arrived'[d] = NoMsg
               /\ retriving /\ (asked'[d] # << >> \/ arrived'[d] # NoMsg) =>
                    /\ downloading /\ Head(candidates) = d /\ queue # << >>
                    /\ \/ asked'[d] = <<Head(queue)>> /\ arrived'[d] = NoMsg
                       \/ asked'[d] = << >> /\ arrived'[d].piece = Head(queue)
    <3>1. /\ finishing # "no" => asked[d] = << >> /\ asked[c] = << >>
          /\ ~retriving \/ finishing # "no" => arrived[d] = NoMsg
          /\ retriving /\ (asked[d] # << >> \/ arrived[d] # NoMsg) =>
               /\ downloading /\ Head(candidates) = d /\ queue # << >>
               /\ \/ asked[d] = <<Head(queue)>> /\ arrived[d] = NoMsg
                  \/ asked[d] = << >> /\ arrived[d].piece = Head(queue)
      BY <1>0, <2>2 DEF RInv, Asking
    <3>2. CASE d # c
      BY <1>0, <3>1, <3>2 DEF RInv, RetriverTypeOK
    <3>3. CASE d = c
      <4>1. CASE ~retriving
        BY <1>0, <3>1, <3>3, <4>1
      <4>2. CASE retriving
        <5>1. asked[c] = <<Head(queue)>> /\ finishing = "no"
          BY <1>0, <3>1, <3>3, <4>2
        <5>2. Tail(asked[c]) = << >> /\ Head(asked[c]) = Head(queue)
          BY <5>1
        <5>3. asked'[c] = << >> /\ arrived'[c] = m
          BY <1>0, <4>2, <5>2 DEF RInv, RetriverTypeOK
        <5> QED
          BY <1>0, <3>1, <3>3, <4>2, <5>1, <5>2, <5>3
      <4> QED
        BY <4>1, <4>2
    <3> QED
      BY <3>2, <3>3
  <2> QED
    BY <1>0, <2>1, <2>2 DEF Asking
<1> QED
  BY <1>0, <1>1, <1>2, <1>3 DEF RInv

(* Only the candidate in front is asked, and only for the piece in front.  *)
LEMMA Sent ==
  ASSUME NEW q \in Seq(1 .. MetaNum), NEW d \in BOOLEAN, NEW cs \in Seq(Conns),
         cs # << >> => q # << >>,
         asked \in [Conns -> Seq(1 .. MetaNum)], TrySendPieceRequest(q, d, cs)
  PROVE  /\ downloading' = (d \/ cs # << >>)
         /\ asked' \in [Conns -> Seq(1 .. MetaNum)]
         /\ \A x \in Conns :
              \/ asked'[x] = asked[x]
              \/ ~d /\ cs # << >> /\ x = Head(cs) /\ asked'[x] = Append(asked[x], Head(q))
<1>1. downloading' = (d \/ cs # << >>)
  BY DEF TrySendPieceRequest
<1>2. CASE ~d /\ cs # << >> /\ Head(cs) \in up
  <2>1. Head(cs) \in Conns /\ Head(q) \in 1 .. MetaNum
    BY <1>2, TailFacts
  <2>2. asked' = [asked EXCEPT ![Head(cs)] = Append(@, Head(q))]
    BY <1>2 DEF TrySendPieceRequest
  <2>3. Append(asked[Head(cs)], Head(q)) \in Seq(1 .. MetaNum)
    BY <2>1, AppendFacts
  <2> QED
    BY <1>1, <1>2, <2>1, <2>2, <2>3
<1>3. CASE ~(~d /\ cs # << >> /\ Head(cs) \in up)
  BY <1>1, <1>3 DEF TrySendPieceRequest
<1> QED
  BY <1>2, <1>3

(* As long as nobody was given up, an answer that is handled is the one to *)
(* the request in front, and nobody else is asked.                         *)
LEMMA OnlyAnswer ==
  ASSUME RInv, crashed = "no", finishing = "no", ~timedOut,
         NEW c \in Conns, arrived[c] # NoMsg
  PROVE  /\ retriving /\ downloading /\ Head(candidates) = c /\ queue # << >>
         /\ candidates # << >>
         /\ asked[c] = << >> /\ arrived[c].piece = Head(queue)
         /\ \A d \in Conns \ {c} : asked[d] = << >> /\ arrived[d] = NoMsg
  BY DEF RInv, Asking

LEMMA RejectKept ==
  ASSUME RInv, NEW c \in Conns, ReceivedMetadataRejectMsg(c)
  PROVE  RInv'
<1>0. /\ crashed = "no" /\ finishing = "no" /\ arrived[c] # NoMsg
      /\ arrived' = [arrived EXCEPT ![c] = NoMsg]
      /\ UNCHANGED <<up, failed, retriving, queue, cache, cacheGood, asked, ticking,
                     finishing, timedOut>>
  BY DEF ReceivedMetadataRejectMsg, Unlocked, NoMsg
<1>1. candidates # << >> => Tail(candidates) \in Seq(Conns)
  BY TailFacts DEF RInv, RetriverTypeOK
<1>2. RetriverTypeOK'
  BY <1>0, <1>1 DEF RInv, RetriverTypeOK, ReceivedMetadataRejectMsg, Messages
<1>3. ASSUME ~timedOut
      PROVE  /\ crashed' = "no" /\ ~downloading' /\ candidates' = Tail(candidates)
             /\ \A d \in Conns : asked'[d] = << >> /\ arrived'[d] = NoMsg
  BY <1>0, <1>3, OnlyAnswer DEF ReceivedMetadataRejectMsg, RInv, RetriverTypeOK
<1>4. ASSUME crashed' = "no"
      PROVE  Stages' /\ Asking'
  <2>1. Stages'
    BY <1>0, <1>4 DEF RInv, Stages, Rows, ReceivedMetadataRejectMsg, RetriverTypeOK
  <2>2. /\ downloading' => candidates' # << >> /\ finishing' = "no"
        /\ candidates' # << >> /\ finishing' = "no" => queue' # << >>
    BY <1>0, <1>4 DEF RInv, Asking, ReceivedMetadataRejectMsg
  <2> QED
    BY <1>0, <1>3, <2>1, <2>2 DEF Asking
<1>5. crashed' # "hash"
  BY <1>0 DEF ReceivedMetadataRejectMsg
<1> QED
  BY <1>0, <1>2, <1>3, <1>4, <1>5 DEF RInv

LEMMA DataKept ==
  ASSUME RInv, NEW c \in Conns, ReceivedMetadataDataMsg(c)
  PROVE  RInv'
<1> DEFINE m == arrived[c]
<1>0. /\ crashed = "no" /\ finishing = "no" /\ m # NoMsg /\ m.kind = "data"
      /\ arrived' = [arrived EXCEPT ![c] = NoMsg]
      /\ UNCHANGED <<up, failed, retriving, candidates, ticking, timedOut>>
  BY DEF ReceivedMetadataDataMsg, Unlocked, NoMsg
<1>1. m.piece \in 1 .. MetaNum /\ m.good \in BOOLEAN
  BY <1>0 DEF RInv, RetriverTypeOK, Messages, NoMsg
<1>2. arrived' \in [Conns -> Messages]
  BY <1>0 DEF RInv, RetriverTypeOK, Messages
<1>3. CASE queue = << >>
  <2>1. /\ timedOut /\ crashed' = "queue"
        /\ UNCHANGED <<queue, downloading, cache, cacheGood, asked, finishing>>
    BY <1>0, <1>3, OnlyAnswer DEF ReceivedMetadataDataMsg
  <2> QED
    BY <1>0, <1>2, <2>1 DEF RInv, RetriverTypeOK
<1>4. CASE queue # << >> /\ Head(queue) # m.piece
  <2>1. /\ timedOut
        /\ UNCHANGED <<queue, downloading, cache, cacheGood, asked, finishing, crashed>>
    BY <1>0, <1>4, OnlyAnswer DEF ReceivedMetadataDataMsg
  <2>2. RetriverTypeOK'
    BY <1>0, <1>2, <2>1 DEF RInv, RetriverTypeOK
  <2>3. Stages' /\ Asking'
    BY <1>0, <2>1 DEF RInv, Stages, Rows, Asking, RetriverTypeOK
  <2> QED
    BY <1>0, <2>1, <2>2, <2>3 DEF RInv
<1>5. CASE queue # << >> /\ Head(queue) = m.piece
  <2>1. /\ cache' = Append(cache, m.piece)
        /\ cacheGood' = (cacheGood /\ m.good)
        /\ queue' = Tail(queue)
        /\ \/ Tail(queue) = << >> /\ Complete /\ downloading' = FALSE /\ UNCHANGED asked
           \/ /\ Tail(queue) # << >> /\ TrySendPieceRequest(Tail(queue), FALSE, candidates)
              /\ UNCHANGED <<finishing, crashed>>
    BY <1>5 DEF ReceivedMetadataDataMsg
  <2>2. /\ queue' \in Seq(1 .. MetaNum) /\ Len(queue') = Len(queue) - 1 /\ Len(queue) \in Nat \ {0}
        /\ m.piece = queue[1] /\ \A i \in 1 .. Len(queue) - 1 : queue'[i] = queue[i + 1]
    BY <1>5, <2>1, TailFacts DEF RInv, RetriverTypeOK
  <2>3. /\ cache' \in Seq(1 .. MetaNum) /\ Len(cache) \in Nat /\ Len(cache') = Len(cache) + 1
        /\ \A i \in 1 .. Len(cache) : cache'[i] = cache[i]
        /\ cache'[Len(cache) + 1] = m.piece
    BY <1>1, <2>1, AppendFacts DEF RInv, RetriverTypeOK
  <2>4. retriving => Rows /\ Rows'
    <3>1. retriving => Rows
      BY <1>0, <1>5 DEF RInv, Stages
    <3>2. ASSUME Rows
          PROVE  Rows'
      <4>0. /\ Len(cache) + Len(queue) = MetaNum
            /\ \A i \in 1 .. Len(cache) : cache[i] = i
            /\ queue[1] = Len(cache) + 1
        BY <2>2, <3>2 DEF Rows
      <4>1. Len(cache') + Len(queue') = MetaNum
        BY <2>2, <2>3, <4>0
      <4>2. ASSUME NEW i \in 1 .. Len(cache')
            PROVE  cache'[i] = i
        <5>1. i \in 1 .. Len(cache) \/ i = Len(cache) + 1
          BY <2>3
        <5>2. cache'[Len(cache) + 1] = Len(cache) + 1
          BY <2>2, <2>3, <4>0
        <5> QED
          BY <2>3, <4>0, <5>1, <5>2
      <4>3. ASSUME NEW i \in 1 .. Len(queue')
            PROVE  queue'[i] = Len(cache') + i
        <5>1. i \in 1 .. Len(queue) - 1 /\ i + 1 \in 1 .. Len(queue)
          BY <2>2, <4>3
        <5> QED
          BY <2>2, <2>3, <3>2, <5>1, SMTT(30) DEF Rows
      <4> QED
        BY <4>1, <4>2, <4>3 DEF Rows
    <3> QED
      BY <3>1, <3>2
  <2>5. retriving /\ Tail(queue) = << >> => Len(cache') = MetaNum
    <3>1. Len(queue') = 0 => Len(cache') = Len(cache') + Len(queue')
      BY <2>3
    <3>2. Tail(queue) = << >> => Len(queue') = 0
      BY <2>1
    <3> QED
      BY <2>4, <3>1, <3>2 DEF Rows
  <2>6. CASE Tail(queue) = << >>
    <3>1. /\ queue' = << >> /\ ~downloading' /\ asked' = asked
          /\ Len(cache') = MetaNum => finishing' = "parse" /\ crashed' = "no"
          /\ Len(cache') # MetaNum => crashed' = "size" /\ finishing' = "no"
      BY <1>0, <2>1, <2>6 DEF Complete
    <3>2. RetriverTypeOK'
      BY <1>0, <1>1, <1>2, <2>1, <2>2, <2>3, <3>1 DEF RInv, RetriverTypeOK
    <3>3. ~timedOut => retriving
      BY <1>0, OnlyAnswer
    <3>4. Len(cache') = MetaNum => retriving
      <4>1. ~retriving /\ Len(cache) < MetaNum => arrived[c] = NoMsg
        BY <1>0 DEF RInv, Stages
      <4> QED
        BY <1>0, <2>3, <4>1, RetriverAssumption
    <3>5. ASSUME crashed' = "no"
          PROVE  Stages' /\ Asking'
      <4>1. retriving /\ Rows' /\ finishing' = "parse"
        BY <2>4, <3>1, <3>4, <3>5
      <4>2. Stages'
        BY <1>0, <3>1, <4>1 DEF Stages
      <4>3. ~timedOut => \A d \in Conns : asked'[d] = << >> /\ arrived'[d] = NoMsg
        BY <1>0, <3>1, OnlyAnswer DEF RInv, RetriverTypeOK
      <4> QED
        BY <1>0, <3>1, <4>1, <4>2, <4>3 DEF Asking
    <3> QED
      <4>1. ~timedOut' => crashed' = "no"
        BY <1>0, <2>5, <2>6, <3>1, <3>3
      <4>2. crashed' \in {"no", "size"}
        BY <3>1
      <4> QED
        BY <3>2, <3>5, <4>1, <4>2 DEF RInv
  <2>7. CASE Tail(queue) # << >>
    <3>1. TrySendPieceRequest(Tail(queue), FALSE, candidates) /\ UNCHANGED <<finishing, crashed>>
      BY <2>1, <2>7
    <3>2. /\ downloading' = (candidates # << >>)
          /\ asked' \in [Conns -> Seq(1 .. MetaNum)]
          /\ \A x \in Conns :
               \/ asked'[x] = asked[x]
               \/ /\ candidates # << >> /\ x = Head(candidates)
                  /\ asked'[x] = Append(asked[x], Head(queue'))
      <4>1. Tail(queue) \in Seq(1 .. MetaNum) /\ candidates \in Seq(Conns)
        BY <2>1, <2>2 DEF RInv, RetriverTypeOK
      <4>2. asked \in [Conns -> Seq(1 .. MetaNum)]
        BY DEF RInv, RetriverTypeOK
      <4> QED
        BY <2>1, <2>7, <3>1, <4>1, <4>2, Sent
    <3>3. RetriverTypeOK'
      BY <1>0, <1>1, <1>2, <2>1, <2>2, <2>3, <3>1, <3>2 DEF RInv, RetriverTypeOK
    <3>4. Stages'
      <4>1. ~retriving => Len(cache) >= MetaNum
        BY <1>0, <2>3, RetriverAssumption DEF RInv, Stages
      <4>2. ~retriving => ~(Len(cache') < MetaNum)
        BY <2>3, <4>1, RetriverAssumption
      <4> QED
        BY <1>0, <2>1, <2>4, <2>7, <3>1, <4>2 DEF Stages
    <3>5. Asking'
      <4>1. /\ downloading' => candidates' # << >> /\ finishing' = "no"
            /\ candidates' # << >> /\ finishing' = "no" => queue' # << >>
        BY <1>0, <2>1, <2>7, <3>1, <3>2
      <4>2. ASSUME ~timedOut, NEW d \in Conns
            PROVE  /\ arrived'[d] = NoMsg
                   /\ asked'[d] = << >> \/ /\ downloading' /\ Head(candidates') = d
                                           /\ asked'[d] = <<Head(queue')>>
        <5>1. asked[d] = << >> /\ arrived'[d] = NoMsg /\ candidates # << >>
          BY <1>0, <4>2, OnlyAnswer DEF RInv, RetriverTypeOK
        <5>2. Append(asked[d], Head(queue')) = <<Head(queue')>>
          BY <5>1
        <5> QED
          BY <1>0, <3>2, <5>1, <5>2
      <4> QED
        BY <1>0, <2>1, <2>7, <3>1, <4>1, <4>2 DEF Asking
    <3> QED
      BY <1>0, <3>1, <3>3, <3>4, <3>5 DEF RInv
  <2> QED
    BY <2>6, <2>7
<1> QED
  BY <1>3, <1>4, <1>5

LEMMA TickKept ==
  ASSUME RInv, NEW timeout \in BOOLEAN, TickRetriver(timeout)
  PROVE  RInv'
<1> DEFINE cs == IF candidates = << >> THEN NewCandidates ELSE candidates
           q == IF candidates = << >> /\ cs # << >> /\ queue = << >> THEN MetaPieces ELSE queue
<1>0. /\ crashed = "no" /\ finishing = "no" /\ ticking /\ ticking' = FALSE
      /\ UNCHANGED <<up, retriving, cache, cacheGood, arrived, finishing, crashed>>
  BY DEF TickRetriver, Unlocked
<1>1. cs \in Seq(Conns)
  <2>1. up \ failed \in SUBSET Conns /\ candidates \in Seq(Conns)
    BY DEF RInv, RetriverTypeOK
  <2> QED
    BY <2>1, SetToSeqTyped DEF NewCandidates
<1>2. q \in Seq(1 .. MetaNum) /\ (cs # << >> => q # << >>)
  <2>1. queue \in Seq(1 .. MetaNum) /\ (candidates # << >> => queue # << >>)
    BY <1>0 DEF RInv, RetriverTypeOK, Asking
  <2> QED
    BY <2>1, MetaPiecesTyped
<1>3. retriving \/ Len(cache) >= MetaNum
  BY <1>0, RetriverAssumption DEF RInv, Stages, RetriverTypeOK
<1>4. candidates = << >> => ~downloading
  BY <1>0 DEF RInv, Asking
<1>5. \/ /\ cs = << >> /\ ~timeout
         /\ UNCHANGED <<failed, queue, downloading, candidates, asked, timedOut>>
      \/ /\ cs # << >> /\ queue' = q
         /\ \/ /\ failed' = failed \cup {Head(cs)} /\ candidates' = Tail(cs) /\ timedOut' = TRUE
               /\ TrySendPieceRequest(q, FALSE, Tail(cs))
            \/ /\ candidates' = cs /\ UNCHANGED <<failed, timedOut>>
               /\ TrySendPieceRequest(q, downloading, cs)
  BY DEF TickRetriver
<1>6. retriving /\ cs # << >> =>
        /\ Len(cache) + Len(q) = MetaNum
        /\ \A i \in 1 .. Len(cache) : cache[i] = i
        /\ \A i \in 1 .. Len(q) : q[i] = Len(cache) + i
  <2>1. retriving => (cache = << >> /\ queue = << >>) \/ (Rows /\ queue # << >>)
    BY <1>0 DEF RInv, Stages
  <2>2. CASE Rows /\ queue # << >>
    BY <2>2 DEF Rows
  <2>3. CASE cache = << >> /\ queue = << >> /\ cs # << >>
    <3>1. candidates = << >>
      BY <1>0, <2>3 DEF RInv, Asking
    <3>2. q = MetaPieces /\ Len(cache) = 0
      BY <2>3, <3>1
    <3> HIDE DEF q, cs
    <3> QED
      BY <3>2, MetaPiecesTyped, RetriverAssumption
  <2> QED
    BY <2>1, <2>2, <2>3
<1> HIDE DEF cs, q
<1>7. CASE cs = << >>
  <2>1. RetriverTypeOK'
    BY <1>0, <1>5, <1>7 DEF RInv, RetriverTypeOK
  <2>2. Stages' /\ Asking'
    BY <1>0, <1>3, <1>5, <1>7 DEF RInv, Stages, Rows, Asking
  <2> QED
    BY <1>0, <1>5, <1>7, <2>1, <2>2 DEF RInv
<1>8. ASSUME cs # << >>, queue' = q
      PROVE  Stages'
  <2>1. retriving => Rows'
    BY <1>0, <1>6, <1>8 DEF Rows
  <2>2. ~retriving' => ~(Len(cache') < MetaNum)
    BY <1>0, <1>3, RetriverAssumption DEF RInv, RetriverTypeOK
  <2> QED
    BY <1>0, <1>2, <1>8, <2>1, <2>2 DEF Stages
<1>t. asked \in [Conns -> Seq(1 .. MetaNum)] /\ downloading \in BOOLEAN
  BY DEF RInv, RetriverTypeOK
<1>9. ASSUME cs # << >>, queue' = q, failed' = failed \cup {Head(cs)}, candidates' = Tail(cs),
             timedOut' = TRUE, TrySendPieceRequest(q, FALSE, Tail(cs))
      PROVE  RInv'
  <2>1. Head(cs) \in Conns /\ Tail(cs) \in Seq(Conns)
    BY <1>1, <1>9, TailFacts
  <2>2. downloading' = (Tail(cs) # << >>) /\ asked' \in [Conns -> Seq(1 .. MetaNum)]
    BY <1>2, <1>9, <1>t, <2>1, Sent
  <2>3. RetriverTypeOK'
    BY <1>0, <1>2, <1>9, <2>1, <2>2 DEF RInv, RetriverTypeOK
  <2>4. Asking'
    BY <1>0, <1>2, <1>9, <2>2 DEF Asking
  <2> QED
    BY <1>0, <1>8, <1>9, <2>3, <2>4 DEF RInv
<1>10. ASSUME cs # << >>, queue' = q, candidates' = cs, UNCHANGED <<failed, timedOut>>,
              TrySendPieceRequest(q, downloading, cs)
       PROVE  RInv'
  <2>1. /\ downloading' /\ asked' \in [Conns -> Seq(1 .. MetaNum)]
        /\ \A x \in Conns :
             \/ asked'[x] = asked[x]
             \/ ~downloading /\ x = Head(cs) /\ asked'[x] = Append(asked[x], Head(q))
    BY <1>1, <1>2, <1>10, <1>t, Sent
  <2>2. RetriverTypeOK'
    BY <1>0, <1>1, <1>2, <1>10, <2>1 DEF RInv, RetriverTypeOK
  <2>3. ASSUME ~timedOut, NEW d \in Conns
        PROVE  /\ ~retriving => arrived'[d] = NoMsg
               /\ retriving /\ (asked'[d] # << >> \/ arrived'[d] # NoMsg) =>
                    /\ Head(cs) = d
                    /\ \/ asked'[d] = <<Head(q)>> /\ arrived'[d] = NoMsg
                       \/ asked'[d] = << >> /\ arrived'[d].piece = Head(q)
    <3>1. /\ ~retriving => arrived[d] = NoMsg
          /\ retriving /\ (asked[d] # << >> \/ arrived[d] # NoMsg) =>
               /\ downloading /\ Head(candidates) = d /\ queue # << >>
               /\ \/ asked[d] = <<Head(queue)>> /\ arrived[d] = NoMsg
                  \/ asked[d] = << >> /\ arrived[d].piece = Head(queue)
      BY <1>0, <2>3 DEF RInv, Asking
    <3>2. CASE downloading
      <4>1. cs = candidates /\ q = queue
        BY <1>4, <3>2 DEF cs, q
      <4> QED
        BY <1>0, <2>1, <3>1, <3>2, <4>1
    <3>3. CASE ~downloading
      <4>1. retriving => asked[d] = << >> /\ arrived[d] = NoMsg
        BY <3>1, <3>3
      <4>2. asked[d] = << >> => Append(asked[d], Head(q)) = <<Head(q)>>
        OBVIOUS
      <4> QED
        BY <1>0, <2>1, <3>1, <4>1, <4>2
    <3> QED
      BY <3>2, <3>3
  <2>4. Asking'
    BY <1>0, <1>2, <1>10, <2>1, <2>3 DEF Asking
  <2> QED
    BY <1>0, <1>8, <1>10, <2>2, <2>4 DEF RInv
<1> QED
  BY <1>5, <1>7, <1>9, <1>10

-----------------------------------------------------------------------------
(* A step of the retriever and what the torrent sees of it.                *)
LEMMA RetriverStep ==
  ASSUME RInv, RetriverNext
  PROVE  /\ RInv'
         /\ crashed = "no" /\ crashed' # "hash" /\ retriving' = retriving
         /\ \/ finishing' = finishing
            \/ finishing = "no" /\ finishing' = "parse" /\ retriving
         /\ ~retriving /\ Len(cache) < MetaNum => cache' = cache
<1>1. ASSUME NEW timeout \in BOOLEAN, TickRetriver(timeout)
      PROVE  /\ RInv' /\ crashed = "no"
             /\ UNCHANGED <<crashed, retriving, finishing, cache>>
  BY <1>1, TickKept DEF TickRetriver, Unlocked
<1>2. ASSUME NEW c \in Conns, ReceivedMetadataDataMsg(c)
      PROVE  /\ RInv'
             /\ crashed = "no" /\ crashed' # "hash" /\ retriving' = retriving
             /\ \/ finishing' = finishing
                \/ finishing = "no" /\ finishing' = "parse" /\ retriving
             /\ ~retriving /\ Len(cache) < MetaNum => cache' = cache
  <2>0. RInv'
    BY <1>2, DataKept
  <2>1. crashed = "no" /\ finishing = "no" /\ arrived[c] # NoMsg /\ retriving' = retriving
    BY <1>2 DEF ReceivedMetadataDataMsg, Unlocked, NoMsg
  <2>2. crashed' # "hash" /\ (finishing' = "no" \/ (finishing' = "parse" /\ crashed' = "no"))
    BY <1>2, <2>1 DEF ReceivedMetadataDataMsg, Complete
  <2>3. finishing' = "parse" /\ crashed' = "no" => retriving
    BY <2>0, <2>1 DEF RInv, Stages
  <2>4. ~(~retriving /\ Len(cache) < MetaNum)
    BY <2>1 DEF RInv, Stages
  <2> QED
    BY <2>0, <2>1, <2>2, <2>3, <2>4
<1>3. ASSUME NEW c \in Conns, ReceivedMetadataRejectMsg(c)
      PROVE  /\ RInv' /\ crashed = "no" /\ crashed' # "hash"
             /\ UNCHANGED <<retriving, finishing, cache>>
  BY <1>3, RejectKept DEF ReceivedMetadataRejectMsg, Unlocked
<1>4. ASSUME NEW c \in Conns, Announce(c) \/ Leave(c)
      PROVE  /\ RInv' /\ crashed = "no"
             /\ UNCHANGED <<crashed, retriving, finishing, cache>>
  BY <1>4, AnnounceKept, LeaveKept DEF Announce, Leave
<1>5. ASSUME NEW c \in Conns, NEW m \in Messages \ {NoMsg}, Answer(c, m)
      PROVE  /\ RInv' /\ crashed = "no"
             /\ UNCHANGED <<crashed, retriving, finishing, cache>>
  BY <1>5, AnswerKept DEF Answer
<1>6. \A i \in 1 .. MetaNum :
        /\ Reject(i) \in Messages \ {NoMsg}
        /\ \A good \in BOOLEAN : Data(i, good) \in Messages \ {NoMsg}
  BY DEF Messages, Reject, Data, NoMsg
<1>7. \/ \E timeout \in BOOLEAN : TickRetriver(timeout)
      \/ \E c \in Conns : ReceivedMetadataDataMsg(c)
      \/ \E c \in Conns : ReceivedMetadataRejectMsg(c)
      \/ \E c \in Conns : Announce(c) \/ Leave(c)
      \/ \E c \in Conns : \E m \in Messages \ {NoMsg} : Answer(c, m)
  BY <1>6 DEF RetriverNext
<1> QED
  BY <1>1, <1>2, <1>3, <1>4, <1>5, <1>7

-----------------------------------------------------------------------------
(* The torrent: its jobs are the two reads, or writes; what is known of it *)
(* follows the reads and the stages of the end of the retrieval.           *)
Reading == jobs \in {InitialJobs, <<Job("readResume")>>}

Order ==
  /\ Reading => ~ready /\ ~updated /\ ~retriving /\ ~emptied /\ Len(cache) < MetaNum
  /\ ~Reading =>
       \A i \in 1 .. Len(jobs) : jobs[i].kind \in {"writeMetadata", "writeResume"}
  /\ emptied => jobs # << >>
  /\ ~ready => claimed = {} /\ verified = {} /\ slipped = {}
  /\ finishing \in {"parse", "refresh", "info"} => ~ready
  /\ finishing \in {"refresh", "info", "write"} => hashes
  /\ retriving /\ updated => finishing \in {"info", "write", "end"}
  /\ retriving /\ finishing = "no" => ~ready

(* The metadata is in its file or among the first n jobs.                  *)
Kept(n) == metaFile \/ \E j \in 1 .. n : jobs[j].kind = "writeMetadata"

(* The metadata gets to the disk before any fast-resume.                   *)
MetadataFirst ==
  /\ ready => hashes
  /\ jobs = <<Job("readResume")>> => hashes = metaFile
  /\ resumeFile # {} => metaFile
  /\ retriving /\ finishing # "end" => jobs = << >> /\ resumeFile = {}
  /\ (~retriving \/ finishing = "end") /\ (ready \/ updated) => Kept(Len(jobs))
  /\ \A i \in 1 .. Len(jobs) :
       /\ jobs[i].kind = "writeResume" => Kept(i - 1)
       /\ jobs[i].kind = "writeMetadata" =>
            resumeFile = {} /\ \A k \in 1 .. i : jobs[k].kind # "writeResume"

Clean == ~early /\ faults = 0

TInv ==
  /\ RInv /\ TorrentTypeOK /\ jobs \in Seq(Jobs) /\ HashesKnown
  /\ crashed = "no" => Order /\ (Clean => MetadataFirst)

(* The parts of a state in which the program runs.                         *)
LEMMA Parts ==
  ASSUME TInv, crashed = "no"
  PROVE  /\ RInv /\ RetriverTypeOK /\ Stages /\ Asking
         /\ TorrentTypeOK /\ jobs \in Seq(Jobs) /\ Order /\ (Clean => MetadataFirst)
         /\ Len(jobs) \in Nat /\ \A i \in 1 .. Len(jobs) : jobs[i] \in Jobs
  BY DEF TInv, RInv

(* What is left to show of a step: hashes are known follows.               *)
LEMMA Rest ==
  ASSUME RInv', TorrentTypeOK', (jobs \in Seq(Jobs))', crashed' = "no",
         Order', Clean' => MetadataFirst'
  PROVE  TInv'
<1>1. Clean' \/ early' \/ faults' > 0
  BY TorrentAssumption DEF TorrentTypeOK, Clean
<1> QED
  BY <1>1 DEF TInv, HashesKnown, MetadataFirst

LEMMA SameFirst ==
  ASSUME MetadataFirst,
         UNCHANGED <<ready, hashes, jobs, metaFile, resumeFile, retriving, finishing>>,
         updated' = updated \/ ready
  PROVE  MetadataFirst'
  BY DEF MetadataFirst, Kept

LEMMA InitTorrent == TorrentInit => TInv
<1> SUFFICES ASSUME TorrentInit
             PROVE  TInv
  OBVIOUS
<1>1. RInv
  BY InitRetriver DEF TorrentInit
<1>2. jobs = InitialJobs /\ Len(jobs) = 2 /\ InitialJobs \in Seq(Jobs)
      /\ jobs[1] = Job("readMetadata") /\ jobs[2] = Job("readResume")
  BY DEF TorrentInit, InitialJobs, Jobs
<1>3. DOMAIN jobs = 1 .. 2 /\ \A i \in 1 .. 2 : jobs[i] \in Jobs
  BY <1>2 DEF InitialJobs, Jobs
<1>4. TorrentTypeOK
  <2>1. \A i \in DOMAIN jobs :
          jobs[i] \in {Job("readMetadata"), Job("readResume"), Job("writeMetadata")}
                        \cup {WriteResumeJob(pm) : pm \in SUBSET Pieces}
    BY <1>3 DEF Jobs
  <2>2. 0 \in 0 .. MaxRestarts /\ 0 \in 0 .. MaxFaults
    BY TorrentAssumption
  <2> HIDE DEF InitialJobs
  <2> QED
    BY <1>1, <2>1, <2>2 DEF TorrentInit, TorrentTypeOK, RInv
<1>5. Order
  <2>1. Len(cache) = 0
    BY DEF TorrentInit, RetriverInit
  <2> QED
    BY <1>2, <2>1, RetriverAssumption DEF TorrentInit, RetriverInit, Order, Reading
<1>6. MetadataFirst
  <2>1. jobs # <<Job("readResume")>>
    <3>1. Len(<<Job("readResume")>>) = 1
      OBVIOUS
    <3> QED
      BY <1>2, <3>1
  <2>2. \A i \in 1 .. Len(jobs) : jobs[i].kind \notin {"writeResume", "writeMetadata"}
    BY <1>2 DEF Job
  <2> QED
    BY <2>1, <2>2 DEF TorrentInit, RetriverInit, MetadataFirst
<1> QED
  BY <1>1, <1>2, <1>4, <1>5, <1>6 DEF TInv, HashesKnown, TorrentInit, RetriverInit

-----------------------------------------------------------------------------
(* The timer.                                                              *)
LEMMA WriteFastResumeKept ==
  ASSUME TInv, WriteFastResume
  PROVE  TInv'
<1> DEFINE job == WriteResumeJob(pieceMap)
<1>0. /\ crashed = "no" /\ ~resetting /\ updated /\ resetting' = TRUE
      /\ jobs' = Append(jobs, job)
      /\ early' = (early \/ finishing \in {"info", "write"})
      /\ UNCHANGED <<rvars, memory, updated, emptied, verified, files, counts, slipped>>
  BY DEF WriteFastResume, Alive
<1>1. /\ TorrentTypeOK /\ jobs \in Seq(Jobs) /\ Order /\ (Clean => MetadataFirst)
      /\ RInv /\ Stages
  BY <1>0, Parts
<1>2. job \in Jobs /\ job.kind = "writeResume"
  BY <1>1 DEF Jobs, WriteResumeJob, TorrentTypeOK
<1>3. /\ jobs' \in Seq(Jobs) /\ jobs' # << >> /\ Len(jobs) \in Nat
      /\ Len(jobs') = Len(jobs) + 1 /\ jobs'[Len(jobs) + 1] = job
      /\ \A i \in 1 .. Len(jobs) : jobs'[i] = jobs[i]
  BY <1>0, <1>1, <1>2, AppendFacts
<1> HIDE DEF job
<1>4. \A i \in 1 .. Len(jobs') : i \in 1 .. Len(jobs) \/ i = Len(jobs) + 1
  BY <1>3
<1>5. RInv' /\ TorrentTypeOK'
  <2>1. RInv'
    BY <1>0, <1>1 DEF RInv, RetriverTypeOK, Stages, Rows, Asking, rvars
  <2>2. \A i \in DOMAIN jobs' : jobs'[i] \in Jobs
    BY <1>3
  <2> QED
    BY <1>0, <1>1, <2>1, <2>2 DEF TorrentTypeOK, RInv, Jobs, rvars, memory, files, counts
<1>6. ~Reading /\ ~Reading'
  <2>1. ~Reading
    BY <1>0, <1>1 DEF Order
  <2>2. \A i \in 1 .. Len(jobs') : jobs'[i].kind \in {"writeMetadata", "writeResume"}
    BY <1>1, <1>2, <1>3, <1>4, <2>1 DEF Order
  <2>3. Len(jobs') \in Nat \ {0}
    BY <1>3
  <2> QED
    BY <2>1, <2>2, <2>3 DEF Reading, InitialJobs, Job
<1>7. Order'
  BY <1>0, <1>1, <1>2, <1>3, <1>4, <1>6 DEF Order, rvars, memory, files, counts
<1>8. ASSUME Clean'
      PROVE  MetadataFirst'
  <2>1. Clean /\ MetadataFirst /\ finishing \notin {"info", "write"}
    BY <1>0, <1>1, <1>8 DEF Clean, counts
  <2>2. ~retriving \/ finishing = "end"
    BY <1>0, <1>1, <2>1 DEF Order
  <2>3. Kept(Len(jobs))
    BY <1>0, <2>1, <2>2 DEF MetadataFirst
  <2>4. metaFile' \/ \E j \in 1 .. Len(jobs') : jobs'[j].kind = "writeMetadata"
    BY <1>0, <1>3, <2>3 DEF Kept, files
  <2>5. ASSUME NEW i \in 1 .. Len(jobs')
        PROVE  /\ jobs'[i].kind = "writeResume" => Kept(i - 1)'
               /\ jobs'[i].kind = "writeMetadata" =>
                    resumeFile' = {} /\ \A k \in 1 .. i : jobs'[k].kind # "writeResume"
    <3>1. CASE i \in 1 .. Len(jobs)
      <4>1. /\ jobs[i].kind = "writeResume" => Kept(i - 1)
            /\ jobs[i].kind = "writeMetadata" =>
                 resumeFile = {} /\ \A k \in 1 .. i : jobs[k].kind # "writeResume"
        BY <2>1, <3>1 DEF MetadataFirst
      <4>2. \A k \in 1 .. i : jobs'[k] = jobs[k]
        BY <1>3, <3>1
      <4>3. Kept(i - 1) => Kept(i - 1)'
        BY <1>0, <3>1, <4>2 DEF Kept, files
      <4> QED
        BY <1>0, <3>1, <4>1, <4>2, <4>3 DEF files
    <3>2. CASE i = Len(jobs) + 1
      <4>1. Kept(i - 1)'
        BY <1>0, <1>3, <2>3, <3>2 DEF Kept, files
      <4> QED
        BY <1>2, <1>3, <3>2, <4>1
    <3> QED
      BY <1>4, <3>1, <3>2
  <2>6. jobs' # <<Job("readResume")>>
    BY <1>6 DEF Reading
  <2> QED
    BY <1>0, <2>1, <2>2, <2>4, <2>5, <2>6 DEF MetadataFirst, Kept, rvars, memory, files
<1> QED
  BY <1>0, <1>3, <1>5, <1>7, <1>8, Rest DEF rvars

LEMMA ClearUpdatedKept ==
  ASSUME TInv, ClearUpdated
  PROVE  TInv'
<1>0. /\ crashed = "no" /\ resetting' = FALSE /\ updated' = FALSE
      /\ UNCHANGED <<rvars, memory, jobs, emptied, verified, files, counts, history>>
  BY DEF ClearUpdated, Alive
<1>1. /\ TorrentTypeOK /\ jobs \in Seq(Jobs) /\ Order /\ (Clean => MetadataFirst) /\ RInv
  BY <1>0, Parts
<1>2. RInv'
  BY <1>0, <1>1 DEF RInv, RetriverTypeOK, Stages, Rows, Asking, rvars
<1>3. TorrentTypeOK'
  BY <1>0, <1>1, <1>2 DEF TorrentTypeOK, RInv, rvars, memory, files, counts, history
<1>4. Order' /\ (Clean' => MetadataFirst')
  BY <1>0, <1>1 DEF Order, Reading, Clean, MetadataFirst, Kept, rvars, memory, files, counts, history
<1> QED
  BY <1>0, <1>1, <1>2, <1>3, <1>4, Rest DEF rvars

LEMMA TickMetadataKept ==
  ASSUME TInv, TickMetadata
  PROVE  TInv'
<1>0. /\ crashed = "no" /\ BeginTick
      /\ UNCHANGED <<memory, updated, resetting, jobs, emptied, verified, files, counts, history>>
      /\ UNCHANGED <<crashed, retriving, finishing, cache>>
  BY DEF TickMetadata, BeginTick
<1>1. /\ TorrentTypeOK /\ jobs \in Seq(Jobs) /\ Order /\ (Clean => MetadataFirst) /\ RInv
  BY <1>0, Parts
<1>2. RInv'
  BY <1>0, <1>1, BeginTickKept
<1>3. TorrentTypeOK'
  BY <1>0, <1>1, <1>2 DEF TorrentTypeOK, RInv, memory, files, counts, history
<1>4. Order' /\ (Clean' => MetadataFirst')
  BY <1>0, <1>1 DEF Order, Reading, Clean, MetadataFirst, Kept, memory, files, counts, history
<1> QED
  BY <1>0, <1>1, <1>2, <1>3, <1>4, Rest

-----------------------------------------------------------------------------
(* The retrieval and its end.                                              *)
LEMMA RetriveKept ==
  ASSUME TInv, Retrive
  PROVE  TInv'
<1>0. /\ RetriverNext
      /\ UNCHANGED <<memory, updated, resetting, jobs, emptied, verified, files, counts, history>>
  BY DEF Retrive
<1>1. /\ RInv'
      /\ crashed = "no" /\ crashed' # "hash" /\ retriving' = retriving
      /\ \/ finishing' = finishing
         \/ finishing = "no" /\ finishing' = "parse" /\ retriving
      /\ ~retriving /\ Len(cache) < MetaNum => cache' = cache
  BY <1>0, RetriverStep DEF TInv
<1>2. /\ TorrentTypeOK /\ jobs \in Seq(Jobs) /\ Order /\ (Clean => MetadataFirst)
      /\ HashesKnown
  BY <1>1, Parts DEF TInv
<1>3. TorrentTypeOK'
  BY <1>0, <1>1, <1>2 DEF TorrentTypeOK, RInv, memory, files, counts, history
<1>4. Order' /\ (Clean' => MetadataFirst')
  BY <1>0, <1>1, <1>2 DEF Order, Reading, Clean, MetadataFirst, Kept, memory, files, counts, history
<1>5. HashesKnown'
  BY <1>0, <1>1, <1>2 DEF HashesKnown, memory, counts, history
<1> QED
  BY <1>0, <1>1, <1>2, <1>3, <1>4, <1>5 DEF TInv

(* The end of the retrieval moves from one stage to the next.              *)
LEMMA EndMoves ==
  ASSUME RInv, crashed = "no", retriving,
         finishing # "no", finishing' \in {"refresh", "info", "write", "end"},
         UNCHANGED <<up, failed, retriving, queue, downloading, candidates, cache, cacheGood,
                     asked, arrived, ticking, timedOut, crashed>>
  PROVE  RInv'
  BY DEF RInv, RetriverTypeOK, Stages, Rows, Asking

LEMMA ParseMetadataKept ==
  ASSUME TInv, ParseMetadata
  PROVE  TInv'
<1>0. /\ crashed = "no" /\ finishing = "parse"
      /\ \/ finishing' = "refresh" /\ hashes' = TRUE
         \/ finishing' = "end" /\ UNCHANGED hashes
      /\ UNCHANGED <<up, failed, retriving, queue, downloading, candidates, cache, cacheGood,
                     asked, arrived, ticking, timedOut, crashed, ready, claimed, pieceMap,
                     updated, resetting, jobs, emptied, verified, files, counts, history>>
  BY DEF ParseMetadata, Finishing, Alive
<1>1. /\ TorrentTypeOK /\ jobs \in Seq(Jobs) /\ Order /\ (Clean => MetadataFirst) /\ RInv
      /\ retriving
  BY <1>0, Parts DEF Stages
<1>2. RInv'
  BY <1>0, <1>1, EndMoves
<1>3. TorrentTypeOK'
  BY <1>0, <1>1, <1>2 DEF TorrentTypeOK, RInv, files, counts, history
<1>4. Order'
  BY <1>0, <1>1 DEF Order, Reading, history
<1>5. Clean' => MetadataFirst'
  <2>1. ~ready /\ ~updated /\ jobs # <<Job("readResume")>>
    BY <1>0, <1>1 DEF Order, Reading
  <2> QED
    BY <1>0, <1>1, <2>1 DEF Clean, MetadataFirst, Kept, files, counts, history
<1> QED
  BY <1>0, <1>1, <1>2, <1>3, <1>4, <1>5, Rest

LEMMA RefreshKept ==
  ASSUME TInv, RefreshFastResumeFromMetadata
  PROVE  TInv'
<1>0. /\ crashed = "no" /\ finishing = "refresh" /\ finishing' = "info"
      /\ pieceMap' = {} /\ updated' = TRUE
      /\ UNCHANGED <<up, failed, retriving, queue, downloading, candidates, cache, cacheGood,
                     asked, arrived, ticking, timedOut, crashed, hashes, ready, claimed,
                     resetting, jobs, emptied, verified, files, counts, history>>
  BY DEF RefreshFastResumeFromMetadata, Finishing, Alive
<1>1. /\ TorrentTypeOK /\ jobs \in Seq(Jobs) /\ Order /\ (Clean => MetadataFirst) /\ RInv
      /\ retriving
  BY <1>0, Parts DEF Stages
<1>2. RInv'
  BY <1>0, <1>1, EndMoves
<1>3. TorrentTypeOK'
  BY <1>0, <1>1, <1>2 DEF TorrentTypeOK, RInv, files, counts, history
<1>4. Order'
  BY <1>0, <1>1 DEF Order, Reading, history
<1>5. Clean' => MetadataFirst'
  <2>1. retriving' /\ finishing' # "end" /\ jobs # <<Job("readResume")>>
    BY <1>0, <1>1 DEF Order, Reading
  <2> QED
    BY <1>0, <1>1, <2>1 DEF Clean, MetadataFirst, Kept, files, counts, history
<1> QED
  BY <1>0, <1>1, <1>2, <1>3, <1>4, <1>5, Rest

LEMMA UpdateTorrentInfoKept ==
  ASSUME TInv, UpdateTorrentInfo
  PROVE  TInv'
<1>0. /\ crashed = "no" /\ finishing = "info" /\ finishing' = "write"
      /\ ready' = TRUE /\ claimed' = pieceMap
      /\ UNCHANGED <<up, failed, retriving, queue, downloading, candidates, cache, cacheGood,
                     asked, arrived, ticking, timedOut, crashed, hashes, pieceMap,
                     updated, resetting, jobs, emptied, verified, files, counts, history>>
  BY DEF UpdateTorrentInfo, Finishing, Alive
<1>1. /\ TorrentTypeOK /\ jobs \in Seq(Jobs) /\ Order /\ (Clean => MetadataFirst) /\ RInv
      /\ retriving
  BY <1>0, Parts DEF Stages
<1>2. RInv'
  BY <1>0, <1>1, EndMoves
<1>3. verified = {} /\ slipped = {} /\ hashes
  BY <1>0, <1>1 DEF Order
<1>4. TorrentTypeOK'
  BY <1>0, <1>1, <1>2, <1>3 DEF TorrentTypeOK, RInv, files, counts, history
<1>5. Order'
  BY <1>0, <1>1, <1>3 DEF Order, Reading, history
<1>6. ASSUME Clean'
      PROVE  MetadataFirst'
  <2>1. retriving' /\ finishing' # "end" /\ jobs # <<Job("readResume")>>
    BY <1>0, <1>1 DEF Order, Reading
  <2>2. jobs = << >> /\ resumeFile = {}
    BY <1>0, <1>1, <1>6 DEF Clean, MetadataFirst, counts, history
  <2>3. /\ jobs' = << >> /\ resumeFile' = {} /\ hashes'
        /\ Len(jobs') = 0 /\ jobs' # <<Job("readResume")>>
    BY <1>0, <1>3, <2>1, <2>2 DEF files
  <2> QED
    BY <2>1, <2>3 DEF MetadataFirst
<1> QED
  BY <1>0, <1>1, <1>2, <1>4, <1>5, <1>6, Rest

LEMMA EndRetrivalKept ==
  ASSUME TInv, EndRetrival
  PROVE  TInv'
<1>0. /\ crashed = "no" /\ finishing = "end" /\ finishing' = "no"
      /\ retriving' = FALSE /\ candidates' = << >>
      /\ UNCHANGED <<up, failed, queue, downloading, cache, cacheGood, asked, arrived,
                     ticking, timedOut, crashed, memory, updated, resetting, jobs, emptied,
                     verified, files, counts, history>>
  BY DEF EndRetrival, Finishing, Alive
<1>1. /\ TorrentTypeOK /\ jobs \in Seq(Jobs) /\ Order /\ (Clean => MetadataFirst) /\ RInv
      /\ retriving /\ Stages /\ Asking
  BY <1>0, Parts DEF Stages
<1>2. RInv'
  <2>1. Rows /\ queue = << >>
    BY <1>0, <1>1 DEF Stages
  <2>2. ~(Len(cache) < MetaNum)
    BY <2>1, RetriverAssumption DEF Rows
  <2>3. Stages'
    BY <1>0, <2>2 DEF Stages
  <2>4. Asking'
    BY <1>0, <1>1 DEF Asking
  <2>5. RetriverTypeOK'
    <3>1. << >> \in Seq(Conns)
      OBVIOUS
    <3> QED
      BY <1>0, <1>1, <3>1 DEF RInv, RetriverTypeOK
  <2> QED
    BY <1>0, <2>3, <2>4, <2>5 DEF RInv
<1>3. TorrentTypeOK'
  BY <1>0, <1>1, <1>2 DEF TorrentTypeOK, RInv, memory, files, counts, history
<1>4. Order' /\ (Clean' => MetadataFirst')
  BY <1>0, <1>1 DEF Order, Reading, Clean, MetadataFirst, Kept, memory, files, counts, history
<1> QED
  BY <1>0, <1>1, <1>2, <1>3, <1>4, Rest

LEMMA WriteMetadataKept ==
  ASSUME TInv, WriteMetadata
  PROVE  TInv'
<1> DEFINE job == Job("writeMetadata")
<1>0. /\ crashed = "no" /\ finishing = "write" /\ finishing' = "end"
      /\ jobs' = Append(jobs, job)
      /\ UNCHANGED <<up, failed, retriving, queue, downloading, candidates, cache, cacheGood,
                     asked, arrived, ticking, timedOut, crashed, memory,
                     updated, resetting, emptied, verified, files, counts, history>>
  BY DEF WriteMetadata, Finishing, Alive
<1>1. /\ TorrentTypeOK /\ jobs \in Seq(Jobs) /\ Order /\ (Clean => MetadataFirst) /\ RInv
      /\ retriving
  BY <1>0, Parts DEF Stages
<1>2. RInv'
  BY <1>0, <1>1, EndMoves
<1>3. job \in Jobs /\ job.kind = "writeMetadata"
  BY DEF Jobs, Job
<1> HIDE DEF job
<1>4. /\ jobs' \in Seq(Jobs) /\ jobs' # << >> /\ Len(jobs) \in Nat
      /\ Len(jobs') = Len(jobs) + 1 /\ jobs'[Len(jobs) + 1] = job
      /\ \A i \in 1 .. Len(jobs) : jobs'[i] = jobs[i]
  BY <1>0, <1>1, <1>3, AppendFacts
<1>5. \A i \in 1 .. Len(jobs') : i \in 1 .. Len(jobs) \/ i = Len(jobs) + 1
  BY <1>4
<1>6. TorrentTypeOK'
  <2>1. \A i \in DOMAIN jobs' : jobs'[i] \in Jobs
    BY <1>4
  <2> QED
    BY <1>0, <1>1, <1>2, <2>1 DEF TorrentTypeOK, RInv, Jobs, memory, files, counts, history
<1>7. ~Reading /\ ~Reading'
  <2>1. ~Reading
    BY <1>1 DEF Order
  <2>2. \A i \in 1 .. Len(jobs') : jobs'[i].kind \in {"writeMetadata", "writeResume"}
    BY <1>1, <1>3, <1>4, <1>5, <2>1 DEF Order
  <2>3. Len(jobs') \in Nat \ {0}
    BY <1>4
  <2> QED
    BY <2>1, <2>2, <2>3 DEF Reading, InitialJobs, Job
<1>8. Order'
  <2>1. \A i \in 1 .. Len(jobs') : jobs'[i].kind \in {"writeMetadata", "writeResume"}
    BY <1>1, <1>3, <1>4, <1>5, <1>7 DEF Order
  <2> QED
    BY <1>0, <1>1, <1>4, <1>7, <2>1 DEF Order, memory, history
<1>9. ASSUME Clean'
      PROVE  MetadataFirst'
  <2>1. Clean /\ MetadataFirst /\ jobs = << >> /\ resumeFile = {} /\ hashes
    BY <1>0, <1>1, <1>9 DEF Clean, MetadataFirst, Order, counts, history
  <2>2. Len(jobs) = 0
    BY <2>1
  <2>3. Len(jobs') = 1 /\ jobs'[1] = job
    BY <1>4, <2>2
  <2>4. jobs' # <<Job("readResume")>>
    BY <1>7 DEF Reading
  <2>5. \A i \in 1 .. Len(jobs') : i = 1 /\ jobs'[i].kind = "writeMetadata"
    BY <1>3, <2>3
  <2>6. \E j \in 1 .. Len(jobs') : jobs'[j].kind = "writeMetadata"
    BY <1>3, <2>3
  <2>7. resumeFile' = {} /\ hashes' /\ finishing' = "end"
    BY <1>0, <2>1 DEF memory, files
  <2>8. /\ metaFile' \/ \E j \in 1 .. Len(jobs') : jobs'[j].kind = "writeMetadata"
        /\ \A i \in 1 .. Len(jobs') :
             /\ jobs'[i].kind # "writeResume"
             /\ \A k \in 1 .. i : jobs'[k].kind # "writeResume"
    BY <1>3, <2>3, <2>6
  <2> QED
    BY <2>4, <2>7, <2>8 DEF MetadataFirst, Kept
<1> QED
  BY <1>0, <1>2, <1>4, <1>6, <1>8, <1>9, Rest

-----------------------------------------------------------------------------
(* The disk thread and the callbacks.                                      *)
LEMMA ReadFacts ==
  /\ Head(InitialJobs) = Job("readMetadata") /\ Tail(InitialJobs) = <<Job("readResume")>>
  /\ Head(<<Job("readResume")>>) = Job("readResume") /\ Tail(<<Job("readResume")>>) = << >>
  /\ InitialJobs # << >> /\ <<Job("readResume")>> # << >>
  /\ Job("readResume").kind = "readResume" /\ Job("readMetadata").kind = "readMetadata"
  /\ Job("readMetadata") \in Jobs /\ Job("readResume") \in Jobs
  /\ <<Job("readResume")>> # InitialJobs
<1>1. /\ Head(InitialJobs) = Job("readMetadata") /\ Tail(InitialJobs) = <<Job("readResume")>>
      /\ Len(InitialJobs) = 2 /\ Len(<<Job("readResume")>>) = 1
  BY DEF InitialJobs
<1> QED
  BY <1>1 DEF Job, Jobs, InitialJobs

(* The job in front is a read only if nothing else is queued.              *)
LEMMA NextJob ==
  ASSUME TInv, crashed = "no", jobs # << >>
  PROVE  /\ Head(jobs).kind = "readMetadata" => jobs = InitialJobs
         /\ Head(jobs).kind = "readResume" => jobs = <<Job("readResume")>>
         /\ Head(jobs).kind \in {"writeMetadata", "writeResume"} => ~Reading
         /\ Head(jobs) = jobs[1] /\ 1 \in 1 .. Len(jobs)
<1>1. /\ jobs \in Seq(Jobs) /\ Order
  BY Parts
<1>2. /\ Len(jobs) \in Nat \ {0} /\ Head(jobs) = jobs[1]
  BY <1>1, TailFacts
<1>3. ~Reading => Head(jobs).kind \in {"writeMetadata", "writeResume"}
  BY <1>1, <1>2 DEF Order
<1> QED
  BY <1>2, <1>3, ReadFacts DEF Reading

LEMMA OnMetadataReadKept ==
  ASSUME TInv, OnMetadataRead
  PROVE  TInv'
<1>0. /\ crashed = "no" /\ jobs # << >> /\ Head(jobs).kind = "readMetadata"
      /\ jobs' = Tail(jobs) /\ hashes' = metaFile
      /\ UNCHANGED <<rvars, ready, claimed, pieceMap, updated, resetting, emptied, verified,
                     files, counts, history>>
  BY DEF OnMetadataRead, IsNext, Alive
<1>1. /\ TorrentTypeOK /\ jobs \in Seq(Jobs) /\ Order /\ (Clean => MetadataFirst) /\ RInv
  BY <1>0, Parts
<1>2. jobs = InitialJobs /\ jobs' = <<Job("readResume")>>
  BY <1>0, NextJob, ReadFacts
<1>3. Reading /\ Reading'
  BY <1>2 DEF Reading
<1>4. ~ready /\ ~updated /\ ~retriving /\ ~emptied /\ finishing = "no"
  <2>1. Stages
    BY <1>0, Parts
  <2> QED
    BY <1>1, <1>3, <2>1 DEF Order, Stages
<1>5. RInv'
  BY <1>0, <1>1 DEF RInv, RetriverTypeOK, Stages, Rows, Asking, rvars
<1>6. /\ jobs' \in Seq(Jobs) /\ Len(jobs') = 1
      /\ \A i \in 1 .. Len(jobs') : jobs'[i] = Job("readResume")
  BY <1>2, ReadFacts
<1>7. TorrentTypeOK'
  <2>1. \A i \in DOMAIN jobs' : jobs'[i] \in Jobs
    BY <1>6, ReadFacts
  <2> QED
    BY <1>0, <1>1, <1>5, <2>1 DEF TorrentTypeOK, RInv, Jobs, files, counts, history
<1>8. Order'
  BY <1>0, <1>1, <1>3, <1>4 DEF Order, rvars, history
<1>9. ASSUME Clean'
      PROVE  MetadataFirst'
  <2>1. Clean /\ MetadataFirst
    BY <1>0, <1>1, <1>9 DEF Clean, counts, history
  <2>2. resumeFile # {} => metaFile
    BY <2>1 DEF MetadataFirst
  <2>3. \A i \in 1 .. Len(jobs') : jobs'[i].kind \notin {"writeMetadata", "writeResume"}
    BY <1>6, ReadFacts
  <2>4. ~ready' /\ ~updated' /\ ~retriving' /\ (resumeFile # {} => metaFile)'
        /\ hashes' = metaFile'
    BY <1>0, <1>4, <2>2 DEF files, rvars
  <2> QED
    BY <2>3, <2>4 DEF MetadataFirst
<1> QED
  BY <1>0, <1>5, <1>6, <1>7, <1>8, <1>9, Rest DEF rvars

LEMMA OnFastResumeReadKept ==
  ASSUME TInv, OnFastResumeRead
  PROVE  TInv'
<1>0. /\ crashed = "no" /\ jobs # << >> /\ Head(jobs).kind = "readResume"
      /\ jobs' = Tail(jobs)
      /\ RetriverUnchanged
      /\ UNCHANGED <<hashes, resetting, emptied, verified, files, counts, history>>
  BY DEF OnFastResumeRead, IsNext, Alive, memory
<1>1. /\ TorrentTypeOK /\ jobs \in Seq(Jobs) /\ Order /\ (Clean => MetadataFirst) /\ RInv
      /\ RetriverTypeOK /\ Stages /\ Asking
  BY <1>0, Parts
<1>2. jobs = <<Job("readResume")>> /\ jobs' = << >> /\ Len(jobs') = 0
  BY <1>0, NextJob, ReadFacts
<1>3. Reading /\ ~Reading'
  BY <1>2, ReadFacts DEF Reading
<1>4. /\ ~ready /\ ~updated /\ ~retriving /\ ~emptied /\ Len(cache) < MetaNum
      /\ claimed = {} /\ verified = {} /\ slipped = {}
  BY <1>1, <1>3 DEF Order
<1>5. /\ finishing = "no" /\ cache = << >> /\ queue = << >> /\ candidates = << >>
      /\ ~downloading /\ ~ticking
      /\ \A c \in Conns : asked[c] = << >> /\ arrived[c] = NoMsg
  BY <1>1, <1>4 DEF Stages
<1>6. jobs' \in Seq(Jobs) /\ \A i \in DOMAIN jobs' : jobs'[i] \in Jobs
  BY <1>2
<1>7. CASE resumeFile = {} /\ retriving' = TRUE /\ UNCHANGED <<memory, updated, crashed>>
  <2>1. RetriverTypeOK'
    BY <1>0, <1>1, <1>7 DEF RetriverTypeOK, RetriverUnchanged
  <2>2. Stages' /\ Asking'
    BY <1>0, <1>5, <1>7 DEF Stages, Asking, RetriverUnchanged
  <2>3. RInv'
    BY <1>0, <1>7, <2>1, <2>2 DEF RInv
  <2>4. TorrentTypeOK'
    BY <1>0, <1>1, <1>6, <1>7, <2>1 DEF TorrentTypeOK, Jobs, memory, files, counts, history
  <2>5. Order'
    BY <1>0, <1>2, <1>3, <1>4, <1>5, <1>7 DEF Order, memory, history, RetriverUnchanged
  <2>6. Clean' => MetadataFirst'
    <3>1. /\ ~ready' /\ ~updated' /\ resumeFile' = {} /\ jobs' # <<Job("readResume")>>
      BY <1>0, <1>2, <1>4, <1>7, ReadFacts DEF memory, files
    <3> QED
      BY <1>2, <3>1 DEF MetadataFirst
  <2> QED
    BY <1>0, <1>6, <1>7, <2>3, <2>4, <2>5, <2>6, Rest
<1>8. ASSUME NEW pm \in resumeFile,
             ready' = TRUE, claimed' = pm, pieceMap' = VerifyResource(pm), updated' = TRUE,
             crashed' = (IF ~hashes /\ pm \cap data # {} THEN "hash" ELSE "no"),
             UNCHANGED <<hashes, retriving>>
      PROVE  TInv'
  <2>1. RetriverTypeOK'
    BY <1>0, <1>1, <1>8 DEF RetriverTypeOK, RetriverUnchanged
  <2>2. Stages' /\ Asking'
    BY <1>0, <1>4, <1>5, <1>8 DEF Stages, Asking, RetriverUnchanged
  <2>3. RInv'
    BY <1>0, <1>4, <1>8, <2>1, <2>2 DEF RInv
  <2>4. pm \subseteq Pieces
    BY <1>1 DEF TorrentTypeOK
  <2>5. TorrentTypeOK'
    BY <1>0, <1>1, <1>4, <1>6, <1>8, <2>1, <2>4
    DEF TorrentTypeOK, Jobs, VerifyResource, files, counts, history
  <2>6. Order'
    BY <1>0, <1>2, <1>3, <1>4, <1>5, <1>8 DEF Order, history, RetriverUnchanged
  <2>7. ASSUME Clean'
        PROVE  MetadataFirst' /\ hashes
    <3>1. Clean /\ MetadataFirst
      BY <1>0, <1>1, <2>7 DEF Clean, counts, history
    <3>2. hashes /\ metaFile
      BY <1>2, <1>8, <3>1 DEF MetadataFirst
    <3>3. hashes' /\ metaFile' /\ jobs' # <<Job("readResume")>> /\ ~retriving'
      BY <1>0, <1>2, <1>4, <1>8, <3>2, ReadFacts DEF files
    <3> QED
      BY <1>2, <3>2, <3>3 DEF MetadataFirst, Kept
  <2>8. HashesKnown'
    <3>1. Clean' \/ early' \/ faults' > 0
      BY <2>5, TorrentAssumption DEF TorrentTypeOK, Clean
    <3> QED
      BY <1>0, <2>7, <3>1 DEF HashesKnown
  <2> QED
    BY <1>6, <2>3, <2>5, <2>6, <2>7, <2>8 DEF TInv
<1> QED
  BY <1>7, <1>8 DEF OnFastResumeRead

LEMMA EmptyFileKept ==
  ASSUME TInv, EmptyFile
  PROVE  TInv'
<1>0. /\ crashed = "no" /\ jobs # << >>
      /\ Head(jobs).kind \in {"writeMetadata", "writeResume"}
      /\ emptied' = TRUE
      /\ \/ Head(jobs).kind = "writeMetadata" /\ metaFile' = FALSE /\ UNCHANGED resumeFile
         \/ Head(jobs).kind = "writeResume" /\ resumeFile' = {} /\ UNCHANGED metaFile
      /\ UNCHANGED <<rvars, memory, updated, resetting, jobs, verified, data, counts, history>>
  BY DEF EmptyFile, IsNext, Alive
<1>1. /\ TorrentTypeOK /\ jobs \in Seq(Jobs) /\ Order /\ (Clean => MetadataFirst) /\ RInv
  BY <1>0, Parts
<1>2. ~Reading /\ ~Reading' /\ Head(jobs) = jobs[1] /\ 1 \in 1 .. Len(jobs)
  BY <1>0, NextJob DEF Reading
<1>3. RInv'
  BY <1>0, <1>1 DEF RInv, RetriverTypeOK, Stages, Rows, Asking, rvars
<1>4. TorrentTypeOK'
  BY <1>0, <1>1, <1>3 DEF TorrentTypeOK, RInv, memory, counts, history
<1>5. Order'
  BY <1>0, <1>1, <1>2 DEF Order, rvars, memory, history
<1>6. ASSUME Clean'
      PROVE  MetadataFirst'
  <2>1. Clean /\ MetadataFirst
    BY <1>0, <1>1, <1>6 DEF Clean, counts, history
  <2>2. jobs' # <<Job("readResume")>> /\ jobs' = jobs
    BY <1>0, <1>2 DEF Reading
  <2>3. CASE jobs[1].kind = "writeMetadata"
    <3>1. resumeFile = {} /\ resumeFile' = {}
      BY <1>0, <1>2, <2>1, <2>3 DEF MetadataFirst
    <3>2. \A i \in 1 .. Len(jobs) : Kept(i)'
      BY <1>2, <2>2, <2>3 DEF Kept
    <3>3. \A i \in 1 .. Len(jobs) : jobs[i].kind = "writeResume" => Kept(i - 1)'
      <4> SUFFICES ASSUME NEW i \in 1 .. Len(jobs), jobs[i].kind = "writeResume"
                   PROVE  Kept(i - 1)'
        OBVIOUS
      <4>1. i - 1 \in 1 .. Len(jobs)
        BY <1>1, <2>3, Parts
      <4> QED
        BY <3>2, <4>1
    <3>4. Kept(Len(jobs))'
      BY <1>2, <2>2, <2>3 DEF Kept
    <3> QED
      BY <1>0, <2>1, <2>2, <3>1, <3>3, <3>4 DEF MetadataFirst, rvars, memory
  <2>4. CASE jobs[1].kind = "writeResume"
    <3>1. resumeFile' = {} /\ metaFile' = metaFile
      BY <1>0, <1>2, <2>4
    <3> QED
      BY <1>0, <2>1, <2>2, <3>1 DEF MetadataFirst, Kept, rvars, memory
  <2> QED
    BY <1>0, <1>2, <2>3, <2>4
<1> QED
  BY <1>0, <1>1, <1>3, <1>4, <1>5, <1>6, Rest DEF rvars

LEMMA FillFileKept ==
  ASSUME TInv, FillFile
  PROVE  TInv'
<1>0. /\ crashed = "no" /\ emptied /\ emptied' = FALSE /\ jobs' = Tail(jobs)
      /\ \/ Head(jobs).kind = "writeMetadata" /\ metaFile' = TRUE /\ UNCHANGED resumeFile
         \/ /\ Head(jobs).kind # "writeMetadata"
            /\ resumeFile' = {Head(jobs).map} /\ UNCHANGED metaFile
      /\ UNCHANGED <<rvars, memory, updated, resetting, verified, data, counts, history>>
  BY DEF FillFile, Alive
<1>1. /\ TorrentTypeOK /\ jobs \in Seq(Jobs) /\ Order /\ (Clean => MetadataFirst) /\ RInv
  BY <1>0, Parts
<1>2. jobs # << >> /\ ~Reading
  BY <1>0, <1>1 DEF Order
<1>3. /\ jobs' \in Seq(Jobs) /\ Head(jobs) \in Jobs /\ Head(jobs) = jobs[1]
      /\ Len(jobs) \in Nat \ {0} /\ Len(jobs') = Len(jobs) - 1
      /\ \A i \in 1 .. Len(jobs) - 1 : jobs'[i] = jobs[i + 1]
  BY <1>0, <1>1, <1>2, TailFacts
<1>4. \A i \in 1 .. Len(jobs') : i + 1 \in 1 .. Len(jobs) /\ jobs'[i] = jobs[i + 1]
  BY <1>3
<1>5. /\ \A i \in 1 .. Len(jobs') : jobs'[i].kind \in {"writeMetadata", "writeResume"}
      /\ jobs[1].kind \in {"writeMetadata", "writeResume"}
  BY <1>1, <1>2, <1>3, <1>4 DEF Order
<1>6. ~Reading'
  <2>1. \A i \in 1 .. Len(jobs') : jobs'[i].kind \notin {"readMetadata", "readResume"}
    BY <1>5
  <2>2. Reading' => Len(jobs') \in Nat \ {0} /\ jobs'[1].kind \in {"readMetadata", "readResume"}
    BY DEF Reading, InitialJobs, Job
  <2> QED
    BY <2>1, <2>2
<1>7. RInv'
  BY <1>0, <1>1 DEF RInv, RetriverTypeOK, Stages, Rows, Asking, rvars
<1>8. TorrentTypeOK'
  <2>1. \A i \in DOMAIN jobs' : jobs'[i] \in Jobs
    BY <1>3
  <2>2. jobs[1].kind = "writeResume" => jobs[1].map \in SUBSET Pieces
    BY <1>3 DEF Jobs, Job, WriteResumeJob
  <2>3. resumeFile' \in {{}} \cup {{pm} : pm \in SUBSET Pieces} /\ metaFile' \in BOOLEAN
    BY <1>0, <1>1, <1>3, <1>5, <2>2 DEF TorrentTypeOK
  <2> QED
    BY <1>0, <1>1, <1>7, <2>1, <2>3 DEF TorrentTypeOK, RInv, Jobs, memory, counts, history
<1>9. Order'
  BY <1>0, <1>1, <1>5, <1>6 DEF Order, rvars, memory, history
<1>10. ASSUME Clean'
       PROVE  MetadataFirst'
  <2>1. Clean /\ MetadataFirst
    BY <1>0, <1>1, <1>10 DEF Clean, counts, history
  <2>2. jobs' # <<Job("readResume")>>
    BY <1>6 DEF Reading
  <2>3. ~(retriving /\ finishing # "end") /\ (ready => hashes)
    BY <1>2, <2>1 DEF MetadataFirst
  <2>4. metaFile'
    <3>1. CASE jobs[1].kind = "writeMetadata"
      BY <1>0, <1>3, <3>1
    <3>2. CASE jobs[1].kind = "writeResume"
      <4>1. Kept(1 - 1)
        BY <1>3, <2>1, <3>2 DEF MetadataFirst
      <4>2. metaFile
        BY <4>1 DEF Kept
      <4>3. metaFile' = metaFile
        BY <1>0, <1>3, <3>2
      <4> QED
        BY <4>2, <4>3
    <3> QED
      BY <1>5, <3>1, <3>2
  <2>5. ASSUME NEW i \in 1 .. Len(jobs'), jobs'[i].kind = "writeMetadata"
        PROVE  resumeFile' = {} /\ \A k \in 1 .. i : jobs'[k].kind # "writeResume"
    <3>1. resumeFile = {} /\ \A k \in 1 .. i + 1 : jobs[k].kind # "writeResume"
      BY <1>4, <2>1, <2>5 DEF MetadataFirst
    <3>2. jobs[1].kind # "writeResume"
      BY <1>3, <3>1
    <3>3. resumeFile' = {}
      BY <1>0, <1>3, <1>5, <3>1, <3>2
    <3>4. \A k \in 1 .. i : jobs'[k] = jobs[k + 1] /\ k + 1 \in 1 .. i + 1
      BY <1>3
    <3> QED
      BY <3>1, <3>3, <3>4
  <2>6. ~(retriving' /\ finishing' # "end") /\ (ready' => hashes')
    BY <1>0, <2>3 DEF rvars, memory
  <2> QED
    BY <2>2, <2>4, <2>5, <2>6 DEF MetadataFirst, Kept
<1> QED
  BY <1>0, <1>3, <1>7, <1>8, <1>9, <1>10, Rest DEF rvars

LEMMA FailToFillKept ==
  ASSUME TInv, FailToFill
  PROVE  TInv'
<1>0. /\ crashed = "no" /\ emptied /\ emptied' = FALSE /\ jobs' = Tail(jobs)
      /\ faults < MaxFaults /\ faults' = faults + 1
      /\ UNCHANGED <<rvars, memory, updated, resetting, verified, files, restarts, history>>
  BY DEF FailToFill, Alive
<1>1. /\ TorrentTypeOK /\ jobs \in Seq(Jobs) /\ Order /\ RInv
  BY <1>0, Parts
<1>2. jobs # << >> /\ ~Reading
  BY <1>0, <1>1 DEF Order
<1>3. /\ jobs' \in Seq(Jobs) /\ Len(jobs) \in Nat \ {0} /\ Len(jobs') = Len(jobs) - 1
      /\ \A i \in 1 .. Len(jobs) - 1 : jobs'[i] = jobs[i + 1]
  BY <1>0, <1>1, <1>2, TailFacts
<1>4. \A i \in 1 .. Len(jobs') : i + 1 \in 1 .. Len(jobs) /\ jobs'[i] = jobs[i + 1]
  BY <1>3
<1>5. \A i \in 1 .. Len(jobs') : jobs'[i].kind \in {"writeMetadata", "writeResume"}
  BY <1>1, <1>2, <1>4 DEF Order
<1>6. ~Reading'
  <2>1. \A i \in 1 .. Len(jobs') : jobs'[i].kind \notin {"readMetadata", "readResume"}
    BY <1>5
  <2>2. Reading' => Len(jobs') \in Nat \ {0} /\ jobs'[1].kind \in {"readMetadata", "readResume"}
    BY DEF Reading, InitialJobs, Job
  <2> QED
    BY <2>1, <2>2
<1>7. RInv'
  BY <1>0, <1>1 DEF RInv, RetriverTypeOK, Stages, Rows, Asking, rvars
<1>8. TorrentTypeOK'
  <2>1. \A i \in DOMAIN jobs' : jobs'[i] \in Jobs
    BY <1>3
  <2>2. faults' \in 0 .. MaxFaults
    BY <1>0, <1>1, TorrentAssumption DEF TorrentTypeOK
  <2> QED
    BY <1>0, <1>1, <1>7, <2>1, <2>2 DEF TorrentTypeOK, RInv, Jobs, memory, files, history
<1>9. Order'
  BY <1>0, <1>1, <1>5, <1>6 DEF Order, rvars, memory, history
<1>10. ~Clean'
  BY <1>0, <1>1, TorrentAssumption DEF Clean, TorrentTypeOK
<1> QED
  BY <1>0, <1>3, <1>7, <1>8, <1>9, <1>10, Rest DEF rvars

-----------------------------------------------------------------------------
(* Pieces, and the end of the program.                                     *)
LEMMA VerifyPieceKept ==
  ASSUME TInv, NEW p \in Pieces, VerifyPiece(p)
  PROVE  TInv'
<1>0. /\ crashed = "no" /\ ready /\ p \notin claimed \cup verified
      /\ \/ /\ hashes /\ verified' = verified \cup {p} /\ data' = data \cup {p}
            /\ UNCHANGED crashed
         \/ ~hashes /\ crashed' = "hash" /\ UNCHANGED <<verified, data>>
      /\ UNCHANGED retriving
      /\ RetriverUnchanged
      /\ UNCHANGED <<memory, updated, resetting, jobs, emptied, metaFile, resumeFile, counts,
                     history>>
  BY DEF VerifyPiece, Alive
<1>1. /\ TorrentTypeOK /\ jobs \in Seq(Jobs) /\ Order /\ (Clean => MetadataFirst)
      /\ RInv /\ RetriverTypeOK /\ Stages /\ Asking
  BY <1>0, Parts
<1>2. RInv'
  <2>1. RetriverTypeOK'
    BY <1>0, <1>1 DEF RetriverTypeOK, RetriverUnchanged
  <2>2. Stages' /\ Asking'
    BY <1>0, <1>1 DEF Stages, Rows, Asking, RetriverUnchanged
  <2>3. ~retriving' \/ finishing' # "no"
    BY <1>0, <1>1 DEF Order, RetriverUnchanged
  <2> QED
    BY <1>0, <2>1, <2>2, <2>3 DEF RInv
<1>3. TorrentTypeOK'
  BY <1>0, <1>1, <1>2 DEF TorrentTypeOK, RInv, memory, counts, history
<1>4. Order'
  BY <1>0, <1>1 DEF Order, Reading, memory, history, RetriverUnchanged
<1>5. Clean' => MetadataFirst' /\ hashes
  <2>1. Clean' => MetadataFirst /\ hashes
    BY <1>0, <1>1 DEF Clean, MetadataFirst, counts, history
  <2>2. UNCHANGED <<ready, hashes, jobs, metaFile, resumeFile, retriving, finishing, updated>>
    BY <1>0 DEF memory, RetriverUnchanged
  <2> QED
    BY <2>1, <2>2, SameFirst
<1>6. HashesKnown'
  <2>1. Clean' \/ early' \/ faults' > 0
    BY <1>3, TorrentAssumption DEF TorrentTypeOK, Clean
  <2> QED
    BY <1>0, <1>5, <2>1 DEF HashesKnown, memory
<1> QED
  BY <1>0, <1>1, <1>2, <1>3, <1>4, <1>5, <1>6 DEF TInv

LEMMA HavePieceProcKept ==
  ASSUME TInv, NEW p \in Pieces, HavePieceProc(p)
  PROVE  TInv'
<1>0. /\ crashed = "no" /\ p \in verified /\ verified' = verified \ {p}
      /\ claimed' = claimed \cup {p} /\ pieceMap' = pieceMap \cup {p} /\ updated' = TRUE
      /\ slipped' = (IF resetting THEN slipped \cup {p} ELSE slipped)
      /\ UNCHANGED <<rvars, hashes, ready, resetting, jobs, emptied, files, counts, early>>
  BY DEF HavePieceProc, Alive
<1>1. /\ TorrentTypeOK /\ jobs \in Seq(Jobs) /\ Order /\ (Clean => MetadataFirst)
      /\ RInv /\ RetriverTypeOK /\ ready
  BY <1>0, Parts DEF Order
<1>2. RInv'
  BY <1>0, <1>1 DEF RInv, RetriverTypeOK, Stages, Rows, Asking, rvars
<1>3. TorrentTypeOK'
  BY <1>0, <1>1, <1>2 DEF TorrentTypeOK, RInv, files, counts
<1>4. Order'
  <2>1. retriving => finishing \in {"info", "write", "end"}
    BY <1>1 DEF Order, RetriverTypeOK
  <2> QED
    BY <1>0, <1>1, <2>1 DEF Order, Reading, rvars
<1>5. Clean' => MetadataFirst'
  <2>1. Clean' => MetadataFirst
    BY <1>0, <1>1 DEF Clean, counts
  <2>2. UNCHANGED <<ready, hashes, jobs, metaFile, resumeFile, retriving, finishing>>
    BY <1>0 DEF rvars, files
  <2> QED
    BY <1>1, <2>1, <2>2, SameFirst
<1> QED
  BY <1>0, <1>1, <1>2, <1>3, <1>4, <1>5, Rest DEF rvars

LEMMA RestartKept ==
  ASSUME TInv, NEW damaged \in SUBSET data, Restart(damaged)
  PROVE  TInv'
<1>0. /\ crashed = "no" /\ restarts < MaxRestarts /\ restarts' = restarts + 1
      /\ ForgetRetrival
      /\ hashes' = FALSE /\ ready' = FALSE /\ claimed' = {} /\ pieceMap' = {}
      /\ updated' = FALSE /\ resetting' = FALSE
      /\ jobs' = InitialJobs /\ emptied' = FALSE
      /\ verified' = {} /\ data' = data \ damaged /\ slipped' = {}
      /\ UNCHANGED <<metaFile, resumeFile, faults, early>>
  BY DEF Restart, Alive
<1>1. TorrentTypeOK /\ (Clean => MetadataFirst)
  BY <1>0, Parts
<1>2. RInv'
  <2>1. << >> \in Seq(1 .. MetaNum) /\ << >> \in Seq(Conns) /\ NoMsg \in Messages
    BY DEF Messages
  <2>2. RetriverTypeOK'
    BY <1>0, <2>1 DEF ForgetRetrival, RetriverTypeOK
  <2>3. Stages' /\ Asking'
    BY <1>0 DEF ForgetRetrival, Stages, Asking
  <2> QED
    BY <1>0, <2>2, <2>3 DEF RInv, ForgetRetrival
<1>3. /\ jobs' \in Seq(Jobs) /\ Len(jobs') = 2
      /\ jobs'[1] = Job("readMetadata") /\ jobs'[2] = Job("readResume")
  BY <1>0, ReadFacts DEF InitialJobs
<1>4. \A i \in 1 .. Len(jobs') :
        jobs'[i] \in Jobs /\ jobs'[i].kind \notin {"writeMetadata", "writeResume"}
  BY <1>3, ReadFacts
<1>5. TorrentTypeOK'
  <2>1. \A i \in DOMAIN jobs' : jobs'[i] \in Jobs
    BY <1>3, <1>4
  <2>2. restarts' \in 0 .. MaxRestarts
    BY <1>0, <1>1, TorrentAssumption DEF TorrentTypeOK
  <2> QED
    BY <1>0, <1>1, <1>2, <2>1, <2>2 DEF TorrentTypeOK, RInv, Jobs
<1>6. Order'
  <2>1. Len(cache') < MetaNum /\ ~retriving' /\ finishing' = "no"
    BY <1>0, RetriverAssumption DEF ForgetRetrival
  <2> QED
    BY <1>0, <2>1 DEF Order, Reading
<1>7. ASSUME Clean'
      PROVE  MetadataFirst'
  <2>1. resumeFile' # {} => metaFile'
    BY <1>0, <1>1, <1>7 DEF Clean, MetadataFirst
  <2>2. jobs' # <<Job("readResume")>> /\ ~retriving'
    BY <1>0, ReadFacts DEF ForgetRetrival
  <2> QED
    BY <1>0, <1>4, <2>1, <2>2 DEF MetadataFirst
<1> QED
  BY <1>0, <1>2, <1>3, <1>5, <1>6, <1>7, Rest DEF ForgetRetrival

LEMMA TInvKept == TInv /\ [TorrentNext]_tvars => TInv'
<1> SUFFICES ASSUME TInv, [TorrentNext]_tvars
             PROVE  TInv'
  OBVIOUS
<1>1. CASE Timer
  BY <1>1, WriteFastResumeKept, ClearUpdatedKept, TickMetadataKept DEF Timer
<1>2. CASE Retrive
  BY <1>2, RetriveKept
<1>3. CASE EndOfRetrival
  BY <1>3, ParseMetadataKept, RefreshKept, UpdateTorrentInfoKept, WriteMetadataKept,
     EndRetrivalKept DEF EndOfRetrival
<1>4. CASE Disk
  BY <1>4, OnMetadataReadKept, OnFastResumeReadKept, EmptyFileKept, FillFileKept DEF Disk
<1>5. CASE FailToFill
  BY <1>5, FailToFillKept
<1>6. ASSUME NEW p \in Pieces, VerifyPiece(p) \/ HavePieceProc(p)
      PROVE  TInv'
  BY <1>6, VerifyPieceKept, HavePieceProcKept
<1>7. ASSUME NEW damaged \in SUBSET data, Restart(damaged)
      PROVE  TInv'
  BY <1>7, RestartKept
<1>8. CASE UNCHANGED tvars
  <2>1. RInv'
    BY <1>8 DEF TInv, RInv, RetriverTypeOK, Stages, Rows, Asking, tvars, rvars
  <2>2. TorrentTypeOK' /\ HashesKnown' /\ (jobs \in Seq(Jobs))'
    BY <1>8, <2>1 DEF TInv, RInv, TorrentTypeOK, HashesKnown, Jobs, tvars, rvars, memory, files,
       counts, history
  <2>3. crashed' = "no" => Order'
    BY <1>8 DEF TInv, Order, Reading, tvars, rvars, memory, history
  <2>4. crashed' = "no" /\ Clean' => MetadataFirst'
    BY <1>8, SameFirst DEF TInv, Clean, tvars, rvars, memory, files, counts, history
  <2> QED
    BY <2>1, <2>2, <2>3, <2>4 DEF TInv
<1> QED
  BY <1>1, <1>2, <1>3, <1>4, <1>5, <1>6, <1>7, <1>8 DEF TorrentNext

(* The torrent and its retriever are consistent in every reachable state:  *)
(* types hold, the map that is written is part of what the picker has, the *)
(* cache and the queue of the retriever are the metadata in order, and as  *)
(* long as no request timed out only the candidate in front is asked and   *)
(* no assertion fails.                                                     *)
THEOREM TorrentStaysConsistent == TorrentSpec => []TorrentConsistent
<1>1. TInv => TorrentConsistent
  BY InvariantSays DEF TInv, TorrentConsistent
<1> QED
  BY <1>1, InitTorrent, TInvKept, PTL DEF TorrentSpec

(* A torrent that is ready knows the hashes of its pieces, over restarts   *)
(* and half written files, if no write failed and the fast-resume did not  *)
(* overtake the metadata.                                                  *)
THEOREM TorrentKnowsHashes == TorrentSpec => []HashesKnown
<1>1. TInv => HashesKnown
  BY DEF TInv
<1> QED
  BY <1>1, InitTorrent, TInvKept, PTL DEF TorrentSpec

=============================================================================
