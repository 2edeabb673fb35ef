--------------------------- MODULE MetadataRetriver ---------------------------
(***************************************************************************)
(* BtMetadataRetriver (rcs/src/protocol/bt/bt_metadata_retriver.cpp): the  *)
(* metadata of a torrent is asked of its connections, one piece at a time. *)
(* The timer asks and gives up, the socket threads bring answers; all of   *)
(* them test retriving_ before they take download_mutex_.                  *)
(*                                                                         *)
(* A connection answers its requests in their order, with data or with a   *)
(* rejection, late or never.  What completes the metadata goes on in       *)
(* BtTorrent.                                                              *)
(***************************************************************************)
EXTENDS Naturals, Sequences, FiniteSets, SequencesExt

CONSTANTS Conns,      \* connections
          MetaNum,    \* the number of pieces of the metadata
          Prompt,     \* connections that answer with data within the timeout
          Liars       \* connections whose data may be bad

ASSUME RetriverAssumption ==
  /\ IsFiniteSet(Conns)
  /\ MetaNum \in Nat \ {0}
  /\ Prompt \cup Liars \subseteq Conns /\ Prompt \cap Liars = {}

VARIABLES
  up,          \* the connections of the torrent that support the extension
  failed,      \* retrive_metadata_failed_
  retriving,   \* retriving_
  queue,       \* download_piece_queue_
  downloading, \* the mark of the piece in front
  candidates,  \* candidate_conns_
  cache,       \* metadata_cache_, the pieces in the order they were appended
  cacheGood,   \* no bad data is in it
  asked,       \* asked[c]: the requests c has not answered
  arrived,     \* arrived[c]: the answer of c inside its handler, past the test
  ticking,     \* the timer is inside TickProc, past the test
  finishing,   \* RetrivedMetadata, inside download_mutex_: what it does next
  timedOut,    \* history: a request timed out
  crashed      \* the assertion or the undefined behaviour that ended it all

rvars == <<up, failed, retriving, queue, downloading, candidates, cache, cacheGood,
           asked, arrived, ticking, finishing, timedOut, crashed>>

MetaPieces == [i \in 1 .. MetaNum |-> i]

NoMsg == [kind |-> "none"]
Data(i, good) == [kind |-> "data", piece |-> i, good |-> good]
Reject(i) == [kind |-> "reject", piece |-> i]

(* download_mutex_ is free.                                                *)
Unlocked == finishing = "no" /\ crashed = "no"

RetriverInit ==
  /\ up = {}
  /\ failed = {}
  /\ retriving = FALSE
  /\ queue = << >>
  /\ downloading = FALSE
  /\ candidates = << >>
  /\ cache = << >>
  /\ cacheGood = TRUE
  /\ asked = [c \in Conns |-> << >>]
  /\ arrived = [c \in Conns |-> NoMsg]
  /\ ticking = FALSE
  /\ finishing = "no"
  /\ timedOut = FALSE
  /\ crashed = "no"

(* The program ends: what it held in memory is gone.                       *)
ForgetRetrival ==
  /\ up' = {}
  /\ failed' = {}
  /\ retriving' = FALSE
  /\ queue' = << >>
  /\ downloading' = FALSE
  /\ candidates' = << >>
  /\ cache' = << >>
  /\ cacheGood' = TRUE
  /\ asked' = [c \in Conns |-> << >>]
  /\ arrived' = [c \in Conns |-> NoMsg]
  /\ ticking' = FALSE
  /\ finishing' = "no"
  /\ timedOut' = FALSE
  /\ crashed' = "no"

-----------------------------------------------------------------------------
(* TrySendPieceRequest, with queue q, mark d and candidates cs.            *)
TrySendPieceRequest(q, d, cs) ==
  LET send == ~d /\ cs # << >> IN
    /\ downloading' = (d \/ send)
    /\ asked' = IF send /\ Head(cs) \in up
                  THEN [asked EXCEPT ![Head(cs)] = Append(@, Head(q))]
                  ELSE asked

(* TickProc: the test, and after it what is done under the lock.           *)
BeginTick ==
  /\ crashed = "no"
  /\ ~ticking /\ retriving
  /\ ticking' = TRUE
  /\ UNCHANGED <<up, failed, retriving, queue, downloading, candidates, cache, cacheGood,
                 asked, arrived, finishing, timedOut, crashed>>

(* SelectConnection goes through the connections in the order of Policy. *)
NewCandidates == SetToSeq(up \ failed)

(* TimeoutProc gives up the connection in front; one that is prompt would  *)
(* have answered.                                                          *)
CanTimeOut(cs) ==
  downloading /\ (Head(cs) \in Prompt => asked[Head(cs)] = << >> /\ arrived[Head(cs)] = NoMsg)

TickRetriver(timeout) ==
  /\ ticking /\ Unlocked
  /\ ticking' = FALSE
  /\ LET cs == IF candidates = << >> THEN NewCandidates ELSE candidates
         q == IF candidates = << >> /\ cs # << >> /\ queue = << >> THEN MetaPieces ELSE queue IN
       IF cs = << >>
         THEN /\ ~timeout
              /\ UNCHANGED <<failed, queue, downloading, candidates, asked, timedOut>>
         ELSE /\ queue' = q
              /\ IF timeout
                   THEN /\ CanTimeOut(cs)
                        /\ failed' = failed \cup {Head(cs)}
                        /\ candidates' = Tail(cs)
                        /\ timedOut' = TRUE
                        /\ TrySendPieceRequest(q, FALSE, Tail(cs))
                   ELSE /\ candidates' = cs
                        /\ UNCHANGED <<failed, timedOut>>
                        /\ TrySendPieceRequest(q, downloading, cs)
  /\ UNCHANGED <<up, retriving, cache, cacheGood, arrived, finishing, crashed>>

-----------------------------------------------------------------------------
(* A connection answers: the handler tests retriving_ ...                  *)
Answer(c, m) ==
  /\ crashed = "no"
  /\ asked[c] # << >> /\ arrived[c] = NoMsg
  /\ m.piece = Head(asked[c])
  /\ m.kind = "reject" => c \notin Prompt
  /\ m.kind = "data" => (m.good \/ c \in Liars)
  /\ asked' = [asked EXCEPT ![c] = Tail(@)]
  /\ arrived' = IF retriving THEN [arrived EXCEPT ![c] = m] ELSE arrived
  /\ UNCHANGED <<up, failed, retriving, queue, downloading, candidates, cache, cacheGood,
                 ticking, finishing, timedOut, crashed>>

(* BC_ASSERT(metadata_cache_.size() == metadata_total_size_): the cache is *)
(* never cleared, so a piece that fills a queue again, which a tick begun  *)
(* before the end may have filled again, fails it.                         *)
Complete ==
  IF Len(cache') = MetaNum
    THEN finishing' = "parse" /\ UNCHANGED crashed
    ELSE crashed' = "size" /\ UNCHANGED finishing

(* A bug RetrivalInStep must find: an answer is taken for the piece in front.     *)
MutantReceivedMetadataDataMsg(c) ==
  LET m == arrived[c] IN
    /\ m.kind = "data" /\ Unlocked
    /\ arrived' = [arrived EXCEPT ![c] = NoMsg]
    /\ \/ /\ queue = << >>
          /\ crashed' = "queue"
          /\ UNCHANGED <<queue, downloading, cache, cacheGood, asked, finishing>>
       \/ /\ queue # << >>
          /\ cache' = Append(cache, m.piece)
          /\ cacheGood' = (cacheGood /\ m.good)
          /\ queue' = Tail(queue)
          /\ IF Tail(queue) = << >>
               THEN Complete /\ downloading' = FALSE /\ UNCHANGED asked
               ELSE /\ TrySendPieceRequest(Tail(queue), FALSE, candidates)
                    /\ UNCHANGED <<finishing, crashed>>
    /\ UNCHANGED <<up, failed, retriving, candidates, ticking, timedOut>>

(* ... and, under the lock, asserts that pieces are queued, ignores what   *)
(* is not the piece in front, and asks for the next.                       *)
ReceivedMetadataDataMsg(c) ==
  LET m == arrived[c] IN
    /\ m.kind = "data" /\ Unlocked
    /\ arrived' = [arrived EXCEPT ![c] = NoMsg]
    /\ \/ /\ queue = << >>
          /\ crashed' = "queue"
          /\ UNCHANGED <<queue, downloading, cache, cacheGood, asked, finishing>>
       \/ /\ queue # << >> /\ Head(queue) # m.piece
          /\ UNCHANGED <<queue, downloading, cache, cacheGood, asked, finishing, crashed>>
       \/ /\ queue # << >> /\ Head(queue) = m.piece
          /\ cache' = Append(cache, m.piece)
          /\ cacheGood' = (cacheGood /\ m.good)
          /\ queue' = Tail(queue)
          /\ IF Tail(queue) = << >>
               THEN Complete /\ downloading' = FALSE /\ UNCHANGED asked
               ELSE /\ TrySendPieceRequest(Tail(queue), FALSE, candidates)
                    /\ UNCHANGED <<finishing, crashed>>
    /\ UNCHANGED <<up, failed, retriving, candidates, ticking, timedOut>>

(* A bug RetrivalEnds must find: the piece stays marked as asked for.      *)
MutantReceivedMetadataRejectMsg(c) ==
  LET m == arrived[c] IN
    /\ m.kind = "reject" /\ Unlocked
    /\ arrived' = [arrived EXCEPT ![c] = NoMsg]
    /\ IF queue # << >> /\ Head(queue) = m.piece /\ candidates # << >>
         THEN candidates' = Tail(candidates)
         ELSE UNCHANGED candidates
    /\ UNCHANGED <<up, failed, retriving, queue, downloading, cache, cacheGood, asked,
                   ticking, finishing, timedOut, crashed>>

(* A rejection drops whatever connection is in front.  The code does not   *)
(* look whether there is one: popping an empty queue is undefined.         *)
ReceivedMetadataRejectMsg(c) ==
  LET m == arrived[c] IN
    /\ m.kind = "reject" /\ Unlocked
    /\ arrived' = [arrived EXCEPT ![c] = NoMsg]
    /\ IF queue = << >>
         THEN crashed' = "queue" /\ UNCHANGED <<downloading, candidates>>
         ELSE IF Head(queue) # m.piece
         THEN UNCHANGED <<downloading, candidates, crashed>>
         ELSE /\ downloading' = FALSE
              /\ candidates' = IF candidates = << >> THEN << >> ELSE Tail(candidates)
              /\ crashed' = IF candidates = << >> THEN "pop" ELSE "no"
    /\ UNCHANGED <<up, failed, retriving, queue, cache, cacheGood, asked, ticking,
                   finishing, timedOut>>

(* A connection supports the extension from its announcement on, and goes. *)
Announce(c) ==
  /\ crashed = "no"
  /\ c \notin up /\ asked[c] = << >> /\ c \notin failed
  /\ up' = up \cup {c}
  /\ UNCHANGED <<failed, retriving, queue, downloading, candidates, cache, cacheGood,
                 asked, arrived, ticking, finishing, timedOut, crashed>>

Leave(c) ==
  /\ crashed = "no"
  /\ c \in up \ Prompt
  /\ up' = up \ {c}
  /\ failed' = failed \cup {c}
  /\ asked' = [asked EXCEPT ![c] = << >>]
  /\ UNCHANGED <<retriving, queue, downloading, candidates, cache, cacheGood, arrived,
                 ticking, finishing, timedOut, crashed>>

RetriverNext ==
  \/ \E timeout \in BOOLEAN : TickRetriver(timeout)
  \/ \E c \in Conns :
       \/ ReceivedMetadataDataMsg(c)
       \/ ReceivedMetadataRejectMsg(c)
       \/ Announce(c)
       \/ Leave(c)
       \/ \E i \in 1 .. MetaNum :
            \/ \E good \in BOOLEAN : Answer(c, Data(i, good))
            \/ Answer(c, Reject(i))

-----------------------------------------------------------------------------
Messages ==
  {NoMsg} \cup [kind : {"reject"}, piece : 1 .. MetaNum]
    \cup [kind : {"data"}, piece : 1 .. MetaNum, good : BOOLEAN]

RetriverTypeOK ==
  /\ up \subseteq Conns /\ failed \subseteq Conns
  /\ retriving \in BOOLEAN
  /\ queue \in Seq(1 .. MetaNum)
  /\ downloading \in BOOLEAN
  /\ candidates \in Seq(Conns)
  /\ cache \in Seq(1 .. MetaNum)
  /\ cacheGood \in BOOLEAN
  /\ asked \in [Conns -> Seq(1 .. MetaNum)]
  /\ arrived \in [Conns -> Messages]
  /\ ticking \in BOOLEAN
  /\ finishing \in {"no", "parse", "refresh", "info", "write", "end"}
  /\ timedOut \in BOOLEAN
  /\ crashed \in {"no", "queue", "pop", "size", "hash"}

(* What has come and what is queued is the whole metadata, in order, also  *)
(* when answers are late or come twice: BC_ASSERT(metadata_cache_.size()   *)
(* == metadata_total_size_).                                               *)
InOrder ==
  retriving /\ crashed = "no" => cache \o queue \in {<< >>, MetaPieces}

(* A piece that is asked for has a candidate in front, so that TimeoutProc *)
(* can take it from the queue.  If no request timed out, one request at    *)
(* most is out, with that candidate, for the piece in front, and nothing   *)
(* is asserted or popped of an empty queue.                                *)
AskedInFront ==
  /\ (downloading /\ crashed = "no") => candidates # << >>
  /\ ~timedOut =>
       /\ crashed \notin {"queue", "pop", "size"}
       /\ \A c \in Conns :
            (retriving /\ finishing = "no" /\ (asked[c] # << >> \/ arrived[c] # NoMsg)) =>
               /\ downloading /\ Head(candidates) = c
               /\ asked[c] \in {<< >>, <<Head(queue)>>}
               /\ (asked[c] = << >>) # (arrived[c] = NoMsg)

=============================================================================
