------------------------- MODULE DiskWriteCacheProofs -------------------------
(* What is verified is in the file, what the picker counts as finished is  *)
(* in the cache, and a check finds the piece it is for: for any torrent,   *)
(* any number of connections, any limit of the cache, and answers that are *)
(* late, double or bad.  While no request has timed out a flush returns.   *)
EXTENDS DiskWriteCache, SequenceTheorems, FiniteSetTheorems, WellFoundedInduction, TLAPS

(* The jobs and the callbacks are about pieces of the torrent. *)
Jobs ==
  [kind : {"write"}, conn : Clients, piece : Pieces, block : Int, data : Data]
    \cup [kind : {"verify"}, piece : Pieces]

Calls ==
  [kind : {"write"}, conn : Clients, piece : Pieces, block : Int, data : {"done"}]
    \cup [kind : {"verified", "refused"}, piece : Pieces]

(* The blocks of an entry, and a finished one, whatever its blocks hold. *)
BlockMap == UNION {[T -> Data] : T \in SUBSET Int}

Entries == [piece : Pieces, blocks : BlockMap]

Typed ==
  /\ queue \in Seq(Jobs)
  /\ callbacks \in Seq(Calls)
  /\ finished \in Seq(Entries)
  /\ unfinished \in UNION {[T -> BlockMap] : T \in SUBSET Pieces}
  /\ asked \subseteq Clients \X Pieces \X Int
  /\ DOMAIN disk = Pieces
  /\ complete \subseteq Pieces

(* A piece is good on disk from its flush on, while the answer of the      *)
(* flush is on its way and after the picker has it.                        *)
Passed(p) ==
  p \in complete \/ \E i \in 1 .. Len(callbacks) : callbacks[i] = [kind |-> "verified", piece |-> p]

FlushedIsGood == \A p \in Pieces \ direct : Passed(p) => \A b \in Blocks(p) : disk[p][b] = "good"

DiskInv == Typed /\ FlushedIsGood

LEMMA LeastNumber ==
  ASSUME NEW I \in SUBSET Nat, I # {}
  PROVE  \E m \in I : \A k \in I : m <= k
<1>1. \A x, y \in Nat : y < x => <<y, x>> \in OpToRel(<, Nat)
  BY DEF OpToRel
<1>2. PICK R : IsWellFoundedOn(R, Nat) /\ \A x, y \in Nat : y < x => <<y, x>> \in R
  BY <1>1, NatLessThanWellFounded
<1>3. PICK m \in I : \A y \in I : ~ (<<y, m>> \in R)
  BY <1>2, WFMin
<1>4. m \in Nat /\ I \subseteq Nat /\ \A k \in I : ~ (k < m)
  BY <1>2, <1>3, Zenon
<1> QED
  BY <1>4

(* The entry that is looked for is in the list, and the first one if the   *)
(* list begins with an entry of the piece.                                 *)
LEMMA FirstEntryFound ==
  ASSUME NEW p, finished \in Seq(Entries), FirstEntry(p) # 0
  PROVE  /\ FirstEntry(p) \in 1 .. Len(finished)
         /\ finished # <<>> /\ Head(finished).piece = p => finished[FirstEntry(p)] = Head(finished)
<1> DEFINE I == {i \in 1 .. Len(finished) : finished[i].piece = p}
<1>1. I # {} /\ FirstEntry(p) = Min(I)
  BY DEF FirstEntry, SelectInSeq
<1>2. PICK m \in I : \A k \in I : m <= k
  <2>1. I \in SUBSET Nat
    OBVIOUS
  <2> HIDE DEF I
  <2> QED
    BY <1>1, <2>1, LeastNumber
<1> HIDE DEF I
<1>3. FirstEntry(p) \in I /\ \A k \in I : FirstEntry(p) <= k
  BY <1>1, <1>2 DEF Min
<1> USE DEF I
<1>4. ASSUME finished # <<>>, Head(finished).piece = p
      PROVE  finished[FirstEntry(p)] = Head(finished)
  <2>1. 1 \in I
    BY <1>4
  <2>2. FirstEntry(p) = 1
    BY <1>3, <2>1
  <2> QED
    BY <1>4, <2>2
<1> QED
  BY <1>3, <1>4

LEMMA AppendTyped ==
  ASSUME NEW S, NEW s \in Seq(S), NEW m \in S
  PROVE  Append(s, m) \in Seq(S)
  OBVIOUS

LEMMA RemoveTyped ==
  ASSUME NEW S, NEW s \in Seq(S), NEW i \in 1 .. Len(s)
  PROVE  RemoveAt(s, i) \in Seq(S)
<1>1. SubSeq(s, 1, i - 1) \in Seq(S) /\ SubSeq(s, i + 1, Len(s)) \in Seq(S)
  OBVIOUS
<1> QED
  BY <1>1 DEF RemoveAt

(* An entry with one more block, and a cache with another entry. *)
LEMMA WithTyped ==
  ASSUME NEW X, NEW Y, NEW m \in UNION {[T -> Y] : T \in SUBSET X}, NEW x \in X, NEW v \in Y
  PROVE  With(m, x, v) \in UNION {[T -> Y] : T \in SUBSET X}
<1>1. PICK T \in SUBSET X : m \in [T -> Y]
  OBVIOUS
<1>2. With(m, x, v) \in [T \cup {x} -> Y]
  BY <1>1 DEF With
<1> QED
  BY <1>2

-----------------------------------------------------------------------------
LEMMA InitDisk == CacheInit => DiskInv
<1> SUFFICES ASSUME CacheInit
             PROVE  DiskInv
  OBVIOUS
<1>1. unfinished \in UNION {[T -> BlockMap] : T \in SUBSET Pieces}
  <2>1. unfinished \in [{} -> BlockMap]
    BY DEF CacheInit, Empty
  <2> QED
    BY <2>1
<1>2. Typed
  BY <1>1 DEF CacheInit, Typed
<1>3. FlushedIsGood
  BY DEF CacheInit, FlushedIsGood, Passed
<1> QED
  BY <1>2, <1>3 DEF DiskInv

(* What is in a queue of callbacks after one is put in or taken out. *)
LEMMA AppendCalls ==
  ASSUME NEW s \in Seq(Calls), NEW m \in Calls
  PROVE  /\ Append(s, m) \in Seq(Calls)
         /\ \A x : (\E k \in 1 .. Len(Append(s, m)) : Append(s, m)[k] = x)
                    => x = m \/ \E k \in 1 .. Len(s) : s[k] = x
  OBVIOUS

LEMMA TailCalls ==
  ASSUME NEW s \in Seq(Calls), s # <<>>
  PROVE  /\ Tail(s) \in Seq(Calls) /\ Head(s) \in Calls /\ Head(s) = s[1] /\ 1 \in 1 .. Len(s)
         /\ \A k \in 1 .. Len(Tail(s)) : k + 1 \in 1 .. Len(s) /\ Tail(s)[k] = s[k + 1]
  OBVIOUS

(* AddBlock touches the file only past the cache. *)
LEMMA AddBlockKept ==
  ASSUME Typed, NEW p \in Pieces, NEW b \in Int, NEW d \in Data, AddBlock(p, b, d)
  PROVE  /\ finished' \in Seq(Entries)
         /\ unfinished' \in UNION {[T -> BlockMap] : T \in SUBSET Pieces}
         /\ DOMAIN disk' = Pieces
         /\ direct \subseteq direct'
         /\ \A q \in Pieces \ direct' : disk'[q] = disk[q]
<1> DEFINE entry == IF p \in DOMAIN unfinished THEN unfinished[p] ELSE Empty
           grown == With(entry, b, d)
<1>0. /\ finished \in Seq(Entries) /\ DOMAIN disk = Pieces
      /\ unfinished \in UNION {[T -> BlockMap] : T \in SUBSET Pieces}
  BY DEF Typed
<1>1. CASE UNCHANGED <<cache, file>>
  BY <1>0, <1>1 DEF cache, file
<1>2. CASE /\ disk' = [disk EXCEPT ![p][b] = d] \/ UNCHANGED disk
           /\ direct' = direct \cup {p}
           /\ UNCHANGED cache
  BY <1>0, <1>2 DEF cache
<1>3. ASSUME IF DOMAIN grown = Blocks(p)
               THEN /\ unfinished' = [q \in DOMAIN unfinished \ {p} |-> unfinished[q]]
                    /\ finished' = Append(finished, [piece |-> p, blocks |-> grown])
               ELSE /\ unfinished' = With(unfinished, p, grown)
                    /\ UNCHANGED finished,
             UNCHANGED file
      PROVE  /\ finished' \in Seq(Entries)
             /\ unfinished' \in UNION {[T -> BlockMap] : T \in SUBSET Pieces}
             /\ UNCHANGED file
  <2>1. PICK T \in SUBSET Pieces : unfinished \in [T -> BlockMap]
    BY <1>0
  <2>2. entry \in BlockMap
    <3>1. Empty \in [{} -> Data]
      BY DEF Empty
    <3> QED
      BY <2>1, <3>1 DEF BlockMap
  <2>3. grown \in BlockMap
    BY <2>2, WithTyped DEF BlockMap
  <2>4. [piece |-> p, blocks |-> grown] \in Entries
    BY <2>3 DEF Entries
  <2>5. [q \in DOMAIN unfinished \ {p} |-> unfinished[q]] \in [T \ {p} -> BlockMap]
    BY <2>1
  <2> HIDE DEF grown
  <2>6. With(unfinished, p, grown) \in UNION {[Q -> BlockMap] : Q \in SUBSET Pieces}
    BY <1>0, <2>3, WithTyped
  <2> QED
    BY <1>0, <1>3, <2>4, <2>5, <2>6
<1> HIDE DEF grown, entry
<1> QED
  BY <1>0, <1>1, <1>2, <1>3 DEF AddBlock, file, grown, entry

(* The jobs of the connections leave the file and the callbacks alone. *)
LEMMA ConnectionKept ==
  ASSUME DiskInv, NEW c \in Clients, NEW p \in Pieces, NEW b \in Blocks(p),
         Request(c, p, b) \/ RepeatRequest(c, p, b) \/ GiveUp(c, p, b) \/ AsyncWrite(c, p, b)
  PROVE  DiskInv'
<1>0. b \in Int /\ Typed /\ FlushedIsGood
  BY DEF Blocks, DiskInv
<1>1. UNCHANGED <<complete, callbacks, finished, unfinished, disk, direct>>
  BY DEF Request, RepeatRequest, GiveUp, AsyncWrite, LendBlock, ReturnBlock, ledger, cache, file
<1>2. asked' \subseteq Clients \X Pieces \X Int
  BY <1>0 DEF Request, RepeatRequest, GiveUp, AsyncWrite, Typed
<1>3. queue' \in Seq(Jobs)
  <2>1. CASE queue' = queue
    BY <1>0, <2>1 DEF Typed
  <2>2. ASSUME NEW d \in Data, queue' = Append(queue, WriteJob(c, p, b, d))
        PROVE  queue' \in Seq(Jobs)
    <3>1. WriteJob(c, p, b, d) \in Jobs
      BY <1>0 DEF WriteJob, Jobs
    <3> QED
      BY <1>0, <2>2, <3>1 DEF Typed
  <2> QED
    BY <2>1, <2>2 DEF Request, RepeatRequest, GiveUp, AsyncWrite
<1>4. Typed'
  BY <1>0, <1>1, <1>2, <1>3 DEF Typed
<1>5. FlushedIsGood'
  BY <1>0, <1>1 DEF FlushedIsGood, Passed
<1> QED
  BY <1>4, <1>5 DEF DiskInv

LEMMA WriteKept ==
  ASSUME DiskInv, WriteData
  PROVE  DiskInv'
<1>0. Typed /\ FlushedIsGood
  BY DEF DiskInv
<1> DEFINE job == Head(queue)
<1>1. /\ job \in Jobs /\ job.kind = "write" /\ Tail(queue) \in Seq(Jobs)
      /\ AddBlock(job.piece, job.block, job.data)
      /\ callbacks' = Append(callbacks, [job EXCEPT !.data = "done"])
      /\ queue' = Tail(queue)
      /\ UNCHANGED <<complete, asked>>
  BY <1>0 DEF WriteData, IsFirst, Typed, ledger
<1> HIDE DEF job
<1>2. job \in [kind : {"write"}, conn : Clients, piece : Pieces, block : Int, data : Data]
  BY <1>1 DEF Jobs
<1>3. /\ [job EXCEPT !.data = "done"] \in Calls
      /\ [job EXCEPT !.data = "done"].kind = "write"
  BY <1>2 DEF Calls
<1>4. callbacks' \in Seq(Calls)
  BY <1>0, <1>1, <1>3 DEF Typed
<1>5. /\ finished' \in Seq(Entries)
      /\ unfinished' \in UNION {[T -> BlockMap] : T \in SUBSET Pieces}
      /\ DOMAIN disk' = Pieces
      /\ direct \subseteq direct'
      /\ \A q \in Pieces \ direct' : disk'[q] = disk[q]
  BY <1>0, <1>1, <1>2, AddBlockKept
<1>6. \A q : Passed(q)' => Passed(q)
  <2>1. \A q : [kind |-> "verified", piece |-> q] # [job EXCEPT !.data = "done"]
    <3>1. \A q : [kind |-> "verified", piece |-> q].kind = "verified"
      OBVIOUS
    <3> QED
      BY <1>3, <3>1
  <2> QED
    BY <1>0, <1>1, <1>3, <2>1, AppendCalls DEF Typed, Passed
<1>7. FlushedIsGood'
  BY <1>0, <1>5, <1>6 DEF FlushedIsGood
<1> QED
  BY <1>0, <1>1, <1>4, <1>5, <1>7 DEF DiskInv, Typed

(* The check flushes only what it found good, and only the first entry. *)
LEMMA VerifyKept ==
  ASSUME DiskInv, VerifyPieceInfoHash
  PROVE  DiskInv'
<1>0. Typed /\ FlushedIsGood
  BY DEF DiskInv
<1> DEFINE p == Head(queue).piece
           i == FirstEntry(p)
           verified == [kind |-> "verified", piece |-> p]
           refused == [kind |-> "refused", piece |-> p]
<1>1. Head(queue) \in Jobs /\ p \in Pieces /\ queue' \in Seq(Jobs)
  BY <1>0 DEF VerifyPieceInfoHash, IsFirst, Typed, Jobs
<1>2. i # 0 /\ i \in 1 .. Len(finished)
  BY <1>0, FirstEntryFound DEF VerifyPieceInfoHash, Typed
<1>3. verified \in Calls /\ refused \in Calls /\ refused # verified
  BY <1>1 DEF Calls
<1>4. UNCHANGED <<complete, asked, unfinished, direct>>
  BY DEF VerifyPieceInfoHash, ledger
<1>5. ASSUME finished' \in Seq(Entries), disk' = disk,
             callbacks' = callbacks \/ callbacks' = Append(callbacks, refused)
      PROVE  DiskInv'
  <2>1. callbacks' \in Seq(Calls) /\ \A q : Passed(q)' => Passed(q)
    <3>1. CASE callbacks' = callbacks
      BY <1>0, <1>4, <3>1 DEF Typed, Passed
    <3>2. CASE callbacks' = Append(callbacks, refused)
      <4>1. \A q : [kind |-> "verified", piece |-> q] # refused
        <5>1. \A q : [kind |-> "verified", piece |-> q].kind = "verified"
          OBVIOUS
        <5>2. refused.kind = "refused"
          OBVIOUS
        <5> QED
          BY <5>1, <5>2
      <4>2. callbacks \in Seq(Calls)
        BY <1>0 DEF Typed
      <4> HIDE DEF refused, verified
      <4> QED
        BY <1>3, <1>4, <3>2, <4>1, <4>2, AppendCalls DEF Passed
    <3> QED
      BY <1>5, <3>1, <3>2
  <2>2. complete \subseteq Pieces /\ DOMAIN disk = Pieces
    BY <1>0 DEF Typed
  <2> QED
    BY <1>0, <1>1, <1>4, <1>5, <2>1, <2>2 DEF DiskInv, Typed, FlushedIsGood
<1>6. ASSUME \A b \in Blocks(p) : finished[i].blocks[b] = "good", FlushWriteCache(p),
             Head(finished).piece = p, disk' = [disk EXCEPT ![p] = Head(finished).blocks],
             callbacks' = Append(callbacks, verified), finished' = Tail(finished)
      PROVE  DiskInv'
  <2>1. finished # <<>> /\ finished[i] = Head(finished) /\ finished' \in Seq(Entries)
    BY <1>0, <1>2, <1>6, FirstEntryFound DEF Typed
  <2>2. \A b \in Blocks(p) : disk'[p][b] = "good"
    BY <1>0, <1>1, <1>6, <2>1 DEF Typed
  <2>3. DOMAIN disk' = Pieces /\ \A q \in Pieces \ {p} : disk'[q] = disk[q]
    BY <1>0, <1>6 DEF Typed
  <2>4. callbacks' \in Seq(Calls)
    BY <1>0, <1>3, <1>6 DEF Typed
  <2>5. ASSUME NEW q, q # p, Passed(q)'
        PROVE  Passed(q)
    <3>1. [kind |-> "verified", piece |-> q] # verified
      <4>1. [kind |-> "verified", piece |-> q].piece = q /\ verified.piece = p
        OBVIOUS
      <4> QED
        BY <2>5, <4>1
    <3>2. callbacks \in Seq(Calls)
      BY <1>0 DEF Typed
    <3> HIDE DEF verified
    <3> QED
      BY <1>3, <1>4, <1>6, <2>5, <3>1, <3>2, AppendCalls DEF Passed
  <2>6. FlushedIsGood'
    BY <1>0, <1>4, <2>2, <2>3, <2>5 DEF FlushedIsGood
  <2> QED
    BY <1>0, <1>1, <1>4, <2>1, <2>3, <2>4, <2>6 DEF DiskInv, Typed
<1>7. CASE ~\A b \in Blocks(p) : finished[i].blocks[b] = "good"
  BY <1>0, <1>2, <1>5, <1>7, RemoveTyped DEF VerifyPieceInfoHash, Typed
<1>8. CASE \A b \in Blocks(p) : finished[i].blocks[b] = "good"
  <2>1. FlushWriteCache(p)
    BY <1>8 DEF VerifyPieceInfoHash
  <2>2. Tail(finished) \in Seq(Entries)
    BY <1>0, <1>2 DEF Typed
  <2> QED
    BY <1>0, <1>5, <1>6, <1>8, <2>1, <2>2 DEF FlushWriteCache, Typed
<1> QED
  BY <1>7, <1>8

(* The work thread takes over from the callback. *)
LEMMA WorkKept ==
  ASSUME DiskInv, OnWriteData \/ OnVerifyPiece
  PROVE  DiskInv'
<1>0. Typed /\ FlushedIsGood
  BY DEF DiskInv
<1>a. callbacks # <<>> /\ callbacks' = Tail(callbacks) /\ callbacks \in Seq(Calls)
  BY <1>0 DEF OnWriteData, OnVerifyPiece, IsFirst, Typed
<1>1. /\ callbacks # <<>> /\ Head(callbacks) \in Calls /\ callbacks' = Tail(callbacks)
      /\ callbacks' \in Seq(Calls)
      /\ Head(callbacks) = callbacks[1] /\ 1 \in 1 .. Len(callbacks)
      /\ \A k \in 1 .. Len(callbacks') : k + 1 \in 1 .. Len(callbacks) /\ callbacks'[k] = callbacks[k + 1]
  BY <1>a, TailCalls
<1>2. UNCHANGED <<asked, finished, unfinished, disk, direct>>
  BY DEF OnWriteData, OnVerifyPiece, cache, file
<1>3. Head(callbacks).piece \in Pieces
  BY <1>1 DEF Calls
<1>4. queue' \in Seq(Jobs)
  <2>1. VerifyJob(Head(callbacks).piece) \in Jobs
    BY <1>3 DEF VerifyJob, Jobs
  <2>2. queue' = queue \/ queue' = Append(queue, VerifyJob(Head(callbacks).piece))
    BY DEF OnWriteData, OnVerifyPiece
  <2>3. queue \in Seq(Jobs)
    BY <1>0 DEF Typed
  <2> QED
    BY <2>1, <2>2, <2>3, AppendTyped
<1>5. complete' = complete
        \/ /\ complete' = complete \cup {Head(callbacks).piece}
           /\ Head(callbacks) = [kind |-> "verified", piece |-> Head(callbacks).piece]
  <2>1. CASE OnWriteData
    BY <2>1 DEF OnWriteData, ReturnBlock, ledger
  <2>2. CASE OnVerifyPiece
    <3>1. Head(callbacks).kind = "verified" =>
            Head(callbacks) = [kind |-> "verified", piece |-> Head(callbacks).piece]
      BY <1>1 DEF Calls
    <3> QED
      BY <2>2, <3>1 DEF OnVerifyPiece, IsFirst, Verify, Restart
  <2> QED
    BY <2>1, <2>2
<1>6. \A q : Passed(q)' => Passed(q)
  BY <1>1, <1>5 DEF Passed
<1> QED
  BY <1>0, <1>1, <1>2, <1>3, <1>4, <1>5, <1>6 DEF DiskInv, Typed, FlushedIsGood

(* The inductive invariant. *)
THEOREM DiskInvariant == CacheSpec => []DiskInv
<1>1. DiskInv /\ [CacheNext]_<<ledger, dvars>> => DiskInv'
  <2> SUFFICES ASSUME DiskInv, [CacheNext]_<<ledger, dvars>>
               PROVE  DiskInv'
    OBVIOUS
  <2>1. CASE CacheNext
    BY <2>1, ConnectionKept, WriteKept, VerifyKept, WorkKept DEF CacheNext
  <2>2. CASE UNCHANGED <<ledger, dvars>>
    BY <2>2 DEF ledger, dvars, cache, file, DiskInv, Typed, FlushedIsGood, Passed
  <2> QED
    BY <2>1, <2>2
<1> QED
  BY <1>1, InitDisk, PTL DEF CacheSpec

(* A verified piece is in the file as it was verified, so a peer that is   *)
(* told of it can read it, whatever is written late, twice or for nothing: *)
(* only a block that went past a full cache can undo it.                   *)
THEOREM VerifiedIsOnDisk == CacheSpec => []CompleteOnDisk
<1>1. DiskInv => CompleteOnDisk
  BY DEF DiskInv, Typed, FlushedIsGood, Passed, CompleteOnDisk
<1> QED
  BY <1>1, DiskInvariant, PTL

-----------------------------------------------------------------------------
(* The books of the loans: a check that is queued, or made and its result  *)
(* not taken yet, is of a piece whose blocks have all been fetched, and    *)
(* there is one of a piece at a time.                                      *)
Loans == UNION {[Blocks(p) -> Clients \cup {Free, Fetched}] : p \in Pieces}

IsResult(i) == callbacks[i].kind # "write"

Checking(p) == \E i \in 1 .. Len(queue) : queue[i] = VerifyJob(p)

(* The result of a check of p is behind the first n callbacks.             *)
Result(p, n) == \E i \in 1 .. Len(callbacks) : i > n /\ IsResult(i) /\ callbacks[i].piece = p

AllFetched(p) == \A b \in Blocks(p) : loan[p][b] = Fetched

Books ==
  /\ loan \in [Pieces -> Loans]
  /\ \A p \in Pieces : loan[p] \in [Blocks(p) -> Clients \cup {Free, Fetched}]
  /\ \A p \in complete : AllFetched(p)
  /\ \A p \in Pieces : Checking(p) \/ Result(p, 0) => p \notin complete /\ AllFetched(p)
  /\ \A p \in Pieces : ~(Checking(p) /\ Result(p, 0))
  /\ \A i, j \in 1 .. Len(queue) :
       queue[i].kind = "verify" /\ queue[j] = queue[i] => i = j
  /\ \A i, j \in 1 .. Len(callbacks) :
       IsResult(i) /\ IsResult(j) /\ callbacks[i].piece = callbacks[j].piece => i = j

(* Only blocks of the torrent are asked for, written and called back.      *)
InTorrent ==
  /\ \A a \in asked : a[3] \in Blocks(a[2])
  /\ \A i \in 1 .. Len(queue) : queue[i].kind = "write" => queue[i].block \in Blocks(queue[i].piece)
  /\ \A i \in 1 .. Len(callbacks) :
       callbacks[i].kind = "write" => callbacks[i].block \in Blocks(callbacks[i].piece)

EntriesInTorrent ==
  /\ \A p \in DOMAIN unfinished :
       DOMAIN unfinished[p] \subseteq Blocks(p) /\ DOMAIN unfinished[p] \notin {{}, Blocks(p)}
  /\ \A i \in 1 .. Len(finished) : DOMAIN finished[i].blocks = Blocks(finished[i].piece)

(* What was written is held until the result of the check is called back.  *)
InFinished(p) == \E i \in 1 .. Len(finished) : finished[i].piece = p

Held(p, b) ==
  \/ p \in direct
  \/ p \in DOMAIN unfinished /\ b \in DOMAIN unfinished[p]
  \/ InFinished(p)

WrittenIsHeld ==
  \A i \in 1 .. Len(callbacks) :
    callbacks[i].kind = "write" =>
      Held(callbacks[i].piece, callbacks[i].block) \/ Result(callbacks[i].piece, i)

FetchedIsHeld ==
  \A p \in Pieces : \A b \in Blocks(p) :
    loan[p][b] = Fetched => p \in complete \/ Held(p, b) \/ Result(p, 0)

CheckedIsFinished == \A p \in Pieces : Checking(p) => p \in direct \/ InFinished(p)

CInv ==
  /\ Books /\ InTorrent /\ EntriesInTorrent /\ WithinQuota
  /\ WrittenIsHeld /\ FetchedIsHeld /\ CheckedIsFinished
  /\ spinning \in BOOLEAN

LEMMA TailFacts ==
  ASSUME NEW S, NEW s \in Seq(S), s # << >>
  PROVE  /\ Tail(s) \in Seq(S) /\ Head(s) \in S /\ Head(s) = s[1] /\ 1 \in 1 .. Len(s)
         /\ Len(s) \in Nat \ {0} /\ Len(Tail(s)) = Len(s) - 1
         /\ \A i \in 1 .. Len(s) - 1 : Tail(s)[i] = s[i + 1]
  OBVIOUS

LEMMA AppendFacts ==
  ASSUME NEW S, NEW s \in Seq(S), NEW x \in S
  PROVE  /\ Append(s, x) \in Seq(S) /\ Len(s) \in Nat /\ Len(Append(s, x)) = Len(s) + 1
         /\ \A i \in 1 .. Len(s) : Append(s, x)[i] = s[i]
         /\ Append(s, x)[Len(s) + 1] = x
  OBVIOUS

LEMMA RemoveFacts ==
  ASSUME NEW S, NEW s \in Seq(S), NEW i \in 1 .. Len(s)
  PROVE  /\ RemoveAt(s, i) \in Seq(S) /\ Len(s) \in Nat \ {0} /\ Len(RemoveAt(s, i)) = Len(s) - 1
         /\ \A k \in 1 .. Len(s) - 1 : RemoveAt(s, i)[k] = IF k < i THEN s[k] ELSE s[k + 1]
<1> DEFINE a == SubSeq(s, 1, i - 1)
           b == SubSeq(s, i + 1, Len(s))
<1>1. /\ a \in Seq(S) /\ Len(a) = i - 1 /\ \A k \in 1 .. i - 1 : a[k] = s[k]
      /\ b \in Seq(S) /\ Len(b) = Len(s) - i /\ \A k \in 1 .. Len(s) - i : b[k] = s[k + i]
  OBVIOUS
<1>2. RemoveAt(s, i) = a \o b
  BY DEF RemoveAt
<1> HIDE DEF a, b
<1>3. /\ a \o b \in Seq(S) /\ Len(a \o b) = Len(a) + Len(b)
      /\ \A k \in 1 .. Len(a) + Len(b) : (a \o b)[k] = IF k <= Len(a) THEN a[k] ELSE b[k - Len(a)]
  BY <1>1, ConcatProperties
<1>4. Len(s) \in Nat \ {0} /\ Len(a) + Len(b) = Len(s) - 1
  BY <1>1
<1>5. ASSUME NEW k \in 1 .. Len(s) - 1
      PROVE  (a \o b)[k] = IF k < i THEN s[k] ELSE s[k + 1]
  <2>1. CASE k < i
    BY <1>1, <1>3, <1>4, <2>1
  <2>2. CASE ~(k < i)
    <3>1. k - Len(a) \in 1 .. Len(s) - i /\ k - Len(a) + i = k + 1 /\ ~(k <= Len(a))
      BY <1>1, <1>4, <2>2
    <3>2. (a \o b)[k] = b[k - Len(a)]
      BY <1>3, <1>4, <3>1
    <3>3. b[k - Len(a)] = s[k - Len(a) + i]
      BY <1>1, <3>1
    <3> QED
      BY <2>2, <3>1, <3>2, <3>3
  <2> QED
    BY <2>1, <2>2
<1> QED
  BY <1>2, <1>3, <1>4, <1>5

LEMMA PiecesFinite ==
  /\ IsFiniteSet(Pieces)
  /\ \A p \in Pieces : Blocks(p) # {} /\ Blocks(p) \subseteq Nat
<1>1. IsFiniteSet(Pieces)
  BY CacheAssumption, FS_Interval DEF Pieces
<1> QED
  BY <1>1, CacheAssumption DEF Blocks

(* What the invariant says of the properties of the model.                 *)
LEMMA FirstEntryThere ==
  ASSUME NEW p, finished \in Seq(Entries), InFinished(p)
  PROVE  FirstEntry(p) # 0
<1> DEFINE I == {i \in 1 .. Len(finished) : finished[i].piece = p}
<1>1. I # {} /\ I \in SUBSET Nat
  BY DEF InFinished
<1>2. FirstEntry(p) = Min(I)
  BY <1>1 DEF FirstEntry, SelectInSeq
<1>3. 0 \notin I
  OBVIOUS
<1> HIDE DEF I
<1>4. PICK m \in I : \A k \in I : m <= k
  BY <1>1, LeastNumber
<1>5. Min(I) \in I
  BY <1>4 DEF Min
<1> QED
  BY <1>2, <1>3, <1>5

LEMMA HeldIsCached ==
  ASSUME Typed, EntriesInTorrent, NEW p \in Pieces, NEW b \in Blocks(p), Held(p, b)
  PROVE  p \in direct \/ b \in CachedBlocks(p)
<1>1. CASE p \in DOMAIN unfinished /\ b \in DOMAIN unfinished[p]
  BY <1>1 DEF CachedBlocks
<1>2. CASE InFinished(p)
  <2>1. PICK i \in 1 .. Len(finished) : finished[i].piece = p
    BY <1>2 DEF InFinished
  <2>2. i \in DOMAIN finished /\ b \in DOMAIN finished[i].blocks
    BY <2>1 DEF Typed, EntriesInTorrent
  <2>3. DOMAIN finished[i].blocks \in
          {DOMAIN finished[k].blocks : k \in {j \in DOMAIN finished : finished[j].piece = p}}
    BY <2>1, <2>2
  <2> QED
    BY <2>2, <2>3 DEF CachedBlocks
<1> QED
  BY <1>1, <1>2 DEF Held

LEMMA CacheSays ==
  ASSUME Typed, CInv
  PROVE  CacheConsistent /\ VerifyFindsPiece
<1>1. CacheTypeOK
  <2>1. loan \in [Pieces -> UNION {[Blocks(p) -> Clients \cup {Free, Fetched}] : p \in Pieces}]
    BY DEF CInv, Books, Loans
  <2>2. ASSUME NEW a \in asked
        PROVE  a \in Clients \X Pieces \X Nat
    <3>1. a \in Clients \X Pieces \X Int /\ a[3] \in Blocks(a[2])
      BY DEF Typed, CInv, InTorrent
    <3> QED
      BY <3>1, PiecesFinite
  <2>3. \A i \in DOMAIN finished : DOMAIN finished[i].blocks = Blocks(finished[i].piece)
    BY SMTT(30) DEF Typed, CInv, EntriesInTorrent
  <2>4. complete \subseteq Pieces /\ DOMAIN unfinished \subseteq Pieces
    BY DEF Typed
  <2> QED
    BY <2>1, <2>2, <2>3, <2>4 DEF CacheTypeOK, CInv, EntriesInTorrent
<1>2. FetchedIsCached
  <2> SUFFICES ASSUME NEW p \in Pieces, NEW b \in Blocks(p), loan[p][b] = Fetched
               PROVE  \/ p \in complete \cup direct
                      \/ b \in CachedBlocks(p)
                      \/ \E i \in DOMAIN callbacks :
                           callbacks[i].kind # "write" /\ callbacks[i].piece = p
    BY DEF FetchedIsCached
  <2>1. p \in complete \/ Held(p, b) \/ Result(p, 0)
    BY DEF CInv, FetchedIsHeld
  <2>2. Held(p, b) => p \in direct \/ b \in CachedBlocks(p)
    BY HeldIsCached DEF CInv
  <2>3. Result(p, 0) => \E i \in DOMAIN callbacks :
                          callbacks[i].kind # "write" /\ callbacks[i].piece = p
    BY DEF Result, IsResult, Typed
  <2> QED
    BY <2>1, <2>2, <2>3
<1>3. VerifyFindsPiece
  <2> SUFFICES ASSUME IsFirst(queue, "verify")
               PROVE  Head(queue).piece \in direct \/ FirstEntry(Head(queue).piece) # 0
    BY DEF VerifyFindsPiece
  <2> DEFINE p == Head(queue).piece
  <2>1. /\ queue \in Seq(Jobs) /\ queue # << >> /\ Head(queue).kind = "verify"
        /\ finished \in Seq(Entries)
    BY DEF IsFirst, Typed
  <2>2. Head(queue) \in Jobs /\ Head(queue) = queue[1] /\ 1 \in 1 .. Len(queue)
    BY <2>1, TailFacts
  <2>3. Head(queue) = VerifyJob(p) /\ p \in Pieces
    BY <2>1, <2>2 DEF Jobs, VerifyJob
  <2>4. Checking(p)
    BY <2>2, <2>3 DEF Checking
  <2> QED
    BY <2>1, <2>3, <2>4, FirstEntryThere DEF CInv, CheckedIsFinished
<1> QED
  BY <1>1, <1>2, <1>3 DEF CacheConsistent, CInv

-----------------------------------------------------------------------------
LEMMA InitCache == CacheInit => CInv
<1> SUFFICES ASSUME CacheInit
             PROVE  CInv
  OBVIOUS
<1>1. /\ queue = << >> /\ callbacks = << >> /\ finished = << >> /\ complete = {}
      /\ asked = {} /\ DOMAIN unfinished = {} /\ spinning = FALSE
      /\ Len(queue) = 0 /\ Len(callbacks) = 0 /\ Len(finished) = 0
  BY DEF CacheInit, Empty
<1>2. /\ loan \in [Pieces -> Loans]
      /\ \A p \in Pieces : loan[p] \in [Blocks(p) -> Clients \cup {Free, Fetched}]
      /\ \A p \in Pieces : \A b \in Blocks(p) : loan[p][b] # Fetched
  <2>1. loan = [p \in Pieces |-> [b \in Blocks(p) |-> Free]]
    BY <1>1 DEF CacheInit, Init
  <2>2. \A p \in Pieces : [b \in Blocks(p) |-> Free] \in [Blocks(p) -> Clients \cup {Free, Fetched}]
    OBVIOUS
  <2> QED
    BY <2>1, <2>2, CacheAssumption DEF Loans
<1>3. WithinQuota
  BY <1>1, FS_EmptySet, CacheAssumption DEF WithinQuota, CacheSize
<1>4. Books
  BY <1>1, <1>2 DEF Books, Checking, Result
<1>5. InTorrent /\ EntriesInTorrent /\ WrittenIsHeld /\ CheckedIsFinished
  BY <1>1 DEF InTorrent, EntriesInTorrent, WrittenIsHeld, CheckedIsFinished, Checking
<1> QED
  BY <1>1, <1>2, <1>3, <1>4, <1>5 DEF CInv, FetchedIsHeld

(* A loan that is made or given up touches no block that was fetched.      *)
LEMMA LoanMoves ==
  ASSUME Typed, CInv, NEW p \in Pieces, NEW b \in Blocks(p), NEW x \in Clients \cup {Free},
         loan[p][b] # Fetched, loan' = [loan EXCEPT ![p][b] = x]
  PROVE  /\ loan' \in [Pieces -> Loans]
         /\ \A q \in Pieces : loan'[q] \in [Blocks(q) -> Clients \cup {Free, Fetched}]
         /\ \A q \in Pieces : \A a \in Blocks(q) : loan'[q][a] = Fetched <=> loan[q][a] = Fetched
<1>1. /\ loan \in [Pieces -> Loans]
      /\ \A q \in Pieces : loan[q] \in [Blocks(q) -> Clients \cup {Free, Fetched}]
  BY DEF CInv, Books
<1>2. [loan[p] EXCEPT ![b] = x] \in [Blocks(p) -> Clients \cup {Free, Fetched}]
  BY <1>1
<1>3. /\ loan'[p] = [loan[p] EXCEPT ![b] = x]
      /\ \A q \in Pieces \ {p} : loan'[q] = loan[q]
  BY <1>1
<1>4. loan' \in [Pieces -> Loans]
  BY <1>1, <1>2 DEF Loans
<1> QED
  BY <1>1, <1>2, <1>3, <1>4, CacheAssumption

LEMMA RequestsKept ==
  ASSUME Typed, CInv, NEW c \in Clients, NEW p \in Pieces, NEW b \in Blocks(p),
         Request(c, p, b) \/ RepeatRequest(c, p, b) \/ GiveUp(c, p, b)
  PROVE  CInv'
<1>1. UNCHANGED <<complete, queue, callbacks, unfinished, finished, direct, spinning>>
  BY DEF Request, RepeatRequest, GiveUp, LendBlock, ReturnBlock, ledger, cache, file
<1>2. asked' \subseteq asked \cup {<<c, p, b>>}
  BY DEF Request, RepeatRequest, GiveUp
<1>3. /\ loan' \in [Pieces -> Loans]
      /\ \A q \in Pieces : loan'[q] \in [Blocks(q) -> Clients \cup {Free, Fetched}]
      /\ \A q \in Pieces : \A a \in Blocks(q) : loan'[q][a] = Fetched <=> loan[q][a] = Fetched
  <2>1. CASE loan' = loan
    BY <2>1 DEF CInv, Books
  <2>2. CASE /\ loan[p][b] \in {Free, c}
             /\ loan' = [loan EXCEPT ![p][b] = c] \/ loan' = [loan EXCEPT ![p][b] = Free]
    BY <2>2, LoanMoves, CacheAssumption
  <2> QED
    BY <2>1, <2>2 DEF Request, RepeatRequest, GiveUp, LendBlock, ReturnBlock, ledger
<1>4. \A q \in Pieces : AllFetched(q)' <=> AllFetched(q)
  BY <1>3 DEF AllFetched
<1>5. Books'
  <2>1. complete \subseteq Pieces
    BY DEF Typed
  <2> QED
    BY <1>1, <1>3, <1>4, <2>1 DEF CInv, Books, Checking, Result, IsResult
<1>6. InTorrent'
  BY <1>1, <1>2 DEF CInv, InTorrent
<1>7. WrittenIsHeld' /\ CheckedIsFinished' /\ EntriesInTorrent' /\ WithinQuota'
  BY <1>1 DEF CInv, WrittenIsHeld, CheckedIsFinished, EntriesInTorrent, WithinQuota, CacheSize,
     Held, InFinished, Result, IsResult, Checking
<1>8. FetchedIsHeld'
  BY <1>1, <1>3 DEF CInv, FetchedIsHeld, Held, InFinished, Result, IsResult
<1> QED
  BY <1>1, <1>5, <1>6, <1>7, <1>8 DEF CInv

LEMMA AnswerKept ==
  ASSUME Typed, CInv, NEW c \in Clients, NEW p \in Pieces, NEW b \in Blocks(p),
         AsyncWrite(c, p, b)
  PROVE  CInv'
<1>1. UNCHANGED <<loan, complete, callbacks, unfinished, finished, direct, spinning>>
  BY DEF AsyncWrite, ledger, cache, file
<1>2. asked' \subseteq asked
  BY DEF AsyncWrite
<1>3. PICK d \in Data : queue' = Append(queue, WriteJob(c, p, b, d))
  BY DEF AsyncWrite
<1> DEFINE job == WriteJob(c, p, b, d)
<1>4. job \in Jobs /\ job.kind = "write" /\ job.block = b /\ job.piece = p
  BY PiecesFinite DEF WriteJob, Jobs
<1>5. \A q : VerifyJob(q).kind = "verify"
  BY DEF VerifyJob
<1> HIDE DEF job
<1>6. /\ queue \in Seq(Jobs) /\ Len(queue) \in Nat /\ Len(queue') = Len(queue) + 1
      /\ \A i \in 1 .. Len(queue) : queue'[i] = queue[i]
      /\ queue'[Len(queue) + 1] = job
  <2>1. queue \in Seq(Jobs)
    BY DEF Typed
  <2> QED
    BY <1>3, <1>4, <2>1, AppendFacts DEF job
<1>7. \A i \in 1 .. Len(queue') : i \in 1 .. Len(queue) \/ i = Len(queue) + 1
  BY <1>6
<1>8. \A q : Checking(q)' <=> Checking(q)
  <2>1. \A q : VerifyJob(q) # job
    BY <1>4, <1>5
  <2> QED
    BY <1>6, <1>7, <2>1 DEF Checking
<1>9. Books'
  <2>1. \A i, j \in 1 .. Len(queue') : queue'[i].kind = "verify" /\ queue'[j] = queue'[i] => i = j
    BY <1>4, <1>6, <1>7 DEF CInv, Books
  <2> QED
    BY <1>1, <1>8, <2>1 DEF CInv, Books, Result, IsResult, AllFetched
<1>10. InTorrent'
  BY <1>1, <1>2, <1>4, <1>6, <1>7 DEF CInv, InTorrent
<1>11. WrittenIsHeld' /\ FetchedIsHeld' /\ EntriesInTorrent' /\ WithinQuota'
  BY <1>1 DEF CInv, WrittenIsHeld, FetchedIsHeld, EntriesInTorrent, WithinQuota, CacheSize,
     Held, InFinished, Result, IsResult
<1>12. CheckedIsFinished'
  BY <1>1, <1>8 DEF CInv, CheckedIsFinished, InFinished
<1> QED
  BY <1>1, <1>9, <1>10, <1>11, <1>12 DEF CInv

(* A block that is written is held, and what was held stays.               *)
LEMMA AddBlockHolds ==
  ASSUME Typed, Typed', CInv, NEW p \in Pieces, NEW b \in Blocks(p), NEW d \in Data, AddBlock(p, b, d)
  PROVE  /\ EntriesInTorrent' /\ WithinQuota'
         /\ \A q : InFinished(q) => InFinished(q)'
         /\ \A q, a : Held(q, a) => Held(q, a)'
         /\ Held(p, b)'
         /\ direct \subseteq direct'
<1> DEFINE entry == IF p \in DOMAIN unfinished THEN unfinished[p] ELSE Empty
           grown == With(entry, b, d)
<1>0. /\ finished \in Seq(Entries) /\ DOMAIN unfinished \subseteq Pieces
      /\ EntriesInTorrent /\ WithinQuota
      /\ b \in Int
  BY PiecesFinite DEF Typed, CInv
<1>1. CASE b \in DOMAIN entry /\ UNCHANGED <<cache, file>>
  <2>1. UNCHANGED <<unfinished, finished, direct>>
    BY <1>1 DEF cache, file
  <2>2. p \in DOMAIN unfinished /\ b \in DOMAIN unfinished[p]
    BY <1>1 DEF Empty
  <2> QED
    BY <1>0, <2>1, <2>2 DEF EntriesInTorrent, WithinQuota, CacheSize, Held, InFinished
<1>2. CASE direct' = direct \cup {p} /\ UNCHANGED cache
  <2>1. UNCHANGED <<unfinished, finished>>
    BY <1>2 DEF cache
  <2> QED
    BY <1>0, <1>2, <2>1 DEF EntriesInTorrent, WithinQuota, CacheSize, Held, InFinished
<1>3. ASSUME b \notin DOMAIN entry,
             p \in DOMAIN unfinished \/ CacheSize < CacheLimit,
             IF DOMAIN grown = Blocks(p)
               THEN /\ unfinished' = [q \in DOMAIN unfinished \ {p} |-> unfinished[q]]
                    /\ finished' = Append(finished, [piece |-> p, blocks |-> grown])
               ELSE /\ unfinished' = With(unfinished, p, grown)
                    /\ UNCHANGED finished,
             UNCHANGED file
      PROVE  /\ EntriesInTorrent' /\ WithinQuota'
             /\ \A q : InFinished(q) => InFinished(q)'
             /\ \A q, a : Held(q, a) => Held(q, a)'
             /\ Held(p, b)'
             /\ direct' = direct
  <2>0. direct' = direct
    BY <1>3 DEF file
  <2>1. /\ DOMAIN grown = DOMAIN entry \cup {b} /\ DOMAIN entry \subseteq Blocks(p)
        /\ p \in DOMAIN unfinished => DOMAIN entry = DOMAIN unfinished[p]
    BY <1>0 DEF With, Empty, EntriesInTorrent
  <2>2. IsFiniteSet(DOMAIN unfinished) /\ Cardinality(DOMAIN unfinished) \in Nat /\ Len(finished) \in Nat
    BY <1>0, PiecesFinite, FS_Subset, FS_CardinalityType
  <2>3. CASE DOMAIN grown = Blocks(p)
    <3> DEFINE e == [piece |-> p, blocks |-> grown]
    <3>0. /\ unfinished' = [q \in DOMAIN unfinished \ {p} |-> unfinished[q]]
          /\ finished' = Append(finished, e)
      BY <1>3, <2>3
    <3>1. /\ DOMAIN unfinished' = DOMAIN unfinished \ {p}
          /\ \A q \in DOMAIN unfinished \ {p} : unfinished'[q] = unfinished[q]
      BY <3>0
    <3>2. e.piece = p /\ DOMAIN e.blocks = Blocks(p)
      BY <2>3
    <3> HIDE DEF e, grown, entry
    <3>3. /\ Len(finished') = Len(finished) + 1 /\ finished'[Len(finished) + 1] = e
          /\ \A i \in 1 .. Len(finished) : finished'[i] = finished[i]
      BY <1>0, <3>0
    <3>4. \A i \in 1 .. Len(finished') : i \in 1 .. Len(finished) \/ i = Len(finished) + 1
      BY <2>2, <3>3
    <3>5. EntriesInTorrent'
      BY <1>0, <3>1, <3>2, <3>3, <3>4 DEF EntriesInTorrent
    <3>6. WithinQuota'
      <4>1. CASE p \in DOMAIN unfinished
        <5>1. Cardinality(DOMAIN unfinished') = Cardinality(DOMAIN unfinished) - 1
          BY <2>2, <3>1, <4>1, FS_RemoveElement
        <5> QED
          BY <1>0, <2>2, <3>3, <5>1, CacheAssumption DEF WithinQuota, CacheSize
      <4>2. CASE p \notin DOMAIN unfinished
        <5>1. DOMAIN unfinished' = DOMAIN unfinished
          BY <3>1, <4>2
        <5> QED
          BY <1>3, <2>2, <3>3, <4>2, <5>1, CacheAssumption DEF WithinQuota, CacheSize
      <4> QED
        BY <4>1, <4>2
    <3>7. InFinished(p)' /\ \A q : InFinished(q) => InFinished(q)'
      BY <2>2, <3>2, <3>3 DEF InFinished
    <3>8. \A q, a : Held(q, a) => Held(q, a)'
      BY <2>0, <3>1, <3>7 DEF Held
    <3> QED
      BY <2>0, <3>5, <3>6, <3>7, <3>8 DEF Held
  <2>4. CASE DOMAIN grown # Blocks(p)
    <3>0. unfinished' = With(unfinished, p, grown) /\ finished' = finished
      BY <1>3, <2>4
    <3> HIDE DEF grown, entry
    <3>1. /\ DOMAIN unfinished' = DOMAIN unfinished \cup {p} /\ unfinished'[p] = grown
          /\ \A q \in DOMAIN unfinished \ {p} : unfinished'[q] = unfinished[q]
      BY <3>0 DEF With
    <3>2. EntriesInTorrent'
      BY <1>0, <2>1, <2>4, <3>0, <3>1 DEF EntriesInTorrent
    <3>3. WithinQuota'
      <4>1. CASE p \in DOMAIN unfinished
        <5>1. DOMAIN unfinished' = DOMAIN unfinished
          BY <3>1, <4>1
        <5> QED
          BY <1>0, <3>0, <5>1 DEF WithinQuota, CacheSize
      <4>2. CASE p \notin DOMAIN unfinished
        <5>1. Cardinality(DOMAIN unfinished') = Cardinality(DOMAIN unfinished) + 1
          BY <2>2, <3>1, <4>2, FS_AddElement
        <5> QED
          BY <1>3, <2>2, <3>0, <4>2, <5>1, CacheAssumption DEF WithinQuota, CacheSize
      <4> QED
        BY <4>1, <4>2
    <3>4. \A q : InFinished(q) => InFinished(q)'
      BY <3>0 DEF InFinished
    <3>5. \A q, a : Held(q, a) => Held(q, a)'
      BY <2>0, <2>1, <3>1, <3>4 DEF Held
    <3>6. Held(p, b)'
      BY <2>1, <3>1 DEF Held
    <3> QED
      BY <2>0, <3>2, <3>3, <3>4, <3>5, <3>6
  <2> QED
    BY <2>3, <2>4
<1> HIDE DEF grown, entry
<1> QED
  BY <1>1, <1>2, <1>3 DEF AddBlock, grown, entry

LEMMA WrittenPrimed ==
  ASSUME ASSUME NEW i \in 1 .. Len(callbacks'), NEW q, NEW a, callbacks'[i].kind = "write",
                q = callbacks'[i].piece, a = callbacks'[i].block
         PROVE  Held(q, a)' \/ Result(q, i)'
  PROVE  WrittenIsHeld'
  BY DEF WrittenIsHeld, Held, InFinished, Result, IsResult

LEMMA WriteDataKept ==
  ASSUME Typed, Typed', CInv, WriteData
  PROVE  CInv'
<1> DEFINE job == Head(queue)
           done == [job EXCEPT !.data = "done"]
<1>1. /\ queue # << >> /\ job.kind = "write" /\ queue' = Tail(queue)
      /\ AddBlock(job.piece, job.block, job.data)
      /\ callbacks' = Append(callbacks, done)
      /\ UNCHANGED <<loan, complete, asked, spinning>>
  BY DEF WriteData, IsFirst, ledger
<1>2. queue \in Seq(Jobs) /\ callbacks \in Seq(Calls)
  BY DEF Typed
<1>3. /\ job \in Jobs /\ job = queue[1] /\ 1 \in 1 .. Len(queue)
      /\ Len(queue) \in Nat \ {0} /\ Len(queue') = Len(queue) - 1
      /\ \A i \in 1 .. Len(queue) - 1 : queue'[i] = queue[i + 1]
  BY <1>1, <1>2, TailFacts
<1>4. \A i \in 1 .. Len(queue') : i + 1 \in 1 .. Len(queue) /\ queue'[i] = queue[i + 1]
  BY <1>3
<1>5. job.block \in Blocks(job.piece)
  BY <1>1, <1>3 DEF CInv, InTorrent
<1> HIDE DEF job, done
<1>6. job \in [kind : {"write"}, conn : Clients, piece : Pieces, block : Int, data : Data]
  BY <1>1, <1>3 DEF Jobs
<1>7. /\ done \in Calls /\ done.kind = "write" /\ done.piece = job.piece /\ done.block = job.block
      /\ job.piece \in Pieces /\ job.data \in Data
  BY <1>6 DEF done, Calls
<1>p. PICK p \in Pieces : p = job.piece /\ \E x \in Blocks(p) : x = job.block
  BY <1>5, <1>7
<1>b. PICK b \in Blocks(p) : b = job.block
  BY <1>p
<1>8. /\ Len(callbacks) \in Nat /\ Len(callbacks') = Len(callbacks) + 1
      /\ \A i \in 1 .. Len(callbacks) : callbacks'[i] = callbacks[i]
      /\ callbacks'[Len(callbacks) + 1] = done
  BY <1>1, <1>2, <1>7, AppendFacts
<1>9. \A i \in 1 .. Len(callbacks') : i \in 1 .. Len(callbacks) \/ i = Len(callbacks) + 1
  BY <1>8
<1>10. \A q : \A n \in Nat : Result(q, n)' <=> Result(q, n)
  BY <1>7, <1>8, <1>9 DEF Result, IsResult
<1>11. \A q : Checking(q)' <=> Checking(q)
  <2>1. \A q : VerifyJob(q) # queue[1]
    BY <1>3, <1>6 DEF VerifyJob
  <2>2. ASSUME NEW q, NEW i \in 1 .. Len(queue), queue[i] = VerifyJob(q)
        PROVE  \E k \in 1 .. Len(queue') : queue'[k] = VerifyJob(q)
    <3>1. i # 1
      BY <2>1, <2>2
    <3>2. i - 1 \in 1 .. Len(queue') /\ queue'[i - 1] = queue[i]
      BY <1>3, <3>1
    <3> QED
      BY <2>2, <3>2
  <2> QED
    BY <1>4, <2>2 DEF Checking
<1>12. /\ EntriesInTorrent' /\ WithinQuota'
       /\ \A q : InFinished(q) => InFinished(q)'
       /\ \A q, a : Held(q, a) => Held(q, a)'
       /\ Held(p, b)'
       /\ direct \subseteq direct'
  BY <1>1, <1>7, <1>p, <1>b, AddBlockHolds
<1>13. Books'
  <2>1. \A i, j \in 1 .. Len(queue') : queue'[i].kind = "verify" /\ queue'[j] = queue'[i] => i = j
    <3> SUFFICES ASSUME NEW i \in 1 .. Len(queue'), NEW j \in 1 .. Len(queue'),
                        queue'[i].kind = "verify", queue'[j] = queue'[i]
                 PROVE  i = j
      OBVIOUS
    <3>1. i + 1 = j + 1
      BY <1>4 DEF CInv, Books
    <3> QED
      BY <1>3, <3>1
  <2>2. \A i, j \in 1 .. Len(callbacks') :
          callbacks'[i].kind # "write" /\ callbacks'[j].kind # "write"
            /\ callbacks'[i].piece = callbacks'[j].piece => i = j
    BY <1>7, <1>8, <1>9 DEF CInv, Books, IsResult
  <2> QED
    BY <1>1, <1>10, <1>11, <2>1, <2>2 DEF CInv, Books, IsResult, AllFetched
<1>14. InTorrent'
  <2>1. \A i \in 1 .. Len(queue') :
          queue'[i].kind = "write" => queue'[i].block \in Blocks(queue'[i].piece)
    BY <1>4 DEF CInv, InTorrent
  <2>2. \A i \in 1 .. Len(callbacks') :
          callbacks'[i].kind = "write" => callbacks'[i].block \in Blocks(callbacks'[i].piece)
    BY <1>5, <1>7, <1>8, <1>9 DEF CInv, InTorrent
  <2> QED
    BY <1>1, <2>1, <2>2 DEF CInv, InTorrent
<1>15. WrittenIsHeld'
  <2> SUFFICES ASSUME NEW i \in 1 .. Len(callbacks'), NEW q, NEW a, callbacks'[i].kind = "write",
                      q = callbacks'[i].piece, a = callbacks'[i].block
               PROVE  Held(q, a)' \/ Result(q, i)'
    BY WrittenPrimed
  <2>1. CASE i \in 1 .. Len(callbacks)
    <3>1. /\ q = callbacks[i].piece /\ a = callbacks[i].block /\ callbacks[i].kind = "write"
          /\ i \in Nat
      BY <1>8, <2>1
    <3>2. Held(q, a) \/ Result(q, i)
      BY <2>1, <3>1 DEF CInv, WrittenIsHeld
    <3> QED
      BY <1>10, <1>12, <3>1, <3>2
  <2>2. CASE i = Len(callbacks) + 1
    <3>1. q = p /\ a = b
      BY <1>7, <1>8, <1>p, <1>b, <2>2
    <3> QED
      BY <1>12, <3>1
  <2> QED
    BY <1>9, <2>1, <2>2
<1>16. FetchedIsHeld'
  BY <1>1, <1>10, <1>12 DEF CInv, FetchedIsHeld
<1>17. CheckedIsFinished'
  BY <1>11, <1>12 DEF CInv, CheckedIsFinished
<1> QED
  BY <1>1, <1>12, <1>13, <1>14, <1>15, <1>16, <1>17 DEF CInv

(* A check takes the entry of its piece, of another piece none.            *)
LEMMA VerifyTakes ==
  ASSUME Typed, VerifyPieceInfoHash
  PROVE  \E p \in Pieces :
           /\ queue # << >> /\ Head(queue) = VerifyJob(p) /\ queue' = Tail(queue)
           /\ UNCHANGED <<loan, complete, asked, unfinished, direct>>
           /\ \/ spinning' = TRUE /\ UNCHANGED <<finished, callbacks>>
              \/ /\ spinning' = spinning
                 /\ \E m \in Calls : /\ m.kind # "write" /\ m.piece = p
                                     /\ callbacks' = Append(callbacks, m)
                 /\ \E i \in 1 .. Len(finished) :
                      /\ finished[i].piece = p
                      /\ Len(finished') = Len(finished) - 1
                      /\ \A k \in 1 .. Len(finished) - 1 :
                           finished'[k] = IF k < i THEN finished[k] ELSE finished[k + 1]
<1> DEFINE p == Head(queue).piece
           i == FirstEntry(p)
           verified == [kind |-> "verified", piece |-> p]
           refused == [kind |-> "refused", piece |-> p]
<1>0. queue \in Seq(Jobs) /\ finished \in Seq(Entries)
  BY DEF Typed
<1>1. /\ queue # << >> /\ Head(queue).kind = "verify" /\ queue' = Tail(queue) /\ i # 0
      /\ UNCHANGED <<loan, complete, asked, unfinished, direct>>
  BY DEF VerifyPieceInfoHash, IsFirst, ledger
<1>2. p \in Pieces /\ Head(queue) = VerifyJob(p)
  <2>1. Head(queue) \in Jobs
    BY <1>0, <1>1, TailFacts
  <2> QED
    BY <1>1, <2>1 DEF Jobs, VerifyJob
<1>3. verified \in Calls /\ refused \in Calls
  BY <1>2 DEF Calls
<1>4. i \in 1 .. Len(finished) /\ finished[i].piece = p
  <2> DEFINE I == {k \in 1 .. Len(finished) : finished[k].piece = p}
  <2>1. I # {} /\ I \in SUBSET Nat /\ FirstEntry(p) = Min(I)
    BY <1>1 DEF FirstEntry, SelectInSeq
  <2> HIDE DEF I
  <2>2. PICK m \in I : \A k \in I : m <= k
    BY <2>1, LeastNumber
  <2>3. FirstEntry(p) \in I
    BY <2>1, <2>2 DEF Min
  <2> QED
    BY <2>3 DEF I
<1>5. CASE FlushWriteCache(p)
  <2>1. CASE Head(finished).piece = p
    <3>1. /\ finished' = Tail(finished) /\ spinning' = spinning
          /\ callbacks' = Append(callbacks, verified) \/ callbacks' = Append(callbacks, refused)
      BY <1>5, <2>1 DEF FlushWriteCache
    <3>2. finished # << >>
      BY <1>4
    <3>3. /\ finished[1].piece = p /\ 1 \in 1 .. Len(finished)
          /\ Len(finished') = Len(finished) - 1 /\ Len(finished) \in Nat
          /\ \A k \in 1 .. Len(finished) - 1 : finished'[k] = finished[k + 1]
      BY <1>0, <2>1, <3>1, <3>2, TailFacts
    <3>4. \A k \in 1 .. Len(finished) - 1 :
            finished'[k] = IF k < 1 THEN finished[k] ELSE finished[k + 1]
      BY <3>3
    <3> QED
      BY <1>1, <1>2, <1>3, <3>1, <3>3, <3>4
  <2>2. CASE Head(finished).piece # p
    BY <1>1, <1>2, <1>5, <2>2 DEF FlushWriteCache
  <2> QED
    BY <2>1, <2>2
<1>6. CASE /\ finished' = RemoveAt(finished, i) /\ spinning' = spinning
           /\ callbacks' = Append(callbacks, refused)
  <2>1. /\ Len(finished') = Len(finished) - 1
        /\ \A k \in 1 .. Len(finished) - 1 :
             finished'[k] = IF k < i THEN finished[k] ELSE finished[k + 1]
    BY <1>0, <1>4, <1>6, RemoveFacts
  <2> QED
    BY <1>1, <1>2, <1>3, <1>4, <1>6, <2>1
<1> QED
  BY <1>5, <1>6 DEF VerifyPieceInfoHash

LEMMA CheckKept ==
  ASSUME Typed, CInv, VerifyPieceInfoHash
  PROVE  CInv'
<1>0. /\ queue \in Seq(Jobs) /\ callbacks \in Seq(Calls) /\ finished \in Seq(Entries)
      /\ complete \subseteq Pieces
  BY DEF Typed
<1>1. PICK p \in Pieces :
        /\ queue # << >> /\ Head(queue) = VerifyJob(p) /\ queue' = Tail(queue)
        /\ UNCHANGED <<loan, complete, asked, unfinished, direct>>
        /\ \/ spinning' = TRUE /\ UNCHANGED <<finished, callbacks>>
           \/ /\ spinning' = spinning
              /\ \E m \in Calls : /\ m.kind # "write" /\ m.piece = p
                                  /\ callbacks' = Append(callbacks, m)
              /\ \E i \in 1 .. Len(finished) :
                   /\ finished[i].piece = p
                   /\ Len(finished') = Len(finished) - 1
                   /\ \A k \in 1 .. Len(finished) - 1 :
                        finished'[k] = IF k < i THEN finished[k] ELSE finished[k + 1]
  BY VerifyTakes
<1>2. /\ queue[1] = VerifyJob(p) /\ 1 \in 1 .. Len(queue) /\ queue[1].kind = "verify"
      /\ Len(queue) \in Nat \ {0} /\ Len(queue') = Len(queue) - 1
      /\ \A i \in 1 .. Len(queue) - 1 : queue'[i] = queue[i + 1]
  BY <1>0, <1>1, TailFacts DEF VerifyJob
<1>3. \A i \in 1 .. Len(queue') : i + 1 \in 1 .. Len(queue) /\ queue'[i] = queue[i + 1]
  BY <1>2
<1>4. Checking(p) /\ ~Result(p, 0) /\ p \notin complete /\ AllFetched(p)
  BY <1>2 DEF CInv, Books, Checking
<1>5. /\ ~Checking(p)'
      /\ \A q : Checking(q)' => Checking(q)
  <2>1. \A q : Checking(q)' => Checking(q)
    BY <1>3 DEF Checking
  <2>2. ASSUME NEW i \in 1 .. Len(queue'), queue'[i] = VerifyJob(p)
        PROVE  FALSE
    <3>1. i + 1 = 1
      BY <1>2, <1>3, <2>2 DEF CInv, Books
    <3> QED
      BY <1>2, <3>1
  <2> QED
    BY <2>1, <2>2 DEF Checking
<1>6. \A i, j \in 1 .. Len(queue') : queue'[i].kind = "verify" /\ queue'[j] = queue'[i] => i = j
  <2> SUFFICES ASSUME NEW i \in 1 .. Len(queue'), NEW j \in 1 .. Len(queue'),
                      queue'[i].kind = "verify", queue'[j] = queue'[i]
               PROVE  i = j
    OBVIOUS
  <2>1. i + 1 = j + 1
    BY <1>3 DEF CInv, Books
  <2> QED
    BY <1>2, <2>1
<1>7. \A i \in 1 .. Len(queue') :
        queue'[i].kind = "write" => queue'[i].block \in Blocks(queue'[i].piece)
  BY <1>3 DEF CInv, InTorrent
<1>8. CASE spinning' = TRUE /\ UNCHANGED <<finished, callbacks>>
  <2>1. Books'
    BY <1>1, <1>5, <1>6, <1>8 DEF CInv, Books, Result, IsResult, AllFetched
  <2>2. InTorrent'
    BY <1>1, <1>7, <1>8 DEF CInv, InTorrent
  <2>3. EntriesInTorrent' /\ WithinQuota' /\ WrittenIsHeld' /\ FetchedIsHeld'
    BY <1>1, <1>8 DEF CInv, EntriesInTorrent, WithinQuota, CacheSize, WrittenIsHeld, FetchedIsHeld,
       Held, InFinished, Result, IsResult
  <2>4. CheckedIsFinished'
    BY <1>1, <1>5, <1>8 DEF CInv, CheckedIsFinished, InFinished
  <2> QED
    BY <1>8, <2>1, <2>2, <2>3, <2>4 DEF CInv
<1>9. ASSUME NEW m \in Calls, m.kind # "write", m.piece = p, callbacks' = Append(callbacks, m),
             NEW i \in 1 .. Len(finished), finished[i].piece = p,
             Len(finished') = Len(finished) - 1,
             \A k \in 1 .. Len(finished) - 1 :
               finished'[k] = IF k < i THEN finished[k] ELSE finished[k + 1],
             spinning' = spinning
      PROVE  CInv'
  <2>1. /\ Len(callbacks) \in Nat /\ Len(callbacks') = Len(callbacks) + 1
        /\ \A k \in 1 .. Len(callbacks) : callbacks'[k] = callbacks[k]
        /\ callbacks'[Len(callbacks) + 1] = m
    BY <1>0, <1>9, AppendFacts
  <2>2. \A k \in 1 .. Len(callbacks') : k \in 1 .. Len(callbacks) \/ k = Len(callbacks) + 1
    BY <2>1
  <2>3. \A q : \A n \in Nat :
          /\ Result(q, n) => Result(q, n)'
          /\ q # p /\ Result(q, n)' => Result(q, n)
    BY <1>9, <2>1, <2>2 DEF Result, IsResult
  <2>4. \A q : \A n \in Nat : q = p /\ n <= Len(callbacks) => Result(q, n)'
    BY <1>9, <2>1 DEF Result, IsResult
  <2>5. Len(finished) \in Nat \ {0}
    BY <1>0
  <2>6. \A q : q # p /\ InFinished(q) => InFinished(q)'
    <3> SUFFICES ASSUME NEW q, q # p, NEW k \in 1 .. Len(finished), finished[k].piece = q
                 PROVE  \E l \in 1 .. Len(finished') : finished'[l].piece = q
      BY DEF InFinished
    <3>1. CASE k < i
      BY <1>9, <2>5, <3>1
    <3>2. CASE k > i
      <4>1. k - 1 \in 1 .. Len(finished) - 1 /\ ~(k - 1 < i) /\ k - 1 + 1 = k
        BY <2>5, <3>2
      <4> QED
        BY <1>9, <4>1
    <3> QED
      BY <1>9, <3>1, <3>2
  <2>7. EntriesInTorrent'
    <3>1. \A k \in 1 .. Len(finished') : \E l \in 1 .. Len(finished) : finished'[k] = finished[l]
      BY <1>9, <2>5
    <3> QED
      BY <1>1, <3>1 DEF CInv, EntriesInTorrent
  <2>8. WithinQuota'
    <3>1. Cardinality(DOMAIN unfinished) \in Nat
      BY PiecesFinite, FS_Subset, FS_CardinalityType DEF Typed
    <3> QED
      BY <1>1, <1>9, <2>5, <3>1, CacheAssumption DEF CInv, WithinQuota, CacheSize
  <2>9. \A q, a : q # p /\ Held(q, a) => Held(q, a)'
    BY <1>1, <2>6 DEF Held
  <2>10. Books'
    <3>1. \A k, l \in 1 .. Len(callbacks') :
            callbacks'[k].kind # "write" /\ callbacks'[l].kind # "write"
              /\ callbacks'[k].piece = callbacks'[l].piece => k = l
      <4>1. \A k \in 1 .. Len(callbacks) : callbacks[k].kind = "write" \/ callbacks[k].piece # p
        BY <1>4 DEF Result, IsResult
      <4>2. \A k, l \in 1 .. Len(callbacks) :
              callbacks[k].kind # "write" /\ callbacks[l].kind # "write"
                /\ callbacks[k].piece = callbacks[l].piece => k = l
        BY DEF CInv, Books, IsResult
      <4> QED
        BY <1>9, <2>1, <2>2, <4>1, <4>2
    <3>2. \A q \in Pieces : Checking(q)' \/ Result(q, 0)' => q \notin complete /\ AllFetched(q)
      BY <1>4, <1>5, <2>3 DEF CInv, Books
    <3>3. \A q \in Pieces : ~(Checking(q)' /\ Result(q, 0)')
      BY <1>5, <2>3 DEF CInv, Books
    <3>4. \A q \in Pieces : AllFetched(q)' <=> AllFetched(q)
      BY <1>1 DEF AllFetched
    <3> QED
      BY <1>0, <1>1, <1>6, <3>1, <3>2, <3>3, <3>4 DEF CInv, Books, IsResult
  <2>11. InTorrent'
    <3>1. \A k \in 1 .. Len(callbacks') :
            callbacks'[k].kind = "write" => callbacks'[k].block \in Blocks(callbacks'[k].piece)
      BY <1>9, <2>1, <2>2 DEF CInv, InTorrent
    <3> QED
      BY <1>1, <1>7, <3>1 DEF CInv, InTorrent
  <2>12. WrittenIsHeld'
    <3> SUFFICES ASSUME NEW k \in 1 .. Len(callbacks'), NEW q, NEW a, callbacks'[k].kind = "write",
                        q = callbacks'[k].piece, a = callbacks'[k].block
                 PROVE  Held(q, a)' \/ Result(q, k)'
      BY WrittenPrimed
    <3>1. /\ k \in 1 .. Len(callbacks) /\ k \in Nat /\ k <= Len(callbacks)
          /\ q = callbacks[k].piece /\ a = callbacks[k].block /\ callbacks[k].kind = "write"
      BY <1>9, <2>1, <2>2
    <3>2. Held(q, a) \/ Result(q, k)
      BY <3>1 DEF CInv, WrittenIsHeld
    <3>3. CASE q = p
      BY <2>4, <3>1, <3>3
    <3>4. CASE q # p
      <4>1. Held(q, a) => Held(q, a)'
        BY <2>9, <3>4
      <4>2. Result(q, k) => Result(q, k)'
        BY <2>3, <3>1
      <4> QED
        BY <3>2, <4>1, <4>2
    <3> QED
      BY <3>3, <3>4
  <2>13. FetchedIsHeld'
    <3> SUFFICES ASSUME NEW q \in Pieces, NEW a \in Blocks(q), loan[q][a] = Fetched
                 PROVE  q \in complete \/ Held(q, a)' \/ Result(q, 0)'
      BY <1>1 DEF FetchedIsHeld
    <3>1. q \in complete \/ Held(q, a) \/ Result(q, 0)
      BY DEF CInv, FetchedIsHeld
    <3>2. CASE q = p
      BY <2>1, <2>4, <3>2
    <3>3. CASE q # p
      BY <2>3, <2>9, <3>1, <3>3
    <3> QED
      BY <3>2, <3>3
  <2>14. CheckedIsFinished'
    BY <1>1, <1>5, <2>6 DEF CInv, CheckedIsFinished
  <2> QED
    BY <1>9, <2>7, <2>8, <2>10, <2>11, <2>12, <2>13, <2>14 DEF CInv
<1> QED
  BY <1>1, <1>8, <1>9

(* The work thread takes the callback in front.                            *)
LEMMA TakeCallback ==
  ASSUME Typed, callbacks # << >>, callbacks' = Tail(callbacks)
  PROVE  /\ Head(callbacks) \in Calls /\ Head(callbacks) = callbacks[1] /\ 1 \in 1 .. Len(callbacks)
         /\ Len(callbacks) \in Nat \ {0} /\ Len(callbacks') = Len(callbacks) - 1
         /\ \A i \in 1 .. Len(callbacks') :
              i \in Nat /\ i + 1 \in 1 .. Len(callbacks) /\ callbacks'[i] = callbacks[i + 1]
         /\ \A q : \A n \in Nat : Result(q, n)' <=> Result(q, n + 1)
         /\ \A q : Result(q, 0) => Result(q, 1) \/ (IsResult(1) /\ Head(callbacks).piece = q)
<1>0. callbacks \in Seq(Calls)
  BY DEF Typed
<1>1. /\ Head(callbacks) \in Calls /\ Head(callbacks) = callbacks[1] /\ 1 \in 1 .. Len(callbacks)
      /\ Len(callbacks) \in Nat \ {0} /\ Len(callbacks') = Len(callbacks) - 1
      /\ \A i \in 1 .. Len(callbacks) - 1 : callbacks'[i] = callbacks[i + 1]
  BY <1>0, TailFacts
<1>2. \A i \in 1 .. Len(callbacks') :
        i \in Nat /\ i + 1 \in 1 .. Len(callbacks) /\ callbacks'[i] = callbacks[i + 1]
  BY <1>1
<1>3. ASSUME NEW q, NEW n \in Nat
      PROVE  Result(q, n)' <=> Result(q, n + 1)
  <2>1. ASSUME NEW i \in 1 .. Len(callbacks'), i > n, callbacks'[i].kind # "write",
               callbacks'[i].piece = q
        PROVE  \E k \in 1 .. Len(callbacks) :
                 k > n + 1 /\ callbacks[k].kind # "write" /\ callbacks[k].piece = q
    <3>1. i + 1 > n + 1
      BY <2>1
    <3> QED
      BY <1>2, <2>1, <3>1
  <2>2. ASSUME NEW k \in 1 .. Len(callbacks), k > n + 1, callbacks[k].kind # "write",
               callbacks[k].piece = q
        PROVE  \E i \in 1 .. Len(callbacks') :
                 i > n /\ callbacks'[i].kind # "write" /\ callbacks'[i].piece = q
    <3>1. k - 1 \in 1 .. Len(callbacks') /\ k - 1 > n /\ k - 1 + 1 = k
      BY <1>1, <2>2
    <3> QED
      BY <1>2, <2>2, <3>1
  <2> QED
    BY <2>1, <2>2 DEF Result, IsResult
<1>4. \A q : Result(q, 0) => Result(q, 1) \/ (IsResult(1) /\ Head(callbacks).piece = q)
  BY <1>1 DEF Result, IsResult
<1> QED
  BY <1>1, <1>2, <1>3, <1>4

LEMMA OnWriteDataKept ==
  ASSUME Typed, CInv, OnWriteData
  PROVE  CInv'
<1>1. /\ callbacks # << >> /\ Head(callbacks).kind = "write" /\ callbacks' = Tail(callbacks)
      /\ UNCHANGED <<asked, unfinished, finished, direct, spinning, complete>>
  BY DEF OnWriteData, IsFirst, cache, file, ReturnBlock, ledger
<1>2. /\ Head(callbacks) \in Calls /\ Head(callbacks) = callbacks[1] /\ 1 \in 1 .. Len(callbacks)
      /\ Len(callbacks) \in Nat \ {0} /\ Len(callbacks') = Len(callbacks) - 1
      /\ \A i \in 1 .. Len(callbacks') :
           i \in Nat /\ i + 1 \in 1 .. Len(callbacks) /\ callbacks'[i] = callbacks[i + 1]
      /\ \A q : \A n \in Nat : Result(q, n)' <=> Result(q, n + 1)
      /\ \A q : Result(q, 0) => Result(q, 1) \/ (IsResult(1) /\ Head(callbacks).piece = q)
  BY <1>1, TakeCallback
<1>3. \A q : Result(q, 0)' <=> Result(q, 0)
  <2>1. \A q : Result(q, 0) => Result(q, 1)
    BY <1>1, <1>2 DEF IsResult
  <2>2. \A q : Result(q, 1) => Result(q, 0)
    BY DEF Result
  <2>3. \A q : Result(q, 0)' <=> Result(q, 0 + 1)
    BY <1>2
  <2> QED
    BY <2>1, <2>2, <2>3
<1>4. PICK p \in Pieces : p = Head(callbacks).piece
  BY <1>2 DEF Calls
<1>5. PICK b \in Blocks(p) : b = Head(callbacks).block
  BY <1>1, <1>2, <1>4 DEF CInv, InTorrent
<1>6. PICK c \in Clients : c = Head(callbacks).conn
  BY <1>1, <1>2 DEF Calls
<1>7. Held(p, b) \/ Result(p, 1)
  BY <1>1, <1>2, <1>4, <1>5 DEF CInv, WrittenIsHeld
<1>8. \A q, a : Held(q, a)' <=> Held(q, a)
  BY <1>1 DEF Held, InFinished
<1>9. WrittenIsHeld'
  <2> SUFFICES ASSUME NEW k \in 1 .. Len(callbacks'), NEW q, NEW a, callbacks'[k].kind = "write",
                      q = callbacks'[k].piece, a = callbacks'[k].block
               PROVE  Held(q, a)' \/ Result(q, k)'
    BY WrittenPrimed
  <2>1. Held(q, a) \/ Result(q, k + 1)
    BY <1>2 DEF CInv, WrittenIsHeld
  <2> QED
    BY <1>2, <1>8, <2>1
<1>10. \A i, j \in 1 .. Len(callbacks') :
         callbacks'[i].kind # "write" /\ callbacks'[j].kind # "write"
           /\ callbacks'[i].piece = callbacks'[j].piece => i = j
  <2> SUFFICES ASSUME NEW i \in 1 .. Len(callbacks'), NEW j \in 1 .. Len(callbacks'),
                      callbacks'[i].kind # "write", callbacks'[j].kind # "write",
                      callbacks'[i].piece = callbacks'[j].piece
               PROVE  i = j
    OBVIOUS
  <2>1. i + 1 = j + 1
    BY <1>2 DEF CInv, Books, IsResult
  <2> QED
    BY <1>2, <2>1
<1>11. \A i \in 1 .. Len(callbacks') :
         callbacks'[i].kind = "write" => callbacks'[i].block \in Blocks(callbacks'[i].piece)
  BY <1>2 DEF CInv, InTorrent
<1>12. EntriesInTorrent' /\ WithinQuota'
  BY <1>1 DEF CInv, EntriesInTorrent, WithinQuota, CacheSize
<1>13. CASE UNCHANGED <<loan, queue>>
  <2>1. Books'
    BY <1>1, <1>3, <1>10, <1>13 DEF CInv, Books, Checking, IsResult, AllFetched
  <2>2. InTorrent'
    BY <1>1, <1>11, <1>13 DEF CInv, InTorrent
  <2>3. FetchedIsHeld'
    BY <1>1, <1>3, <1>8, <1>13 DEF CInv, FetchedIsHeld
  <2>4. CheckedIsFinished'
    BY <1>1, <1>13 DEF CInv, CheckedIsFinished, InFinished, Checking
  <2> QED
    BY <1>1, <1>9, <1>12, <2>1, <2>2, <2>3, <2>4 DEF CInv
<1>14. ASSUME loan[p][b] = c, loan' = [loan EXCEPT ![p][b] = Fetched],
              queue' = IF \A a \in Blocks(p) : loan'[p][a] = Fetched
                         THEN Append(queue, VerifyJob(p))
                         ELSE queue
       PROVE  CInv'
  <2>1. /\ loan \in [Pieces -> Loans]
        /\ \A q \in Pieces : loan[q] \in [Blocks(q) -> Clients \cup {Free, Fetched}]
    BY DEF CInv, Books
  <2>2. [loan[p] EXCEPT ![b] = Fetched] \in [Blocks(p) -> Clients \cup {Free, Fetched}]
    BY <2>1
  <2>3. /\ loan'[p] = [loan[p] EXCEPT ![b] = Fetched]
        /\ \A q \in Pieces \ {p} : loan'[q] = loan[q]
    BY <1>14, <2>1
  <2>4. /\ loan' \in [Pieces -> Loans]
        /\ \A q \in Pieces : loan'[q] \in [Blocks(q) -> Clients \cup {Free, Fetched}]
    <3>1. [loan[p] EXCEPT ![b] = Fetched] \in Loans
      BY <2>2 DEF Loans
    <3>2. loan' \in [Pieces -> Loans]
      BY <1>14, <2>1, <2>3, <3>1
    <3> QED
      BY <2>1, <2>2, <2>3, <3>2
  <2>5. \A q \in Pieces : \A a \in Blocks(q) :
          loan'[q][a] = Fetched <=> loan[q][a] = Fetched \/ (q = p /\ a = b)
    BY <2>1, <2>3
  <2>6. ~AllFetched(p) /\ p \notin complete /\ ~Checking(p) /\ ~Result(p, 0)
    <3>1. ~AllFetched(p)
      BY <1>14, CacheAssumption DEF AllFetched
    <3> QED
      BY <3>1 DEF CInv, Books
  <2>7. FetchedIsHeld'
    <3> SUFFICES ASSUME NEW q \in Pieces, NEW a \in Blocks(q), loan'[q][a] = Fetched
                 PROVE  q \in complete \/ Held(q, a)' \/ Result(q, 0)'
      BY <1>1 DEF FetchedIsHeld
    <3>1. CASE loan[q][a] = Fetched
      BY <1>3, <1>8, <3>1 DEF CInv, FetchedIsHeld
    <3>2. CASE q = p /\ a = b
      <4>1. Held(p, b)
        <5>1. Result(p, 1) => Result(p, 0)
          BY DEF Result
        <5> QED
          BY <1>7, <2>6, <5>1
      <4>2. Held(q, a)
        BY <3>2, <4>1
      <4> QED
        BY <1>8, <4>2
    <3> QED
      BY <2>5, <3>1, <3>2
  <2>8. \A q \in Pieces : AllFetched(q) => AllFetched(q)'
    BY <2>5 DEF AllFetched
  <2>9. ASSUME ~\A a \in Blocks(p) : loan'[p][a] = Fetched
        PROVE  CInv'
    <3>1. queue' = queue
      BY <1>14, <2>9
    <3>2. complete \subseteq Pieces
      BY DEF Typed
    <3>3. Books'
      BY <1>1, <1>3, <1>10, <2>4, <2>8, <3>1, <3>2 DEF CInv, Books, Checking, IsResult
    <3>4. InTorrent'
      BY <1>1, <1>11, <3>1 DEF CInv, InTorrent
    <3>5. CheckedIsFinished'
      BY <1>1, <3>1 DEF CInv, CheckedIsFinished, InFinished, Checking
    <3> QED
      BY <1>1, <1>9, <1>12, <2>7, <3>3, <3>4, <3>5 DEF CInv
  <2>10. ASSUME \A a \in Blocks(p) : loan'[p][a] = Fetched
         PROVE  CInv'
    <3>1. queue' = Append(queue, VerifyJob(p))
      BY <1>14, <2>10
    <3>2. queue \in Seq(Jobs) /\ complete \subseteq Pieces
      BY DEF Typed
    <3>3. /\ VerifyJob(p) \in Jobs /\ VerifyJob(p).kind = "verify"
          /\ \A q : VerifyJob(q) = VerifyJob(p) => q = p
      <4>1. \A q : VerifyJob(q).piece = q
        BY DEF VerifyJob
      <4>2. VerifyJob(p) \in Jobs /\ VerifyJob(p).kind = "verify"
        BY DEF VerifyJob, Jobs
      <4>3. \A q : VerifyJob(q) = VerifyJob(p) => q = p
        BY <4>1
      <4> QED
        BY <4>2, <4>3
    <3>4. /\ Len(queue) \in Nat /\ Len(queue') = Len(queue) + 1
          /\ \A i \in 1 .. Len(queue) : queue'[i] = queue[i]
          /\ queue'[Len(queue) + 1] = VerifyJob(p)
      BY <3>1, <3>2, <3>3, AppendFacts
    <3>5. \A i \in 1 .. Len(queue') : i \in 1 .. Len(queue) \/ i = Len(queue) + 1
      BY <3>4
    <3>6. \A q : Checking(q)' <=> Checking(q) \/ q = p
      BY <3>3, <3>4, <3>5 DEF Checking
    <3>7. \A i, j \in 1 .. Len(queue') : queue'[i].kind = "verify" /\ queue'[j] = queue'[i] => i = j
      <4>1. \A i \in 1 .. Len(queue) : queue[i] # VerifyJob(p)
        BY <2>6 DEF Checking
      <4>2. \A i, j \in 1 .. Len(queue) : queue[i].kind = "verify" /\ queue[j] = queue[i] => i = j
        BY DEF CInv, Books
      <4> QED
        BY <3>4, <3>5, <4>1, <4>2
    <3>8. Books'
      <4>1. \A q \in Pieces : Checking(q)' \/ Result(q, 0)' => q \notin complete /\ AllFetched(q)'
        <5> SUFFICES ASSUME NEW q \in Pieces, Checking(q)' \/ Result(q, 0)'
                     PROVE  q \notin complete /\ AllFetched(q)'
          OBVIOUS
        <5>1. CASE q = p
          BY <2>6, <2>10, <5>1 DEF AllFetched
        <5>2. CASE q # p
          BY <1>3, <2>8, <3>6, <5>2 DEF CInv, Books
        <5> QED
          BY <5>1, <5>2
      <4>2. \A q \in Pieces : ~(Checking(q)' /\ Result(q, 0)')
        BY <1>3, <2>6, <3>6 DEF CInv, Books
      <4>3. \A q \in complete : AllFetched(q)'
        BY <2>8, <3>2 DEF CInv, Books
      <4> QED
        BY <1>1, <1>10, <2>4, <3>7, <4>1, <4>2, <4>3 DEF Books, IsResult
    <3>9. InTorrent'
      <4>1. \A i \in 1 .. Len(queue') :
              queue'[i].kind = "write" => queue'[i].block \in Blocks(queue'[i].piece)
        BY <3>3, <3>4, <3>5 DEF CInv, InTorrent
      <4> QED
        BY <1>1, <1>11, <4>1 DEF CInv, InTorrent
    <3>10. p \in direct \/ InFinished(p)
      <4>1. \A a \in Blocks(p) : Held(p, a)
        <5> SUFFICES ASSUME NEW a \in Blocks(p)
                     PROVE  Held(p, a)
          OBVIOUS
        <5>1. p \in complete' \/ Held(p, a)' \/ Result(p, 0)'
          BY <2>7, <2>10 DEF FetchedIsHeld
        <5> QED
          BY <1>1, <1>3, <1>8, <2>6, <5>1
      <4>2. p \in DOMAIN unfinished =>
              DOMAIN unfinished[p] \subseteq Blocks(p) /\ DOMAIN unfinished[p] # Blocks(p)
        BY DEF CInv, EntriesInTorrent
      <4> QED
        BY <4>1, <4>2 DEF Held
    <3>11. CheckedIsFinished'
      <4>1. \A q : InFinished(q)' <=> InFinished(q)
        BY <1>1 DEF InFinished
      <4> QED
        BY <1>1, <3>6, <3>10, <4>1 DEF CInv, CheckedIsFinished
    <3> QED
      BY <1>1, <1>9, <1>12, <2>7, <3>8, <3>9, <3>11 DEF CInv
  <2> QED
    BY <2>9, <2>10
<1>15. \/ UNCHANGED <<loan, queue>>
       \/ /\ loan[p][b] = c /\ loan' = [loan EXCEPT ![p][b] = Fetched]
          /\ queue' = IF \A a \in Blocks(p) : loan'[p][a] = Fetched
                        THEN Append(queue, VerifyJob(p))
                        ELSE queue
  BY <1>4, <1>5, <1>6 DEF OnWriteData, ReturnBlock, ledger
<1> QED
  BY <1>13, <1>14, <1>15

LEMMA OnVerifyPieceKept ==
  ASSUME Typed, CInv, OnVerifyPiece
  PROVE  CInv'
<1>1. /\ callbacks # << >> /\ Head(callbacks).kind # "write" /\ callbacks' = Tail(callbacks)
      /\ Verify(Head(callbacks).piece) \/ Restart(Head(callbacks).piece)
      /\ UNCHANGED <<asked, queue, unfinished, finished, direct, spinning>>
  BY DEF OnVerifyPiece, IsFirst, cache, file
<1>2. /\ Head(callbacks) \in Calls /\ Head(callbacks) = callbacks[1] /\ 1 \in 1 .. Len(callbacks)
      /\ Len(callbacks) \in Nat \ {0} /\ Len(callbacks') = Len(callbacks) - 1
      /\ \A i \in 1 .. Len(callbacks') :
           i \in Nat /\ i + 1 \in 1 .. Len(callbacks) /\ callbacks'[i] = callbacks[i + 1]
      /\ \A q : \A n \in Nat : Result(q, n)' <=> Result(q, n + 1)
      /\ \A q : Result(q, 0) => Result(q, 1) \/ (IsResult(1) /\ Head(callbacks).piece = q)
  BY <1>1, TakeCallback
<1>3. PICK p \in Pieces : p = Head(callbacks).piece
  BY <1>2 DEF Calls
<1>4. Result(p, 0) /\ ~Result(p, 1)
  BY <1>1, <1>2, <1>3 DEF CInv, Books, Result, IsResult
<1>5. ~Checking(p) /\ p \notin complete /\ AllFetched(p)
  BY <1>4 DEF CInv, Books
<1>6. \A q : Result(q, 0)' => Result(q, 0) /\ q # p
  <2>1. \A q : Result(q, 0)' <=> Result(q, 0 + 1)
    BY <1>2
  <2>2. \A q : Result(q, 0 + 1) => Result(q, 0)
    BY DEF Result
  <2> QED
    BY <1>4, <2>1, <2>2
<1>7. \A q : q # p /\ Result(q, 0) => Result(q, 0)'
  <2>1. \A q : Result(q, 0)' <=> Result(q, 0 + 1)
    BY <1>2
  <2> QED
    BY <1>2, <1>3, <2>1
<1>8. \A q, a : Held(q, a)' <=> Held(q, a)
  BY <1>1 DEF Held, InFinished
<1>9. WrittenIsHeld'
  <2> SUFFICES ASSUME NEW k \in 1 .. Len(callbacks'), NEW q, NEW a, callbacks'[k].kind = "write",
                      q = callbacks'[k].piece, a = callbacks'[k].block
               PROVE  Held(q, a)' \/ Result(q, k)'
    BY WrittenPrimed
  <2>1. Held(q, a) \/ Result(q, k + 1)
    BY <1>2 DEF CInv, WrittenIsHeld
  <2> QED
    BY <1>2, <1>8, <2>1
<1>10. \A i, j \in 1 .. Len(callbacks') :
         callbacks'[i].kind # "write" /\ callbacks'[j].kind # "write"
           /\ callbacks'[i].piece = callbacks'[j].piece => i = j
  <2> SUFFICES ASSUME NEW i \in 1 .. Len(callbacks'), NEW j \in 1 .. Len(callbacks'),
                      callbacks'[i].kind # "write", callbacks'[j].kind # "write",
                      callbacks'[i].piece = callbacks'[j].piece
               PROVE  i = j
    OBVIOUS
  <2>1. i + 1 = j + 1
    BY <1>2 DEF CInv, Books, IsResult
  <2> QED
    BY <1>2, <2>1
<1>11. InTorrent' /\ EntriesInTorrent' /\ WithinQuota' /\ CheckedIsFinished'
  <2>1. \A i \in 1 .. Len(callbacks') :
          callbacks'[i].kind = "write" => callbacks'[i].block \in Blocks(callbacks'[i].piece)
    BY <1>2 DEF CInv, InTorrent
  <2> QED
    BY <1>1, <2>1 DEF CInv, InTorrent, EntriesInTorrent, WithinQuota, CacheSize, CheckedIsFinished,
       InFinished, Checking
<1>12. \A q : Checking(q)' <=> Checking(q)
  BY <1>1 DEF Checking
<1>13. CASE Verify(p)
  <2>1. complete' = complete \cup {p} /\ loan' = loan
    BY <1>13 DEF Verify
  <2>2. \A q \in Pieces : AllFetched(q)' <=> AllFetched(q)
    BY <2>1 DEF AllFetched
  <2>3. Books'
    <3>1. \A q \in Pieces : Checking(q)' \/ Result(q, 0)' => q \notin complete' /\ AllFetched(q)'
      BY <1>5, <1>6, <1>12, <2>1, <2>2 DEF CInv, Books
    <3>2. \A q \in Pieces : ~(Checking(q)' /\ Result(q, 0)')
      BY <1>6, <1>12 DEF CInv, Books
    <3>3. \A q \in complete' : AllFetched(q)'
      BY <1>5, <2>1, <2>2 DEF CInv, Books, Typed
    <3> QED
      BY <1>1, <1>10, <2>1, <3>1, <3>2, <3>3 DEF CInv, Books, IsResult
  <2>4. FetchedIsHeld'
    <3> SUFFICES ASSUME NEW q \in Pieces, NEW a \in Blocks(q), loan[q][a] = Fetched
                 PROVE  q \in complete' \/ Held(q, a)' \/ Result(q, 0)'
      BY <2>1 DEF FetchedIsHeld
    <3>1. q \in complete \/ Held(q, a) \/ Result(q, 0)
      BY DEF CInv, FetchedIsHeld
    <3>2. q # p => (Result(q, 0) => Result(q, 0)')
      BY <1>7
    <3> QED
      BY <1>8, <2>1, <3>1, <3>2
  <2> QED
    BY <1>1, <1>9, <1>11, <2>3, <2>4 DEF CInv
<1>14. CASE Restart(p)
  <2>1. complete' = complete /\ loan' = [loan EXCEPT ![p] = [b \in Blocks(p) |-> Free]]
    BY <1>14 DEF Restart
  <2>2. /\ loan \in [Pieces -> Loans]
        /\ \A q \in Pieces : loan[q] \in [Blocks(q) -> Clients \cup {Free, Fetched}]
    BY DEF CInv, Books
  <2>3. [b \in Blocks(p) |-> Free] \in [Blocks(p) -> Clients \cup {Free, Fetched}]
    OBVIOUS
  <2>4. /\ loan'[p] = [b \in Blocks(p) |-> Free]
        /\ \A q \in Pieces \ {p} : loan'[q] = loan[q]
    BY <2>1, <2>2
  <2>5. /\ loan' \in [Pieces -> Loans]
        /\ \A q \in Pieces : loan'[q] \in [Blocks(q) -> Clients \cup {Free, Fetched}]
    <3>1. [b \in Blocks(p) |-> Free] \in Loans
      BY <2>3 DEF Loans
    <3>2. loan' \in [Pieces -> Loans]
      BY <2>1, <2>2, <3>1
    <3> QED
      BY <2>2, <2>3, <2>4, <3>2
  <2>6. \A q \in Pieces \ {p} : AllFetched(q)' <=> AllFetched(q)
    BY <2>4 DEF AllFetched
  <2>7. Books'
    <3>1. \A q \in Pieces : Checking(q)' \/ Result(q, 0)' => q \notin complete' /\ AllFetched(q)'
      BY <1>5, <1>6, <1>12, <2>1, <2>6 DEF CInv, Books
    <3>2. \A q \in Pieces : ~(Checking(q)' /\ Result(q, 0)')
      BY <1>6, <1>12 DEF CInv, Books
    <3>3. \A q \in complete' : AllFetched(q)'
      BY <1>5, <2>1, <2>6 DEF CInv, Books, Typed
    <3> QED
      BY <1>1, <1>10, <2>1, <2>5, <3>1, <3>2, <3>3 DEF CInv, Books, IsResult
  <2>8. FetchedIsHeld'
    <3> SUFFICES ASSUME NEW q \in Pieces, NEW a \in Blocks(q), loan'[q][a] = Fetched
                 PROVE  q \in complete \/ Held(q, a)' \/ Result(q, 0)'
      BY <2>1 DEF FetchedIsHeld
    <3>1. q # p /\ loan[q][a] = Fetched
      BY <2>4, CacheAssumption
    <3>2. q \in complete \/ Held(q, a) \/ Result(q, 0)
      BY <3>1 DEF CInv, FetchedIsHeld
    <3>3. Result(q, 0) => Result(q, 0)'
      BY <1>7, <3>1
    <3> QED
      BY <1>8, <3>2, <3>3
  <2> QED
    BY <1>1, <1>9, <1>11, <2>7, <2>8 DEF CInv
<1> QED
  BY <1>1, <1>3, <1>13, <1>14

LEMMA IdleKept ==
  ASSUME CInv, UNCHANGED <<ledger, dvars>>
  PROVE  CInv'
<1>1. UNCHANGED <<loan, complete, asked, queue, callbacks, unfinished, finished, direct, spinning>>
  BY DEF ledger, dvars, cache, file
<1> QED
  BY <1>1 DEF CInv, Books, Checking, Result, IsResult, AllFetched, InTorrent, EntriesInTorrent,
     WithinQuota, CacheSize, WrittenIsHeld, FetchedIsHeld, CheckedIsFinished, Held, InFinished

(* The inductive invariant of the cache. *)
THEOREM CacheInvariant == CacheSpec => [](DiskInv /\ CInv)
<1>1. DiskInv /\ DiskInv' /\ CInv /\ [CacheNext]_<<ledger, dvars>> => CInv'
  <2> SUFFICES ASSUME DiskInv, DiskInv', CInv, [CacheNext]_<<ledger, dvars>>
               PROVE  CInv'
    OBVIOUS
  <2>1. Typed /\ Typed'
    BY DEF DiskInv
  <2>2. CASE WriteData
    BY <2>1, <2>2, WriteDataKept
  <2>3. CASE VerifyPieceInfoHash
    BY <2>1, <2>3, CheckKept
  <2>4. CASE OnWriteData
    BY <2>1, <2>4, OnWriteDataKept
  <2>5. CASE OnVerifyPiece
    BY <2>1, <2>5, OnVerifyPieceKept
  <2>6. ASSUME NEW c \in Clients, NEW p \in Pieces, NEW b \in Blocks(p),
               \/ Request(c, p, b) \/ RepeatRequest(c, p, b)
               \/ GiveUp(c, p, b) \/ AsyncWrite(c, p, b)
        PROVE  CInv'
    BY <2>1, <2>6, RequestsKept, AnswerKept
  <2>7. CASE UNCHANGED <<ledger, dvars>>
    BY <2>7, IdleKept
  <2> QED
    BY <2>2, <2>3, <2>4, <2>5, <2>6, <2>7 DEF CacheNext
<1> QED
  BY <1>1, InitCache, DiskInvariant, PTL DEF CacheSpec

(* What the cache and the picker know of a block agrees, whatever is late, *)
(* lost, double or bad: a block that counts as finished is in the cache    *)
(* until the check of its piece, no entry is empty or has blocks of        *)
(* another piece, and the cache keeps to write_cache_limit_.               *)
THEOREM CacheStaysConsistent == CacheSpec => []CacheConsistent
<1>1. DiskInv /\ CInv => CacheConsistent
  BY CacheSays DEF DiskInv
<1> QED
  BY <1>1, CacheInvariant, PTL

(* The BC_ASSERT of VerifyPieceInfoHash holds: the check finds its piece   *)
(* in finished_write_cache_, unless a block of it went past a full cache.  *)
THEOREM CheckFindsPiece == CacheSpec => []VerifyFindsPiece
<1>1. DiskInv /\ CInv => VerifyFindsPiece
  BY CacheSays DEF DiskInv
<1> QED
  BY <1>1, CacheInvariant, PTL

-----------------------------------------------------------------------------
(* While no request has timed out every block on loan is on its way once:  *)
(* asked for, in a job, or in a callback.                                  *)
WriteAt(i, p, b) == queue[i].kind = "write" /\ queue[i].piece = p /\ queue[i].block = b

DoneAt(i, p, b) == callbacks[i].kind = "write" /\ callbacks[i].piece = p /\ callbacks[i].block = b

Done(p, b) == \E i \in 1 .. Len(callbacks) : DoneAt(i, p, b)

Written(p, b) == loan[p][b] = Fetched \/ Done(p, b)

Once(p, b) ==
  /\ \A c \in Clients : <<c, p, b>> \in asked =>
       /\ loan[p][b] = c
       /\ ~Done(p, b)
       /\ \A i \in 1 .. Len(queue) : ~WriteAt(i, p, b)
  /\ \A i \in 1 .. Len(queue) : WriteAt(i, p, b) =>
       /\ loan[p][b] = queue[i].conn
       /\ ~Done(p, b)
       /\ \A j \in 1 .. Len(queue) : WriteAt(j, p, b) => i = j
  /\ \A i \in 1 .. Len(callbacks) : DoneAt(i, p, b) =>
       /\ loan[p][b] = callbacks[i].conn
       /\ \A j \in 1 .. Len(callbacks) : DoneAt(j, p, b) => i = j

OnceOnItsWay == \A p \in Pieces : \A b \in Blocks(p) : Once(p, b)

(* What is in the cache has been written; a full entry has its check or    *)
(* its last callbacks ahead of it; a piece with a block past the cache     *)
(* never fills an entry.                                                   *)
Partial == \A p \in Pieces : p \in DOMAIN unfinished => \A b \in DOMAIN unfinished[p] : Written(p, b)

Full ==
  \A p \in Pieces : InFinished(p) =>
    /\ p \notin direct /\ p \notin DOMAIN unfinished
    /\ \A b \in Blocks(p) : Written(p, b)
    /\ AllFetched(p) => Checking(p)

Settled ==
  \A p \in Pieces : Result(p, 0) => p \notin direct /\ p \notin DOMAIN unfinished /\ ~InFinished(p)

Short(p) ==
  \E b \in Blocks(p) : Written(p, b) /\ (p \in DOMAIN unfinished => b \notin DOMAIN unfinished[p])

PastCache == \A p \in Pieces : p \in direct => Short(p)

(* The entries are in the order in which the checks of their pieces are    *)
(* queued, now or when the last callback of the piece is taken.            *)
CheckedBefore(p, q) ==
  \A n \in 1 .. Len(queue) : queue[n] = VerifyJob(q) =>
    \E m \in 1 .. Len(queue) : m < n /\ queue[m] = VerifyJob(p)

DoneBefore(p, q) ==
  \A n \in 1 .. Len(callbacks) : \A b \in Blocks(p) : DoneAt(n, p, b) =>
    \E m \in 1 .. Len(callbacks) : \E a \in Blocks(q) : n < m /\ DoneAt(m, q, a)

Before(p, q) == p # q /\ CheckedBefore(p, q) /\ DoneBefore(p, q)

InOrder ==
  \A i, j \in 1 .. Len(finished) : \A p, q :
    i < j /\ p = finished[i].piece /\ q = finished[j].piece => Before(p, q)

FlushInv == OnceOnItsWay /\ Partial /\ Full /\ Settled /\ PastCache /\ InOrder /\ ~spinning

WhileNoneLost == lost \in Nat /\ (lost = 0 => FlushInv)

(* What a queue or the callbacks keep when the first one is taken, and     *)
(* when one is put behind the others.                                      *)
LEMMA JobTaken ==
  ASSUME queue \in Seq(Jobs), queue # << >>, queue' = Tail(queue)
  PROVE  /\ \A p : Checking(p)' => Checking(p)
         /\ \A p : queue[1] # VerifyJob(p) /\ Checking(p) => Checking(p)'
         /\ \A p, q : queue[1] # VerifyJob(p) /\ CheckedBefore(p, q) => CheckedBefore(p, q)'
         /\ \A i \in 1 .. Len(queue') : i + 1 \in 1 .. Len(queue) /\ queue'[i] = queue[i + 1]
<1>1. /\ Len(queue) \in Nat \ {0} /\ Len(queue') = Len(queue) - 1
      /\ \A i \in 1 .. Len(queue') : i + 1 \in 1 .. Len(queue) /\ queue'[i] = queue[i + 1]
  BY TailFacts
<1>2. \A i \in 1 .. Len(queue) : i = 1 \/ (i - 1 \in 1 .. Len(queue') /\ queue'[i - 1] = queue[i])
  <2> SUFFICES ASSUME NEW i \in 1 .. Len(queue), i # 1
               PROVE  i - 1 \in 1 .. Len(queue') /\ queue'[i - 1] = queue[i]
    OBVIOUS
  <2>1. i - 1 \in 1 .. Len(queue') /\ i - 1 + 1 = i
    BY <1>1
  <2> QED
    BY <1>1, <2>1
<1>3. ASSUME NEW p, NEW q, queue[1] # VerifyJob(p), CheckedBefore(p, q)
      PROVE  CheckedBefore(p, q)'
  <2> SUFFICES ASSUME NEW n \in 1 .. Len(queue'), queue'[n] = VerifyJob(q)
               PROVE  \E m \in 1 .. Len(queue') : m < n /\ queue'[m] = VerifyJob(p)
    BY DEF CheckedBefore, VerifyJob
  <2>1. n + 1 \in 1 .. Len(queue) /\ queue[n + 1] = VerifyJob(q)
    BY <1>1
  <2>2. PICK m \in 1 .. Len(queue) : m < n + 1 /\ queue[m] = VerifyJob(p)
    BY <1>3, <2>1 DEF CheckedBefore
  <2>3. m - 1 \in 1 .. Len(queue') /\ queue'[m - 1] = VerifyJob(p)
    BY <1>2, <1>3, <2>2
  <2> QED
    BY <1>1, <2>2, <2>3
<1> QED
  BY <1>1, <1>2, <1>3 DEF Checking

LEMMA JobPut ==
  ASSUME queue \in Seq(Jobs), NEW x \in Jobs, queue' = Append(queue, x)
  PROVE  /\ \A p : Checking(p)' <=> Checking(p) \/ x = VerifyJob(p)
         /\ \A p, q : CheckedBefore(p, q) /\ (x # VerifyJob(q) \/ Checking(p)) => CheckedBefore(p, q)'
         /\ \A i \in 1 .. Len(queue') : \/ i \in 1 .. Len(queue) /\ queue'[i] = queue[i]
                                        \/ i = Len(queue) + 1 /\ queue'[i] = x
<1>1. /\ Len(queue) \in Nat /\ Len(queue') = Len(queue) + 1
      /\ \A i \in 1 .. Len(queue) : queue'[i] = queue[i]
      /\ queue'[Len(queue) + 1] = x
  BY AppendFacts
<1>2. \A i \in 1 .. Len(queue') : \/ i \in 1 .. Len(queue) /\ queue'[i] = queue[i]
                                  \/ i = Len(queue) + 1 /\ queue'[i] = x
  BY <1>1
<1>3. 1 .. Len(queue) \subseteq 1 .. Len(queue') /\ Len(queue) + 1 \in 1 .. Len(queue')
  BY <1>1
<1>4. \A p : Checking(p)' <=> Checking(p) \/ x = VerifyJob(p)
  BY <1>1, <1>2, <1>3 DEF Checking
<1>5. ASSUME NEW p, NEW q, CheckedBefore(p, q), x # VerifyJob(q) \/ Checking(p)
      PROVE  CheckedBefore(p, q)'
  <2> SUFFICES ASSUME NEW n \in 1 .. Len(queue'), queue'[n] = VerifyJob(q)
               PROVE  \E m \in 1 .. Len(queue') : m < n /\ queue'[m] = VerifyJob(p)
    BY DEF CheckedBefore, VerifyJob
  <2>1. \E m \in 1 .. Len(queue) : m < n /\ queue[m] = VerifyJob(p)
    <3>1. CASE n \in 1 .. Len(queue)
      BY <1>1, <1>5, <3>1 DEF CheckedBefore
    <3>2. CASE n = Len(queue) + 1
      <4>1. Checking(p)
        BY <1>1, <1>5, <3>2
      <4> QED
        BY <1>1, <3>2, <4>1 DEF Checking
    <3> QED
      BY <1>2, <3>1, <3>2
  <2> QED
    BY <1>1, <1>3, <2>1
<1> QED
  BY <1>2, <1>4, <1>5

LEMMA CallTaken ==
  ASSUME callbacks \in Seq(Calls), callbacks # << >>, callbacks' = Tail(callbacks)
  PROVE  /\ \A p, b : Done(p, b)' => Done(p, b)
         /\ \A p, b : ~DoneAt(1, p, b) /\ Done(p, b) => Done(p, b)'
         /\ \A p, q : DoneBefore(p, q) => DoneBefore(p, q)'
         /\ \A p : Result(p, 0)' => Result(p, 0)
         /\ \A i \in 1 .. Len(callbacks') :
              i + 1 \in 1 .. Len(callbacks) /\ callbacks'[i] = callbacks[i + 1]
<1>1. /\ Len(callbacks) \in Nat \ {0} /\ Len(callbacks') = Len(callbacks) - 1
      /\ \A i \in 1 .. Len(callbacks') : i + 1 \in 1 .. Len(callbacks) /\ callbacks'[i] = callbacks[i + 1]
  BY TailFacts
<1>2. \A i \in 1 .. Len(callbacks) :
        i = 1 \/ (i - 1 \in 1 .. Len(callbacks') /\ callbacks'[i - 1] = callbacks[i])
  <2> SUFFICES ASSUME NEW i \in 1 .. Len(callbacks), i # 1
               PROVE  i - 1 \in 1 .. Len(callbacks') /\ callbacks'[i - 1] = callbacks[i]
    OBVIOUS
  <2>1. i - 1 \in 1 .. Len(callbacks') /\ i - 1 + 1 = i
    BY <1>1
  <2> QED
    BY <1>1, <2>1
<1>3. ASSUME NEW p, NEW q, DoneBefore(p, q)
      PROVE  DoneBefore(p, q)'
  <2> SUFFICES ASSUME NEW n \in 1 .. Len(callbacks'), NEW b \in Blocks(p), DoneAt(n, p, b)'
               PROVE  \E m \in 1 .. Len(callbacks') : \E a \in Blocks(q) : n < m /\ DoneAt(m, q, a)'
    BY DEF DoneBefore
  <2>1. n + 1 \in 1 .. Len(callbacks) /\ DoneAt(n + 1, p, b)
    BY <1>1 DEF DoneAt
  <2>2. PICK m \in 1 .. Len(callbacks) : \E a \in Blocks(q) : n + 1 < m /\ DoneAt(m, q, a)
    BY <1>3, <2>1 DEF DoneBefore
  <2>3. m - 1 \in 1 .. Len(callbacks') /\ callbacks'[m - 1] = callbacks[m] /\ n < m - 1
    BY <1>1, <1>2, <2>2
  <2> QED
    BY <2>2, <2>3 DEF DoneAt
<1>4. \A p : Result(p, 0)' => Result(p, 0)
  BY <1>1 DEF Result, IsResult
<1>5. \A p, b : Done(p, b)' => Done(p, b)
  BY <1>1 DEF Done, DoneAt
<1>6. ASSUME NEW p, NEW b, ~DoneAt(1, p, b), Done(p, b)
      PROVE  Done(p, b)'
  <2>1. PICK i \in 1 .. Len(callbacks) : DoneAt(i, p, b)
    BY <1>6 DEF Done
  <2>2. i - 1 \in 1 .. Len(callbacks') /\ callbacks'[i - 1] = callbacks[i]
    BY <1>2, <1>6, <2>1
  <2> QED
    BY <2>1, <2>2 DEF Done, DoneAt
<1> QED
  BY <1>1, <1>3, <1>4, <1>5, <1>6

LEMMA CallPut ==
  ASSUME callbacks \in Seq(Calls), NEW x \in Calls, callbacks' = Append(callbacks, x)
  PROVE  /\ \A p, b : Done(p, b)' <=>
              Done(p, b) \/ (x.kind = "write" /\ x.piece = p /\ x.block = b)
         /\ \A p, q : DoneBefore(p, q) /\ (x.kind = "write" => x.piece # p) => DoneBefore(p, q)'
         /\ \A p : Result(p, 0)' <=> Result(p, 0) \/ (x.kind # "write" /\ x.piece = p)
         /\ Len(callbacks) \in Nat /\ Len(callbacks) + 1 \in 1 .. Len(callbacks')
         /\ \A i \in 1 .. Len(callbacks') : \/ i \in 1 .. Len(callbacks) /\ callbacks'[i] = callbacks[i]
                                            \/ i = Len(callbacks) + 1 /\ callbacks'[i] = x
<1>1. /\ Len(callbacks) \in Nat /\ Len(callbacks') = Len(callbacks) + 1
      /\ \A i \in 1 .. Len(callbacks) : callbacks'[i] = callbacks[i]
      /\ callbacks'[Len(callbacks) + 1] = x
  BY AppendFacts
<1>2. \A i \in 1 .. Len(callbacks') : \/ i \in 1 .. Len(callbacks) /\ callbacks'[i] = callbacks[i]
                                      \/ i = Len(callbacks) + 1 /\ callbacks'[i] = x
  BY <1>1
<1>3. 1 .. Len(callbacks) \subseteq 1 .. Len(callbacks') /\ Len(callbacks) + 1 \in 1 .. Len(callbacks')
  BY <1>1
<1>4. \A p, b : Done(p, b)' <=> Done(p, b) \/ (x.kind = "write" /\ x.piece = p /\ x.block = b)
  BY <1>1, <1>2, <1>3 DEF Done, DoneAt
<1>5. ASSUME NEW p, NEW q, DoneBefore(p, q), x.kind = "write" => x.piece # p
      PROVE  DoneBefore(p, q)'
  <2> SUFFICES ASSUME NEW n \in 1 .. Len(callbacks'), NEW b \in Blocks(p), DoneAt(n, p, b)'
               PROVE  \E m \in 1 .. Len(callbacks') : \E a \in Blocks(q) : n < m /\ DoneAt(m, q, a)'
    BY DEF DoneBefore
  <2>1. n \in 1 .. Len(callbacks) /\ DoneAt(n, p, b)
    BY <1>2, <1>5 DEF DoneAt
  <2>2. PICK m \in 1 .. Len(callbacks) : \E a \in Blocks(q) : n < m /\ DoneAt(m, q, a)
    BY <1>5, <2>1 DEF DoneBefore
  <2> QED
    BY <1>1, <1>3, <2>2 DEF DoneAt
<1>6. \A p : Result(p, 0)' <=> Result(p, 0) \/ (x.kind # "write" /\ x.piece = p)
  BY <1>1, <1>2, <1>3 DEF Result, IsResult
<1> QED
  BY <1>1, <1>2, <1>3, <1>4, <1>5, <1>6

(* What the invariant says of a block that is on its way.                  *)
LEMMA OnLoan ==
  ASSUME Typed, CInv, FlushInv
  PROVE  /\ \A p \in Pieces : \A b \in Blocks(p) : \A c \in Clients :
              <<c, p, b>> \in asked => loan[p][b] \notin {Free, Fetched} /\ ~Written(p, b)
         /\ \A p \in Pieces : \A b \in Blocks(p) : \A i \in 1 .. Len(queue) :
              WriteAt(i, p, b) => loan[p][b] \notin {Free, Fetched} /\ ~Written(p, b)
         /\ \A p \in Pieces : \A b \in Blocks(p) : Done(p, b) => loan[p][b] \notin {Free, Fetched}
<1>1. \A i \in 1 .. Len(queue) : queue[i].kind = "write" => queue[i].conn \in Clients
  BY DEF Typed, Jobs
<1>2. \A i \in 1 .. Len(callbacks) : callbacks[i].kind = "write" => callbacks[i].conn \in Clients
  BY DEF Typed, Calls
<1>3. \A p \in Pieces : \A b \in Blocks(p) : Done(p, b) => loan[p][b] \notin {Free, Fetched}
  BY <1>2, CacheAssumption DEF Done, DoneAt, FlushInv, OnceOnItsWay, Once
<1>4. \A p \in Pieces : \A b \in Blocks(p) : \A i \in 1 .. Len(queue) :
        WriteAt(i, p, b) => loan[p][b] \notin {Free, Fetched} /\ ~Written(p, b)
  BY <1>1, CacheAssumption DEF WriteAt, Written, FlushInv, OnceOnItsWay, Once
<1>5. \A p \in Pieces : \A b \in Blocks(p) : \A c \in Clients :
        <<c, p, b>> \in asked => loan[p][b] \notin {Free, Fetched} /\ ~Written(p, b)
  BY CacheAssumption DEF Written, FlushInv, OnceOnItsWay, Once
<1> QED
  BY <1>3, <1>4, <1>5

LEMMA RequestInOrder ==
  ASSUME Typed, CInv, FlushInv, NEW c \in Clients, NEW p \in Pieces, NEW b \in Blocks(p),
         Request(c, p, b)
  PROVE  FlushInv'
<1>1. /\ loan[p][b] = Free /\ loan' = [loan EXCEPT ![p][b] = c] /\ asked' = asked \cup {<<c, p, b>>}
      /\ UNCHANGED <<queue, callbacks, unfinished, finished, direct, spinning>>
  BY DEF Request, LendBlock, cache, file
<1>2. /\ loan \in [Pieces -> Loans]
      /\ \A q \in Pieces : loan[q] \in [Blocks(q) -> Clients \cup {Free, Fetched}]
  BY DEF CInv, Books
<1>3. /\ loan'[p][b] = c
      /\ \A q \in Pieces : \A a \in Blocks(q) : ~(q = p /\ a = b) => loan'[q][a] = loan[q][a]
  BY <1>1, <1>2
<1>4. \A q \in Pieces : \A a \in Blocks(q) : loan'[q][a] = Fetched <=> loan[q][a] = Fetched
  BY <1>1, <1>3, CacheAssumption
<1>5. \A q, a : (Done(q, a)' <=> Done(q, a)) /\ \A i : (WriteAt(i, q, a)' <=> WriteAt(i, q, a))
                                               /\ (DoneAt(i, q, a)' <=> DoneAt(i, q, a))
  BY <1>1 DEF Done, DoneAt, WriteAt
<1>6. \A q \in Pieces : \A a \in Blocks(q) : Written(q, a)' <=> Written(q, a)
  BY <1>4, <1>5 DEF Written
<1>7. \A q \in Pieces : AllFetched(q)' <=> AllFetched(q)
  BY <1>4 DEF AllFetched
<1>8. OnceOnItsWay'
  <2> SUFFICES ASSUME NEW q \in Pieces, NEW a \in Blocks(q)
               PROVE  Once(q, a)'
    BY DEF OnceOnItsWay
  <2>1. Once(q, a)
    BY DEF FlushInv, OnceOnItsWay
  <2>2. CASE ~(q = p /\ a = b)
    <3>1. \A k \in Clients : <<k, q, a>> \in asked' => <<k, q, a>> \in asked
      BY <1>1, <2>2
    <3>2. loan'[q][a] = loan[q][a]
      BY <1>3, <2>2
    <3> QED
      BY <1>1, <1>5, <2>1, <3>1, <3>2 DEF Once
  <2>3. CASE q = p /\ a = b
    <3>1. ~Done(p, b) /\ \A i \in 1 .. Len(queue) : ~WriteAt(i, p, b)
      BY <1>1, OnLoan
    <3>2. \A k \in Clients : <<k, p, b>> \in asked' => k = c
      BY <1>1, OnLoan
    <3>3. \A i \in 1 .. Len(callbacks) : ~DoneAt(i, p, b)
      BY <3>1 DEF Done
    <3> QED
      BY <1>1, <1>3, <1>5, <2>3, <3>1, <3>2, <3>3 DEF Once
  <2> QED
    BY <2>2, <2>3
<1>9. /\ \A q : (InFinished(q)' <=> InFinished(q)) /\ (Checking(q)' <=> Checking(q))
      /\ \A q : Result(q, 0)' <=> Result(q, 0)
  BY <1>1 DEF InFinished, Checking, Result, IsResult
<1>10. Partial' /\ Full' /\ Settled' /\ PastCache'
  <2>1. Partial'
    <3>1. \A q \in DOMAIN unfinished : DOMAIN unfinished[q] \subseteq Blocks(q)
      BY DEF CInv, EntriesInTorrent
    <3> QED
      BY <1>1, <1>6, <3>1 DEF FlushInv, Partial
  <2>2. Full'
    BY <1>1, <1>6, <1>7, <1>9 DEF FlushInv, Full
  <2>3. Settled'
    BY <1>1, <1>9 DEF FlushInv, Settled
  <2>4. PastCache'
    BY <1>1, <1>6 DEF FlushInv, PastCache, Short
  <2> QED
    BY <2>1, <2>2, <2>3, <2>4
<1>11. InOrder'
  <2>1. \A q, r : (CheckedBefore(q, r)' <=> CheckedBefore(q, r)) /\ (DoneBefore(q, r)' <=> DoneBefore(q, r))
    BY <1>1 DEF CheckedBefore, DoneBefore, DoneAt
  <2>2. \A q, r : Before(q, r)' <=> Before(q, r)
    BY <2>1 DEF Before
  <2> QED
    BY <1>1, <2>2 DEF FlushInv, InOrder
<1> QED
  BY <1>1, <1>8, <1>10, <1>11 DEF FlushInv

LEMMA AnswerInOrder ==
  ASSUME Typed, CInv, FlushInv, NEW c \in Clients, NEW p \in Pieces, NEW b \in Blocks(p),
         AsyncWrite(c, p, b)
  PROVE  FlushInv'
<1>1. /\ <<c, p, b>> \in asked /\ asked' = asked \ {<<c, p, b>>}
      /\ UNCHANGED <<loan, callbacks, unfinished, finished, direct, spinning>>
  BY DEF AsyncWrite, ledger, cache, file
<1>2. PICK x \in Jobs : /\ queue' = Append(queue, x)
                        /\ x.kind = "write" /\ x.conn = c /\ x.piece = p /\ x.block = b
  <2>1. PICK d \in Data : queue' = Append(queue, WriteJob(c, p, b, d))
    BY DEF AsyncWrite
  <2>2. WriteJob(c, p, b, d) \in Jobs
    BY PiecesFinite DEF WriteJob, Jobs
  <2> QED
    BY <2>1, <2>2 DEF WriteJob
<1>3. /\ \A q : Checking(q)' <=> Checking(q)
      /\ \A q, r : CheckedBefore(q, r) => CheckedBefore(q, r)'
      /\ \A i \in 1 .. Len(queue') : \/ i \in 1 .. Len(queue) /\ queue'[i] = queue[i]
                                     \/ i = Len(queue) + 1 /\ queue'[i] = x
  <2>1. \A q : x # VerifyJob(q)
    <3>1. \A q : VerifyJob(q).kind = "verify"
      BY DEF VerifyJob
    <3> QED
      BY <1>2, <3>1
  <2>2. queue \in Seq(Jobs)
    BY DEF Typed
  <2> QED
    BY <1>2, <2>1, <2>2, JobPut
<1>4. \A q, a : (Done(q, a)' <=> Done(q, a)) /\ (Written(q, a)' <=> Written(q, a))
  BY <1>1 DEF Done, DoneAt, Written
<1>5. OnceOnItsWay'
  <2> SUFFICES ASSUME NEW q \in Pieces, NEW a \in Blocks(q)
               PROVE  Once(q, a)'
    BY DEF OnceOnItsWay
  <2>1. Once(q, a)
    BY DEF FlushInv, OnceOnItsWay
  <2>2. \A i \in 1 .. Len(queue') :
          WriteAt(i, q, a)' => \/ i \in 1 .. Len(queue) /\ WriteAt(i, q, a) /\ queue'[i] = queue[i]
                               \/ i = Len(queue) + 1 /\ q = p /\ a = b /\ queue'[i].conn = c
    BY <1>2, <1>3 DEF WriteAt
  <2>3. \A i \in 1 .. Len(callbacks) : DoneAt(i, q, a)' <=> DoneAt(i, q, a)
    BY <1>1 DEF DoneAt
  <2>4. CASE ~(q = p /\ a = b)
    BY <1>1, <1>4, <2>1, <2>2, <2>3, <2>4 DEF Once
  <2>5. CASE q = p /\ a = b
    <3>1. /\ loan[p][b] = c /\ ~Done(p, b)
          /\ \A i \in 1 .. Len(queue) : ~WriteAt(i, p, b)
      BY <1>1, <2>1, <2>5 DEF Once
    <3>2. \A k \in Clients : <<k, p, b>> \notin asked'
      BY <1>1, <2>1, <2>5, <3>1 DEF Once
    <3>3. \A i \in 1 .. Len(callbacks) : ~DoneAt(i, p, b)
      BY <3>1 DEF Done
    <3> QED
      BY <1>1, <1>4, <2>2, <2>3, <2>5, <3>1, <3>2, <3>3 DEF Once
  <2> QED
    BY <2>4, <2>5
<1>6. /\ \A q : (InFinished(q)' <=> InFinished(q)) /\ (AllFetched(q)' <=> AllFetched(q))
      /\ \A q : Result(q, 0)' <=> Result(q, 0)
  BY <1>1 DEF InFinished, AllFetched, Result, IsResult
<1>7. Partial' /\ Full' /\ Settled' /\ PastCache'
  BY <1>1, <1>3, <1>4, <1>6 DEF FlushInv, Partial, Full, Settled, PastCache, Short
<1>8. InOrder'
  <2>1. \A q, r : DoneBefore(q, r)' <=> DoneBefore(q, r)
    BY <1>1 DEF DoneBefore, DoneAt
  <2> QED
    BY <1>1, <1>3, <2>1 DEF FlushInv, InOrder, Before
<1> QED
  BY <1>1, <1>5, <1>7, <1>8 DEF FlushInv

(* The block that is written comes for the first time: it goes into the    *)
(* entry of its piece, into a new one, or past the cache.                  *)
LEMMA AddBlockInOrder ==
  ASSUME Typed, CInv, FlushInv, NEW p \in Pieces, NEW b \in Blocks(p), NEW d \in Data,
         AddBlock(p, b, d), ~Written(p, b),
         UNCHANGED loan, \A q : Checking(q)' <=> Checking(q), \A q : Result(q, 0)' <=> Result(q, 0),
         \A q \in Pieces : \A a \in Blocks(q) : Written(q, a)' <=> Written(q, a) \/ (q = p /\ a = b)
  PROVE  /\ Partial' /\ Full' /\ Settled' /\ PastCache'
         /\ ~InFinished(p)
         /\ \/ finished' = finished
            \/ \E e \in Entries : e.piece = p /\ finished' = Append(finished, e)
<1> DEFINE entry == IF p \in DOMAIN unfinished THEN unfinished[p] ELSE Empty
           grown == With(entry, b, d)
<1>0. /\ finished \in Seq(Entries) /\ DOMAIN unfinished \subseteq Pieces
      /\ \A q \in Pieces : AllFetched(q)' <=> AllFetched(q)
  BY DEF Typed, AllFetched
<1>1. /\ ~AllFetched(p) /\ ~Checking(p) /\ ~Result(p, 0) /\ ~InFinished(p)
      /\ p \in DOMAIN unfinished => b \notin DOMAIN unfinished[p]
  <2>1. ~AllFetched(p)
    BY DEF AllFetched, Written
  <2> QED
    BY <2>1 DEF CInv, Books, FlushInv, Full, Partial
<1>2. /\ b \notin DOMAIN entry /\ DOMAIN grown = DOMAIN entry \cup {b}
      /\ p \in DOMAIN unfinished => DOMAIN entry = DOMAIN unfinished[p]
      /\ p \notin DOMAIN unfinished => DOMAIN entry = {}
  BY <1>1 DEF With, Empty
<1>3. \A q \in DOMAIN unfinished : DOMAIN unfinished[q] \subseteq Blocks(q)
  BY DEF CInv, EntriesInTorrent
<1>4. \A q \in Pieces : \A a \in Blocks(q) : Written(q, a) => Written(q, a)'
  OBVIOUS
<1>5. Written(p, b)'
  OBVIOUS
<1>6. CASE p \notin DOMAIN unfinished /\ direct' = direct \cup {p} /\ UNCHANGED cache
  <2>1. UNCHANGED <<unfinished, finished>>
    BY <1>6 DEF cache
  <2>2. \A q : InFinished(q)' <=> InFinished(q)
    BY <2>1 DEF InFinished
  <2>3. Partial'
    BY <1>3, <1>4, <2>1 DEF FlushInv, Partial
  <2>4. Full'
    BY <1>0, <1>1, <1>4, <1>6, <2>1, <2>2 DEF FlushInv, Full
  <2>5. Settled'
    BY <1>1, <1>6, <2>1, <2>2 DEF FlushInv, Settled
  <2>6. PastCache'
    <3>1. \A q \in Pieces : Short(q) => Short(q)'
      BY <1>4, <2>1 DEF Short
    <3>2. Short(p)'
      BY <1>5, <1>6, <2>1 DEF Short
    <3> QED
      BY <1>6, <3>1, <3>2 DEF FlushInv, PastCache
  <2> QED
    BY <1>1, <2>1, <2>3, <2>4, <2>5, <2>6
<1>7. ASSUME UNCHANGED file, DOMAIN grown = Blocks(p),
             unfinished' = [q \in DOMAIN unfinished \ {p} |-> unfinished[q]],
             finished' = Append(finished, [piece |-> p, blocks |-> grown])
      PROVE  /\ Partial' /\ Full' /\ Settled' /\ PastCache'
             /\ \E e \in Entries : e.piece = p /\ finished' = Append(finished, e)
  <2> DEFINE e == [piece |-> p, blocks |-> grown]
  <2>1. direct' = direct
    BY <1>7 DEF file
  <2>2. e.piece = p /\ finished' = Append(finished, e) /\ e \in Entries
    <3>1. b \in Int
      BY PiecesFinite
    <3>2. entry \in BlockMap
      <4>1. Empty \in [{} -> Data]
        BY DEF Empty
      <4>2. PICK T \in SUBSET Pieces : unfinished \in [T -> BlockMap]
        BY DEF Typed
      <4> QED
        BY <4>1, <4>2 DEF BlockMap
    <3>3. grown \in BlockMap
      BY <3>1, <3>2, WithTyped DEF BlockMap
    <3> QED
      BY <1>7, <3>3 DEF Entries
  <2> HIDE DEF e
  <2>3. /\ DOMAIN unfinished' = DOMAIN unfinished \ {p}
        /\ \A q \in DOMAIN unfinished \ {p} : unfinished'[q] = unfinished[q]
    BY <1>7
  <2>4. \A q : InFinished(q)' <=> InFinished(q) \/ q = p
    <3>1. /\ Len(finished) \in Nat /\ Len(finished') = Len(finished) + 1
          /\ \A i \in 1 .. Len(finished) : finished'[i] = finished[i]
          /\ finished'[Len(finished) + 1] = e
      BY <1>0, <2>2, AppendFacts
    <3>2. \A i \in 1 .. Len(finished') : i \in 1 .. Len(finished) \/ i = Len(finished) + 1
      BY <3>1
    <3>3. 1 .. Len(finished) \subseteq 1 .. Len(finished') /\ Len(finished) + 1 \in 1 .. Len(finished')
      BY <3>1
    <3> QED
      BY <2>2, <3>1, <3>2, <3>3 DEF InFinished
  <2> HIDE DEF grown, entry
  <2>5. p \notin direct
    BY <1>2, <1>7 DEF FlushInv, PastCache, Short
  <2>6. \A a \in Blocks(p) : Written(p, a)'
    <3>1. \A a \in Blocks(p) : a = b \/ (p \in DOMAIN unfinished /\ a \in DOMAIN unfinished[p])
      BY <1>2, <1>7
    <3> QED
      BY <1>4, <1>5, <3>1 DEF FlushInv, Partial
  <2>7. Partial'
    BY <1>0, <1>3, <1>4, <2>3 DEF FlushInv, Partial
  <2>8. Full'
    BY <1>0, <1>1, <1>4, <2>1, <2>3, <2>4, <2>5, <2>6 DEF FlushInv, Full
  <2>9. Settled'
    BY <1>1, <2>1, <2>3, <2>4 DEF FlushInv, Settled
  <2>10. PastCache'
    <3>1. \A q \in Pieces : Short(q) => Short(q)'
      BY <1>4, <2>3 DEF Short
    <3> QED
      BY <2>1, <3>1 DEF FlushInv, PastCache
  <2> QED
    BY <2>2, <2>7, <2>8, <2>9, <2>10
<1>8. ASSUME UNCHANGED file, unfinished' = With(unfinished, p, grown), finished' = finished
      PROVE  Partial' /\ Full' /\ Settled' /\ PastCache'
  <2> HIDE DEF grown, entry
  <2>1. direct' = direct
    BY <1>8 DEF file
  <2>2. /\ DOMAIN unfinished' = DOMAIN unfinished \cup {p} /\ unfinished'[p] = grown
        /\ \A q \in DOMAIN unfinished \ {p} : unfinished'[q] = unfinished[q]
    BY <1>8 DEF With
  <2>3. \A q : InFinished(q)' <=> InFinished(q)
    BY <1>8 DEF InFinished
  <2>4. Partial'
    <3>1. \A a \in DOMAIN grown : Written(p, a)'
      BY <1>2, <1>3, <1>4, <1>5 DEF FlushInv, Partial
    <3>2. \A q \in Pieces \ {p} : q \in DOMAIN unfinished =>
            \A a \in DOMAIN unfinished[q] : Written(q, a)'
      BY <1>3, <1>4 DEF FlushInv, Partial
    <3> QED
      BY <2>2, <3>1, <3>2 DEF Partial
  <2>5. Full'
    BY <1>0, <1>1, <1>4, <2>1, <2>2, <2>3 DEF FlushInv, Full
  <2>6. Settled'
    BY <1>1, <2>1, <2>2, <2>3 DEF FlushInv, Settled
  <2>7. PastCache'
    <3>1. \A q \in Pieces : Short(q) => Short(q)'
      <4> SUFFICES ASSUME NEW q \in Pieces, Short(q)
                   PROVE  Short(q)'
        OBVIOUS
      <4>1. PICK a \in Blocks(q) : Written(q, a) /\ (q \in DOMAIN unfinished => a \notin DOMAIN unfinished[q])
        BY DEF Short
      <4>2. q = p => a # b
        BY <4>1
      <4>3. q \in DOMAIN unfinished' => a \notin DOMAIN unfinished'[q]
        BY <1>2, <2>2, <4>1, <4>2
      <4> QED
        BY <1>4, <4>1, <4>3 DEF Short
    <3> QED
      BY <2>1, <3>1 DEF FlushInv, PastCache
  <2> QED
    BY <2>4, <2>5, <2>6, <2>7
<1> HIDE DEF grown, entry
<1>9. \/ p \notin DOMAIN unfinished /\ direct' = direct \cup {p} /\ UNCHANGED cache
      \/ /\ UNCHANGED file
         /\ IF DOMAIN grown = Blocks(p)
              THEN /\ unfinished' = [q \in DOMAIN unfinished \ {p} |-> unfinished[q]]
                   /\ finished' = Append(finished, [piece |-> p, blocks |-> grown])
              ELSE /\ unfinished' = With(unfinished, p, grown)
                   /\ UNCHANGED finished
  BY <1>2 DEF AddBlock, grown, entry
<1> QED
  BY <1>1, <1>6, <1>7, <1>8, <1>9 DEF cache

LEMMA WriteInOrder ==
  ASSUME Typed, CInv, FlushInv, WriteData
  PROVE  FlushInv'
<1> DEFINE job == Head(queue)
           done == [job EXCEPT !.data = "done"]
<1>1. /\ queue # << >> /\ job.kind = "write" /\ queue' = Tail(queue)
      /\ AddBlock(job.piece, job.block, job.data)
      /\ callbacks' = Append(callbacks, done)
      /\ UNCHANGED <<loan, asked, spinning>>
  BY DEF WriteData, IsFirst, ledger
<1>2. queue \in Seq(Jobs) /\ callbacks \in Seq(Calls) /\ finished \in Seq(Entries)
  BY DEF Typed
<1>3. job \in Jobs /\ job = queue[1] /\ 1 \in 1 .. Len(queue)
  BY <1>1, <1>2, TailFacts
<1> HIDE DEF job, done
<1>4. job \in [kind : {"write"}, conn : Clients, piece : Pieces, block : Int, data : Data]
  BY <1>1, <1>3 DEF Jobs
<1>5. /\ done \in Calls /\ done.kind = "write" /\ done.conn = job.conn
      /\ done.piece = job.piece /\ done.block = job.block
      /\ job.piece \in Pieces /\ job.data \in Data
  BY <1>4 DEF done, Calls
<1>6. PICK p \in Pieces : p = job.piece
  BY <1>5
<1>7. PICK b \in Blocks(p) : b = job.block
  BY <1>1, <1>3, <1>6 DEF CInv, InTorrent
<1>8. WriteAt(1, p, b) /\ ~Written(p, b) /\ loan[p][b] = job.conn /\ ~Done(p, b)
  <2>1. WriteAt(1, p, b)
    BY <1>1, <1>3, <1>6, <1>7 DEF WriteAt
  <2>2. ~Written(p, b)
    BY <1>3, <2>1, OnLoan
  <2>3. loan[p][b] = job.conn
    BY <1>3, <2>1 DEF FlushInv, OnceOnItsWay, Once
  <2> QED
    BY <2>1, <2>2, <2>3 DEF Written
<1>9. \A q : queue[1] # VerifyJob(q)
  <2>1. \A q : VerifyJob(q).kind = "verify"
    BY DEF VerifyJob
  <2> QED
    BY <1>1, <1>3, <2>1
<1>10. /\ \A q : Checking(q)' <=> Checking(q)
       /\ \A q, r : CheckedBefore(q, r) => CheckedBefore(q, r)'
       /\ \A i \in 1 .. Len(queue') : i + 1 \in 1 .. Len(queue) /\ queue'[i] = queue[i + 1]
  BY <1>1, <1>2, <1>9, JobTaken
<1>11. /\ \A q, a : Done(q, a)' <=> Done(q, a) \/ (q = p /\ a = b)
       /\ \A q, r : DoneBefore(q, r) /\ q # p => DoneBefore(q, r)'
       /\ \A q : Result(q, 0)' <=> Result(q, 0)
       /\ Len(callbacks) \in Nat /\ Len(callbacks) + 1 \in 1 .. Len(callbacks')
       /\ \A i \in 1 .. Len(callbacks') :
            \/ i \in 1 .. Len(callbacks) /\ callbacks'[i] = callbacks[i]
            \/ i = Len(callbacks) + 1 /\ callbacks'[i] = done
  <2>1. /\ \A q, a : Done(q, a)' <=>
             Done(q, a) \/ (done.kind = "write" /\ done.piece = q /\ done.block = a)
        /\ \A q, r : DoneBefore(q, r) /\ (done.kind = "write" => done.piece # q) => DoneBefore(q, r)'
        /\ \A q : Result(q, 0)' <=> Result(q, 0) \/ (done.kind # "write" /\ done.piece = q)
        /\ Len(callbacks) \in Nat /\ Len(callbacks) + 1 \in 1 .. Len(callbacks')
        /\ \A i \in 1 .. Len(callbacks') :
             \/ i \in 1 .. Len(callbacks) /\ callbacks'[i] = callbacks[i]
             \/ i = Len(callbacks) + 1 /\ callbacks'[i] = done
    BY <1>1, <1>2, <1>5, CallPut
  <2> QED
    BY <1>5, <1>6, <1>7, <2>1
<1>12. \A q \in Pieces : \A a \in Blocks(q) : Written(q, a)' <=> Written(q, a) \/ (q = p /\ a = b)
  BY <1>1, <1>11 DEF Written
<1>13. OnceOnItsWay'
  <2> SUFFICES ASSUME NEW q \in Pieces, NEW a \in Blocks(q)
               PROVE  Once(q, a)'
    BY DEF OnceOnItsWay
  <2>1. Once(q, a)
    BY DEF FlushInv, OnceOnItsWay
  <2>2. \A i \in 1 .. Len(queue') : WriteAt(i, q, a)' =>
          i \in Int /\ i + 1 \in 1 .. Len(queue) /\ WriteAt(i + 1, q, a) /\ queue'[i] = queue[i + 1]
    BY <1>10 DEF WriteAt
  <2>3. \A i \in 1 .. Len(callbacks') : DoneAt(i, q, a)' =>
          \/ i \in 1 .. Len(callbacks) /\ DoneAt(i, q, a) /\ callbacks'[i] = callbacks[i]
          \/ i = Len(callbacks) + 1 /\ q = p /\ a = b /\ callbacks'[i] = done
    BY <1>5, <1>6, <1>7, <1>11 DEF DoneAt
  <2>4. CASE ~(q = p /\ a = b)
    <3>1. \A c \in Clients : <<c, q, a>> \in asked' =>
            loan'[q][a] = c /\ ~Done(q, a)' /\ \A i \in 1 .. Len(queue') : ~WriteAt(i, q, a)'
      BY <1>1, <1>11, <2>1, <2>2, <2>4 DEF Once
    <3>2. \A i \in 1 .. Len(queue') : WriteAt(i, q, a)' =>
            /\ loan'[q][a] = queue'[i].conn /\ ~Done(q, a)'
            /\ \A j \in 1 .. Len(queue') : WriteAt(j, q, a)' => i = j
      <4> SUFFICES ASSUME NEW i \in 1 .. Len(queue'), WriteAt(i, q, a)'
                   PROVE  /\ loan'[q][a] = queue'[i].conn /\ ~Done(q, a)'
                          /\ \A j \in 1 .. Len(queue') : WriteAt(j, q, a)' => i = j
        OBVIOUS
      <4>1. /\ loan[q][a] = queue[i + 1].conn /\ ~Done(q, a)
            /\ \A j \in 1 .. Len(queue) : WriteAt(j, q, a) => i + 1 = j
        BY <2>1, <2>2 DEF Once
      <4>2. \A j \in 1 .. Len(queue') : WriteAt(j, q, a)' => i + 1 = j + 1
        BY <2>2, <4>1
      <4> QED
        BY <1>1, <1>11, <2>2, <2>4, <4>1, <4>2
    <3>3. \A i \in 1 .. Len(callbacks') : DoneAt(i, q, a)' =>
            /\ loan'[q][a] = callbacks'[i].conn
            /\ \A j \in 1 .. Len(callbacks') : DoneAt(j, q, a)' => i = j
      BY <1>1, <2>1, <2>3, <2>4 DEF Once
    <3> QED
      BY <3>1, <3>2, <3>3 DEF Once
  <2>5. CASE q = p /\ a = b
    <3>1. \A c \in Clients : <<c, p, b>> \notin asked'
      BY <1>1, <1>3, <1>8, <2>1, <2>5 DEF Once
    <3>2. \A i \in 1 .. Len(queue') : ~WriteAt(i, p, b)'
      <4> SUFFICES ASSUME NEW i \in 1 .. Len(queue'), WriteAt(i, p, b)'
                   PROVE  FALSE
        OBVIOUS
      <4>1. 1 = i + 1
        BY <1>3, <1>8, <2>1, <2>2, <2>5 DEF Once
      <4> QED
        BY <4>1
    <3>3. \A i \in 1 .. Len(callbacks) : ~DoneAt(i, p, b)
      BY <1>8 DEF Done
    <3> QED
      BY <1>1, <1>5, <1>8, <2>3, <2>5, <3>1, <3>2, <3>3 DEF Once
  <2> QED
    BY <2>4, <2>5
<1>14. /\ Partial' /\ Full' /\ Settled' /\ PastCache'
       /\ ~InFinished(p)
       /\ \/ finished' = finished
          \/ \E e \in Entries : e.piece = p /\ finished' = Append(finished, e)
  BY <1>1, <1>5, <1>6, <1>7, <1>8, <1>10, <1>11, <1>12, AddBlockInOrder
<1>15. ASSUME NEW i \in 1 .. Len(finished), NEW j \in 1 .. Len(finished), i < j,
              NEW q, NEW r, q = finished[i].piece, r = finished[j].piece
       PROVE  Before(q, r)'
  <2>1. q # r /\ CheckedBefore(q, r) /\ DoneBefore(q, r)
    BY <1>15 DEF FlushInv, InOrder, Before
  <2>2. q # p
    BY <1>14, <1>15 DEF InFinished
  <2> QED
    BY <1>10, <1>11, <2>1, <2>2 DEF Before
<1>16. ASSUME NEW i \in 1 .. Len(finished), NEW q, q = finished[i].piece,
              \E e \in Entries : e.piece = p /\ finished' = Append(finished, e)
       PROVE  Before(q, p)'
  <2>1. q # p
    BY <1>14, <1>16 DEF InFinished
  <2>2. CheckedBefore(q, p)'
    <3>1. ~Checking(p)'
      BY <1>8, <1>10 DEF CInv, Books, AllFetched, Written
    <3> QED
      BY <3>1 DEF Checking, CheckedBefore
  <2>3. DoneBefore(q, p)'
    <3> SUFFICES ASSUME NEW n \in 1 .. Len(callbacks'), NEW x \in Blocks(q), DoneAt(n, q, x)'
                 PROVE  \E m \in 1 .. Len(callbacks') : \E a \in Blocks(p) : n < m /\ DoneAt(m, p, a)'
      BY DEF DoneBefore
    <3>1. n \in 1 .. Len(callbacks)
      BY <1>5, <1>6, <1>11, <2>1 DEF DoneAt
    <3>2. PICK l \in 1 .. Len(callbacks') : l = Len(callbacks) + 1
      BY <1>11
    <3>3. callbacks'[l] = done /\ n < l
      BY <1>11, <3>1, <3>2
    <3>4. DoneAt(l, p, b)'
      BY <1>5, <1>6, <1>7, <3>3 DEF DoneAt
    <3> QED
      BY <3>3, <3>4
  <2> QED
    BY <2>1, <2>2, <2>3 DEF Before
<1>17. InOrder'
  <2> SUFFICES ASSUME NEW i \in 1 .. Len(finished'), NEW j \in 1 .. Len(finished'), i < j,
                      NEW q, NEW r, q = finished'[i].piece, r = finished'[j].piece
               PROVE  Before(q, r)'
    BY DEF InOrder
  <2>1. CASE finished' = finished
    BY <1>15, <2>1
  <2>2. ASSUME NEW e \in Entries, e.piece = p, finished' = Append(finished, e)
        PROVE  Before(q, r)'
    <3>1. /\ Len(finished) \in Nat /\ Len(finished') = Len(finished) + 1
          /\ \A k \in 1 .. Len(finished) : finished'[k] = finished[k]
          /\ finished'[Len(finished) + 1] = e
      BY <1>2, <2>2, AppendFacts
    <3>2. i \in 1 .. Len(finished) /\ q = finished[i].piece
      BY <3>1
    <3>3. CASE j \in 1 .. Len(finished)
      <4>1. r = finished[j].piece
        BY <3>1, <3>3
      <4> QED
        BY <1>15, <3>2, <3>3, <4>1
    <3>4. CASE j = Len(finished) + 1
      <4>1. r = p
        BY <2>2, <3>1, <3>4
      <4> QED
        BY <1>16, <2>2, <3>2, <4>1
    <3> QED
      BY <3>1, <3>3, <3>4
  <2> QED
    BY <1>14, <2>1, <2>2
<1> QED
  BY <1>1, <1>13, <1>14, <1>17 DEF FlushInv

(* A written block whose callback is taken counts as fetched: the last one *)
(* of a piece queues its check behind those of the pieces before it.       *)
LEMMA FetchInOrder ==
  ASSUME Typed, CInv, FlushInv, OnWriteData
  PROVE  FlushInv'
<1>1. /\ callbacks # << >> /\ Head(callbacks).kind = "write" /\ callbacks' = Tail(callbacks)
      /\ UNCHANGED <<asked, unfinished, finished, direct, spinning>>
  BY DEF OnWriteData, IsFirst, cache, file
<1>2. callbacks \in Seq(Calls) /\ queue \in Seq(Jobs)
  BY DEF Typed
<1>3. Head(callbacks) = callbacks[1] /\ 1 \in 1 .. Len(callbacks) /\ Head(callbacks) \in Calls
  BY <1>1, <1>2, TailFacts
<1>4. PICK p \in Pieces : p = Head(callbacks).piece
  BY <1>3 DEF Calls
<1>5. PICK b \in Blocks(p) : b = Head(callbacks).block
  BY <1>1, <1>3, <1>4 DEF CInv, InTorrent
<1>6. DoneAt(1, p, b) /\ Done(p, b) /\ loan[p][b] = Head(callbacks).conn
  <2>1. DoneAt(1, p, b)
    BY <1>1, <1>3, <1>4, <1>5 DEF DoneAt
  <2> QED
    BY <1>3, <2>1 DEF Done, FlushInv, OnceOnItsWay, Once
<1>7. /\ loan' = [loan EXCEPT ![p][b] = Fetched]
      /\ queue' = IF \A a \in Blocks(p) : loan'[p][a] = Fetched
                    THEN Append(queue, VerifyJob(p))
                    ELSE queue
  BY <1>4, <1>5, <1>6 DEF OnWriteData, ReturnBlock
<1>8. /\ loan'[p][b] = Fetched
      /\ \A q \in Pieces : \A a \in Blocks(q) : ~(q = p /\ a = b) => loan'[q][a] = loan[q][a]
  <2>1. /\ loan \in [Pieces -> Loans]
        /\ \A q \in Pieces : loan[q] \in [Blocks(q) -> Clients \cup {Free, Fetched}]
    BY DEF CInv, Books
  <2> QED
    BY <1>7, <2>1
<1>9. /\ \A q, a : Done(q, a)' => Done(q, a)
      /\ \A q, a : ~DoneAt(1, q, a) /\ Done(q, a) => Done(q, a)'
      /\ \A q, r : DoneBefore(q, r) => DoneBefore(q, r)'
      /\ \A q : Result(q, 0)' => Result(q, 0)
      /\ \A i \in 1 .. Len(callbacks') :
           i + 1 \in 1 .. Len(callbacks) /\ callbacks'[i] = callbacks[i + 1]
  BY <1>1, <1>2, CallTaken
<1>10. \A q \in Pieces : \A a \in Blocks(q) : Written(q, a)' <=> Written(q, a)
  <2> SUFFICES ASSUME NEW q \in Pieces, NEW a \in Blocks(q)
               PROVE  Written(q, a)' <=> Written(q, a)
    OBVIOUS
  <2>1. CASE q = p /\ a = b
    BY <1>6, <1>8, <2>1 DEF Written
  <2>2. CASE ~(q = p /\ a = b)
    <3>1. ~DoneAt(1, q, a)
      BY <1>6, <2>2 DEF DoneAt
    <3> QED
      BY <1>8, <1>9, <2>2, <3>1 DEF Written
  <2> QED
    BY <2>1, <2>2
<1>11. \/ queue' = queue /\ ~AllFetched(p)'
       \/ /\ queue' = Append(queue, VerifyJob(p)) /\ VerifyJob(p) \in Jobs /\ AllFetched(p)'
  <2>1. VerifyJob(p) \in Jobs
    BY DEF VerifyJob, Jobs
  <2> QED
    BY <1>7, <2>1 DEF AllFetched
<1>12. /\ \A q : Checking(q) => Checking(q)'
       /\ AllFetched(p)' => Checking(p)'
       /\ \A q, r : CheckedBefore(q, r) /\ (r # p \/ ~AllFetched(p)' \/ Checking(q)) => CheckedBefore(q, r)'
       /\ \A i \in 1 .. Len(queue') : queue'[i].kind = "write" =>
            i \in 1 .. Len(queue) /\ queue'[i] = queue[i]
  <2>1. CASE queue' = queue /\ ~AllFetched(p)'
    BY <2>1 DEF Checking, CheckedBefore
  <2>2. CASE queue' = Append(queue, VerifyJob(p)) /\ VerifyJob(p) \in Jobs /\ AllFetched(p)'
    <3>1. VerifyJob(p).kind = "verify" /\ \A r : VerifyJob(p) = VerifyJob(r) => r = p
      <4>1. \A r : VerifyJob(r).piece = r
        BY DEF VerifyJob
      <4>2. VerifyJob(p).kind = "verify"
        BY DEF VerifyJob
      <4> QED
        BY <4>1, <4>2
    <3> DEFINE x == VerifyJob(p)
    <3>2. x \in Jobs /\ queue' = Append(queue, x)
      BY <2>2
    <3> HIDE DEF x
    <3>3. /\ \A q : Checking(q)' <=> Checking(q) \/ x = VerifyJob(q)
          /\ \A q, r : CheckedBefore(q, r) /\ (x # VerifyJob(r) \/ Checking(q)) => CheckedBefore(q, r)'
          /\ \A i \in 1 .. Len(queue') : \/ i \in 1 .. Len(queue) /\ queue'[i] = queue[i]
                                         \/ i = Len(queue) + 1 /\ queue'[i] = x
      BY <1>2, <3>2, JobPut
    <3>4. \A q, r : CheckedBefore(q, r) /\ (r # p \/ Checking(q)) => CheckedBefore(q, r)'
      BY <3>1, <3>3 DEF x
    <3>5. \A i \in 1 .. Len(queue') : queue'[i].kind = "write" =>
            i \in 1 .. Len(queue) /\ queue'[i] = queue[i]
      BY <3>1, <3>3 DEF x
    <3> QED
      BY <2>2, <3>3, <3>4, <3>5 DEF x
  <2> QED
    BY <1>11, <2>1, <2>2
<1>13. OnceOnItsWay'
  <2> SUFFICES ASSUME NEW q \in Pieces, NEW a \in Blocks(q)
               PROVE  Once(q, a)'
    BY DEF OnceOnItsWay
  <2>1. Once(q, a)
    BY DEF FlushInv, OnceOnItsWay
  <2>2. \A i \in 1 .. Len(queue') : WriteAt(i, q, a)' =>
          i \in 1 .. Len(queue) /\ WriteAt(i, q, a) /\ queue'[i] = queue[i]
    BY <1>12 DEF WriteAt
  <2>3. \A i \in 1 .. Len(callbacks') : DoneAt(i, q, a)' =>
          i \in Int /\ i + 1 \in 1 .. Len(callbacks) /\ DoneAt(i + 1, q, a) /\ callbacks'[i] = callbacks[i + 1]
    BY <1>9 DEF DoneAt
  <2>4. \A i \in 1 .. Len(callbacks'), j \in 1 .. Len(callbacks') :
          DoneAt(i, q, a)' /\ DoneAt(j, q, a)' => i = j
    <3> SUFFICES ASSUME NEW i \in 1 .. Len(callbacks'), NEW j \in 1 .. Len(callbacks'),
                        DoneAt(i, q, a)', DoneAt(j, q, a)'
                 PROVE  i = j
      OBVIOUS
    <3>1. i + 1 = j + 1
      BY <2>1, <2>3 DEF Once
    <3> QED
      BY <2>3, <3>1
  <2>5. CASE ~(q = p /\ a = b)
    <3>1. loan'[q][a] = loan[q][a]
      BY <1>8, <2>5
    <3>2. \A i \in 1 .. Len(callbacks') : DoneAt(i, q, a)' => loan'[q][a] = callbacks'[i].conn
      BY <2>1, <2>3, <3>1 DEF Once
    <3>3. \A c \in Clients : <<c, q, a>> \in asked' =>
            loan'[q][a] = c /\ ~Done(q, a)' /\ \A i \in 1 .. Len(queue') : ~WriteAt(i, q, a)'
      BY <1>1, <1>9, <2>1, <2>2, <3>1 DEF Once
    <3>4. \A i \in 1 .. Len(queue') : WriteAt(i, q, a)' =>
            /\ loan'[q][a] = queue'[i].conn /\ ~Done(q, a)'
            /\ \A j \in 1 .. Len(queue') : WriteAt(j, q, a)' => i = j
      BY <1>9, <2>1, <2>2, <3>1 DEF Once
    <3> QED
      BY <2>4, <3>2, <3>3, <3>4 DEF Once
  <2>6. CASE q = p /\ a = b
    <3>1. \A i \in 1 .. Len(callbacks') : ~DoneAt(i, p, b)'
      <4> SUFFICES ASSUME NEW i \in 1 .. Len(callbacks'), DoneAt(i, p, b)'
                   PROVE  FALSE
        OBVIOUS
      <4>1. i + 1 = 1 /\ i \in 1 .. Len(callbacks')
        BY <1>3, <1>6, <2>1, <2>3, <2>6 DEF Once
      <4> QED
        BY <4>1
    <3>2. \A i \in 1 .. Len(queue') : ~WriteAt(i, p, b)'
      BY <1>6, <2>1, <2>2, <2>6 DEF Once
    <3>3. \A c \in Clients : <<c, p, b>> \notin asked'
      BY <1>1, <1>6, <2>1, <2>6 DEF Once
    <3> QED
      BY <2>6, <3>1, <3>2, <3>3 DEF Once
  <2> QED
    BY <2>5, <2>6
<1>14. \A q : InFinished(q)' <=> InFinished(q)
  BY <1>1 DEF InFinished
<1>15. Partial' /\ Full' /\ Settled' /\ PastCache'
  <2>1. \A q \in DOMAIN unfinished : DOMAIN unfinished[q] \subseteq Blocks(q)
    BY DEF CInv, EntriesInTorrent
  <2>2. Partial'
    BY <1>1, <1>10, <2>1 DEF FlushInv, Partial
  <2>3. \A q \in Pieces : q # p => (AllFetched(q)' <=> AllFetched(q))
    BY <1>8 DEF AllFetched
  <2>4. Full'
    BY <1>1, <1>10, <1>12, <1>14, <2>3 DEF FlushInv, Full
  <2>5. Settled'
    BY <1>1, <1>9, <1>14 DEF FlushInv, Settled
  <2>6. PastCache'
    BY <1>1, <1>10 DEF FlushInv, PastCache, Short
  <2> QED
    BY <2>2, <2>4, <2>5, <2>6
<1>16. ASSUME NEW q \in Pieces, InFinished(q), DoneBefore(q, p), AllFetched(p)'
       PROVE  Checking(q)
  <2>1. \A a \in Blocks(p) : Done(p, a) => a = b
    BY <1>8, <1>16, OnLoan DEF AllFetched
  <2>2. ASSUME NEW n \in 1 .. Len(callbacks), NEW x \in Blocks(q), DoneAt(n, q, x)
        PROVE  FALSE
    <3>1. PICK m \in 1 .. Len(callbacks) : \E a \in Blocks(p) : n < m /\ DoneAt(m, p, a)
      BY <1>16, <2>2 DEF DoneBefore
    <3>2. DoneAt(m, p, b) /\ n < m
      BY <2>1, <3>1 DEF Done
    <3>3. m = 1
      BY <1>3, <1>6, <3>2 DEF FlushInv, OnceOnItsWay, Once
    <3> QED
      BY <3>2, <3>3
  <2>3. \A x \in Blocks(q) : ~Done(q, x)
    BY <2>2 DEF Done
  <2> QED
    BY <1>16, <2>3 DEF FlushInv, Full, AllFetched, Written
<1>17. InOrder'
  <2> SUFFICES ASSUME NEW i \in 1 .. Len(finished'), NEW j \in 1 .. Len(finished'), i < j,
                      NEW q, NEW r, q = finished'[i].piece, r = finished'[j].piece
               PROVE  Before(q, r)'
    BY DEF InOrder
  <2>1. Before(q, r) /\ InFinished(q) /\ q \in Pieces
    <3>1. /\ i \in 1 .. Len(finished) /\ j \in 1 .. Len(finished)
          /\ q = finished[i].piece /\ r = finished[j].piece
      BY <1>1
    <3>2. Before(q, r)
      BY <3>1 DEF FlushInv, InOrder
    <3>3. finished[i] \in Entries
      BY <3>1 DEF Typed
    <3> QED
      BY <3>1, <3>2, <3>3 DEF InFinished, Entries
  <2>2. DoneBefore(q, r)'
    BY <1>9, <2>1 DEF Before
  <2>3. r # p \/ ~AllFetched(p)' \/ Checking(q)
    BY <1>16, <2>1 DEF Before
  <2>4. CheckedBefore(q, r)'
    BY <1>12, <2>1, <2>3 DEF Before
  <2> QED
    BY <2>1, <2>2, <2>4 DEF Before
<1> QED
  BY <1>1, <1>13, <1>15, <1>17 DEF FlushInv

(* The entry of the check that is due is the first one of the list.        *)
LEMMA CheckFindsFirst ==
  ASSUME Typed, CInv, FlushInv, VerifyPieceInfoHash
  PROVE  spinning' = FALSE
<1> DEFINE p == Head(queue).piece
<1>1. queue \in Seq(Jobs) /\ queue # << >> /\ Head(queue).kind = "verify" /\ finished \in Seq(Entries)
  BY DEF VerifyPieceInfoHash, IsFirst, Typed
<1>2. queue[1] = VerifyJob(p) /\ 1 \in 1 .. Len(queue)
  <2>1. Head(queue) \in Jobs /\ Head(queue) = queue[1] /\ 1 \in 1 .. Len(queue)
    BY <1>1, TailFacts
  <2> QED
    BY <1>1, <2>1 DEF Jobs, VerifyJob
<1>3. PICK i \in 1 .. Len(finished) : finished[i].piece = p
  <2>1. FirstEntry(p) # 0
    BY DEF VerifyPieceInfoHash
  <2> DEFINE I == {k \in 1 .. Len(finished) : finished[k].piece = p}
  <2>2. I # {}
    BY <2>1 DEF FirstEntry, SelectInSeq
  <2> QED
    BY <2>2
<1>4. Head(finished) = finished[1] /\ 1 \in 1 .. Len(finished)
  BY <1>1, <1>3
<1> HIDE DEF p
<1>5. Head(finished).piece = p
  <2>1. CASE i = 1
    BY <1>3, <1>4, <2>1
  <2>2. CASE i # 1
    <3>1. CheckedBefore(finished[1].piece, p)
      BY <1>3, <1>4, <2>2 DEF FlushInv, InOrder, Before
    <3>2. PICK m \in 1 .. Len(queue) : m < 1
      BY <1>2, <3>1 DEF CheckedBefore
    <3> QED
      BY <3>2
  <2> QED
    BY <2>1, <2>2
<1>6. ~spinning
  BY DEF VerifyPieceInfoHash
<1> QED
  BY <1>5, <1>6 DEF VerifyPieceInfoHash, FlushWriteCache, p, CInv

LEMMA VerifyInOrder ==
  ASSUME Typed, CInv, FlushInv, VerifyPieceInfoHash
  PROVE  FlushInv'
<1>0. queue \in Seq(Jobs) /\ callbacks \in Seq(Calls) /\ finished \in Seq(Entries)
  BY DEF Typed
<1>1. spinning' = FALSE
  BY CheckFindsFirst
<1>2. PICK p \in Pieces :
        /\ queue # << >> /\ Head(queue) = VerifyJob(p) /\ queue' = Tail(queue)
        /\ UNCHANGED <<loan, complete, asked, unfinished, direct>>
        /\ \E m \in Calls : /\ m.kind # "write" /\ m.piece = p
                            /\ callbacks' = Append(callbacks, m)
        /\ \E i \in 1 .. Len(finished) :
             /\ finished[i].piece = p
             /\ Len(finished') = Len(finished) - 1
             /\ \A k \in 1 .. Len(finished) - 1 :
                  finished'[k] = IF k < i THEN finished[k] ELSE finished[k + 1]
  BY <1>1, VerifyTakes
<1>3. PICK m \in Calls : m.kind # "write" /\ m.piece = p /\ callbacks' = Append(callbacks, m)
  BY <1>2
<1>4. PICK i \in 1 .. Len(finished) :
        /\ finished[i].piece = p
        /\ Len(finished') = Len(finished) - 1
        /\ \A k \in 1 .. Len(finished) - 1 :
             finished'[k] = IF k < i THEN finished[k] ELSE finished[k + 1]
  BY <1>2
<1>5. queue[1] = VerifyJob(p) /\ 1 \in 1 .. Len(queue)
  BY <1>0, <1>2, TailFacts
<1>6. \A q : VerifyJob(q).kind = "verify" /\ VerifyJob(q).piece = q
  BY DEF VerifyJob
<1>7. /\ \A q : q # p /\ Checking(q) => Checking(q)'
      /\ \A q, r : q # p /\ CheckedBefore(q, r) => CheckedBefore(q, r)'
      /\ \A k \in 1 .. Len(queue') : k + 1 \in 1 .. Len(queue) /\ queue'[k] = queue[k + 1]
  <2>1. \A q : q # p => queue[1] # VerifyJob(q)
    BY <1>5, <1>6
  <2> QED
    BY <1>0, <1>2, <2>1, JobTaken
<1>8. /\ \A q, a : Done(q, a)' <=> Done(q, a)
      /\ \A q, r : DoneBefore(q, r) => DoneBefore(q, r)'
      /\ \A q : Result(q, 0)' <=> Result(q, 0) \/ q = p
      /\ \A k \in 1 .. Len(callbacks') :
           \/ k \in 1 .. Len(callbacks) /\ callbacks'[k] = callbacks[k]
           \/ k = Len(callbacks) + 1 /\ callbacks'[k] = m
  <2>1. /\ \A q, a : Done(q, a)' <=>
             Done(q, a) \/ (m.kind = "write" /\ m.piece = q /\ m.block = a)
        /\ \A q, r : DoneBefore(q, r) /\ (m.kind = "write" => m.piece # q) => DoneBefore(q, r)'
        /\ \A q : Result(q, 0)' <=> Result(q, 0) \/ (m.kind # "write" /\ m.piece = q)
        /\ \A k \in 1 .. Len(callbacks') :
             \/ k \in 1 .. Len(callbacks) /\ callbacks'[k] = callbacks[k]
             \/ k = Len(callbacks) + 1 /\ callbacks'[k] = m
    BY <1>0, <1>3, CallPut
  <2> QED
    BY <1>3, <2>1
<1>9. \A q, a : Written(q, a)' <=> Written(q, a)
  BY <1>2, <1>8 DEF Written
<1>10. OnceOnItsWay'
  <2> SUFFICES ASSUME NEW q \in Pieces, NEW a \in Blocks(q)
               PROVE  Once(q, a)'
    BY DEF OnceOnItsWay
  <2>1. Once(q, a)
    BY DEF FlushInv, OnceOnItsWay
  <2>2. \A k \in 1 .. Len(queue') : WriteAt(k, q, a)' =>
          k \in Int /\ k + 1 \in 1 .. Len(queue) /\ WriteAt(k + 1, q, a) /\ queue'[k] = queue[k + 1]
    BY <1>7 DEF WriteAt
  <2>3. \A k \in 1 .. Len(callbacks') : DoneAt(k, q, a)' =>
          k \in 1 .. Len(callbacks) /\ DoneAt(k, q, a) /\ callbacks'[k] = callbacks[k]
    BY <1>3, <1>8 DEF DoneAt
  <2>4. \A c \in Clients : <<c, q, a>> \in asked' =>
          loan'[q][a] = c /\ ~Done(q, a)' /\ \A k \in 1 .. Len(queue') : ~WriteAt(k, q, a)'
    BY <1>2, <1>8, <2>1, <2>2 DEF Once
  <2>5. \A k \in 1 .. Len(queue') : WriteAt(k, q, a)' =>
          /\ loan'[q][a] = queue'[k].conn /\ ~Done(q, a)'
          /\ \A j \in 1 .. Len(queue') : WriteAt(j, q, a)' => k = j
    <3> SUFFICES ASSUME NEW k \in 1 .. Len(queue'), WriteAt(k, q, a)'
                 PROVE  /\ loan'[q][a] = queue'[k].conn /\ ~Done(q, a)'
                        /\ \A j \in 1 .. Len(queue') : WriteAt(j, q, a)' => k = j
      OBVIOUS
    <3>1. /\ loan[q][a] = queue[k + 1].conn /\ ~Done(q, a)
          /\ \A j \in 1 .. Len(queue) : WriteAt(j, q, a) => k + 1 = j
      BY <2>1, <2>2 DEF Once
    <3>2. \A j \in 1 .. Len(queue') : WriteAt(j, q, a)' => k + 1 = j + 1
      BY <2>2, <3>1
    <3> QED
      BY <1>2, <1>8, <2>2, <3>1, <3>2
  <2>6. \A k \in 1 .. Len(callbacks') : DoneAt(k, q, a)' =>
          /\ loan'[q][a] = callbacks'[k].conn
          /\ \A j \in 1 .. Len(callbacks') : DoneAt(j, q, a)' => k = j
    BY <1>2, <2>1, <2>3 DEF Once
  <2> QED
    BY <2>4, <2>5, <2>6 DEF Once
<1>11. ASSUME NEW k \in 1 .. Len(finished')
       PROVE  \E l \in 1 .. Len(finished) : finished'[k] = finished[l] /\ l # i /\ k <= l /\ l <= k + 1
                                            /\ (k >= i => l = k + 1) /\ (k < i => l = k)
  <2>1. Len(finished) \in Nat \ {0} /\ k \in 1 .. Len(finished) - 1
    BY <1>0, <1>4
  <2>2. CASE k < i
    BY <1>4, <2>1, <2>2
  <2>3. CASE ~(k < i)
    <3>1. k + 1 \in 1 .. Len(finished) /\ finished'[k] = finished[k + 1]
      BY <1>4, <2>1, <2>3
    <3> QED
      BY <2>1, <2>3, <3>1
  <2> QED
    BY <2>2, <2>3
<1>12. \A l \in 1 .. Len(finished) : l # i => finished[l].piece # p
  <2> SUFFICES ASSUME NEW l \in 1 .. Len(finished), l # i
               PROVE  finished[l].piece # p
    OBVIOUS
  <2>1. i < l \/ l < i
    OBVIOUS
  <2> QED
    BY <1>4, <2>1 DEF FlushInv, InOrder, Before
<1>13. \A q : InFinished(q)' => InFinished(q) /\ q # p
  BY <1>11, <1>12 DEF InFinished
<1>14. Partial' /\ Full' /\ Settled' /\ PastCache'
  <2>1. \A q : AllFetched(q)' <=> AllFetched(q)
    BY <1>2 DEF AllFetched
  <2>2. Partial'
    BY <1>2, <1>9 DEF FlushInv, Partial
  <2>3. Full'
    BY <1>2, <1>7, <1>9, <1>13, <2>1 DEF FlushInv, Full
  <2>4. Settled'
    <3>1. InFinished(p)
      BY <1>4 DEF InFinished
    <3> QED
      BY <1>2, <1>8, <1>13, <3>1 DEF FlushInv, Settled, Full
  <2>5. PastCache'
    BY <1>2, <1>9 DEF FlushInv, PastCache, Short
  <2> QED
    BY <2>2, <2>3, <2>4, <2>5
<1>15. InOrder'
  <2> SUFFICES ASSUME NEW k \in 1 .. Len(finished'), NEW l \in 1 .. Len(finished'), k < l,
                      NEW q, NEW r, q = finished'[k].piece, r = finished'[l].piece
               PROVE  Before(q, r)'
    BY DEF InOrder
  <2>1. PICK x \in 1 .. Len(finished) :
          finished'[k] = finished[x] /\ x # i /\ k <= x /\ x <= k + 1
            /\ (k >= i => x = k + 1) /\ (k < i => x = k)
    BY <1>11
  <2>2. PICK y \in 1 .. Len(finished) :
          finished'[l] = finished[y] /\ y # i /\ l <= y /\ y <= l + 1
            /\ (l >= i => y = l + 1) /\ (l < i => y = l)
    BY <1>11
  <2>3. x < y
    BY <2>1, <2>2
  <2>4. Before(q, r) /\ q # p
    BY <1>12, <2>1, <2>2, <2>3 DEF FlushInv, InOrder
  <2> QED
    BY <1>7, <1>8, <2>4 DEF Before
<1> QED
  BY <1>1, <1>10, <1>14, <1>15 DEF FlushInv

(* The result of a check: of its piece nothing is on its way or in the     *)
(* cache any more.                                                         *)
LEMMA ResultInOrder ==
  ASSUME Typed, CInv, FlushInv, OnVerifyPiece
  PROVE  FlushInv'
<1>1. /\ callbacks # << >> /\ Head(callbacks).kind # "write" /\ callbacks' = Tail(callbacks)
      /\ Verify(Head(callbacks).piece) \/ Restart(Head(callbacks).piece)
      /\ UNCHANGED <<asked, queue, unfinished, finished, direct, spinning>>
  BY DEF OnVerifyPiece, IsFirst, cache, file
<1>2. callbacks \in Seq(Calls)
  BY DEF Typed
<1>3. Head(callbacks) = callbacks[1] /\ 1 \in 1 .. Len(callbacks) /\ Head(callbacks) \in Calls
  BY <1>1, <1>2, TailFacts
<1>4. PICK p \in Pieces : p = Head(callbacks).piece
  BY <1>3 DEF Calls
<1>5. Result(p, 0)
  BY <1>1, <1>3, <1>4 DEF Result, IsResult
<1>6. p \notin direct /\ p \notin DOMAIN unfinished /\ ~InFinished(p) /\ AllFetched(p)
  BY <1>5 DEF FlushInv, Settled, CInv, Books
<1>7. /\ \A q \in Pieces : q # p => loan'[q] = loan[q]
      /\ loan'[p] = loan[p] \/ loan'[p] = [b \in Blocks(p) |-> Free]
  BY <1>1, <1>4 DEF Verify, Restart, CInv, Books
<1>8. /\ \A q, a : Done(q, a)' <=> Done(q, a)
      /\ \A q, r : DoneBefore(q, r) => DoneBefore(q, r)'
      /\ \A q : Result(q, 0)' => Result(q, 0)
      /\ \A i \in 1 .. Len(callbacks') :
           i + 1 \in 1 .. Len(callbacks) /\ callbacks'[i] = callbacks[i + 1]
  <2>1. \A q, a : ~DoneAt(1, q, a)
    BY <1>1, <1>3 DEF DoneAt
  <2> QED
    BY <1>1, <1>2, <2>1, CallTaken
<1>9. \A q \in Pieces : q # p => \A a \in Blocks(q) : Written(q, a)' <=> Written(q, a)
  BY <1>7, <1>8 DEF Written
<1>10. OnceOnItsWay'
  <2> SUFFICES ASSUME NEW q \in Pieces, NEW a \in Blocks(q)
               PROVE  Once(q, a)'
    BY DEF OnceOnItsWay
  <2>1. Once(q, a)
    BY DEF FlushInv, OnceOnItsWay
  <2>2. \A i \in 1 .. Len(queue) : WriteAt(i, q, a)' <=> WriteAt(i, q, a)
    BY <1>1 DEF WriteAt
  <2>3. \A i \in 1 .. Len(callbacks') : DoneAt(i, q, a)' =>
          i \in Int /\ i + 1 \in 1 .. Len(callbacks) /\ DoneAt(i + 1, q, a) /\ callbacks'[i] = callbacks[i + 1]
    BY <1>8 DEF DoneAt
  <2>4. CASE q # p
    <3>1. loan'[q][a] = loan[q][a]
      BY <1>7, <2>4
    <3>2. \A i \in 1 .. Len(callbacks') : DoneAt(i, q, a)' =>
            /\ loan'[q][a] = callbacks'[i].conn
            /\ \A j \in 1 .. Len(callbacks') : DoneAt(j, q, a)' => i = j
      <4> SUFFICES ASSUME NEW i \in 1 .. Len(callbacks'), DoneAt(i, q, a)'
                   PROVE  /\ loan'[q][a] = callbacks'[i].conn
                          /\ \A j \in 1 .. Len(callbacks') : DoneAt(j, q, a)' => i = j
        OBVIOUS
      <4>1. /\ loan[q][a] = callbacks[i + 1].conn
            /\ \A j \in 1 .. Len(callbacks) : DoneAt(j, q, a) => i + 1 = j
        BY <2>1, <2>3 DEF Once
      <4>2. \A j \in 1 .. Len(callbacks') : DoneAt(j, q, a)' => i + 1 = j + 1
        BY <2>3, <4>1
      <4> QED
        BY <2>3, <3>1, <4>1, <4>2
    <3>3. \A c \in Clients : <<c, q, a>> \in asked' =>
            loan'[q][a] = c /\ ~Done(q, a)' /\ \A i \in 1 .. Len(queue') : ~WriteAt(i, q, a)'
      BY <1>1, <1>8, <2>1, <2>2, <3>1 DEF Once
    <3>4. \A i \in 1 .. Len(queue') : WriteAt(i, q, a)' =>
            /\ loan'[q][a] = queue'[i].conn /\ ~Done(q, a)'
            /\ \A j \in 1 .. Len(queue') : WriteAt(j, q, a)' => i = j
      BY <1>1, <1>8, <2>1, <2>2, <3>1 DEF Once
    <3> QED
      BY <3>2, <3>3, <3>4 DEF Once
  <2>5. CASE q = p
    <3>1. loan[q][a] = Fetched
      BY <1>6, <2>5 DEF AllFetched
    <3>2. \A c \in Clients : <<c, q, a>> \notin asked
      BY <3>1, OnLoan
    <3>3. \A i \in 1 .. Len(queue) : ~WriteAt(i, q, a)
      BY <3>1, OnLoan
    <3>4. \A i \in 1 .. Len(callbacks') : ~DoneAt(i, q, a)'
      BY <2>3, <3>1, OnLoan DEF Done
    <3> QED
      BY <1>1, <2>2, <3>2, <3>3, <3>4 DEF Once
  <2> QED
    BY <2>4, <2>5
<1>11. \A q : (InFinished(q)' <=> InFinished(q)) /\ (Checking(q)' <=> Checking(q))
  BY <1>1 DEF InFinished, Checking
<1>12. Partial' /\ Full' /\ Settled' /\ PastCache'
  <2>1. \A q \in DOMAIN unfinished : DOMAIN unfinished[q] \subseteq Blocks(q)
    BY DEF CInv, EntriesInTorrent
  <2>2. Partial'
    BY <1>1, <1>6, <1>9, <2>1 DEF FlushInv, Partial
  <2>3. \A q \in Pieces : q # p => (AllFetched(q)' <=> AllFetched(q))
    BY <1>7 DEF AllFetched
  <2>4. Full'
    BY <1>1, <1>6, <1>9, <1>11, <2>3 DEF FlushInv, Full
  <2>5. Settled'
    BY <1>1, <1>8, <1>11 DEF FlushInv, Settled
  <2>6. PastCache'
    <3>1. \A q \in Pieces : q # p /\ Short(q) => Short(q)'
      BY <1>1, <1>9 DEF Short
    <3> QED
      BY <1>1, <1>6, <3>1 DEF FlushInv, PastCache
  <2> QED
    BY <2>2, <2>4, <2>5, <2>6
<1>13. InOrder'
  <2>1. \A q, r : CheckedBefore(q, r)' <=> CheckedBefore(q, r)
    BY <1>1 DEF CheckedBefore
  <2> QED
    BY <1>1, <1>8, <2>1 DEF FlushInv, InOrder, Before
<1> QED
  BY <1>1, <1>10, <1>12, <1>13 DEF FlushInv

LEMMA NoneLostAtFirst == CacheInit => WhileNoneLost
<1> SUFFICES ASSUME CacheInit
             PROVE  WhileNoneLost
  OBVIOUS
<1>1. /\ queue = << >> /\ callbacks = << >> /\ finished = << >> /\ asked = {} /\ direct = {}
      /\ DOMAIN unfinished = {} /\ spinning = FALSE /\ lost = 0
      /\ Len(queue) = 0 /\ Len(callbacks) = 0 /\ Len(finished) = 0
  BY DEF CacheInit, Empty
<1>2. OnceOnItsWay /\ InOrder
  BY <1>1 DEF OnceOnItsWay, Once, InOrder
<1>3. Partial /\ Full /\ Settled /\ PastCache
  BY <1>1 DEF Partial, Full, Settled, PastCache, InFinished, Result
<1> QED
  BY <1>1, <1>2, <1>3 DEF WhileNoneLost, FlushInv

LEMMA NoneLostKept ==
  ASSUME Typed, CInv, WhileNoneLost, [CacheNext]_<<ledger, dvars>>
  PROVE  WhileNoneLost'
<1>1. CASE lost # 0 /\ lost' \in {lost, lost + 1}
  BY <1>1 DEF WhileNoneLost
<1>2. CASE lost' = lost + 1
  BY <1>2 DEF WhileNoneLost
<1>3. CASE lost = 0 /\ WriteData
  BY <1>3, WriteInOrder DEF WhileNoneLost, WriteData
<1>4. CASE lost = 0 /\ VerifyPieceInfoHash
  BY <1>4, VerifyInOrder DEF WhileNoneLost, VerifyPieceInfoHash
<1>5. CASE lost = 0 /\ OnWriteData
  BY <1>5, FetchInOrder DEF WhileNoneLost, OnWriteData
<1>6. CASE lost = 0 /\ OnVerifyPiece
  BY <1>6, ResultInOrder DEF WhileNoneLost, OnVerifyPiece
<1>7. ASSUME lost = 0, NEW c \in Clients, NEW p \in Pieces, NEW b \in Blocks(p), Request(c, p, b)
      PROVE  WhileNoneLost'
  BY <1>7, RequestInOrder DEF WhileNoneLost, Request
<1>8. ASSUME lost = 0, NEW c \in Clients, NEW p \in Pieces, NEW b \in Blocks(p), AsyncWrite(c, p, b)
      PROVE  WhileNoneLost'
  BY <1>8, AnswerInOrder DEF WhileNoneLost, AsyncWrite
<1>9. CASE lost = 0 /\ UNCHANGED <<ledger, dvars>>
  <2>1. UNCHANGED <<loan, complete, lost, asked, queue, callbacks, unfinished, finished, direct, spinning>>
    BY <1>9 DEF ledger, dvars, cache, file
  <2>2. FlushInv /\ lost' = 0
    BY <1>9, <2>1 DEF WhileNoneLost
  <2>3. OnceOnItsWay' /\ InOrder'
    <3>1. OnceOnItsWay'
      BY <2>1, <2>2 DEF FlushInv, OnceOnItsWay, Once, WriteAt, DoneAt, Done
    <3>2. \A q, r : Before(q, r)' <=> Before(q, r)
      BY <2>1 DEF Before, CheckedBefore, DoneBefore, DoneAt
    <3> QED
      BY <2>1, <2>2, <3>1, <3>2 DEF FlushInv, InOrder
  <2>4. Partial' /\ Full' /\ Settled' /\ PastCache'
    BY <2>1, <2>2 DEF FlushInv, Partial, Full, Settled, PastCache, Short, Written, Done, DoneAt,
       InFinished, Result, IsResult, Checking, AllFetched
  <2> QED
    BY <2>1, <2>2, <2>3, <2>4 DEF WhileNoneLost, FlushInv
<1>10. ASSUME NEW c \in Clients, NEW p \in Pieces, NEW b \in Blocks(p),
              RepeatRequest(c, p, b) \/ GiveUp(c, p, b)
       PROVE  lost' = lost + 1
  BY <1>10 DEF RepeatRequest, GiveUp, TimeOut
<1>11. lost' \in {lost, lost + 1}
  BY <1>10 DEF CacheNext, WriteData, VerifyPieceInfoHash, OnWriteData, OnVerifyPiece, Request,
     AsyncWrite, dvars
<1> QED
  BY <1>1, <1>2, <1>3, <1>4, <1>5, <1>6, <1>7, <1>8, <1>9, <1>10, <1>11 DEF CacheNext

(* The inductive invariant of the order of the checks. *)
THEOREM ChecksInOrder == CacheSpec => []WhileNoneLost
<1>1. (DiskInv /\ CInv) /\ WhileNoneLost /\ [CacheNext]_<<ledger, dvars>> => WhileNoneLost'
  BY NoneLostKept DEF DiskInv
<1> QED
  BY <1>1, NoneLostAtFirst, CacheInvariant, PTL DEF CacheSpec

(* The loop of FlushWriteCache, which does not advance, always finds its   *)
(* piece in the first entry and returns as long as no request times out,   *)
(* for any torrent, any connections and any limit of the cache.            *)
THEOREM FlushAlwaysReturns == CacheSpec => []FlushReturns
<1>1. WhileNoneLost => FlushReturns
  BY DEF WhileNoneLost, FlushInv, FlushReturns
<1> QED
  BY <1>1, ChecksInOrder, PTL

=============================================================================
