---------------------------- MODULE DiskWriteCache ----------------------------
(***************************************************************************)
(* The write half of DiskIoThread (rcs/src/frame/disk_io_thread.cpp): the  *)
(* job queue, the cache that collects the blocks of a piece, the hash      *)
(* check and the flush to the file, and the callbacks that the work thread *)
(* runs afterwards, in the order of the jobs.                              *)
(*                                                                         *)
(* Who may download what is left to BlockLedger, which the PiecePicker     *)
(* implements.  A request stays in asked until the peer answers it, which  *)
(* may be after the loan has ended.  An answer is good or not; a piece     *)
(* passes its check when every block in its cache entry is good.           *)
(***************************************************************************)
EXTENDS BlockLedger, Sequences, SequencesExt, FiniteSetsExt

CONSTANTS CacheLimit,  \* write_cache_limit_, MAX_WRITE_CACHE_NUM = 1024 in the code
          MaxLost,     \* bound: requests that time out, to be repeated or given up
          MayFail,     \* TRUE when writing to the file may fail
          MaxJobs      \* bound: jobs and callbacks waiting when an answer arrives

ASSUME CacheAssumption ==
  /\ PieceNum \in Nat /\ BlockNum \in [Pieces -> Nat \ {0}]
  /\ Free # Fetched /\ {Free, Fetched} \cap Clients = {}
  /\ CacheLimit \in Nat

VARIABLES
  lost,        \* the requests that have timed out so far
  asked,       \* <<c, p, b>>: a request the peer behind c may still answer
  queue,       \* job_queue_
  callbacks,   \* callbacks posted to the work thread
  unfinished,  \* unfinished_write_cache_: piece -> the blocks it has so far
  finished,    \* finished_write_cache_, oldest first
  disk,        \* the torrent file
  direct,      \* history: the pieces with a block written past the cache
  spinning     \* the loop of FlushWriteCache goes round for ever

cache == <<unfinished, finished>>
file == <<disk, direct>>
dvars == <<lost, asked, queue, callbacks, cache, file, spinning>>

Data == {"good", "bad"}

WriteJob(c, p, b, d) == [kind |-> "write", conn |-> c, piece |-> p, block |-> b, data |-> d]
VerifyJob(p) == [kind |-> "verify", piece |-> p]

IsFirst(jobs, kind) == jobs # <<>> /\ Head(jobs).kind = kind

CacheSize == Cardinality(DOMAIN unfinished) + Len(finished)

(* A map without keys, and a map with one more entry or another one. *)
Empty == [x \in {} |-> x]
With(f, x, v) == [y \in DOMAIN f \cup {x} |-> IF y = x THEN v ELSE f[y]]

(* The place in finished_write_cache_ of the first entry of piece p. *)
FirstEntry(p) == SelectInSeq(finished, LAMBDA entry : entry.piece = p)

CacheInit ==
  /\ Init
  /\ complete = {}
  /\ lost = 0
  /\ asked = {}
  /\ queue = <<>>
  /\ callbacks = <<>>
  /\ unfinished = Empty
  /\ finished = <<>>
  /\ disk = [p \in Pieces |-> [b \in Blocks(p) |-> "none"]]
  /\ direct = {}
  /\ spinning = FALSE

-----------------------------------------------------------------------------
(* The connections: a request, its repetition after a timeout, the end of  *)
(* the loan without an answer, and the answer, AsyncWrite.                 *)
Request(c, p, b) ==
  /\ \A q \in Pieces : \A a \in Blocks(q) : loan[q][a] # c
  /\ LendBlock(c, p, b)
  /\ asked' = asked \cup {<<c, p, b>>}
  /\ UNCHANGED <<lost, queue, callbacks, cache, file, spinning>>

TimeOut ==
  /\ lost < MaxLost
  /\ lost' = lost + 1

RepeatRequest(c, p, b) ==
  /\ TimeOut
  /\ loan[p][b] = c
  /\ asked' = asked \cup {<<c, p, b>>}
  /\ UNCHANGED <<ledger, queue, callbacks, cache, file, spinning>>

GiveUp(c, p, b) ==
  /\ TimeOut
  /\ ReturnBlock(c, p, b, Free)
  /\ UNCHANGED <<asked, queue, callbacks, cache, file, spinning>>

AsyncWrite(c, p, b) ==
  /\ <<c, p, b>> \in asked
  /\ Len(queue) + Len(callbacks) < MaxJobs
  /\ asked' = asked \ {<<c, p, b>>}
  /\ \E d \in Data : queue' = Append(queue, WriteJob(c, p, b, d))
  /\ UNCHANGED <<ledger, lost, callbacks, cache, file, spinning>>

-----------------------------------------------------------------------------
(* Bugs the properties must find: no limit; a new entry for every block; a *)
(* full entry that also stays where it was.                                *)
MutantAddBlock(p, b, d) ==
  LET grown == With(IF p \in DOMAIN unfinished THEN unfinished[p] ELSE Empty, b, d)
  IN
  /\ IF DOMAIN grown = Blocks(p)
       THEN /\ unfinished' = [q \in DOMAIN unfinished \ {p} |-> unfinished[q]]
            /\ finished' = Append(finished, [piece |-> p, blocks |-> grown])
       ELSE /\ unfinished' = With(unfinished, p, grown)
            /\ UNCHANGED finished
  /\ UNCHANGED file

(* The disk IO thread.  AddBlock puts data d of block b where              *)
(* FindWriteCachePiece tells WriteData to: into the entry the piece has,   *)
(* unless the entry has the block already, into a new one, or past a full  *)
(* cache into the file.  A full entry moves to finished_write_cache_.      *)
AddBlock(p, b, d) ==
  LET entry == IF p \in DOMAIN unfinished THEN unfinished[p] ELSE Empty
      grown == With(entry, b, d)
  IN
  \/ /\ b \in DOMAIN entry
     /\ UNCHANGED <<cache, file>>
  \/ /\ p \notin DOMAIN unfinished
     /\ CacheSize >= CacheLimit
     /\ \/ disk' = [disk EXCEPT ![p][b] = d]
        \/ MayFail /\ UNCHANGED disk
     /\ direct' = direct \cup {p}
     /\ UNCHANGED cache
  \/ /\ b \notin DOMAIN entry
     /\ p \in DOMAIN unfinished \/ CacheSize < CacheLimit
     /\ IF DOMAIN grown = Blocks(p)
          THEN /\ unfinished' = [q \in DOMAIN unfinished \ {p} |-> unfinished[q]]
               /\ finished' = Append(finished, [piece |-> p, blocks |-> grown])
          ELSE /\ unfinished' = With(unfinished, p, grown)
               /\ UNCHANGED finished
     /\ UNCHANGED file

(* OnWriteData takes no notice of the result, so a callback carries none. *)
WriteData ==
  /\ ~spinning
  /\ IsFirst(queue, "write")
  /\ LET job == Head(queue) IN
       /\ AddBlock(job.piece, job.block, job.data)
       /\ callbacks' = Append(callbacks, [job EXCEPT !.data = "done"])
  /\ queue' = Tail(queue)
  /\ UNCHANGED <<ledger, lost, asked, spinning>>

(* A bug CompleteOnDisk must find: the write is not looked at.             *)
MutantFlushWriteCache(p) ==
  /\ finished' = Tail(finished)
  /\ disk' \in {[disk EXCEPT ![p] = Head(finished).blocks], disk}
  /\ callbacks' = Append(callbacks, [kind |-> "verified", piece |-> p])
  /\ UNCHANGED spinning

(* FlushWriteCache(p): the loop that looks for the piece does not advance, *)
(* so it ends only if the first entry of the list is the one.              *)
FlushWriteCache(p) ==
  IF Head(finished).piece = p
    THEN /\ finished' = Tail(finished)
         /\ UNCHANGED spinning
         /\ \/ /\ disk' = [disk EXCEPT ![p] = Head(finished).blocks]
               /\ callbacks' = Append(callbacks, [kind |-> "verified", piece |-> p])
            \/ /\ MayFail
               /\ UNCHANGED disk
               /\ callbacks' = Append(callbacks, [kind |-> "refused", piece |-> p])
    ELSE /\ spinning' = TRUE
         /\ UNCHANGED <<finished, disk, callbacks>>

(* A bug FlushReturns must find: a piece that is refused stays in the list. *)
MutantVerifyPieceInfoHash ==
  /\ ~spinning
  /\ IsFirst(queue, "verify")
  /\ LET p == Head(queue).piece
         i == FirstEntry(p)
     IN
       /\ i # 0
       /\ IF \A b \in Blocks(p) : finished[i].blocks[b] = "good"
            THEN FlushWriteCache(p)
            ELSE /\ callbacks' = Append(callbacks, [kind |-> "refused", piece |-> p])
                 /\ UNCHANGED <<finished, disk, spinning>>
  /\ queue' = Tail(queue)
  /\ UNCHANGED <<ledger, lost, asked, unfinished, direct>>

(* VerifyPieceInfoHash; its BC_ASSERT that the piece is in the list is     *)
(* VerifyFindsPiece.                                                       *)
VerifyPieceInfoHash ==
  /\ ~spinning
  /\ IsFirst(queue, "verify")
  /\ LET p == Head(queue).piece
         i == FirstEntry(p)
     IN
       /\ i # 0
       /\ IF \A b \in Blocks(p) : finished[i].blocks[b] = "good"
            THEN FlushWriteCache(p)
            ELSE /\ finished' = RemoveAt(finished, i)
                 /\ callbacks' = Append(callbacks, [kind |-> "refused", piece |-> p])
                 /\ UNCHANGED <<disk, spinning>>
  /\ queue' = Tail(queue)
  /\ UNCHANGED <<ledger, lost, asked, unfinished, direct>>

-----------------------------------------------------------------------------
(* A bug VerifyFindsPiece and CheckComes must find: the check is queued    *)
(* one block early.                                                        *)
MutantOnWriteData ==
  /\ IsFirst(callbacks, "write")
  /\ LET p == Head(callbacks).piece
         b == Head(callbacks).block
     IN
       \/ /\ ReturnBlock(Head(callbacks).conn, p, b, Fetched)
          /\ queue' = IF Cardinality({a \in Blocks(p) : loan'[p][a] # Fetched}) = 1
                        THEN Append(queue, VerifyJob(p))
                        ELSE queue
       \/ /\ loan[p][b] # Head(callbacks).conn
          /\ UNCHANGED <<ledger, queue>>
  /\ callbacks' = Tail(callbacks)
  /\ UNCHANGED <<lost, asked, cache, file, spinning>>

(* The work thread.  A written block counts if the connection still has    *)
(* the loan; the last block of a piece queues the check of the piece.      *)
OnWriteData ==
  /\ IsFirst(callbacks, "write")
  /\ LET c == Head(callbacks).conn
         p == Head(callbacks).piece
         b == Head(callbacks).block
     IN
       \/ /\ ReturnBlock(c, p, b, Fetched)
          /\ queue' = IF \A a \in Blocks(p) : loan'[p][a] = Fetched
                        THEN Append(queue, VerifyJob(p))
                        ELSE queue
       \/ /\ loan[p][b] # c
          /\ UNCHANGED <<ledger, queue>>
  /\ callbacks' = Tail(callbacks)
  /\ UNCHANGED <<lost, asked, cache, file, spinning>>

OnVerifyPiece ==
  /\ \/ IsFirst(callbacks, "verified") /\ Verify(Head(callbacks).piece)
     \/ IsFirst(callbacks, "refused") /\ Restart(Head(callbacks).piece)
  /\ callbacks' = Tail(callbacks)
  /\ UNCHANGED <<lost, asked, queue, cache, file, spinning>>

CacheNext ==
  \/ WriteData
  \/ VerifyPieceInfoHash
  \/ OnWriteData
  \/ OnVerifyPiece
  \/ \E c \in Clients : \E p \in Pieces : \E b \in Blocks(p) :
       \/ Request(c, p, b)
       \/ RepeatRequest(c, p, b)
       \/ GiveUp(c, p, b)
       \/ AsyncWrite(c, p, b)

CacheSpec == CacheInit /\ [][CacheNext]_<<ledger, dvars>>

(* The disk IO thread and the work thread never rest while they have work. *)
FairCacheSpec ==
  /\ CacheSpec
  /\ WF_<<ledger, dvars>>(WriteData \/ VerifyPieceInfoHash)
  /\ WF_<<ledger, dvars>>(OnWriteData \/ OnVerifyPiece)

-----------------------------------------------------------------------------
(* The data blocks a piece has in the cache or in the file, as far as the  *)
(* disk IO thread can tell.                                                *)
CachedBlocks(p) ==
  (IF p \in DOMAIN unfinished THEN DOMAIN unfinished[p] ELSE {})
    \cup UNION {DOMAIN finished[i].blocks : i \in {j \in DOMAIN finished : finished[j].piece = p}}

(* The cache has entries of the pieces and blocks of the torrent. *)
CacheTypeOK ==
  /\ loan \in [Pieces -> UNION {[Blocks(p) -> Clients \cup {Free, Fetched}] : p \in Pieces}]
  /\ complete \subseteq Pieces
  /\ asked \subseteq Clients \X Pieces \X Nat
  /\ DOMAIN unfinished \subseteq Pieces
  /\ \A p \in DOMAIN unfinished :
       /\ DOMAIN unfinished[p] \subseteq Blocks(p)
       /\ DOMAIN unfinished[p] \notin {{}, Blocks(p)}
  /\ \A i \in DOMAIN finished : DOMAIN finished[i].blocks = Blocks(finished[i].piece)
  /\ spinning \in BOOLEAN

(* The quota: the two containers together never exceed write_cache_limit_. *)
WithinQuota == CacheSize <= CacheLimit

(* BC_ASSERT(iter != finished_write_cache_.end()): a piece whose check is  *)
(* due is in the list of complete pieces, whatever was written before,     *)
(* late, twice or for nothing, unless a block of it went past the cache.   *)
VerifyFindsPiece ==
  IsFirst(queue, "verify") =>
    Head(queue).piece \in direct \/ FirstEntry(Head(queue).piece) # 0

(* The flush comes with the check so that a peer that is told of the piece *)
(* can read it from the file at once: a verified piece is in the file, and *)
(* what is in the file is what was verified, unless blocks of it went      *)
(* past the cache.                                                         *)
CompleteOnDisk == \A p \in complete \ direct : \A b \in Blocks(p) : disk[p][b] = "good"

(* A block the picker counts as finished is in the cache until the check   *)
(* of its piece has been made, unless the cache was full when it came.     *)
FetchedIsCached ==
  \A p \in Pieces : \A b \in Blocks(p) :
    \/ loan[p][b] # Fetched
    \/ p \in complete \cup direct
    \/ b \in CachedBlocks(p)
    \/ \E i \in DOMAIN callbacks : callbacks[i].kind # "write" /\ callbacks[i].piece = p

(* What the cache and the picker know of a block agrees, and the cache     *)
(* keeps to its limit.                                                     *)
CacheConsistent == CacheTypeOK /\ WithinQuota /\ FetchedIsCached

(* The comment in VerifyPieceInfoHash takes the list for short, since a    *)
(* check is queued for every piece in it.  While no request times out the  *)
(* lists are in the same order: the flush of the piece that passed finds   *)
(* its entry first and returns.                                            *)
FlushReturns == lost = 0 => ~spinning

(* A piece whose blocks have all arrived is settled, verified or to be     *)
(* downloaded again, unless the disk IO thread hangs or a full cache made  *)
(* the check of a piece fail its assertion.                                *)
CheckComes ==
  [](~spinning /\ direct = {}) =>
    \A p \in Pieces :
      (\A b \in Blocks(p) : loan[p][b] = Fetched)
        ~> (p \in complete \/ \A b \in Blocks(p) : loan[p][b] # Fetched)

=============================================================================
