------------------------------- MODULE BtTorrent -------------------------------
(***************************************************************************)
(* BtTorrent (rcs/src/protocol/bt/bt_torrent.cpp) from its creation to its *)
(* next: the metadata and the fast-resume are read, or the metadata is     *)
(* retrieved; what is known of the torrent and which pieces it has are     *)
(* written again, by the timer, through the disk thread; the program ends  *)
(* at any moment, and the torrent is created again from its files.         *)
(*                                                                         *)
(* The timer runs TickProc, the work thread the callbacks of the disk      *)
(* jobs, a socket thread the end of the retrieval.                         *)
(***************************************************************************)
EXTENDS MetadataRetriver

CONSTANTS Pieces,       \* the pieces of the torrent
          MaxRestarts,  \* bound: how often the program ends
          MaxFaults     \* bound: writes of a small file that fail

ASSUME TorrentAssumption == IsFiniteSet(Pieces) /\ MaxRestarts \in Nat /\ MaxFaults \in Nat

VARIABLES
  hashes,      \* bt_metadata_.piece_hash is known
  ready,       \* is_ready_
  claimed,     \* the pieces PiecePicker has
  pieceMap,    \* fast_resume_.piece_map
  updated,     \* fastresume_updated_
  resetting,   \* TickProc has written and is to clear fastresume_updated_
  jobs,        \* the jobs of this torrent in DiskIoThread, with their callbacks
  emptied,     \* the file of the first job has size 0, its data is to come
  metaFile,    \* the metadata file is whole
  resumeFile,  \* the piece maps in the fast-resume file: one or, if empty, none
  verified,    \* pieces checked and written, whose callbacks wait
  data,        \* the pieces that are in the data files
  restarts, faults,
  early,       \* history: a fast-resume was queued before the metadata
  slipped      \* history: pieces announced between the write and the reset

memory == <<hashes, ready, claimed, pieceMap>>
files == <<metaFile, resumeFile, data>>
counts == <<restarts, faults>>
history == <<early, slipped>>
tvars == <<rvars, memory, updated, resetting, jobs, emptied, verified, files, counts, history>>

Job(kind) == [kind |-> kind]
WriteResumeJob(pm) == [kind |-> "writeResume", map |-> pm]

(* Initialize: both files are read, in this order.                         *)
InitialJobs == <<Job("readMetadata"), Job("readResume")>>

TorrentInit ==
  /\ RetriverInit
  /\ hashes = FALSE /\ ready = FALSE
  /\ claimed = {} /\ pieceMap = {}
  /\ updated = FALSE /\ resetting = FALSE
  /\ jobs = InitialJobs
  /\ emptied = FALSE
  /\ metaFile = FALSE /\ resumeFile = {}
  /\ verified = {} /\ data = {}
  /\ restarts = 0 /\ faults = 0
  /\ early = FALSE /\ slipped = {}

Alive == crashed = "no"

-----------------------------------------------------------------------------
(* A bug Recorded must find: the flag is cleared and nothing is written.   *)
MutantWriteFastResume ==
  /\ Alive /\ ~ticking /\ ~resetting
  /\ updated
  /\ resetting' = TRUE
  /\ UNCHANGED <<rvars, memory, updated, jobs, emptied, verified, files, counts, history>>

(* The timer.  TickProc writes the fast-resume and then clears the flag;   *)
(* what sets the flag in between is forgotten.                             *)
WriteFastResume ==
  /\ Alive /\ ~ticking /\ ~resetting
  /\ updated
  /\ resetting' = TRUE
  /\ jobs' = Append(jobs, WriteResumeJob(pieceMap))
  /\ early' = (early \/ finishing \in {"info", "write"})
  /\ UNCHANGED <<rvars, memory, updated, emptied, verified, files, counts, slipped>>

ClearUpdated ==
  /\ Alive /\ resetting
  /\ resetting' = FALSE
  /\ updated' = FALSE
  /\ UNCHANGED <<rvars, memory, jobs, emptied, verified, files, counts, history>>

TickMetadata ==
  /\ ~resetting /\ ~updated
  /\ ~ready
  /\ BeginTick
  /\ UNCHANGED <<memory, updated, resetting, jobs, emptied, verified, files, counts, history>>

-----------------------------------------------------------------------------
(* The retrieval and its end, under download_mutex_.                       *)
Retrive ==
  /\ RetriverNext
  /\ UNCHANGED <<memory, updated, resetting, jobs, emptied, verified, files, counts, history>>

Finishing(step, next) == Alive /\ finishing = step /\ finishing' = next

(* ParseMetadata: bad data ends the retrieval, and it is not tried again.  *)
ParseMetadata ==
  /\ \/ cacheGood /\ Finishing("parse", "refresh") /\ hashes' = TRUE
     \/ ~cacheGood /\ Finishing("parse", "end") /\ UNCHANGED hashes
  /\ UNCHANGED <<up, failed, retriving, queue, downloading, candidates, cache, cacheGood,
                 asked, arrived, ticking, timedOut, crashed, ready, claimed, pieceMap,
                 updated, resetting, jobs, emptied, verified, files, counts, history>>

RefreshFastResumeFromMetadata ==
  /\ Finishing("refresh", "info")
  /\ pieceMap' = {}
  /\ updated' = TRUE
  /\ UNCHANGED <<up, failed, retriving, queue, downloading, candidates, cache, cacheGood,
                 asked, arrived, ticking, timedOut, crashed, hashes, ready, claimed,
                 resetting, jobs, emptied, verified, files, counts, history>>

(* UpdateTorrentInfo(FROM_METADATA), SetTorrentInfo.                       *)
UpdateTorrentInfo ==
  /\ Finishing("info", "write")
  /\ ready' = TRUE
  /\ claimed' = pieceMap
  /\ UNCHANGED <<up, failed, retriving, queue, downloading, candidates, cache, cacheGood,
                 asked, arrived, ticking, timedOut, crashed, hashes, pieceMap,
                 updated, resetting, jobs, emptied, verified, files, counts, history>>

(* A bug HashesKnown must find: the metadata is not written.               *)
MutantWriteMetadata ==
  /\ Finishing("write", "end")
  /\ UNCHANGED <<up, failed, retriving, queue, downloading, candidates, cache, cacheGood,
                 asked, arrived, ticking, timedOut, crashed, memory, jobs,
                 updated, resetting, emptied, verified, files, counts, history>>

WriteMetadata ==
  /\ Finishing("write", "end")
  /\ jobs' = Append(jobs, Job("writeMetadata"))
  /\ UNCHANGED <<up, failed, retriving, queue, downloading, candidates, cache, cacheGood,
                 asked, arrived, ticking, timedOut, crashed, memory,
                 updated, resetting, emptied, verified, files, counts, history>>

EndRetrival ==
  /\ Finishing("end", "no")
  /\ retriving' = FALSE
  /\ candidates' = << >>
  /\ UNCHANGED <<up, failed, queue, downloading, cache, cacheGood, asked, arrived,
                 ticking, timedOut, crashed, memory, updated, resetting, jobs, emptied,
                 verified, files, counts, history>>

-----------------------------------------------------------------------------
(* The disk thread and the callbacks on the work thread.                   *)
IsNext(kind) == Alive /\ jobs # << >> /\ Head(jobs).kind = kind

OnMetadataRead ==
  /\ IsNext("readMetadata")
  /\ jobs' = Tail(jobs)
  /\ hashes' = metaFile
  /\ UNCHANGED <<rvars, ready, claimed, pieceMap, updated, resetting, emptied, verified,
                 files, counts, history>>

RetriverUnchanged ==
  UNCHANGED <<up, failed, queue, downloading, candidates, cache, cacheGood, asked,
              arrived, ticking, finishing, timedOut>>

(* A bug DamageIsFound must find: what is read is not checked.             *)
MutantVerifyResource(pm) == pm

(* VerifyResource: the pieces of the map that are in the files.  The       *)
(* picker was given the map before, and keeps it.                          *)
VerifyResource(pm) == pm \cap data

(* An empty file starts the retrieval.  To check a piece its hash must be  *)
(* known: the code indexes piece_hash, which is empty if it is not.        *)
OnFastResumeRead ==
  /\ IsNext("readResume")
  /\ jobs' = Tail(jobs)
  /\ \/ /\ resumeFile = {}
        /\ retriving' = TRUE
        /\ UNCHANGED <<memory, updated, crashed>>
     \/ \E pm \in resumeFile :
          /\ ready' = TRUE
          /\ claimed' = pm
          /\ pieceMap' = VerifyResource(pm)
          /\ updated' = TRUE
          /\ crashed' = IF ~hashes /\ pm \cap data # {} THEN "hash" ELSE "no"
          /\ UNCHANGED <<hashes, retriving>>
  /\ RetriverUnchanged
  /\ UNCHANGED <<resetting, emptied, verified, files, counts, history>>

(* WriteFileImpl: the size is set to 0, then the data is written.          *)
EmptyFile ==
  /\ IsNext("writeMetadata") \/ IsNext("writeResume")
  /\ ~emptied
  /\ emptied' = TRUE
  /\ IF Head(jobs).kind = "writeMetadata"
       THEN metaFile' = FALSE /\ UNCHANGED resumeFile
       ELSE resumeFile' = {} /\ UNCHANGED metaFile
  /\ UNCHANGED <<rvars, memory, updated, resetting, jobs, verified, data, counts, history>>

FillFile ==
  /\ Alive /\ emptied
  /\ emptied' = FALSE
  /\ jobs' = Tail(jobs)
  /\ IF Head(jobs).kind = "writeMetadata"
       THEN metaFile' = TRUE /\ UNCHANGED resumeFile
       ELSE resumeFile' = {Head(jobs).map} /\ UNCHANGED metaFile
  /\ UNCHANGED <<rvars, memory, updated, resetting, verified, data, counts, history>>

(* The callback of a write that failed writes a line of the log.           *)
FailToFill ==
  /\ Alive /\ emptied
  /\ faults < MaxFaults
  /\ faults' = faults + 1
  /\ emptied' = FALSE
  /\ jobs' = Tail(jobs)
  /\ UNCHANGED <<rvars, memory, updated, resetting, verified, files, restarts, history>>

-----------------------------------------------------------------------------
(* A downloaded piece is checked by the disk thread and is in the files    *)
(* then (VerifyPieceInfoHash; what goes wrong there is DiskWriteCache's).  *)
VerifyPiece(p) ==
  /\ Alive /\ ~emptied
  /\ ready /\ p \notin claimed \cup verified
  /\ IF hashes
       THEN /\ verified' = verified \cup {p}
            /\ data' = data \cup {p}
            /\ UNCHANGED crashed
       ELSE crashed' = "hash" /\ UNCHANGED <<verified, data>>
  /\ UNCHANGED retriving
  /\ RetriverUnchanged
  /\ UNCHANGED <<memory, updated, resetting, jobs, emptied, metaFile, resumeFile, counts,
                 history>>

(* The callback announces it; it runs on the work thread, after            *)
(* OnFastResumeRead.                                                       *)
HavePieceProc(p) ==
  /\ Alive /\ p \in verified
  /\ verified' = verified \ {p}
  /\ claimed' = claimed \cup {p}
  /\ pieceMap' = pieceMap \cup {p}
  /\ updated' = TRUE
  /\ slipped' = IF resetting THEN slipped \cup {p} ELSE slipped
  /\ UNCHANGED <<rvars, hashes, ready, resetting, jobs, emptied, files, counts, early>>

(* The program ends, damage is done to some of the data, and the program   *)
(* starts again.                                                           *)
Restart(damaged) ==
  /\ Alive
  /\ restarts < MaxRestarts
  /\ damaged \subseteq data
  /\ restarts' = restarts + 1
  /\ ForgetRetrival
  /\ hashes' = FALSE /\ ready' = FALSE
  /\ claimed' = {} /\ pieceMap' = {}
  /\ updated' = FALSE /\ resetting' = FALSE
  /\ jobs' = InitialJobs
  /\ emptied' = FALSE
  /\ verified' = {}
  /\ data' = data \ damaged
  /\ slipped' = {}
  /\ UNCHANGED <<metaFile, resumeFile, faults, early>>

Timer == WriteFastResume \/ ClearUpdated \/ TickMetadata
EndOfRetrival ==
  \/ ParseMetadata
  \/ RefreshFastResumeFromMetadata
  \/ UpdateTorrentInfo
  \/ WriteMetadata
  \/ EndRetrival
Disk == OnMetadataRead \/ OnFastResumeRead \/ EmptyFile \/ FillFile

TorrentNext ==
  \/ Timer
  \/ Retrive
  \/ EndOfRetrival
  \/ Disk
  \/ FailToFill
  \/ \E p \in Pieces : VerifyPiece(p) \/ HavePieceProc(p)
  \/ \E damaged \in SUBSET data : Restart(damaged)

(* The steps of the retriever that its threads take when they can: the     *)
(* timer ticks, and time passes until a request times out; a socket thread *)
(* handles what it has read, and a prompt connection answers.              *)
HandleAnswer ==
  /\ \E c \in Conns : ReceivedMetadataDataMsg(c) \/ ReceivedMetadataRejectMsg(c)
  /\ UNCHANGED <<memory, updated, resetting, jobs, emptied, verified, files, counts, history>>

PromptAnswer ==
  /\ \E c \in Prompt, i \in 1 .. MetaNum : Answer(c, Data(i, TRUE))
  /\ UNCHANGED <<memory, updated, resetting, jobs, emptied, verified, files, counts, history>>

Tick(timeout) ==
  /\ TickRetriver(timeout)
  /\ UNCHANGED <<memory, updated, resetting, jobs, emptied, verified, files, counts, history>>

TorrentSpec == TorrentInit /\ [][TorrentNext]_tvars

FairTorrentSpec ==
  /\ TorrentSpec
  /\ WF_tvars(Timer) /\ WF_tvars(Tick(FALSE)) /\ SF_tvars(Tick(TRUE))
  /\ WF_tvars(HandleAnswer) /\ WF_tvars(PromptAnswer)
  /\ WF_tvars(EndOfRetrival)
  /\ WF_tvars(Disk)

-----------------------------------------------------------------------------
(* Types; and the map that is written is the picker's without what the     *)
(* check of the files has taken out of it.                                 *)
TorrentTypeOK ==
  /\ RetriverTypeOK
  /\ hashes \in BOOLEAN /\ ready \in BOOLEAN
  /\ updated \in BOOLEAN /\ resetting \in BOOLEAN
  /\ claimed \subseteq Pieces /\ pieceMap \subseteq claimed
  /\ \A i \in DOMAIN jobs :
       jobs[i] \in {Job("readMetadata"), Job("readResume"), Job("writeMetadata")}
                     \cup {WriteResumeJob(pm) : pm \in SUBSET Pieces}
  /\ emptied \in BOOLEAN /\ metaFile \in BOOLEAN
  /\ resumeFile \in {{}} \cup {{pm} : pm \in SUBSET Pieces}
  /\ verified \subseteq Pieces \ claimed /\ data \subseteq Pieces
  /\ restarts \in 0 .. MaxRestarts /\ faults \in 0 .. MaxFaults
  /\ early \in BOOLEAN /\ slipped \subseteq claimed

(* A torrent that is ready knows the hashes of its pieces, over restarts   *)
(* and half written files, if no write of the metadata failed and no       *)
(* fast-resume got into the queue before the metadata.  (The retrieval     *)
(* starts only when there is no fast-resume; without the hashes the first  *)
(* check of a piece reads past the end of a vector.)                       *)
HashesKnown ==
  (ready \/ crashed = "hash") => hashes \/ early \/ faults > 0

(* What the retriever holds stays in order and in step with its requests.  *)
RetrivalInStep == InOrder /\ AskedInFront

(* The torrent and its retriever: their records agree.                     *)
TorrentConsistent == TorrentTypeOK /\ RetrivalInStep

(* A piece that was had and is not in the files after a restart does not   *)
(* stay in the fast-resume file.                                           *)
DamageIsFound ==
  \A p \in Pieces :
    (ready /\ p \in claimed \ data)
      ~> (~Alive \/ \A pm \in resumeFile : p \notin pm)

(* And an announced piece gets into the file, if no write fails, the       *)
(* program does not end and the announcement did not come between the      *)
(* write and the reset of the flag.                                        *)
Recorded ==
  \A p \in Pieces :
    p \in pieceMap ~> (\E pm \in resumeFile : p \in pm)
                       \/ p \notin pieceMap \/ p \in slipped \/ faults > 0 \/ ~Alive

RecordFollows == DamageIsFound /\ Recorded

(* The retrieval ends well while a connection is up that answers in time,  *)
(* whatever the others do, unless bad data was taken in, an assertion      *)
(* failed or the program ended.                                            *)
RetrivalEnds ==
  (retriving /\ up \cap Prompt # {}) ~> (ready \/ ~cacheGood \/ ~Alive \/ up \cap Prompt = {})

=============================================================================
