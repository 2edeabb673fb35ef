----------------------------- MODULE UploadProofs -----------------------------
(* The peer of a connection gets its answers one at a time and in the      *)
(* order it asked, the queues and the read cache stay within their limits, *)
(* and the meter counts what was sent: for any requests, sizes and limits. *)
EXTENDS Upload, FiniteSetTheorems, TLAPS

(* Where an answer is, from the last place to the first: nothing overtakes *)
(* anything, and a request that is not being processed comes after all.    *)
Above(S, T) == \A x \in S, y \in T : x > y

Rising(s) == \A i, j \in 1 .. Len(s) : i < j /\ s[i].id # 0 /\ s[j].id # 0 => s[i].id < s[j].id

Waiting == {requests[i].id : i \in {k \in 1 .. Len(requests) : ~requests[k].processing}}

Answered == {answered[i] : i \in 1 .. Len(answered)}

Lined ==
  /\ Above(Waiting, UnderWay \cup Answered)
  /\ Above(Numbers(jobs), Numbers(callbacks) \cup Numbers(sendQueue) \cup Answered)
  /\ Above(Numbers(callbacks), Numbers(sendQueue) \cup Answered)
  /\ Above(Numbers(sendQueue), Answered)
  /\ Numbers(requests) \cup UnderWay \cup Answered \subseteq 1 .. received
  /\ Rising(requests) /\ Rising(jobs) /\ Rising(callbacks) /\ Rising(sendQueue)
  /\ InOrder

(* While uploading has not been stopped in between, one request is under   *)
(* way, the front one.                                                     *)
OfFront(m) ==
  /\ requests # << >> /\ requests[1].processing
  /\ m.id = requests[1].id /\ m.req = requests[1].req

OneUnderWay ==
  /\ aborted # "front"
  /\ Len(jobs) + Len(callbacks) <= 1
  /\ \A i \in 1 .. Len(jobs) : OfFront(jobs[i])
  /\ \A i \in 1 .. Len(callbacks) : OfFront(callbacks[i])
  /\ \A i \in 1 .. Len(sendQueue) : sendQueue[i].id # 0 =>
       /\ OfFront(sendQueue[i]) /\ Len(jobs) + Len(callbacks) = 0
       /\ \A j \in 1 .. Len(sendQueue) : sendQueue[j].id # 0 => i = j

(* A connection has been ticked before it serves, so that the oldest       *)
(* second of a window that is not full is an idle one.                     *)
FirstIsIdle ==
  /\ Len(window) < Window => window[1] = 0
  /\ Len(window) = 1 => mode \in {"opening", "closed"} /\ requests = << >> /\ tick = "idle"

Typed == UploadTypeOK /\ CacheSound /\ (ready <=> sendQueue = << >>)

UInv == Typed /\ Lined /\ (~interrupted => OneUnderWay) /\ FirstIsIdle /\ MeterExact

-----------------------------------------------------------------------------
LEMMA TailFacts ==
  ASSUME NEW S, NEW s \in Seq(S), s # << >>
  PROVE  /\ Tail(s) \in Seq(S) /\ Len(Tail(s)) = Len(s) - 1
         /\ 1 \in 1 .. Len(s) /\ Head(s) = s[1] /\ s[1] \in S
         /\ \A i \in 1 .. Len(Tail(s)) : i + 1 \in 1 .. Len(s) /\ Tail(s)[i] = s[i + 1]
  OBVIOUS

LEMMA AppendFacts ==
  ASSUME NEW S, NEW s \in Seq(S), NEW e \in S
  PROVE  /\ Append(s, e) \in Seq(S) /\ Len(Append(s, e)) = Len(s) + 1 /\ Len(s) \in Nat
         /\ Append(s, e)[Len(s) + 1] = e
         /\ \A i \in 1 .. Len(s) : Append(s, e)[i] = s[i]
  OBVIOUS

LEMMA FirstReplaced ==
  ASSUME NEW S, NEW s \in Seq(S), s # << >>, NEW e \in S
  PROVE  /\ [s EXCEPT ![1] = e] \in Seq(S) /\ Len([s EXCEPT ![1] = e]) = Len(s)
         /\ [s EXCEPT ![1] = e][1] = e
         /\ \A i \in 1 .. Len(s) : i # 1 => [s EXCEPT ![1] = e][i] = s[i]
<1>1. s \in [1 .. Len(s) -> S] /\ Len(s) \in Nat /\ 1 \in 1 .. Len(s)
  OBVIOUS
<1> DEFINE t == [s EXCEPT ![1] = e]
<1>2. /\ t \in [1 .. Len(s) -> S] /\ t[1] = e
      /\ \A i \in 1 .. Len(s) : i # 1 => t[i] = s[i]
  BY <1>1
<1> HIDE DEF t
<1>3. t \in Seq(S) /\ Len(t) = Len(s)
  BY <1>1, <1>2
<1> QED
  BY <1>2, <1>3 DEF t

LEMMA TailNumbers ==
  ASSUME NEW S, NEW s \in Seq(S), s # << >>, \A e \in S : e.id \in Nat
  PROVE  /\ Numbers(Tail(s)) \subseteq Numbers(s)
         /\ s[1].id # 0 => s[1].id \in Numbers(s)
         /\ Rising(s) => Rising(Tail(s))
         /\ Rising(s) /\ s[1].id # 0 => \A x \in Numbers(Tail(s)) : x > s[1].id
<1>1. /\ Tail(s) \in Seq(S) /\ 1 \in 1 .. Len(s) /\ Len(Tail(s)) = Len(s) - 1 /\ Len(s) \in Nat
      /\ \A i \in 1 .. Len(Tail(s)) : i + 1 \in 1 .. Len(s) /\ Tail(s)[i] = s[i + 1]
  BY TailFacts
<1>2. DOMAIN s = 1 .. Len(s) /\ DOMAIN Tail(s) = 1 .. Len(Tail(s))
  BY <1>1
<1>3. \A i \in 1 .. Len(s) : s[i] \in S /\ s[i].id \in Nat
  OBVIOUS
<1> DEFINE t == Tail(s)
<1> HIDE DEF t
<1>4. /\ \A i \in 1 .. Len(t) : i \in Nat /\ i + 1 \in 1 .. Len(s) /\ t[i] = s[i + 1]
      /\ DOMAIN t = 1 .. Len(t) /\ Len(t) \in Nat
  BY <1>1, <1>2 DEF t
<1>5. Numbers(t) \subseteq Numbers(s) /\ (s[1].id # 0 => s[1].id \in Numbers(s))
  BY <1>1, <1>2, <1>4 DEF Numbers
<1>6. Rising(s) => Rising(t)
  <2> SUFFICES ASSUME Rising(s), NEW i \in 1 .. Len(t), NEW j \in 1 .. Len(t), i < j,
                      t[i].id # 0, t[j].id # 0
               PROVE  t[i].id < t[j].id
    BY DEF Rising
  <2>1. i + 1 \in 1 .. Len(s) /\ j + 1 \in 1 .. Len(s) /\ i + 1 < j + 1
    BY <1>4
  <2> QED
    BY <1>4, <2>1 DEF Rising
<1>7. ASSUME Rising(s), s[1].id # 0
      PROVE  \A x \in Numbers(t) : x > s[1].id
  <2> SUFFICES ASSUME NEW i \in 1 .. Len(t), t[i].id # 0
               PROVE  t[i].id > s[1].id
    BY <1>4 DEF Numbers
  <2>1. i + 1 \in 1 .. Len(s) /\ 1 < i + 1 /\ s[i + 1] = t[i]
    BY <1>4
  <2> QED
    BY <1>1, <1>3, <1>7, <2>1 DEF Rising
<1> QED
  BY <1>5, <1>6, <1>7 DEF t

LEMMA AppendNumbers ==
  ASSUME NEW S, NEW s \in Seq(S), NEW m \in S, \A e \in S : e.id \in Nat
  PROVE  /\ Numbers(Append(s, m)) = Numbers(s) \cup ({m.id} \ {0})
         /\ Rising(s) /\ (m.id # 0 => \A x \in Numbers(s) : x < m.id) => Rising(Append(s, m))
<1>1. /\ Append(s, m) \in Seq(S) /\ Len(Append(s, m)) = Len(s) + 1 /\ Len(s) \in Nat
      /\ Append(s, m)[Len(s) + 1] = m
      /\ \A i \in 1 .. Len(s) : Append(s, m)[i] = s[i]
  BY AppendFacts
<1> DEFINE t == Append(s, m)
           n == Len(s)
<1>2. DOMAIN s = 1 .. n /\ DOMAIN t = 1 .. n + 1
  BY <1>1
<1>3. n \in Nat /\ Len(t) = n + 1 /\ t[n + 1] = m /\ \A i \in 1 .. n : t[i] = s[i]
  BY <1>1
<1> HIDE DEF t, n
<1>4. Numbers(t) = Numbers(s) \cup ({m.id} \ {0})
  <2>1. \A i \in 1 .. n + 1 : i \in 1 .. n \/ i = n + 1
    BY <1>3
  <2>2. 1 .. n \subseteq 1 .. n + 1 /\ n + 1 \in 1 .. n + 1
    BY <1>3
  <2> QED
    BY <1>2, <1>3, <2>1, <2>2 DEF Numbers
<1>5. ASSUME Rising(s), m.id # 0 => \A x \in Numbers(s) : x < m.id
      PROVE  Rising(t)
  <2> SUFFICES ASSUME NEW i \in 1 .. n + 1, NEW j \in 1 .. n + 1, i < j, t[i].id # 0, t[j].id # 0
               PROVE  t[i].id < t[j].id
    BY <1>3 DEF Rising
  <2>1. i \in 1 .. n
    BY <1>3
  <2>2. CASE j \in 1 .. n
    BY <1>3, <1>5, <2>1, <2>2 DEF Rising, n
  <2>3. CASE j = n + 1
    <3>1. s[i].id \in Numbers(s)
      BY <1>2, <1>3, <2>1 DEF Numbers
    <3> QED
      BY <1>3, <1>5, <2>1, <2>3, <3>1
  <2> QED
    BY <1>3, <2>2, <2>3
<1> QED
  BY <1>4, <1>5 DEF t

-----------------------------------------------------------------------------
WaitingRequest == [id : 1 .. MaxRequests, req : Requests, processing : BOOLEAN]
ReadResult == [id : 1 .. MaxRequests, req : Requests, ok : BOOLEAN]

LEMMA Numbered ==
  /\ \A e \in WaitingRequest : e.id \in Nat /\ e.id # 0
  /\ \A e \in Asked : e.id \in Nat /\ e.id # 0
  /\ \A e \in ReadResult : e.id \in Nat /\ e.id # 0
  /\ \A e \in Asked \cup {Control} : e.id \in Nat
  BY UploadAssumption DEF WaitingRequest, Asked, ReadResult, Control

LEMMA Queues ==
  ASSUME Typed
  PROVE  /\ requests \in Seq(WaitingRequest) /\ jobs \in Seq(Asked)
         /\ callbacks \in Seq(ReadResult) /\ sendQueue \in Seq(Asked \cup {Control})
         /\ answered \in Seq(1 .. MaxRequests) /\ received \in 0 .. MaxRequests
  BY DEF Typed, UploadTypeOK, WaitingRequest, ReadResult

LEMMA InitUpload == UploadInit => Typed /\ Lined /\ OneUnderWay /\ FirstIsIdle
<1> SUFFICES ASSUME UploadInit
             PROVE  Typed /\ Lined /\ OneUnderWay /\ FirstIsIdle
  OBVIOUS
<1>1. UploadTypeOK
  <2>1. window \in Seq(Nat) /\ Len(window) \in 1 .. Window
    BY UploadAssumption DEF UploadInit
  <2>2. total \in 0 .. Width - 1 /\ received \in 0 .. MaxRequests
    BY UploadAssumption DEF UploadInit
  <2>3. \A S : << >> \in Seq(S)
    OBVIOUS
  <2> QED
    BY <2>1, <2>2, <2>3 DEF UploadInit, UploadTypeOK, Callers
<1>2. CacheSound
  BY UploadAssumption DEF UploadInit, CacheSound, IsInjective
<1>3. Lined
  BY DEF UploadInit, Lined, Above, Waiting, UnderWay, Numbers, Answered, Rising, InOrder
<1>4. OneUnderWay /\ FirstIsIdle
  BY UploadAssumption DEF UploadInit, OneUnderWay, FirstIsIdle
<1> QED
  BY <1>1, <1>2, <1>3, <1>4 DEF Typed, UploadInit

(* The remainder that the counters keep. *)
LEMMA Counted ==
  ASSUME NEW n \in Nat
  PROVE  n % Width \in 0 .. Width - 1
  BY UploadAssumption

LEMMA ReadCacheKept ==
  ASSUME Typed, NEW p \in Pieces, GetReadCacheEntry(p)
  PROVE  cache' \in Seq(Pieces) /\ CacheSound'
<1>1. /\ cache \in Seq(Pieces) /\ Len(cache) <= CacheLimit
      /\ \A i, j \in 1 .. Len(cache) : cache[i] = cache[j] => i = j
  BY DEF Typed, UploadTypeOK, CacheSound, IsInjective
<1>2. CASE Contains(cache, p)
  BY <1>1, <1>2 DEF Typed, GetReadCacheEntry, CacheSound
<1>3. CASE ~Contains(cache, p)
  <2> DEFINE rest == IF Len(cache) = CacheLimit THEN Tail(cache) ELSE cache
  <2>1. /\ rest \in Seq(Pieces) /\ Len(rest) < CacheLimit
        /\ \A i \in 1 .. Len(rest) : rest[i] # p
        /\ \A i, j \in 1 .. Len(rest) : rest[i] = rest[j] => i = j
    <3>1. \A i \in 1 .. Len(cache) : cache[i] # p
      BY <1>3 DEF Contains
    <3>2. CASE Len(cache) = CacheLimit
      <4>1. cache # << >>
        BY <3>2, UploadAssumption
      <4>2. /\ Tail(cache) \in Seq(Pieces) /\ Len(Tail(cache)) = Len(cache) - 1 /\ Len(cache) \in Nat
            /\ \A i \in 1 .. Len(Tail(cache)) : i + 1 \in 1 .. Len(cache) /\ Tail(cache)[i] = cache[i + 1]
        BY <1>1, <4>1, TailFacts
      <4> QED
        BY <1>1, <3>1, <3>2, <4>2
    <3>3. CASE Len(cache) # CacheLimit
      BY <1>1, <3>1, <3>3, UploadAssumption
    <3> QED
      BY <3>2, <3>3
  <2>2. cache' = Append(rest, p)
    BY <1>3 DEF GetReadCacheEntry
  <2> HIDE DEF rest
  <2>3. /\ cache' \in Seq(Pieces) /\ Len(cache') = Len(rest) + 1 /\ Len(rest) \in Nat
        /\ cache'[Len(rest) + 1] = p
        /\ \A i \in 1 .. Len(rest) : cache'[i] = rest[i]
    BY <2>1, <2>2, AppendFacts
  <2>4. \A i, j \in 1 .. Len(cache') : cache'[i] = cache'[j] => i = j
    <3> SUFFICES ASSUME NEW i \in 1 .. Len(rest) + 1, NEW j \in 1 .. Len(rest) + 1, cache'[i] = cache'[j]
                 PROVE  i = j
      BY <2>3
    <3>1. (i \in 1 .. Len(rest) \/ i = Len(rest) + 1) /\ (j \in 1 .. Len(rest) \/ j = Len(rest) + 1)
      BY <2>3
    <3> QED
      BY <2>1, <2>3, <3>1
  <2>5. Len(cache') <= CacheLimit
    BY <2>1, <2>3, UploadAssumption
  <2> QED
    BY <2>3, <2>4, <2>5 DEF CacheSound, IsInjective
<1> QED
  BY <1>2, <1>3

-----------------------------------------------------------------------------
LEMMA MeterKept ==
  ASSUME Typed
  PROVE  /\ UpdateUploadSpeed => /\ window' \in Seq(Nat) /\ Len(window') \in 1 .. Window
                                 /\ total' \in 0 .. Width - 1
         /\ \A n \in Nat : CountUpload(n) => /\ window' \in Seq(Nat) /\ Len(window') = Len(window)
                                             /\ total' \in 0 .. Width - 1
<1>1. /\ window \in Seq(Nat) /\ Len(window) \in 1 .. Window /\ window # << >>
      /\ total \in 0 .. Width - 1 /\ window[1] \in Nat /\ Head(window) = window[1]
  BY DEF Typed, UploadTypeOK
<1>2. ASSUME UpdateUploadSpeed
      PROVE  window' \in Seq(Nat) /\ Len(window') \in 1 .. Window
  <2>1. CASE Len(window) >= Window
    <3>1. Tail(window) \in Seq(Nat) /\ Len(Tail(window)) = Len(window) - 1
      BY <1>1
    <3>2. window' = Append(Tail(window), 0)
      BY <1>2, <2>1 DEF UpdateUploadSpeed
    <3> QED
      BY <1>1, <3>1, <3>2, UploadAssumption
  <2>2. CASE ~(Len(window) >= Window)
    BY <1>1, <1>2, <2>2, UploadAssumption DEF UpdateUploadSpeed
  <2> QED
    BY <2>1, <2>2
<1>3. ASSUME UpdateUploadSpeed
      PROVE  total' \in 0 .. Width - 1
  <2>1. total' = (total + Width - window[1]) % Width /\ total + Width - window[1] \in Int
    BY <1>1, <1>3, UploadAssumption DEF UpdateUploadSpeed
  <2>2. \A n \in Int : n % Width \in 0 .. Width - 1
    BY UploadAssumption
  <2> QED
    BY <2>1, <2>2
<1>4. ASSUME NEW n \in Nat, CountUpload(n)
      PROVE  window' \in Seq(Nat) /\ Len(window') = Len(window) /\ total' \in 0 .. Width - 1
  <2>1. total' = (total + n) % Width /\ total + n \in Nat
    BY <1>1, <1>4, UploadAssumption DEF CountUpload
  <2>2. window' = [window EXCEPT ![Len(window)] = @ + n]
    BY <1>4 DEF CountUpload
  <2>3. window' \in Seq(Nat) /\ Len(window') = Len(window)
    <3>1. Len(window) \in 1 .. Len(window) /\ window[Len(window)] + n \in Nat
      BY <1>1
    <3> QED
      BY <1>1, <2>2, <3>1
  <2> QED
    BY <2>1, <2>3, Counted
<1> QED
  BY <1>2, <1>3, <1>4

-----------------------------------------------------------------------------
(* The queues stay typed. *)
LEMMA TryTyped ==
  ASSUME Typed, NEW t \in Callers, LookAtLimit(t) \/ TryProcPeerRequest(t)
  PROVE  Typed'
<1>0. UploadTypeOK /\ CacheSound /\ (ready <=> sendQueue = << >>)
  BY DEF Typed
<1>1. trying' \in [Callers -> {"idle", "try", "lock"}]
  BY <1>0 DEF LookAtLimit, TryProcPeerRequest, UploadTypeOK
<1>2. CASE LookAtLimit(t)
  BY <1>0, <1>1, <1>2 DEF LookAtLimit, Typed, UploadTypeOK, CacheSound, rvars, pipe, meter
<1>3. CASE TryProcPeerRequest(t)
  <2>1. jobs' \in Seq(Asked) /\ requests' \in Seq(WaitingRequest)
    <3>1. CASE requests # << >> /\ ~Head(requests).processing
      <4>1. requests[1] \in WaitingRequest /\ Head(requests) = requests[1] /\ 1 \in 1 .. Len(requests)
        BY <3>1, Queues, TailFacts
      <4>2. [id |-> requests[1].id, req |-> requests[1].req] \in Asked
        BY <4>1 DEF WaitingRequest, Asked
      <4>3. [requests[1] EXCEPT !.processing = TRUE] \in WaitingRequest
        BY <4>1 DEF WaitingRequest
      <4>4. /\ jobs' = Append(jobs, [id |-> requests[1].id, req |-> requests[1].req])
            /\ requests' = [requests EXCEPT ![1] = [requests[1] EXCEPT !.processing = TRUE]]
        BY <1>3, <3>1, <4>1 DEF TryProcPeerRequest
      <4>5. jobs' \in Seq(Asked)
        BY <4>2, <4>4, Queues, AppendFacts
      <4>6. requests' \in Seq(WaitingRequest)
        BY <3>1, <4>3, <4>4, Queues, FirstReplaced
      <4> QED
        BY <4>5, <4>6
    <3>2. CASE UNCHANGED <<jobs, requests>>
      BY <3>2, Queues
    <3> QED
      BY <1>3, <3>1, <3>2 DEF TryProcPeerRequest
  <2> QED
    BY <1>0, <1>1, <1>3, <2>1 DEF TryProcPeerRequest, Typed, UploadTypeOK, CacheSound, meter, WaitingRequest
<1> QED
  BY <1>2, <1>3

LEMMA FsmTyped ==
  ASSUME Typed, \/ OnTick \/ FsmTick \/ Interest \/ StopUpload("stopped") \/ StopUpload("closed")
                \/ \E r \in Requests : ReceivedDataRequest(r)
  PROVE  Typed'
<1>0. UploadTypeOK /\ CacheSound /\ (ready <=> sendQueue = << >>) /\ "fsm" \in Callers
  BY DEF Typed, Callers
<1>1. CASE OnTick
  BY <1>0, <1>1, MeterKept DEF OnTick, Typed, UploadTypeOK, CacheSound, rvars, pipe
<1>2. CASE FsmTick
  BY <1>0, <1>2 DEF FsmTick, Typed, UploadTypeOK, CacheSound, rvars, pipe, meter
<1>3. CASE Interest
  BY <1>0, <1>3 DEF Interest, Typed, UploadTypeOK, CacheSound, rvars, pipe, meter
<1>4. ASSUME NEW m \in {"stopped", "closed"}, StopUpload(m)
      PROVE  Typed'
  <2>1. requests' \in Seq([id : 1 .. MaxRequests, req : Requests, processing : BOOLEAN])
    BY <1>4 DEF StopUpload
  <2>2. interrupted' \in BOOLEAN
    BY <1>0, <1>4 DEF StopUpload, UploadTypeOK
  <2> QED
    BY <1>0, <1>4, <2>1, <2>2 DEF StopUpload, Typed, UploadTypeOK, CacheSound, pipe, meter
<1>5. ASSUME NEW r \in Requests, ReceivedDataRequest(r)
      PROVE  Typed'
  <2>1. received' \in 0 .. MaxRequests /\ received' \in 1 .. MaxRequests
    BY <1>0, <1>5, UploadAssumption DEF ReceivedDataRequest, UploadTypeOK
  <2>2. [id |-> received', req |-> r, processing |-> FALSE] \in WaitingRequest
    BY <2>1 DEF WaitingRequest
  <2>3. requests' \in Seq(WaitingRequest)
    BY <1>5, <2>2, Queues, AppendFacts DEF ReceivedDataRequest
  <2>4. trying' \in [Callers -> {"idle", "try", "lock"}]
    BY <1>0, <1>5 DEF ReceivedDataRequest, UploadTypeOK
  <2> QED
    BY <1>0, <1>5, <2>1, <2>3, <2>4
       DEF ReceivedDataRequest, Typed, UploadTypeOK, CacheSound, pipe, meter, WaitingRequest
<1> QED
  BY <1>1, <1>2, <1>3, <1>4, <1>5

LEMMA ReadTyped ==
  ASSUME Typed, ReadData
  PROVE  Typed'
<1>0. UploadTypeOK /\ CacheSound /\ (ready <=> sendQueue = << >>)
  BY DEF Typed
<1>1. Head(jobs) \in Asked /\ jobs' \in Seq(Asked)
  BY Queues, TailFacts DEF ReadData
<1>2. Head(jobs).req \in Requests /\ Head(jobs).req.piece \in Pieces /\ Head(jobs).id \in 1 .. MaxRequests
  BY <1>1, UploadAssumption DEF Asked
<1>3. cache' \in Seq(Pieces) /\ CacheSound'
  <2>1. CASE UNCHANGED cache
    BY <1>0, <2>1 DEF UploadTypeOK, CacheSound
  <2>2. CASE GetReadCacheEntry(Head(jobs).req.piece)
    BY <1>2, <2>2, ReadCacheKept
  <2> QED
    BY <2>1, <2>2 DEF ReadData
<1>4. callbacks' \in Seq(ReadResult)
  <2>1. \A ok \in BOOLEAN : [id |-> Head(jobs).id, req |-> Head(jobs).req, ok |-> ok] \in ReadResult
    BY <1>2 DEF ReadResult
  <2>2. \A ok \in BOOLEAN :
          Append(callbacks, [id |-> Head(jobs).id, req |-> Head(jobs).req, ok |-> ok]) \in Seq(ReadResult)
    BY <2>1, Queues, AppendFacts
  <2> QED
    BY <2>2, Queues DEF ReadData
<1>5. aborted' \in {"no", "read", "front"}
  BY <1>0 DEF ReadData, UploadTypeOK
<1> QED
  BY <1>0, <1>1, <1>3, <1>4, <1>5 DEF ReadData, Typed, UploadTypeOK, rvars, meter, ReadResult

LEMMA SendTyped ==
  ASSUME Typed, OnReadData \/ SendControl
  PROVE  Typed'
<1>0. UploadTypeOK /\ CacheSound /\ (ready <=> sendQueue = << >>)
  BY DEF Typed
<1>1. ASSUME NEW m \in Asked \cup {Control}, SendData(m)
      PROVE  sendQueue' \in Seq(Asked \cup {Control}) /\ sendQueue' # << >> /\ ready' = FALSE
  <2>1. sendQueue' = Append(sendQueue, m) /\ sendQueue \in Seq(Asked \cup {Control})
    BY <1>1, Queues DEF SendData
  <2>2. sendQueue' \in Seq(Asked \cup {Control}) /\ Len(sendQueue') = Len(sendQueue) + 1 /\ Len(sendQueue) \in Nat
    BY <2>1, AppendFacts
  <2> QED
    BY <1>1, <2>2 DEF SendData
<1>2. CASE SendControl
  <2>1. sendQueue' \in Seq(Asked \cup {Control}) /\ sendQueue' # << >> /\ ready' = FALSE
    BY <1>1, <1>2 DEF SendControl
  <2> QED
    BY <1>0, <1>2, <2>1 DEF SendControl, Typed, UploadTypeOK, CacheSound, rvars, meter
<1>3. CASE OnReadData
  <2>1. Head(callbacks) \in ReadResult /\ callbacks' \in Seq(ReadResult)
    BY <1>3, Queues, TailFacts DEF OnReadData
  <2>2. [id |-> Head(callbacks).id, req |-> Head(callbacks).req] \in Asked \cup {Control}
    BY <2>1 DEF ReadResult, Asked
  <2>3. CASE Head(callbacks).ok
    <3>1. sendQueue' \in Seq(Asked \cup {Control}) /\ sendQueue' # << >> /\ ready' = FALSE
      BY <1>1, <1>3, <2>2, <2>3 DEF OnReadData
    <3> QED
      BY <1>0, <1>3, <2>1, <3>1 DEF OnReadData, Typed, UploadTypeOK, CacheSound, rvars, meter, ReadResult
  <2>4. CASE UNCHANGED <<sendQueue, ready>>
    BY <1>0, <1>3, <2>1, <2>4 DEF OnReadData, Typed, UploadTypeOK, CacheSound, rvars, meter, ReadResult
  <2> QED
    BY <1>3, <2>3, <2>4 DEF OnReadData
<1> QED
  BY <1>2, <1>3

(* What the handler of an answer has done. *)
LEMMA OnSendFacts ==
  ASSUME Typed, NEW ok \in BOOLEAN, OnSend(ok)
  PROVE  /\ sendQueue # << >> /\ sendQueue[1] \in Asked \cup {Control}
         /\ sendQueue' = Tail(sendQueue) /\ (ready' <=> Tail(sendQueue) = << >>)
         /\ answered' = answered \/ (sendQueue[1].id # 0 /\ answered' = Append(answered, sendQueue[1].id))
         /\ \/ UNCHANGED <<requests, meter, trying, aborted>>
            \/ sendQueue[1].id # 0 /\ ~passiveUdp /\ PopRequest(sendQueue[1].req)
         /\ UNCHANGED <<mode, received, jobs, callbacks, passiveUdp, tick, cache, interrupted>>
<1>1. sendQueue # << >>
  BY DEF OnSend, Sending, Typed
<1>2. Head(sendQueue) = sendQueue[1] /\ sendQueue[1] \in Asked \cup {Control}
  BY <1>1, Queues, TailFacts
<1> QED
  BY <1>1, <1>2 DEF OnSend

LEMMA SentTyped ==
  ASSUME Typed, NEW ok \in BOOLEAN, OnSend(ok)
  PROVE  Typed'
<1>0. UploadTypeOK /\ CacheSound /\ "sender" \in Callers
  BY DEF Typed, Callers
<1>1. sendQueue' \in Seq(Asked \cup {Control}) /\ (ready' <=> sendQueue' = << >>) /\ ready' \in BOOLEAN
  BY OnSendFacts, Queues, TailFacts DEF OnSend
<1>2. sendQueue[1].id # 0 => sendQueue[1] \in Asked /\ sendQueue[1].id \in 1 .. MaxRequests
  BY OnSendFacts DEF Control, Asked
<1>3. answered' \in Seq(1 .. MaxRequests)
  <2>1. answered \in Seq(1 .. MaxRequests)
    BY Queues
  <2>2. CASE answered' = answered
    BY <2>1, <2>2
  <2>3. CASE sendQueue[1].id # 0 /\ answered' = Append(answered, sendQueue[1].id)
    BY <1>2, <2>1, <2>3, AppendFacts
  <2> QED
    BY <2>2, <2>3, OnSendFacts
<1>4. /\ requests' \in Seq(WaitingRequest) /\ aborted' \in {"no", "read", "front"}
      /\ trying' \in [Callers -> {"idle", "try", "lock"}]
      /\ window' \in Seq(Nat) /\ Len(window') \in 1 .. Window /\ total' \in 0 .. Width - 1
  <2>1. CASE UNCHANGED <<requests, meter, trying, aborted>>
    BY <1>0, <2>1, Queues DEF meter, UploadTypeOK
  <2>2. CASE sendQueue[1].id # 0 /\ PopRequest(sendQueue[1].req)
    <3>1. sendQueue[1].req \in Requests /\ sendQueue[1].req.length \in Nat
      BY <1>2, <2>2, UploadAssumption DEF Asked
    <3>2. CASE UNCHANGED <<requests, meter, trying>> /\ (aborted' = aborted \/ aborted' = "front")
      BY <1>0, <3>2, Queues DEF meter, UploadTypeOK
    <3>3. CASE /\ requests # << >> /\ requests' = Tail(requests)
               /\ CountUpload(sendQueue[1].req.length)
               /\ trying' = [trying EXCEPT !["sender"] = "try"]
               /\ UNCHANGED aborted
      <4>1. requests' \in Seq(WaitingRequest)
        BY <3>3, Queues, TailFacts
      <4>2. window' \in Seq(Nat) /\ Len(window') = Len(window) /\ total' \in 0 .. Width - 1
        BY <3>1, <3>3, MeterKept
      <4> QED
        BY <1>0, <3>3, <4>1, <4>2 DEF UploadTypeOK
    <3> QED
      BY <2>2, <3>2, <3>3 DEF PopRequest
  <2> QED
    BY <2>1, <2>2, OnSendFacts
<1> QED
  BY <1>0, <1>1, <1>3, <1>4, OnSendFacts DEF Typed, UploadTypeOK, CacheSound, WaitingRequest

LEMMA TypedKept ==
  ASSUME Typed, [UploadNext]_uvars
  PROVE  Typed'
<1>1. CASE UNCHANGED uvars
  BY <1>1 DEF uvars, rvars, pipe, meter, Typed, UploadTypeOK, CacheSound
<1> QED
  BY <1>1, TryTyped, FsmTyped, ReadTyped, SendTyped, SentTyped DEF UploadNext

-----------------------------------------------------------------------------
(* Nothing overtakes anything, whoever stops what. *)
LEMMA WaitingFacts ==
  ASSUME Typed
  PROVE  /\ requests' = << >> => Waiting' = {} /\ Numbers(requests') = {} /\ Rising(requests')
         /\ requests # << >> /\ requests' = Tail(requests) => Waiting' \subseteq Waiting
<1>1. requests' = << >> => Waiting' = {} /\ Numbers(requests') = {} /\ Rising(requests')
  BY DEF Waiting, Numbers, Rising
<1>2. ASSUME requests # << >>, requests' = Tail(requests)
      PROVE  Waiting' \subseteq Waiting
  <2>1. \A i \in 1 .. Len(requests') : i + 1 \in 1 .. Len(requests) /\ requests'[i] = requests[i + 1]
    BY <1>2, Queues, TailFacts
  <2> SUFFICES ASSUME NEW i \in 1 .. Len(requests'), ~requests'[i].processing
               PROVE  requests'[i].id \in Waiting
    BY DEF Waiting
  <2> QED
    BY <2>1 DEF Waiting
<1> QED
  BY <1>1, <1>2

Extends(s, m) ==
  /\ Numbers(Append(s, m)) = Numbers(s) \cup ({m.id} \ {0})
  /\ (m.id # 0 => \A x \in Numbers(s) : x < m.id) => Rising(Append(s, m))

LEMMA Appended ==
  ASSUME Typed, Lined
  PROVE  /\ \A m \in WaitingRequest : Extends(requests, m)
         /\ \A m \in Asked : Extends(jobs, m)
         /\ \A m \in ReadResult : Extends(callbacks, m)
         /\ \A m \in Asked \cup {Control} : Extends(sendQueue, m)
<1>1. ASSUME NEW S, NEW s \in Seq(S), \A e \in S : e.id \in Nat, Rising(s)
      PROVE  \A m \in S : Extends(s, m)
  BY <1>1, AppendNumbers DEF Extends
<1>2. Rising(requests) /\ Rising(jobs) /\ Rising(callbacks) /\ Rising(sendQueue)
  BY DEF Lined
<1>3. \A m \in WaitingRequest : Extends(requests, m)
  BY <1>1, <1>2, Queues, Numbered
<1>4. \A m \in Asked : Extends(jobs, m)
  BY <1>1, <1>2, Queues, Numbered
<1>5. \A m \in ReadResult : Extends(callbacks, m)
  BY <1>1, <1>2, Queues, Numbered
<1>6. \A m \in Asked \cup {Control} : Extends(sendQueue, m)
  BY <1>1, <1>2, Queues, Numbered
<1> QED
  BY <1>3, <1>4, <1>5, <1>6

LEMMA ReceivedLined ==
  ASSUME Typed, Lined, NEW r \in Requests, ReceivedDataRequest(r)
  PROVE  Lined'
<1> DEFINE m == [id |-> received + 1, req |-> r, processing |-> FALSE]
<1>0. received \in Nat /\ received < MaxRequests /\ received' = received + 1
  BY Queues DEF ReceivedDataRequest
<1>1. /\ requests' = Append(requests, m)
      /\ UNCHANGED <<jobs, callbacks, sendQueue, answered>>
      /\ m \in WaitingRequest /\ m.id = received + 1
  BY <1>0, UploadAssumption DEF ReceivedDataRequest, pipe, WaitingRequest
<1> HIDE DEF m
<1>2. \A x \in Numbers(requests) : x \in 1 .. received
  BY DEF Lined
<1>3. Numbers(requests') = Numbers(requests) \cup {received + 1} /\ Rising(requests')
  <2>1. \A x \in Numbers(requests) : x < m.id
    BY <1>0, <1>1, <1>2
  <2> QED
    BY <1>0, <1>1, <2>1, Appended DEF Extends, Lined
<1>4. \A x \in Waiting' : x \in Waiting \/ x = received + 1
  <2>1. /\ Len(requests') = Len(requests) + 1 /\ Len(requests) \in Nat
        /\ requests'[Len(requests) + 1] = m
        /\ \A i \in 1 .. Len(requests) : requests'[i] = requests[i]
    BY <1>1, Queues, AppendFacts
  <2>2. ASSUME NEW i \in 1 .. Len(requests'), ~requests'[i].processing
        PROVE  requests'[i].id \in Waiting \/ requests'[i].id = received + 1
    <3>1. i \in 1 .. Len(requests) \/ i = Len(requests) + 1
      BY <2>1
    <3>2. CASE i \in 1 .. Len(requests)
      BY <2>1, <2>2, <3>2 DEF Waiting
    <3> QED
      BY <1>1, <2>1, <3>1, <3>2
  <2> QED
    BY <2>2 DEF Waiting
<1>5. UnderWay' = UnderWay /\ Answered' = Answered /\ InOrder' = InOrder
  BY <1>1 DEF UnderWay, Answered, InOrder
<1>6. \A x \in UnderWay \cup Answered : x \in 1 .. received
  BY DEF Lined
<1>7. Above(Waiting, UnderWay \cup Answered)'
  BY <1>0, <1>4, <1>5, <1>6 DEF Lined, Above
<1>8. Numbers(requests') \cup UnderWay' \cup Answered' \subseteq 1 .. received'
  BY <1>0, <1>2, <1>3, <1>5, <1>6
<1> QED
  BY <1>1, <1>3, <1>5, <1>7, <1>8 DEF Lined

LEMMA ProcessedLined ==
  ASSUME Typed, Lined, NEW t \in Callers, TryProcPeerRequest(t)
  PROVE  Lined'
<1>1. CASE UNCHANGED <<jobs, requests>>
  BY <1>1 DEF TryProcPeerRequest, Lined, Waiting, UnderWay, Answered, InOrder
<1>2. CASE requests # << >> /\ ~Head(requests).processing
  <2>1. requests[1] \in WaitingRequest /\ Head(requests) = requests[1] /\ 1 \in 1 .. Len(requests)
    BY <1>2, Queues, TailFacts
  <2> DEFINE m == [id |-> requests[1].id, req |-> requests[1].req]
             h == requests[1].id
             e == [requests[1] EXCEPT !.processing = TRUE]
  <2>2. m \in Asked /\ e \in WaitingRequest /\ e.id = h /\ e.processing /\ m.id = h /\ h # 0 /\ h \in Nat
    BY <2>1, Numbered DEF WaitingRequest, Asked
  <2>3. /\ jobs' = Append(jobs, m) /\ requests' = [requests EXCEPT ![1] = e]
        /\ UNCHANGED <<callbacks, sendQueue, answered, received>>
    BY <1>2, <2>1 DEF TryProcPeerRequest
  <2>4. h \in Waiting
    BY <1>2, <2>1 DEF Waiting
  <2>5. \A x \in UnderWay \cup Answered : x < h
    BY <2>2, <2>4 DEF Lined, Above, UnderWay, Answered
  <2>6. /\ Len(requests') = Len(requests) /\ requests'[1] = e /\ requests' \in Seq(WaitingRequest)
        /\ \A i \in 1 .. Len(requests) : i # 1 => requests'[i] = requests[i]
    <3>1. requests \in Seq(WaitingRequest) /\ requests # << >> /\ e \in WaitingRequest
      BY <1>2, <2>2, Queues
    <3> HIDE DEF e
    <3> QED
      BY <2>3, <3>1, FirstReplaced
  <2>7. \A i \in 1 .. Len(requests) : requests'[i].id = requests[i].id
    BY <2>2, <2>6
  <2> HIDE DEF m, e
  <2>8. Numbers(jobs') = Numbers(jobs) \cup {h} /\ Rising(jobs')
    <3>1. \A x \in Numbers(jobs) : x < m.id
      BY <2>2, <2>5 DEF UnderWay
    <3> QED
      BY <2>2, <2>3, <3>1, Appended DEF Extends, Lined
  <2>9. Numbers(requests') = Numbers(requests) /\ Rising(requests')
    <3>1. DOMAIN requests = 1 .. Len(requests) /\ DOMAIN requests' = 1 .. Len(requests)
      BY <2>6, Queues
    <3> QED
      BY <2>6, <2>7, <3>1 DEF Numbers, Lined, Rising
  <2>10. \A x \in Waiting' : x \in Waiting /\ x > h
    <3> SUFFICES ASSUME NEW i \in 1 .. Len(requests), ~requests'[i].processing
                 PROVE  requests'[i].id \in Waiting /\ requests'[i].id > h
      BY <2>6 DEF Waiting
    <3>1. i # 1 /\ 1 < i
      BY <2>2, <2>6
    <3>2. requests'[i] = requests[i] /\ requests[i] \in WaitingRequest
      BY <2>6, <3>1, Queues
    <3>3. requests[i].id # 0 /\ requests[i].id \in Nat
      BY <3>2, Numbered
    <3> QED
      BY <2>1, <2>2, <3>1, <3>2, <3>3 DEF Waiting, Lined, Rising
  <2>11. h \in Numbers(requests)
    BY <2>1, <2>2, Queues DEF Numbers
  <2> HIDE DEF h
  <2>12. /\ Answered' = Answered /\ InOrder' = InOrder /\ UnderWay' = UnderWay \cup {h}
         /\ Numbers(callbacks') = Numbers(callbacks) /\ Numbers(sendQueue') = Numbers(sendQueue)
    BY <2>3, <2>8 DEF Answered, InOrder, UnderWay
  <2>13. Above(Waiting, UnderWay \cup Answered)'
    BY <2>10, <2>12 DEF Lined, Above
  <2>14. Above(Numbers(jobs), Numbers(callbacks) \cup Numbers(sendQueue) \cup Answered)'
    BY <2>5, <2>8, <2>2, <2>12 DEF Lined, Above, UnderWay
  <2>15. Numbers(requests') \cup UnderWay' \cup Answered' \subseteq 1 .. received'
    BY <2>3, <2>9, <2>11, <2>12 DEF Lined
  <2> QED
    BY <2>3, <2>8, <2>9, <2>12, <2>13, <2>14, <2>15 DEF Lined
<1> QED
  BY <1>1, <1>2 DEF TryProcPeerRequest

LEMMA ReadLined ==
  ASSUME Typed, Lined, ReadData
  PROVE  Lined'
<1> DEFINE h == jobs[1].id
<1>1. /\ jobs # << >> /\ jobs' = Tail(jobs) /\ Head(jobs) = jobs[1] /\ jobs[1] \in Asked
      /\ UNCHANGED <<requests, received, sendQueue, answered>>
      /\ \/ callbacks' = callbacks
         \/ \E ok \in BOOLEAN : callbacks' = Append(callbacks, [id |-> h, req |-> jobs[1].req, ok |-> ok])
  BY Queues, TailFacts DEF ReadData, rvars
<1>2. h # 0 /\ h \in Nat
  BY <1>1, Numbered
<1>3. /\ Numbers(jobs') \subseteq Numbers(jobs) /\ h \in Numbers(jobs) /\ Rising(jobs')
      /\ \A x \in Numbers(jobs') : x > h
  BY <1>1, <1>2, Queues, Numbered, TailNumbers DEF Lined
<1>4. Numbers(callbacks') \subseteq Numbers(callbacks) \cup {h} /\ Rising(callbacks')
  <2>1. CASE callbacks' = callbacks
    BY <2>1 DEF Lined
  <2>2. ASSUME NEW ok \in BOOLEAN, callbacks' = Append(callbacks, [id |-> h, req |-> jobs[1].req, ok |-> ok])
        PROVE  Numbers(callbacks') \subseteq Numbers(callbacks) \cup {h} /\ Rising(callbacks')
    <3> DEFINE m == [id |-> h, req |-> jobs[1].req, ok |-> ok]
    <3>1. m \in ReadResult /\ m.id = h
      BY <1>1 DEF Asked, ReadResult
    <3> HIDE DEF m
    <3>2. \A x \in Numbers(callbacks) : x < m.id
      BY <1>2, <1>3, <3>1 DEF Lined, Above
    <3>3. callbacks' = Append(callbacks, m)
      BY <2>2 DEF m
    <3> QED
      BY <1>2, <3>1, <3>2, <3>3, Appended DEF Extends, Lined
  <2> QED
    BY <1>1, <2>1, <2>2
<1> HIDE DEF h
<1>5. /\ Answered' = Answered /\ InOrder' = InOrder /\ Waiting' = Waiting
      /\ Numbers(requests') = Numbers(requests) /\ Numbers(sendQueue') = Numbers(sendQueue)
      /\ UnderWay' \subseteq UnderWay
  BY <1>1, <1>3, <1>4 DEF Answered, InOrder, Waiting, UnderWay
<1>6. Above(Waiting, UnderWay \cup Answered)'
  BY <1>5 DEF Lined, Above
<1>7. Above(Numbers(jobs), Numbers(callbacks) \cup Numbers(sendQueue) \cup Answered)'
  BY <1>3, <1>4, <1>5 DEF Lined, Above
<1>8. Above(Numbers(callbacks), Numbers(sendQueue) \cup Answered)'
  BY <1>3, <1>4, <1>5 DEF Lined, Above
<1>9. Above(Numbers(sendQueue), Answered)' /\ Numbers(requests') \cup UnderWay' \cup Answered' \subseteq 1 .. received'
  BY <1>1, <1>5 DEF Lined, Above
<1> QED
  BY <1>1, <1>3, <1>4, <1>5, <1>6, <1>7, <1>8, <1>9 DEF Lined

LEMMA SendLined ==
  ASSUME Typed, Lined, OnReadData \/ SendControl
  PROVE  Lined'
<1>1. ASSUME NEW C, C \subseteq Numbers(callbacks), NEW K,
             Numbers(callbacks') \subseteq C, Rising(callbacks'), Numbers(sendQueue') \subseteq Numbers(sendQueue) \cup K,
             Rising(sendQueue'), K \subseteq Numbers(callbacks), \A x \in C, y \in K : x > y,
             UNCHANGED <<requests, received, jobs, answered>>
      PROVE  Lined'
  <2>1. /\ Answered' = Answered /\ InOrder' = InOrder /\ Waiting' = Waiting
        /\ Numbers(requests') = Numbers(requests) /\ Numbers(jobs') = Numbers(jobs)
        /\ UnderWay' \subseteq UnderWay
    BY <1>1 DEF Answered, InOrder, Waiting, UnderWay
  <2>2. Above(Waiting, UnderWay \cup Answered)'
    BY <2>1 DEF Lined, Above
  <2>3. Above(Numbers(jobs), Numbers(callbacks) \cup Numbers(sendQueue) \cup Answered)'
    BY <1>1, <2>1 DEF Lined, Above
  <2>4. Above(Numbers(callbacks), Numbers(sendQueue) \cup Answered)'
    BY <1>1, <2>1 DEF Lined, Above
  <2>5. Above(Numbers(sendQueue), Answered)' /\ Numbers(requests') \cup UnderWay' \cup Answered' \subseteq 1 .. received'
    BY <1>1, <2>1 DEF Lined, Above
  <2> QED
    BY <1>1, <2>1, <2>2, <2>3, <2>4, <2>5 DEF Lined
<1>2. CASE SendControl
  <2>1. sendQueue' = Append(sendQueue, Control) /\ UNCHANGED <<requests, received, jobs, callbacks, answered>>
    BY <1>2 DEF SendControl, SendData, rvars
  <2>2. Control.id = 0 /\ Control \in Asked \cup {Control}
    BY DEF Control
  <2>3. Numbers(sendQueue') = Numbers(sendQueue) /\ Rising(sendQueue')
    <3>1. Extends(sendQueue, Control)
      BY <2>2, Appended
    <3>2. Numbers(Append(sendQueue, Control)) = Numbers(sendQueue) /\ Rising(Append(sendQueue, Control))
      BY <2>2, <3>1 DEF Extends
    <3> QED
      BY <2>1, <3>2
  <2>4. Rising(callbacks') /\ Numbers(callbacks') = Numbers(callbacks)
    BY <2>1 DEF Lined
  <2>5. PICK C, K : C = Numbers(callbacks) /\ K = {}
    OBVIOUS
  <2>6. /\ C \subseteq Numbers(callbacks) /\ Numbers(callbacks') \subseteq C
        /\ Numbers(sendQueue') \subseteq Numbers(sendQueue) \cup K
        /\ K \subseteq Numbers(callbacks) /\ \A x \in C, y \in K : x > y
    BY <2>3, <2>4, <2>5
  <2>7. UNCHANGED <<requests, received, jobs, answered>>
    BY <2>1
  <2> QED
    BY <1>1, <2>3, <2>4, <2>6, <2>7
<1>3. CASE OnReadData
  <2> DEFINE h == callbacks[1].id
             m == [id |-> h, req |-> callbacks[1].req]
  <2>1. /\ callbacks # << >> /\ callbacks' = Tail(callbacks)
        /\ Head(callbacks) = callbacks[1] /\ callbacks[1] \in ReadResult
        /\ UNCHANGED <<requests, received, jobs, answered>>
        /\ sendQueue' = sendQueue \/ sendQueue' = Append(sendQueue, m)
    BY <1>3, Queues, TailFacts DEF OnReadData, SendData, rvars
  <2>2. h # 0 /\ h \in Nat /\ m \in Asked \cup {Control} /\ m.id = h
    BY <2>1, Numbered DEF ReadResult, Asked
  <2> HIDE DEF m
  <2>3. /\ Numbers(callbacks') \subseteq Numbers(callbacks) /\ h \in Numbers(callbacks) /\ Rising(callbacks')
        /\ \A x \in Numbers(callbacks') : x > h
    BY <2>1, <2>2, Queues, Numbered, TailNumbers DEF Lined
  <2>4. Numbers(sendQueue') \subseteq Numbers(sendQueue) \cup {h} /\ Rising(sendQueue')
    <3>1. CASE sendQueue' = sendQueue
      BY <3>1 DEF Lined
    <3>2. CASE sendQueue' = Append(sendQueue, m)
      <4>1. \A x \in Numbers(sendQueue) : x < m.id
        BY <2>2, <2>3 DEF Lined, Above
      <4> QED
        BY <2>2, <3>2, <4>1, Appended DEF Extends, Lined
    <3> QED
      BY <2>1, <3>1, <3>2
  <2> HIDE DEF h
  <2>5. PICK C, K : C = Numbers(callbacks') /\ K = {h}
    OBVIOUS
  <2> QED
    BY <1>1, <2>1, <2>3, <2>4, <2>5
<1> QED
  BY <1>2, <1>3

LEMMA SentLined ==
  ASSUME Typed, Lined, NEW ok \in BOOLEAN, OnSend(ok)
  PROVE  Lined'
<1> DEFINE h == sendQueue[1].id
<1>1. /\ sendQueue # << >> /\ sendQueue' = Tail(sendQueue) /\ sendQueue[1] \in Asked \cup {Control}
      /\ UNCHANGED <<received, jobs, callbacks>>
      /\ answered' = answered \/ (h # 0 /\ answered' = Append(answered, h))
      /\ requests' = requests \/ (requests # << >> /\ requests' = Tail(requests))
  BY OnSendFacts DEF PopRequest
<1>2. h \in Nat
  BY <1>1, Numbered
<1>3. /\ Numbers(sendQueue') \subseteq Numbers(sendQueue) /\ (h # 0 => h \in Numbers(sendQueue))
      /\ Rising(sendQueue')
      /\ h # 0 => \A x \in Numbers(sendQueue') : x > h
  BY <1>1, Queues, Numbered, TailNumbers DEF Lined
<1> HIDE DEF h
<1>4. Waiting' \subseteq Waiting /\ Numbers(requests') \subseteq Numbers(requests) /\ Rising(requests')
  <2>1. CASE requests' = requests
    BY <2>1 DEF Waiting, Lined
  <2>2. CASE requests # << >> /\ requests' = Tail(requests)
    BY <2>2, Queues, Numbered, TailNumbers, WaitingFacts DEF Lined
  <2> QED
    BY <1>1, <2>1, <2>2
<1>5. answered \in Seq(1 .. MaxRequests) /\ \A x \in Answered : x \in Nat
  <2>1. answered \in Seq(1 .. MaxRequests) /\ MaxRequests \in Nat
    BY Queues, UploadAssumption
  <2> QED
    BY <2>1 DEF Answered
<1>6. CASE answered' = answered
  <2>1. /\ Answered' = Answered /\ InOrder' = InOrder /\ UnderWay' \subseteq UnderWay
        /\ Numbers(jobs') = Numbers(jobs) /\ Numbers(callbacks') = Numbers(callbacks)
    BY <1>1, <1>3, <1>6 DEF Answered, InOrder, UnderWay
  <2>2. Above(Waiting, UnderWay \cup Answered)'
    BY <1>4, <2>1 DEF Lined, Above
  <2>3. Above(Numbers(jobs), Numbers(callbacks) \cup Numbers(sendQueue) \cup Answered)'
    BY <1>3, <2>1 DEF Lined, Above
  <2>4. Above(Numbers(callbacks), Numbers(sendQueue) \cup Answered)' /\ Above(Numbers(sendQueue), Answered)'
    BY <1>3, <2>1 DEF Lined, Above
  <2>5. Numbers(requests') \cup UnderWay' \cup Answered' \subseteq 1 .. received'
    BY <1>1, <1>4, <2>1 DEF Lined
  <2> QED
    BY <1>1, <1>3, <1>4, <2>1, <2>2, <2>3, <2>4, <2>5 DEF Lined
<1>7. CASE h # 0 /\ answered' = Append(answered, h)
  <2> DEFINE n == Len(answered)
  <2>1. /\ n \in Nat /\ Len(answered') = n + 1 /\ answered'[n + 1] = h
        /\ \A i \in 1 .. n : answered'[i] = answered[i]
        /\ DOMAIN answered = 1 .. n /\ DOMAIN answered' = 1 .. n + 1
    BY <1>2, <1>5, <1>7
  <2> HIDE DEF n
  <2>2. \A i \in 1 .. n + 1 : i \in 1 .. n \/ i = n + 1
    BY <2>1
  <2>3. Len(answered) = n
    BY DEF n
  <2>4. \A x \in Answered' : x \in Answered \/ x = h
    BY <2>1, <2>2, <2>3 DEF Answered
  <2>5. \A x \in Answered : h > x
    BY <1>3, <1>7 DEF Lined, Above
  <2>6. InOrder'
    <3> SUFFICES ASSUME NEW i \in 1 .. n + 1, NEW j \in 1 .. n + 1, i < j
                 PROVE  answered'[i] < answered'[j]
      BY <2>1 DEF InOrder
    <3>1. i \in 1 .. n
      BY <2>1
    <3>2. CASE j \in 1 .. n
      BY <2>1, <3>1, <3>2 DEF InOrder, Lined
    <3>3. CASE j = n + 1
      <4>1. answered[i] \in Answered
        BY <2>3, <3>1 DEF Answered
      <4> QED
        BY <1>2, <1>5, <2>1, <2>5, <3>1, <3>3, <4>1
    <3> QED
      BY <2>2, <3>2, <3>3
  <2>7. /\ UnderWay' \subseteq UnderWay /\ h \in UnderWay
        /\ Numbers(jobs') = Numbers(jobs) /\ Numbers(callbacks') = Numbers(callbacks)
    BY <1>1, <1>3, <1>7 DEF UnderWay
  <2>8. Above(Waiting, UnderWay \cup Answered)'
    BY <1>4, <2>4, <2>7 DEF Lined, Above
  <2>9. Above(Numbers(jobs), Numbers(callbacks) \cup Numbers(sendQueue) \cup Answered)'
    BY <1>3, <1>7, <2>4, <2>7 DEF Lined, Above
  <2>10. Above(Numbers(callbacks), Numbers(sendQueue) \cup Answered)'
    BY <1>3, <1>7, <2>4, <2>7 DEF Lined, Above
  <2>11. Above(Numbers(sendQueue), Answered)'
    BY <1>3, <1>7, <2>4 DEF Lined, Above
  <2>12. Numbers(requests') \cup UnderWay' \cup Answered' \subseteq 1 .. received'
    BY <1>1, <1>4, <2>4, <2>7 DEF Lined
  <2> QED
    BY <1>1, <1>3, <1>4, <2>6, <2>8, <2>9, <2>10, <2>11, <2>12 DEF Lined
<1> QED
  BY <1>1, <1>6, <1>7

LEMMA LinedKept ==
  ASSUME Typed, Lined, [UploadNext]_uvars
  PROVE  Lined'
<1>1. ASSUME UNCHANGED <<requests, received, jobs, callbacks, sendQueue, answered>>
      PROVE  Lined'
  BY <1>1 DEF Lined, Waiting, UnderWay, Answered, InOrder
<1>2. CASE \/ UNCHANGED uvars \/ OnTick \/ FsmTick \/ Interest \/ \E t \in Callers : LookAtLimit(t)
  BY <1>1, <1>2 DEF OnTick, FsmTick, Interest, LookAtLimit, uvars, rvars, pipe
<1>3. ASSUME NEW m, StopUpload(m)
      PROVE  Lined'
  <2>1. requests' = << >> /\ UNCHANGED <<received, jobs, callbacks, sendQueue, answered>>
    BY <1>3 DEF StopUpload, pipe
  <2>2. UnderWay' = UnderWay /\ Answered' = Answered /\ InOrder' = InOrder
    BY <2>1 DEF UnderWay, Answered, InOrder
  <2> QED
    BY <2>1, <2>2, WaitingFacts DEF Lined, Above
<1> QED
  BY <1>2, <1>3, ReceivedLined, ProcessedLined, ReadLined, SendLined, SentLined DEF UploadNext

-----------------------------------------------------------------------------
(* Unless uploading is stopped with an answer under way, the answers come  *)
(* one at a time.                                                          *)
LEMMA UnderWayFacts ==
  ASSUME Typed
  PROVE  /\ Len(jobs) \in Nat /\ Len(callbacks) \in Nat /\ Len(sendQueue) \in Nat /\ Len(requests) \in Nat
         /\ \A i \in 1 .. Len(jobs) : jobs[i].id \in Numbers(jobs)
         /\ \A i \in 1 .. Len(callbacks) : callbacks[i].id \in Numbers(callbacks)
         /\ \A i \in 1 .. Len(sendQueue) : sendQueue[i].id # 0 => sendQueue[i].id \in Numbers(sendQueue)
<1>1. /\ DOMAIN jobs = 1 .. Len(jobs) /\ DOMAIN callbacks = 1 .. Len(callbacks)
      /\ DOMAIN sendQueue = 1 .. Len(sendQueue)
      /\ Len(jobs) \in Nat /\ Len(callbacks) \in Nat /\ Len(sendQueue) \in Nat /\ Len(requests) \in Nat
  BY Queues
<1>2. \A i \in 1 .. Len(jobs) : jobs[i].id # 0
  BY Queues, Numbered
<1>3. \A i \in 1 .. Len(callbacks) : callbacks[i].id # 0
  BY Queues, Numbered
<1> QED
  BY <1>1, <1>2, <1>3 DEF Numbers

LEMMA NoneUnderWay ==
  ASSUME aborted' # "front", Len(jobs') = 0, Len(callbacks') = 0,
         \A i \in 1 .. Len(sendQueue') : sendQueue'[i].id = 0
  PROVE  OneUnderWay'
  BY DEF OneUnderWay

LEMMA OnlyOne ==
  ASSUME Typed, OneUnderWay
  PROVE  /\ jobs # << >> => Len(jobs) = 1 /\ Len(callbacks) = 0 /\ OfFront(jobs[1])
         /\ callbacks # << >> => Len(callbacks) = 1 /\ Len(jobs) = 0 /\ OfFront(callbacks[1])
<1>1. Len(jobs) \in Nat /\ Len(callbacks) \in Nat /\ Len(jobs) + Len(callbacks) <= 1
  BY UnderWayFacts DEF OneUnderWay
<1>2. jobs # << >> => Len(jobs) # 0
  BY Queues
<1>3. callbacks # << >> => Len(callbacks) # 0
  BY Queues
<1>4. /\ Len(jobs) # 0 => Len(jobs) = 1 /\ Len(callbacks) = 0
      /\ Len(callbacks) # 0 => Len(callbacks) = 1 /\ Len(jobs) = 0
  <2> DEFINE a == Len(jobs)
             b == Len(callbacks)
  <2>1. a \in Nat /\ b \in Nat /\ a + b <= 1
    BY <1>1
  <2> HIDE DEF a, b
  <2>2. (a # 0 => a = 1 /\ b = 0) /\ (b # 0 => b = 1 /\ a = 0)
    BY <2>1
  <2> QED
    BY <2>2 DEF a, b
<1>5. 1 \in 1 .. 1
  OBVIOUS
<1> QED
  BY <1>2, <1>3, <1>4, <1>5 DEF OneUnderWay

LEMMA ReceivedOne ==
  ASSUME Typed, OneUnderWay, NEW r \in Requests, ReceivedDataRequest(r)
  PROVE  OneUnderWay'
<1>1. UNCHANGED <<jobs, callbacks, sendQueue, aborted>>
  BY DEF ReceivedDataRequest, pipe
<1>2. ASSUME requests # << >>
      PROVE  requests' # << >> /\ requests'[1] = requests[1]
  <2> DEFINE m == [id |-> received', req |-> r, processing |-> FALSE]
  <2>1. received' \in 1 .. MaxRequests
    BY Queues, UploadAssumption DEF ReceivedDataRequest
  <2>2. requests' = Append(requests, m) /\ m \in WaitingRequest
    BY <2>1 DEF ReceivedDataRequest, WaitingRequest
  <2> HIDE DEF m
  <2>3. Len(requests') = Len(requests) + 1 /\ \A i \in 1 .. Len(requests) : requests'[i] = requests[i]
    BY <2>2, Queues, AppendFacts
  <2>4. 1 \in 1 .. Len(requests) /\ Len(requests) \in Nat
    BY <1>2, Queues
  <2>5. Len(requests') # 0
    BY <2>3, <2>4
  <2> QED
    BY <2>3, <2>4, <2>5
<1>3. \A m : OfFront(m) => OfFront(m)'
  BY <1>2 DEF OfFront
<1> QED
  BY <1>1, <1>3 DEF OneUnderWay

LEMMA ProcessedOne ==
  ASSUME Typed, OneUnderWay, NEW t \in Callers, TryProcPeerRequest(t)
  PROVE  OneUnderWay'
<1>1. UNCHANGED <<callbacks, sendQueue, aborted>>
  BY DEF TryProcPeerRequest
<1>2. CASE UNCHANGED <<jobs, requests>>
  BY <1>1, <1>2 DEF OneUnderWay, OfFront
<1>3. CASE requests # << >> /\ ~Head(requests).processing
  <2>1. requests[1] \in WaitingRequest /\ Head(requests) = requests[1] /\ 1 \in 1 .. Len(requests)
    BY <1>3, Queues, TailFacts
  <2>2. \A m : ~OfFront(m)
    BY <1>3, <2>1 DEF OfFront
  <2>3. /\ Len(jobs) = 0 /\ Len(callbacks) = 0
        /\ \A i \in 1 .. Len(sendQueue) : sendQueue[i].id = 0
    <3>1. \A n \in Nat : n # 0 => 1 \in 1 .. n
      OBVIOUS
    <3> QED
      BY <2>2, <3>1, UnderWayFacts DEF OneUnderWay
  <2> DEFINE m == [id |-> requests[1].id, req |-> requests[1].req]
             e == [requests[1] EXCEPT !.processing = TRUE]
  <2>4. /\ e \in WaitingRequest /\ e.id = m.id /\ e.req = m.req /\ e.processing /\ m \in Asked
    BY <2>1 DEF WaitingRequest, Asked
  <2>5. jobs' = Append(jobs, m) /\ requests' = [requests EXCEPT ![1] = e]
    BY <1>3, <2>1 DEF TryProcPeerRequest
  <2> HIDE DEF m, e
  <2>6. requests' # << >> /\ requests'[1] = e
    <3>1. Len(requests') = Len(requests) /\ requests'[1] = e /\ Len(requests) # 0
      BY <1>3, <2>4, <2>5, Queues, FirstReplaced
    <3> QED
      BY <3>1
  <2>7. Len(jobs') = 1 /\ jobs'[1] = m
    BY <2>3, <2>4, <2>5, Queues, AppendFacts
  <2> QED
    BY <1>1, <2>3, <2>4, <2>6, <2>7 DEF OneUnderWay, OfFront
<1> QED
  BY <1>2, <1>3 DEF TryProcPeerRequest

LEMMA StoppedOne ==
  ASSUME Typed, OneUnderWay, NEW m, StopUpload(m), ~interrupted'
  PROVE  OneUnderWay'
<1>1. UNCHANGED <<jobs, callbacks, sendQueue, aborted>> /\ UnderWay = {}
  BY DEF StopUpload, pipe
<1>2. /\ Len(jobs) = 0 /\ Len(callbacks) = 0
      /\ \A i \in 1 .. Len(sendQueue) : sendQueue[i].id = 0
  <2>1. \A n \in Nat : n # 0 => 1 \in 1 .. n
    OBVIOUS
  <2> QED
    BY <1>1, <2>1, UnderWayFacts DEF UnderWay
<1> QED
  BY <1>1, <1>2 DEF OneUnderWay

LEMMA ReadOne ==
  ASSUME Typed, OneUnderWay, aborted = "no", ReadData
  PROVE  OneUnderWay'
<1>1. /\ jobs # << >> /\ jobs' = Tail(jobs) /\ Head(jobs) = jobs[1] /\ jobs[1] \in Asked
      /\ UNCHANGED <<requests, sendQueue>> /\ aborted' # "front"
      /\ \/ callbacks' = callbacks
         \/ \E ok \in BOOLEAN : callbacks' = Append(callbacks, [id |-> jobs[1].id, req |-> jobs[1].req, ok |-> ok])
  BY Queues, TailFacts DEF ReadData, rvars
<1>2. Len(jobs) = 1 /\ Len(callbacks) = 0 /\ OfFront(jobs[1]) /\ Len(jobs') = 0
  <2>1. Len(jobs') = Len(jobs) - 1
    BY <1>1, Queues, TailFacts
  <2>2. Len(jobs) = 1 /\ Len(callbacks) = 0 /\ OfFront(jobs[1])
    BY <1>1, OnlyOne
  <2>3. Len(jobs') = 0
    BY <2>1, <2>2
  <2> QED
    BY <2>2, <2>3
<1>3. \A i \in 1 .. Len(sendQueue) : sendQueue[i].id = 0
  BY <1>2 DEF OneUnderWay
<1>4. CASE callbacks' = callbacks
  BY <1>1, <1>2, <1>3, <1>4, NoneUnderWay
<1>5. ASSUME NEW ok \in BOOLEAN, callbacks' = Append(callbacks, [id |-> jobs[1].id, req |-> jobs[1].req, ok |-> ok])
      PROVE  OneUnderWay'
  <2> DEFINE m == [id |-> jobs[1].id, req |-> jobs[1].req, ok |-> ok]
  <2>1. m \in ReadResult /\ m.id = jobs[1].id /\ m.req = jobs[1].req
    BY <1>1 DEF Asked, ReadResult
  <2>2. callbacks' = Append(callbacks, m)
    BY <1>5
  <2> HIDE DEF m
  <2>3. Len(callbacks') = 1 /\ callbacks'[1] = m
    BY <1>2, <2>1, <2>2, Queues, AppendFacts
  <2>4. requests' # << >> /\ requests'[1].processing /\ m.id = requests'[1].id /\ m.req = requests'[1].req
    BY <1>1, <1>2, <2>1 DEF OfFront
  <2> QED
    BY <1>1, <1>2, <1>3, <2>3, <2>4 DEF OneUnderWay, OfFront
<1> QED
  BY <1>1, <1>4, <1>5

LEMMA SendOne ==
  ASSUME Typed, OneUnderWay, OnReadData \/ SendControl
  PROVE  OneUnderWay'
<1>1. CASE SendControl
  <2>1. /\ sendQueue' = Append(sendQueue, Control) /\ Control.id = 0
        /\ UNCHANGED <<requests, jobs, callbacks, aborted>>
    BY <1>1 DEF SendControl, SendData, rvars, Control
  <2>2. /\ Len(sendQueue') = Len(sendQueue) + 1 /\ sendQueue'[Len(sendQueue) + 1] = Control
        /\ Len(sendQueue) \in Nat
        /\ \A i \in 1 .. Len(sendQueue) : sendQueue'[i] = sendQueue[i]
    BY <2>1, Queues, AppendFacts
  <2>3. \A i \in 1 .. Len(sendQueue') : sendQueue'[i].id # 0 => i \in 1 .. Len(sendQueue)
    <3>1. \A i \in 1 .. Len(sendQueue') : i \in 1 .. Len(sendQueue) \/ i = Len(sendQueue) + 1
      BY <2>2
    <3> QED
      BY <2>1, <2>2, <3>1
  <2>4. \A m : OfFront(m) => OfFront(m)'
    BY <2>1 DEF OfFront
  <2> QED
    BY <2>1, <2>2, <2>3, <2>4 DEF OneUnderWay
<1>2. CASE OnReadData
  <2> DEFINE m == [id |-> callbacks[1].id, req |-> callbacks[1].req]
  <2>1. /\ callbacks # << >> /\ callbacks' = Tail(callbacks)
        /\ Head(callbacks) = callbacks[1] /\ callbacks[1] \in ReadResult
        /\ UNCHANGED <<requests, jobs, aborted>>
        /\ sendQueue' = sendQueue \/ sendQueue' = Append(sendQueue, m)
    BY <1>2, Queues, TailFacts DEF OnReadData, SendData, rvars
  <2>2. m \in Asked \cup {Control}
    BY <2>1 DEF ReadResult, Asked
  <2>3. m.id = callbacks[1].id /\ m.req = callbacks[1].req
    OBVIOUS
  <2> HIDE DEF m
  <2>4. Len(callbacks) = 1 /\ Len(jobs) = 0 /\ OfFront(callbacks[1]) /\ Len(callbacks') = 0
    <3>1. Len(callbacks') = Len(callbacks) - 1
      BY <2>1, Queues, TailFacts
    <3>2. Len(callbacks) = 1 /\ Len(jobs) = 0 /\ OfFront(callbacks[1])
      BY <2>1, OnlyOne
    <3>3. Len(callbacks') = 0
      BY <3>1, <3>2
    <3> QED
      BY <3>2, <3>3
  <2>5. \A i \in 1 .. Len(sendQueue) : sendQueue[i].id = 0
    BY <2>4 DEF OneUnderWay
  <2>6. CASE sendQueue' = sendQueue
    <3>1. aborted' # "front" /\ Len(jobs') = 0
      BY <2>1, <2>4 DEF OneUnderWay
    <3> QED
      BY <2>4, <2>5, <2>6, <3>1, NoneUnderWay
  <2>7. CASE sendQueue' = Append(sendQueue, m)
    <3>1. /\ Len(sendQueue') = Len(sendQueue) + 1 /\ sendQueue'[Len(sendQueue) + 1] = m
          /\ Len(sendQueue) \in Nat
          /\ \A i \in 1 .. Len(sendQueue) : sendQueue'[i] = sendQueue[i]
      BY <2>2, <2>7, Queues, AppendFacts
    <3>2. \A i \in 1 .. Len(sendQueue') : sendQueue'[i].id # 0 => i = Len(sendQueue) + 1 /\ sendQueue'[i] = m
      <4>1. \A i \in 1 .. Len(sendQueue') : i \in 1 .. Len(sendQueue) \/ i = Len(sendQueue) + 1
        BY <3>1
      <4> QED
        BY <2>5, <3>1, <4>1
    <3>3. requests' # << >> /\ requests'[1].processing /\ m.id = requests'[1].id /\ m.req = requests'[1].req
      BY <2>1, <2>3, <2>4 DEF OfFront
    <3>4. aborted' # "front" /\ Len(jobs') = 0 /\ Len(callbacks') = 0
      BY <2>1, <2>4 DEF OneUnderWay
    <3>5. \A i \in 1 .. Len(sendQueue') : sendQueue'[i].id # 0 =>
             /\ requests' # << >> /\ requests'[1].processing
             /\ sendQueue'[i].id = requests'[1].id /\ sendQueue'[i].req = requests'[1].req
      BY <3>2, <3>3
    <3>6. \A i, j \in 1 .. Len(sendQueue') : sendQueue'[i].id # 0 /\ sendQueue'[j].id # 0 => i = j
      BY <3>2
    <3>7. Len(jobs') + Len(callbacks') = 0
      BY <3>4
    <3> QED
      BY <3>4, <3>5, <3>6, <3>7 DEF OneUnderWay, OfFront
  <2> QED
    BY <2>1, <2>6, <2>7
<1> QED
  BY <1>1, <1>2

LEMMA SentOne ==
  ASSUME Typed, OneUnderWay, NEW ok \in BOOLEAN, OnSend(ok)
  PROVE  OneUnderWay'
<1>1. /\ sendQueue # << >> /\ sendQueue' = Tail(sendQueue)
      /\ UNCHANGED <<jobs, callbacks>>
      /\ \/ UNCHANGED <<requests, aborted>>
         \/ sendQueue[1].id # 0 /\ ~passiveUdp /\ PopRequest(sendQueue[1].req)
  BY OnSendFacts
<1>2. /\ 1 \in 1 .. Len(sendQueue)
      /\ \A i \in 1 .. Len(sendQueue') : /\ i + 1 \in 1 .. Len(sendQueue) /\ i + 1 # 1
                                        /\ sendQueue'[i] = sendQueue[i + 1] /\ i \in Nat
  <2>1. Len(Tail(sendQueue)) \in Nat
    BY <1>1, Queues
  <2> QED
    BY <1>1, <2>1, Queues, TailFacts
<1>3. CASE sendQueue[1].id = 0
  <2>1. UNCHANGED <<requests, aborted>>
    BY <1>1, <1>3
  <2>2. \A m : OfFront(m) => OfFront(m)'
    BY <2>1 DEF OfFront
  <2>3. \A i, j \in 1 .. Len(sendQueue') : i + 1 = j + 1 => i = j
    BY <1>2
  <2> QED
    BY <1>1, <1>2, <2>1, <2>2, <2>3 DEF OneUnderWay
<1>4. CASE sendQueue[1].id # 0
  <2>1. /\ OfFront(sendQueue[1]) /\ Len(jobs) + Len(callbacks) = 0
        /\ \A i \in 1 .. Len(sendQueue') : sendQueue'[i].id = 0
    BY <1>2, <1>4 DEF OneUnderWay
  <2>2. Len(jobs) = 0 /\ Len(callbacks) = 0
    BY <2>1, UnderWayFacts
  <2>3. aborted' # "front"
    <3>1. CASE UNCHANGED aborted
      BY <3>1 DEF OneUnderWay
    <3>2. CASE PopRequest(sendQueue[1].req)
      <4>1. requests # << >> /\ Head(requests) = requests[1] /\ Head(requests).req = sendQueue[1].req
        BY <2>1, Queues, TailFacts DEF OfFront
      <4> QED
        BY <3>2, <4>1 DEF PopRequest, OneUnderWay
    <3> QED
      BY <1>1, <3>1, <3>2
  <2> QED
    BY <1>1, <2>1, <2>2, <2>3 DEF OneUnderWay
<1> QED
  BY <1>3, <1>4

LEMMA OneKept ==
  ASSUME Typed, ~interrupted => OneUnderWay, [UploadNext]_uvars
  PROVE  ~interrupted' => OneUnderWay'
<1> SUFFICES ASSUME ~interrupted'
             PROVE  OneUnderWay'
  OBVIOUS
<1>1. ~interrupted
  BY DEF UploadNext, uvars, OnTick, FsmTick, Interest, StopUpload, ReadData, OnReadData, SendControl, OnSend,
         ReceivedDataRequest, LookAtLimit, TryProcPeerRequest
<1>2. ASSUME UNCHANGED <<requests, jobs, callbacks, sendQueue, aborted>>
      PROVE  OneUnderWay'
  BY <1>1, <1>2 DEF OneUnderWay, OfFront
<1>3. CASE \/ UNCHANGED uvars \/ OnTick \/ FsmTick \/ Interest \/ \E t \in Callers : LookAtLimit(t)
  BY <1>2, <1>3 DEF OnTick, FsmTick, Interest, LookAtLimit, uvars, rvars, pipe
<1> QED
  BY <1>1, <1>3, ReceivedOne, ProcessedOne, StoppedOne, ReadOne, SendOne, SentOne DEF UploadNext

-----------------------------------------------------------------------------
(* Until the window is full its oldest second is an idle one.              *)
LEMMA TickIdle ==
  ASSUME Typed, FirstIsIdle, OnTick
  PROVE  FirstIsIdle'
<1>1. /\ window \in Seq(Nat) /\ Len(window) \in Nat /\ window # << >> /\ 0 \in Nat
      /\ 1 <= Len(window) /\ Len(window) <= Window /\ Window \in Nat /\ 2 <= Window
  BY UploadAssumption DEF Typed, UploadTypeOK
<1>2. CASE Len(window) >= Window
  <2>1. window' = Append(Tail(window), 0)
    BY <1>2 DEF OnTick, UpdateUploadSpeed
  <2>2. Tail(window) \in Seq(Nat) /\ Len(Tail(window)) = Len(window) - 1
    BY <1>1, TailFacts
  <2>3. Len(window') = Len(Tail(window)) + 1
    BY <1>1, <2>1, <2>2, AppendFacts
  <2>4. Len(window') = Window
    <3>1. Len(window) = Window
      BY <1>1, <1>2
    <3>2. Len(window') = (Window - 1) + 1
      BY <2>2, <2>3, <3>1
    <3> QED
      BY <1>1, <3>2
  <2> QED
    BY <1>1, <2>4 DEF FirstIsIdle
<1>3. CASE ~(Len(window) >= Window)
  <2>1. window' = Append(window, 0)
    BY <1>3 DEF OnTick, UpdateUploadSpeed
  <2>2. Len(window') = Len(window) + 1 /\ \A i \in 1 .. Len(window) : window'[i] = window[i]
    BY <1>1, <2>1, AppendFacts
  <2>3. Len(window') # 1 /\ window'[1] = window[1] /\ window[1] = 0
    BY <1>1, <1>3, <2>2 DEF FirstIsIdle
  <2> QED
    BY <2>3 DEF FirstIsIdle
<1> QED
  BY <1>2, <1>3

LEMMA SentIdle ==
  ASSUME Typed, FirstIsIdle, NEW ok \in BOOLEAN, OnSend(ok)
  PROVE  FirstIsIdle'
<1>1. UNCHANGED <<mode, tick>>
  BY DEF OnSend
<1>2. CASE UNCHANGED <<requests, window>>
  BY <1>1, <1>2 DEF FirstIsIdle
<1>3. ASSUME requests # << >>, NEW n, window' = [window EXCEPT ![Len(window)] = n]
      PROVE  FirstIsIdle'
  <2>1. window \in Seq(Nat) /\ Len(window) \in Nat /\ 1 <= Len(window)
    BY DEF Typed, UploadTypeOK
  <2>2. Len(window) # 1
    BY <1>3 DEF FirstIsIdle
  <2>3. Len(window') = Len(window) /\ window'[1] = window[1]
    BY <1>3, <2>1, <2>2
  <2> QED
    BY <2>2, <2>3 DEF FirstIsIdle
<1>4. \/ UNCHANGED <<requests, window>>
      \/ requests # << >> /\ \E n : window' = [window EXCEPT ![Len(window)] = n]
  BY DEF OnSend, PopRequest, CountUpload, meter
<1> QED
  BY <1>2, <1>3, <1>4

LEMMA IdleKept ==
  ASSUME Typed, FirstIsIdle, [UploadNext]_uvars
  PROVE  FirstIsIdle'
<1>1. CASE UNCHANGED <<window, mode, requests, tick>>
  BY <1>1 DEF FirstIsIdle
<1>2. CASE Len(window) # 1 /\ UNCHANGED window
  BY <1>2 DEF FirstIsIdle
<1>3. CASE UNCHANGED window /\ mode' = "closed" /\ requests' = << >> /\ UNCHANGED tick
  BY <1>3 DEF FirstIsIdle
<1>4. CASE FsmTick \/ Interest \/ \E r \in Requests : ReceivedDataRequest(r)
  <2>1. Len(window) # 1
    BY <1>4 DEF FirstIsIdle, FsmTick, Interest, ReceivedDataRequest
  <2>2. UNCHANGED window
    BY <1>4 DEF FsmTick, Interest, ReceivedDataRequest, meter
  <2> QED
    BY <1>2, <2>1, <2>2
<1>5. CASE StopUpload("closed")
  BY <1>3, <1>5 DEF StopUpload, meter
<1>6. CASE StopUpload("stopped")
  <2>1. mode = "serving" /\ UNCHANGED window
    BY <1>6 DEF StopUpload, meter
  <2> QED
    BY <1>2, <2>1 DEF FirstIsIdle
<1>7. CASE \/ UNCHANGED uvars \/ ReadData \/ OnReadData \/ SendControl \/ \E t \in Callers : LookAtLimit(t)
  BY <1>1, <1>7 DEF uvars, rvars, meter, ReadData, OnReadData, SendControl, LookAtLimit
<1>8. ASSUME NEW t \in Callers, TryProcPeerRequest(t)
      PROVE  FirstIsIdle'
  <2>1. UNCHANGED <<window, mode, tick>>
    BY <1>8 DEF TryProcPeerRequest, meter
  <2>2. requests = << >> => UNCHANGED requests
    BY <1>8 DEF TryProcPeerRequest
  <2> QED
    BY <2>1, <2>2 DEF FirstIsIdle
<1> QED
  BY <1>4, <1>5, <1>6, <1>7, <1>8, TickIdle, SentIdle DEF UploadNext

-----------------------------------------------------------------------------
(* What the meter adds up, modulo the width of its counters.               *)
Before == {ss \in Nat \X Nat : ss[1] < ss[2]}

(* Every set of numbers has a least one, and so induction goes through for *)
(* a set of numbers.                                                       *)
LEMMA Least ==
  ASSUME NEW T, T \subseteq Nat, T # {}
  PROVE  \E x \in T : \A y \in T : x <= y
<1>1. OpToRel(<, Nat) = Before
  BY Zenon DEF OpToRel, Before
<1>2. IsWellFoundedOn(Before, Nat)
  BY <1>1, NatLessThanWellFounded
<1>3. PICK x \in T : \A y \in T : <<y, x>> \notin Before
  BY <1>2, WFMin
<1>4. \A y \in T : ~(y < x)
  BY <1>3 DEF Before
<1> QED
  BY <1>4

LEMMA Induct ==
  ASSUME NEW n \in Nat, NEW S, 0 \in S, \A i \in 1 .. n : i - 1 \in S => i \in S
  PROVE  0 .. n \subseteq S
<1> DEFINE T == {i \in 0 .. n : i \notin S}
<1>1. SUFFICES ASSUME T # {}
               PROVE  FALSE
  OBVIOUS
<1>2. T \subseteq Nat
  OBVIOUS
<1>3. PICK x \in T : \A y \in T : x <= y
  <2> HIDE DEF T
  <2> QED
    BY <1>1, <1>2, Least
<1>4. x \in 1 .. n /\ x - 1 \in 0 .. n /\ ~(x <= x - 1)
  BY <1>3
<1> QED
  BY <1>3, <1>4

Sums(f, w) ==
  /\ f \in [0 .. Len(w) -> Nat]
  /\ f[0] = 0
  /\ \A i \in 1 .. Len(w) : f[i] = f[i - 1] + w[i]

LEMMA HasSums ==
  ASSUME NEW w \in Seq(Nat)
  PROVE  \E f : Sums(f, w)
<1> DEFINE Upto(n, f) == /\ f \in [0 .. n -> Nat] /\ f[0] = 0
                         /\ \A i \in 1 .. n : f[i] = f[i - 1] + w[i]
           S == {n \in Nat : \E f : Upto(n, f)}
<1>1. 0 \in S
  <2>1. Upto(0, [i \in 0 .. 0 |-> 0])
    OBVIOUS
  <2> QED
    BY <2>1
<1>2. ASSUME NEW n \in 1 .. Len(w), n - 1 \in S
      PROVE  n \in S
  <2>1. PICK f : Upto(n - 1, f)
    BY <1>2
  <2> DEFINE g == [i \in 0 .. n |-> IF i = n THEN f[n - 1] + w[n] ELSE f[i]]
  <2>2. n \in Nat /\ n # 0 /\ w[n] \in Nat /\ f[n - 1] \in Nat
    BY <2>1
  <2>3. g \in [0 .. n -> Nat] /\ g[0] = 0
    BY <2>1, <2>2
  <2>4. ASSUME NEW i \in 1 .. n
        PROVE  g[i] = g[i - 1] + w[i]
    <3>1. CASE i = n
      BY <2>2, <3>1
    <3>2. CASE i # n
      <4>1. i \in 1 .. n - 1 /\ i - 1 \in 0 .. n /\ i - 1 # n /\ i \in 0 .. n
        BY <2>2, <3>2
      <4>2. f[i] = f[i - 1] + w[i]
        BY <2>1, <4>1
      <4>3. g[i] = f[i] /\ g[i - 1] = f[i - 1]
        BY <3>2, <4>1
      <4> QED
        BY <4>2, <4>3
    <3> QED
      BY <3>1, <3>2
  <2>5. Upto(n, g)
    <3> HIDE DEF g
    <3> QED
      BY <2>3, <2>4
  <2> HIDE DEF g, Upto
  <2> QED
    BY <2>2, <2>5
<1>3. Len(w) \in S
  <2> HIDE DEF S
  <2>1. Len(w) \in Nat /\ Len(w) \in 0 .. Len(w)
    OBVIOUS
  <2> QED
    BY <1>1, <1>2, <2>1, Induct
<1> QED
  BY <1>3 DEF Sums

LEMMA TotalIs ==
  ASSUME NEW w \in Seq(Nat), NEW f, Sums(f, w)
  PROVE  Total(w) = f[Len(w)]
<1> DEFINE n == Len(w)
           Recurs(g) == g = [i \in 0 .. n |-> IF i = 0 THEN 0 ELSE g[i - 1] + w[i]]
           sum == CHOOSE g : Recurs(g)
<1>1. n \in Nat
  OBVIOUS
<1>2. Recurs(f)
  <2>1. f \in [0 .. n -> Nat] /\ f[0] = 0 /\ \A i \in 1 .. n : f[i] = f[i - 1] + w[i]
    BY DEF Sums
  <2>2. \A i \in 0 .. n : i # 0 => i \in 1 .. n
    BY <1>1
  <2>3. \A i \in 0 .. n : f[i] = IF i = 0 THEN 0 ELSE f[i - 1] + w[i]
    BY <2>1, <2>2
  <2> QED
    BY <2>1, <2>3
<1>3. Recurs(sum)
  BY <1>2
<1>4. Total(w) = sum[n]
  BY DEF Total
<1> HIDE DEF sum
<1> DEFINE S == {i \in 0 .. n : sum[i] = f[i]}
<1>5. 0 \in S
  BY <1>1, <1>2, <1>3
<1>6. ASSUME NEW i \in 1 .. n, i - 1 \in S
      PROVE  i \in S
  <2>1. i \in 0 .. n /\ i # 0
    BY <1>1
  <2>2. sum[i] = sum[i - 1] + w[i] /\ f[i] = f[i - 1] + w[i]
    BY <1>2, <1>3, <2>1
  <2> QED
    BY <1>6, <2>1, <2>2
<1>7. n \in S
  <2> HIDE DEF S, n
  <2>1. 0 .. n \subseteq S
    BY <1>1, <1>5, <1>6, Induct
  <2> QED
    BY <1>1, <2>1
<1> QED
  BY <1>4, <1>7

LEMMA TotalSplit ==
  ASSUME NEW w \in Seq(Nat)
  PROVE  /\ Total(w) \in Nat
         /\ \A n \in Nat : Total(Append(w, n)) = Total(w) + n
         /\ w # << >> => Total(w) = w[1] + Total(Tail(w))
         /\ w # << >> => \A n \in Nat : Total([w EXCEPT ![Len(w)] = @ + n]) = Total(w) + n
<1>1. PICK f : Sums(f, w)
  BY HasSums
<1>2. /\ f \in [0 .. Len(w) -> Nat] /\ f[0] = 0
      /\ \A i \in 1 .. Len(w) : f[i] = f[i - 1] + w[i]
      /\ Len(w) \in Nat
  BY <1>1 DEF Sums
<1>3. Total(w) = f[Len(w)] /\ f[Len(w)] \in Nat
  BY <1>1, <1>2, TotalIs
<1>4. ASSUME NEW n \in Nat
      PROVE  Total(Append(w, n)) = Total(w) + n
  <2> DEFINE v == Append(w, n)
             k == Len(w)
             g == [i \in 0 .. k + 1 |-> IF i = k + 1 THEN f[k] + n ELSE f[i]]
  <2>1. /\ v \in Seq(Nat) /\ Len(v) = k + 1 /\ k \in Nat /\ v[k + 1] = n
        /\ \A i \in 1 .. k : v[i] = w[i]
    BY AppendFacts
  <2> HIDE DEF v, k
  <2>2. f \in [0 .. k -> Nat] /\ f[0] = 0 /\ \A i \in 1 .. k : f[i] = f[i - 1] + w[i]
    BY <1>2 DEF k
  <2>3. g \in [0 .. k + 1 -> Nat] /\ g[0] = 0 /\ g[k + 1] = f[k] + n
    BY <2>1, <2>2
  <2>4. ASSUME NEW i \in 1 .. k + 1
        PROVE  g[i] = g[i - 1] + v[i]
    <3>1. CASE i = k + 1
      <4>1. g[i - 1] = f[k]
        BY <2>1, <3>1
      <4> QED
        BY <2>1, <2>3, <3>1, <4>1
    <3>2. CASE i # k + 1
      <4>1. i \in 1 .. k /\ i - 1 \in 0 .. k + 1 /\ i - 1 # k + 1 /\ i \in 0 .. k + 1
        BY <2>1, <3>2
      <4>2. g[i] = f[i] /\ g[i - 1] = f[i - 1]
        BY <3>2, <4>1
      <4> QED
        BY <2>1, <2>2, <4>1, <4>2
    <3> QED
      BY <3>1, <3>2
  <2> HIDE DEF g
  <2>5. Sums(g, v)
    BY <2>1, <2>3, <2>4 DEF Sums
  <2>6. Total(v) = g[k + 1]
    BY <2>1, <2>5, TotalIs
  <2> QED
    BY <1>3, <2>3, <2>6 DEF v, k
<1>5. ASSUME w # << >>
      PROVE  Total(w) = w[1] + Total(Tail(w))
  <2> DEFINE v == Tail(w)
             k == Len(v)
             g == [i \in 0 .. k |-> f[i + 1] - w[1]]
  <2>1. /\ v \in Seq(Nat) /\ k = Len(w) - 1 /\ k \in Nat /\ w[1] \in Nat
        /\ \A i \in 1 .. k : i + 1 \in 1 .. Len(w) /\ v[i] = w[i + 1]
    BY <1>5, TailFacts
  <2> HIDE DEF v, k
  <2>2. Len(w) = k + 1
    BY <1>2, <2>1
  <2>3. /\ f \in [0 .. k + 1 -> Nat] /\ f[0] = 0
        /\ \A i \in 1 .. k + 1 : f[i] = f[i - 1] + w[i]
    BY <1>2, <2>2
  <2>4. f[1] = w[1]
    BY <2>1, <2>3
  <2>5. ASSUME NEW i \in 1 .. k
        PROVE  g[i] = g[i - 1] + v[i]
    <3>1. /\ i + 1 \in 1 .. k + 1 /\ i \in 0 .. k /\ i - 1 \in 0 .. k /\ i \in 0 .. k + 1
          /\ (i + 1) - 1 = i /\ (i - 1) + 1 = i
      BY <2>1
    <3>2. f[i + 1] = f[i] + v[i] /\ f[i] \in Nat /\ v[i] \in Nat
      <4>1. f[i + 1] = f[(i + 1) - 1] + w[i + 1]
        BY <2>3, <3>1
      <4>2. v[i] = w[i + 1] /\ v[i] \in Nat
        BY <2>1 DEF k
      <4> QED
        BY <2>3, <3>1, <4>1, <4>2
    <3>3. g[i] = f[i + 1] - w[1] /\ g[i - 1] = f[i] - w[1]
      BY <3>1
    <3> QED
      BY <2>1, <3>2, <3>3
  <2>6. g[0] = 0
    BY <2>1, <2>4
  <2>7. g \in [0 .. k -> Nat]
    <3> DEFINE S == {i \in 0 .. k : g[i] \in Nat}
    <3>1. 0 \in S
      BY <2>1, <2>6
    <3>2. ASSUME NEW i \in 1 .. k, i - 1 \in S
          PROVE  i \in S
      <4>1. v[i] \in Nat /\ i \in 0 .. k
        BY <2>1 DEF k
      <4>2. g[i - 1] \in Nat /\ g[i] = g[i - 1] + v[i]
        BY <2>5, <3>2
      <4> HIDE DEF g
      <4>3. g[i] \in Nat
        BY <4>1, <4>2
      <4> QED
        BY <4>1, <4>3
    <3>3. 0 .. k \subseteq S
      <4> HIDE DEF S
      <4> QED
        BY <2>1, <3>1, <3>2, Induct
    <3> QED
      BY <3>3
  <2>8. g[k] = f[k + 1] - w[1]
    BY <2>1
  <2> HIDE DEF g
  <2>9. Sums(g, v)
    BY <2>5, <2>6, <2>7 DEF Sums, k
  <2>10. Total(v) = g[k]
    BY <2>1, <2>9, TotalIs DEF k
  <2>11. f[k + 1] \in Nat /\ Total(w) = f[k + 1]
    BY <1>3, <2>2
  <2> QED
    BY <2>1, <2>8, <2>10, <2>11 DEF v
<1>6. ASSUME w # << >>, NEW n \in Nat
      PROVE  Total([w EXCEPT ![Len(w)] = @ + n]) = Total(w) + n
  <2> DEFINE v == [w EXCEPT ![Len(w)] = @ + n]
             k == Len(w)
             g == [i \in 0 .. k |-> IF i = k THEN f[k] + n ELSE f[i]]
  <2>1. k \in Nat /\ k # 0 /\ k \in 1 .. k
    BY <1>6
  <2>2. /\ v \in Seq(Nat) /\ Len(v) = k /\ v[k] = w[k] + n
        /\ \A i \in 1 .. k : w[i] \in Nat /\ (i # k => v[i] = w[i])
    <3>1. w \in [1 .. k -> Nat] /\ v = [w EXCEPT ![k] = w[k] + n]
      OBVIOUS
    <3> HIDE DEF v, k
    <3>2. /\ v \in [1 .. k -> Nat] /\ v[k] = w[k] + n
          /\ \A i \in 1 .. k : w[i] \in Nat /\ (i # k => v[i] = w[i])
      BY <2>1, <3>1
    <3>3. v \in Seq(Nat) /\ Len(v) = k
      BY <2>1, <3>2
    <3> QED
      BY <3>2, <3>3
  <2> HIDE DEF v, k
  <2>3. /\ f \in [0 .. k -> Nat] /\ f[0] = 0
        /\ \A i \in 1 .. k : f[i] = f[i - 1] + w[i]
    BY <1>2 DEF k
  <2>4. g \in [0 .. k -> Nat] /\ g[0] = 0 /\ g[k] = f[k] + n
    BY <2>1, <2>3
  <2>5. ASSUME NEW i \in 1 .. k
        PROVE  g[i] = g[i - 1] + v[i]
    <3>1. i - 1 \in 0 .. k /\ i - 1 # k /\ i \in 0 .. k
      BY <2>1
    <3>2. g[i - 1] = f[i - 1] /\ f[i - 1] \in Nat /\ f[i] = f[i - 1] + w[i]
      BY <2>3, <3>1
    <3>3. CASE i = k
      <4>1. w[k] \in Nat /\ v[k] = w[k] + n
        BY <2>1, <2>2
      <4>2. g[k] = f[k] + n /\ f[k] = f[k - 1] + w[k] /\ g[k - 1] = f[k - 1] /\ f[k - 1] \in Nat
        BY <2>4, <3>2, <3>3
      <4> HIDE DEF g
      <4> QED
        BY <3>3, <4>1, <4>2
    <3>4. CASE i # k
      BY <2>2, <3>1, <3>2, <3>4
    <3> QED
      BY <3>3, <3>4
  <2> HIDE DEF g
  <2>6. Sums(g, v)
    BY <2>2, <2>4, <2>5 DEF Sums
  <2>7. Total(v) = g[k]
    BY <2>2, <2>6, TotalIs
  <2> QED
    BY <1>3, <2>4, <2>7 DEF v, k
<1> QED
  BY <1>3, <1>4, <1>5, <1>6

LEMMA Divided ==
  ASSUME NEW W \in Nat \ {0}, NEW n \in Int
  PROVE  \E q \in Int : n = q * W + (n % W)
<1>1. n = W * (n \div W) + (n % W) /\ n \div W \in Int
  OBVIOUS
<1> DEFINE k == n \div W
           r == n % W
<1>2. n = W * k + r /\ k \in Int
  BY <1>1
<1>3. r \in Int
  OBVIOUS
<1> HIDE DEF k, r
<1>4. n = k * W + r
  BY <1>2, <1>3
<1>5. \E q \in Int : n = q * W + r
  BY <1>2, <1>4
<1> QED
  BY <1>5 DEF r

LEMMA SameRest ==
  ASSUME NEW W \in Nat \ {0}, NEW p \in Int, NEW r \in Int, 0 <= r, r < W
  PROVE  (p * W + r) % W = r
  OBVIOUS

LEMMA AddRest ==
  ASSUME NEW W \in Nat \ {0}, NEW n \in Int, NEW m \in Int
  PROVE  ((n % W) + m) % W = (n + m) % W
<1>1. PICK q \in Int : n = q * W + (n % W)
  BY Divided
<1>2. PICK p \in Int : (n % W) + m = p * W + (((n % W) + m) % W)
  <2>1. (n % W) + m \in Int
    OBVIOUS
  <2> QED
    BY <2>1, Divided
<1>3. n + m = (q + p) * W + (((n % W) + m) % W)
  BY <1>1, <1>2
<1>4. q + p \in Int /\ ((n % W) + m) % W \in Int /\ 0 <= ((n % W) + m) % W /\ ((n % W) + m) % W < W
  OBVIOUS
<1> DEFINE r == ((n % W) + m) % W
<1> HIDE DEF r
<1>5. ((q + p) * W + r) % W = r
  BY <1>4, SameRest DEF r
<1> QED
  BY <1>3, <1>5 DEF r

LEMMA OnceMore ==
  ASSUME NEW W \in Nat \ {0}, NEW n \in Int
  PROVE  (n + W) % W = (n + 0) % W
<1>1. PICK q \in Int : n = q * W + (n % W)
  BY Divided
<1> DEFINE r == n % W
<1>2. r \in Int /\ 0 <= r /\ r < W /\ n = q * W + r
  BY <1>1
<1> HIDE DEF r
<1>3. n + W = (q + 1) * W + r
  BY <1>2
<1>4. ((q + 1) * W + r) % W = r
  BY <1>2, SameRest
<1>5. n + 0 = n
  OBVIOUS
<1> QED
  BY <1>3, <1>4, <1>5 DEF r

LEMMA WidthRest ==
  \A n, m \in Int : /\ ((n % Width) + m) % Width = (n + m) % Width
                    /\ (n + Width) % Width = (n + 0) % Width
<1>1. Width \in Nat \ {0}
  BY UploadAssumption
<1> QED
  BY <1>1, AddRest, OnceMore

LEMMA InitMeter == UploadInit => MeterExact
<1> DEFINE w == <<0>>
           f == [i \in 0 .. 1 |-> 0]
<1>1. w \in Seq(Nat) /\ Len(w) = 1 /\ w[1] = 0
  OBVIOUS
<1>2. f \in [0 .. 1 -> Nat] /\ f[0] = 0 /\ f[1] = 0
  OBVIOUS
<1> HIDE DEF w, f
<1>3. \A i \in 1 .. 1 : f[i] = f[i - 1] + w[i]
  BY <1>1, <1>2
<1>4. Sums(f, w)
  BY <1>1, <1>2, <1>3 DEF Sums
<1>5. Total(w) = 0
  BY <1>1, <1>2, <1>4, TotalIs
<1>6. 0 % Width = 0
  BY UploadAssumption
<1> QED
  BY <1>5, <1>6 DEF w, UploadInit, MeterExact

LEMMA MeterCounts ==
  ASSUME Typed, FirstIsIdle, MeterExact, [UploadNext]_uvars
  PROVE  MeterExact'
<1>1. /\ window \in Seq(Nat) /\ window # << >> /\ Head(window) = window[1] /\ window[1] \in Nat
      /\ Len(window) \in 1 .. Window
      /\ total \in 0 .. Width - 1 /\ total = Total(window) % Width
  BY DEF Typed, UploadTypeOK, MeterExact
<1> DEFINE n == Total(window)
<1>2. n \in Nat /\ total = n % Width
  BY <1>1, TotalSplit
<1>3. CASE UNCHANGED meter
  BY <1>3 DEF meter, MeterExact
<1>4. CASE UpdateUploadSpeed
  <2>1. total' = ((n % Width) + (Width - window[1])) % Width
    BY <1>1, <1>2, <1>4, UploadAssumption DEF UpdateUploadSpeed
  <2>2. total' = (n + (Width - window[1])) % Width
    <3> HIDE DEF n
    <3>1. n \in Int /\ Width - window[1] \in Int
      BY <1>1, <1>2, UploadAssumption
    <3>2. ((n % Width) + (Width - window[1])) % Width = (n + (Width - window[1])) % Width
      BY <3>1, WidthRest
    <3> QED
      BY <2>1, <3>2
  <2>3. CASE Len(window) >= Window
    <3>1. window' = Append(Tail(window), 0) /\ Tail(window) \in Seq(Nat)
      BY <1>1, <1>4, <2>3, TailFacts DEF UpdateUploadSpeed
    <3> DEFINE r == Total(Tail(window))
    <3>2. n = window[1] + r /\ r \in Nat /\ Total(window') = r + 0
      BY <1>1, <3>1, TotalSplit
    <3> HIDE DEF n, r
    <3>3. total' = (r + Width) % Width
      <4>1. n + (Width - window[1]) = r + Width
        BY <1>1, <3>2, UploadAssumption
      <4> QED
        BY <2>2, <4>1
    <3>4. r \in Int
      BY <3>2
    <3>5. (r + Width) % Width = (r + 0) % Width
      BY <3>4, WidthRest
    <3> QED
      BY <3>2, <3>3, <3>5 DEF MeterExact
  <2>4. CASE ~(Len(window) >= Window)
    <3>1. window' = Append(window, 0) /\ window[1] = 0
      BY <1>1, <1>4, <2>4, UploadAssumption DEF UpdateUploadSpeed, FirstIsIdle
    <3>2. Total(window') = n + 0
      BY <1>1, <3>1, TotalSplit
    <3> HIDE DEF n
    <3>3. total' = (n + Width) % Width
      <4>1. n + (Width - window[1]) = n + Width
        BY <1>2, <3>1, UploadAssumption
      <4> QED
        BY <2>2, <4>1
    <3>4. n \in Int
      BY <1>2
    <3>5. (n + Width) % Width = (n + 0) % Width
      BY <3>4, WidthRest
    <3> QED
      BY <3>2, <3>3, <3>5 DEF MeterExact
  <2> QED
    BY <2>3, <2>4
<1>5. ASSUME NEW m \in Nat, CountUpload(m)
      PROVE  MeterExact'
  <2>1. total' = ((n % Width) + m) % Width
    BY <1>2, <1>5 DEF CountUpload
  <2>2. Total(window') = n + m
    BY <1>1, <1>5, TotalSplit DEF CountUpload
  <2> HIDE DEF n
  <2>3. n \in Int /\ m \in Int
    BY <1>2
  <2>4. ((n % Width) + m) % Width = (n + m) % Width
    BY <2>3, WidthRest
  <2> QED
    BY <2>1, <2>2, <2>4 DEF MeterExact
<1>6. ASSUME NEW ok \in BOOLEAN, OnSend(ok)
      PROVE  MeterExact'
  <2>1. CASE UNCHANGED meter
    BY <1>3, <2>1
  <2>2. CASE sendQueue[1].id # 0 /\ PopRequest(sendQueue[1].req)
    <3>1. sendQueue[1] \in Asked
      BY <1>6, <2>2, Queues, TailFacts, OnSendFacts DEF Control
    <3>2. sendQueue[1].req.length \in Nat
      BY <3>1, UploadAssumption DEF Asked
    <3> QED
      BY <1>3, <1>5, <2>2, <3>2 DEF PopRequest
  <2>3. \/ UNCHANGED meter
        \/ sendQueue[1].id # 0 /\ PopRequest(sendQueue[1].req)
    <3>1. sendQueue # << >> /\ Head(sendQueue) = sendQueue[1]
      BY <1>6, Queues, TailFacts, OnSendFacts
    <3> QED
      BY <1>6, <3>1 DEF OnSend
  <2> QED
    BY <2>1, <2>2, <2>3
<1>7. CASE OnTick
  BY <1>4, <1>7 DEF OnTick
<1>8. CASE \/ UNCHANGED uvars \/ FsmTick \/ Interest \/ StopUpload("stopped") \/ StopUpload("closed")
           \/ ReadData \/ OnReadData \/ SendControl \/ \E r \in Requests : ReceivedDataRequest(r)
           \/ \E t \in Callers : LookAtLimit(t) \/ TryProcPeerRequest(t)
  BY <1>3, <1>8 DEF uvars, FsmTick, Interest, StopUpload, ReadData, OnReadData, SendControl,
                    ReceivedDataRequest, LookAtLimit, TryProcPeerRequest
<1> QED
  BY <1>6, <1>7, <1>8 DEF UploadNext

-----------------------------------------------------------------------------
(* The inductive invariant of the upload half of a connection.             *)
THEOREM UploadInvariant == UploadSpec => []UInv
<1>1. UploadInit => UInv
  BY InitUpload, InitMeter DEF UInv
<1>2. UInv /\ [UploadNext]_uvars => UInv'
  BY TypedKept, LinedKept, OneKept, IdleKept, MeterCounts DEF UInv
<1> QED
  BY <1>1, <1>2, PTL DEF UploadSpec

(* The queues, the meter and the read cache stay within their limits, for  *)
(* any requests, sizes and limits: also when a read fails and a request    *)
(* is longer than a block.                                                 *)
THEOREM LimitsKept == UploadSpec => []UploadConsistent
<1>1. UInv => UploadConsistent
  BY DEF UInv, Typed, UploadConsistent
<1> QED
  BY <1>1, UploadInvariant, PTL

(* total_upload_size_in_queue_ is the sum of the window modulo its width,  *)
(* although the oldest second is subtracted before it leaves, for every    *)
(* length of the window, size of an answer and width of the counter.       *)
THEOREM MeterAdds == UploadSpec => []MeterExact
<1>1. UInv => MeterExact
  BY DEF UInv
<1> QED
  BY <1>1, UploadInvariant, PTL

(* What is under way is the request in front, which is being processed.    *)
LEMMA FrontAlone ==
  ASSUME Typed, OneUnderWay
  PROVE  UnderWay \subseteq (IF requests = << >> THEN {} ELSE {requests[1].id})
<1>1. /\ DOMAIN jobs = 1 .. Len(jobs) /\ DOMAIN callbacks = 1 .. Len(callbacks)
      /\ DOMAIN sendQueue = 1 .. Len(sendQueue)
  BY Queues
<1>2. SUFFICES ASSUME NEW id \in UnderWay
               PROVE  requests # << >> /\ id = requests[1].id
  OBVIOUS
<1>3. CASE id \in Numbers(jobs)
  BY <1>1, <1>3 DEF Numbers, OneUnderWay, OfFront
<1>4. CASE id \in Numbers(callbacks)
  BY <1>1, <1>4 DEF Numbers, OneUnderWay, OfFront
<1>5. CASE id \in Numbers(sendQueue)
  BY <1>1, <1>5 DEF Numbers, OneUnderWay, OfFront
<1> QED
  BY <1>2, <1>3, <1>4, <1>5 DEF UnderWay

LEMMA FrontProcessed ==
  ASSUME Typed, OneUnderWay, UnderWay # {}
  PROVE  requests # << >> /\ requests[1].processing
<1>1. /\ DOMAIN jobs = 1 .. Len(jobs) /\ DOMAIN callbacks = 1 .. Len(callbacks)
      /\ DOMAIN sendQueue = 1 .. Len(sendQueue)
  BY Queues
<1>2. PICK id : id \in UnderWay
  OBVIOUS
<1>3. CASE id \in Numbers(jobs)
  BY <1>1, <1>3 DEF Numbers, OneUnderWay, OfFront
<1>4. CASE id \in Numbers(callbacks)
  BY <1>1, <1>4 DEF Numbers, OneUnderWay, OfFront
<1>5. CASE id \in Numbers(sendQueue)
  BY <1>1, <1>5 DEF Numbers, OneUnderWay, OfFront
<1> QED
  BY <1>2, <1>3, <1>4, <1>5 DEF UnderWay

(* A peer gets its answers in the order it asked and none twice, and while *)
(* uploading was not stopped in the middle of one they come one at a time, *)
(* so that BC_ASSERT(pending_request.request == request) holds.            *)
THEOREM AnswersInOrder == UploadSpec => []AnsweredInOrder
<1>1. ASSUME UInv
      PROVE  InOrder
  BY <1>1 DEF UInv, Lined
<1>2. ASSUME UInv
      PROVE  UnderWayIsFront
  <2> SUFFICES ASSUME ~interrupted
               PROVE  /\ aborted # "front"
                      /\ Cardinality(UnderWay) <= 1
                      /\ Len(jobs) + Len(callbacks) <= 1
                      /\ \A id \in UnderWay :
                           requests # << >> /\ Head(requests).id = id /\ Head(requests).processing
    BY DEF UnderWayIsFront
  <2>1. Typed /\ OneUnderWay
    BY <1>2 DEF UInv
  <2>2. Cardinality(UnderWay) <= 1
    <3>1. \A x : Cardinality({x}) = 1 /\ IsFiniteSet({x})
      BY FS_Singleton
    <3>2. Cardinality({}) = 0 /\ IsFiniteSet({})
      BY FS_EmptySet
    <3>3. PICK x : UnderWay \subseteq {x}
      BY <2>1, FrontAlone
    <3>4. CASE UnderWay = {}
      BY <3>2, <3>4
    <3>5. CASE UnderWay = {x}
      <4>1. Cardinality({x}) = 1
        BY <3>1
      <4> QED
        BY <3>5, <4>1
    <3> QED
      BY <3>3, <3>4, <3>5
  <2>3. ASSUME NEW id \in UnderWay
        PROVE  requests # << >> /\ Head(requests).id = id /\ Head(requests).processing
    <3>1. requests # << >> /\ requests[1].processing /\ id = requests[1].id
      BY <2>1, <2>3, FrontAlone, FrontProcessed
    <3>2. Head(requests) = requests[1]
      BY <2>1, <3>1, Queues, TailFacts
    <3> QED
      BY <3>1, <3>2
  <2> QED
    BY <2>1, <2>2, <2>3 DEF OneUnderWay
<1>3. UInv => AnsweredInOrder
  BY <1>1, <1>2 DEF AnsweredInOrder
<1> QED
  BY <1>3, UploadInvariant, PTL

=============================================================================
