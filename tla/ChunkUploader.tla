---------------------------- MODULE ChunkUploader ----------------------------
(***************************************************************************)
(* lib/upload/chunkUploader.ts: the parts of one upload session are sent   *)
(* by several workers, either straight to R2 (a signed URL, PUT, then the  *)
(* acknowledgement that records the part) or through the Worker (one       *)
(* request that stores and records it).  A part whose direct way fails is  *)
(* sent again through the Worker; the first part that fails altogether     *)
(* stops the upload.                                                       *)
(*                                                                         *)
(* Everything runs on the browser's single thread; a step is what runs     *)
(* between two awaits.  A part is its number: every attempt sends the same *)
(* bytes.  A request that fails may have been carried out all the same;    *)
(* stored and recorded only grow, so it makes no difference whether a late *)
(* one is carried out when it is given up or afterwards.                   *)
(***************************************************************************)
EXTENDS Naturals, Sequences, FiniteSets

CONSTANTS
  Workers,      \* the concurrent worker() calls
  PartCount,    \* parts repartition cuts the stream into
  BatchSize,    \* PART_URL_BATCH_SIZE
  MaxAttempts,  \* PART_UPLOAD_MAX_ATTEMPTS
  MaxFaults     \* bound: requests, reads and closes that fail

ASSUME WorkersAssumption == IsFiniteSet(Workers) /\ Workers # {}
ASSUME SizesAssumption == /\ PartCount \in Nat /\ MaxFaults \in Nat
                          /\ BatchSize \in Nat \ {0}
                          /\ MaxAttempts \in Nat \ {0}

VARIABLES
  mode,               \* uploadMode
  produced,           \* parts the generator has yielded
  pc,                 \* where each worker stands
  part,               \* the part it sends, 0 for none
  attempt,            \* attempts of its current request
  directUnavailable,  \* the direct way has failed for some part
  queue,              \* batcher: workers that wait for a URL
  batch,              \* batcher: workers of the request under way
  timer,              \* batcher: flushTimer is set
  flush,              \* batcher: "off", "sending" or "settled"
  failed,             \* firstError # null; the signal is aborted
  main,               \* the call: "racing", "closing", "ok" or "failed"
  stored,             \* R2: parts of the multipart upload
  recorded,           \* D1: rows of upload_parts
  progress,           \* onBytesUploaded calls for each part
  faults

workerVars  == <<produced, pc, part, attempt, directUnavailable>>
batcherVars == <<queue, batch, timer, flush>>
endVars     == <<failed, main>>
serverVars  == <<stored, recorded>>
vars == <<mode, workerVars, batcherVars, endVars, serverVars, progress, faults>>

Parts == 1..PartCount

Fault == faults < MaxFaults /\ faults' = faults + 1
Goto(w, label) == pc' = [pc EXCEPT ![w] = label]

Init ==
  /\ mode \in {"direct", "proxy"}
  /\ produced = 0 /\ directUnavailable = FALSE
  /\ pc = [w \in Workers |-> "idle"]
  /\ part = [w \in Workers |-> 0]
  /\ attempt = [w \in Workers |-> 0]
  /\ queue = <<>> /\ batch = {} /\ timer = FALSE /\ flush = "off"
  /\ failed = FALSE /\ main = "racing"
  /\ stored = {} /\ recorded = {}
  /\ progress = [p \in Parts |-> 0]
  /\ faults = 0

-----------------------------------------------------------------------------
(* createPartUrlBatcher *)

Elements(q) == {q[k] : k \in DOMAIN q}
FirstBatch(q) == SubSeq(q, 1, IF Len(q) < BatchSize THEN Len(q) ELSE BatchSize)
Rest(q) == SubSeq(q, Len(FirstBatch(q)) + 1, Len(q))

(* runFlush sends the next batch of q. *)
Send(q) == /\ flush' = "sending" /\ timer' = FALSE
           /\ batch' = Elements(FirstBatch(q)) /\ queue' = Rest(q)

(* getUrl *)
Enqueue(w) ==
  LET q == Append(queue, w) IN
  IF Len(q) >= BatchSize /\ flush = "off"
  THEN Send(q)
  ELSE /\ queue' = q
       /\ timer' = (timer \/ flush = "off")
       /\ UNCHANGED <<batch, flush>>

(* runFlush's loop goes on with q, the workers of settled having been       *)
(* answered with label; once the signal is aborted all the others fail.     *)
Continue(q, settled, label) ==
  IF q # <<>> /\ ~failed
  THEN /\ Send(q)
       /\ pc' = [w \in Workers |-> IF w \in settled THEN label ELSE pc[w]]
  ELSE /\ flush' = "settled" /\ timer' = FALSE /\ batch' = {} /\ queue' = <<>>
       /\ pc' = [w \in Workers |-> IF w \in settled THEN label
                                   ELSE IF w \in Elements(q) THEN "urlError" ELSE pc[w]]

TimerFires ==
  /\ timer
  /\ Continue(queue, {}, "url")
  /\ UNCHANGED <<mode, produced, part, attempt, directUnavailable, endVars, serverVars,
                 progress, faults>>

UrlsAnswered ==
  /\ flush = "sending"
  /\ Continue(queue, batch, "url")
  /\ UNCHANGED <<mode, produced, part, attempt, directUnavailable, endVars, serverVars,
                 progress, faults>>

(* The request fails or is aborted. *)
UrlsFail ==
  /\ flush = "sending"
  /\ (failed /\ UNCHANGED faults) \/ Fault
  /\ Continue(queue, batch, "urlError")
  /\ UNCHANGED <<mode, produced, part, attempt, directUnavailable, endVars, serverVars,
                 progress>>

(* Bug: waiters that came during the flush are not scheduled. *)
FlushSettledForgetful ==
  /\ flush = "settled"
  /\ flush' = "off"
  /\ UNCHANGED <<mode, workerVars, queue, batch, timer, endVars, serverVars, progress, faults>>

(* The flush's finally callback. *)
FlushSettled ==
  /\ flush = "settled"
  /\ flush' = "off"
  /\ timer' = (queue # <<>>)
  /\ UNCHANGED <<mode, workerVars, queue, batch, endVars, serverVars, progress, faults>>

-----------------------------------------------------------------------------
(* worker and uploadPart *)

(* The worker's step leaves the batcher, or the server, alone. *)
Locally == UNCHANGED <<mode, produced, part, batcherVars, endVars, progress>>
Kept == UNCHANGED <<serverVars, faults>>

(* stop() *)
Stop(w) == failed' = TRUE /\ Goto(w, "stopped") /\ UNCHANGED main

(* parts.next() is called. *)
Ask(w) ==
  /\ pc[w] = "idle" /\ ~failed
  /\ Goto(w, "reading")
  /\ UNCHANGED attempt /\ UNCHANGED directUnavailable /\ Locally /\ Kept

(* A part is yielded and its first request is made. *)
Take(w) ==
  /\ pc[w] = "reading" /\ ~failed /\ produced < PartCount
  /\ produced' = produced + 1
  /\ part' = [part EXCEPT ![w] = produced + 1]
  /\ attempt' = [attempt EXCEPT ![w] = 1]
  /\ IF mode = "proxy" \/ directUnavailable
     THEN Goto(w, "proxy") /\ UNCHANGED batcherVars
     ELSE Goto(w, "waiting") /\ Enqueue(w)
  /\ UNCHANGED <<mode, directUnavailable, endVars, progress>> /\ Kept

(* The generator is done, or the signal was aborted. *)
ReadDone(w) ==
  /\ pc[w] = "reading" /\ (produced = PartCount \/ failed)
  /\ Goto(w, "stopped")
  /\ UNCHANGED attempt /\ UNCHANGED directUnavailable /\ Locally /\ Kept

(* Reading or encrypting the file fails. *)
ReadFails(w) ==
  /\ pc[w] = "reading" /\ Fault
  /\ Stop(w)
  /\ UNCHANGED <<mode, produced, part, attempt, directUnavailable, batcherVars, serverVars,
                 progress>>

(* The signal was aborted: the request or the sleep rejects, or the check   *)
(* that follows the await makes the worker return.                          *)
Halt(w) ==
  /\ failed
  /\ pc[w] \in {"idle", "url", "urlError", "put", "ack", "proxy", "putRest", "ackRest",
                "proxyRest"}
  /\ Goto(w, "stopped")
  /\ UNCHANGED attempt /\ UNCHANGED directUnavailable /\ Locally /\ UNCHANGED faults
  /\ \/ UNCHANGED serverVars
     \/ pc[w] = "put" /\ stored' = stored \cup {part[w]} /\ UNCHANGED recorded
     \/ pc[w] = "ack" /\ recorded' = recorded \cup {part[w]} /\ UNCHANGED stored
     \/ /\ pc[w] = "proxy"
        /\ stored' = stored \cup {part[w]} /\ recorded' = recorded \cup {part[w]}

(* The part is done. *)
Report(w) == /\ progress' = [progress EXCEPT ![part[w]] = @ + 1]
             /\ part' = [part EXCEPT ![w] = 0]
             /\ Goto(w, "idle")

(* uploadPart's catch: the direct way failed, the part goes the other one. *)
FallBack(w) == /\ directUnavailable' = TRUE
               /\ attempt' = [attempt EXCEPT ![w] = 1]
               /\ Goto(w, "proxy")

RestOrFallBack(w, label) ==
  IF attempt[w] < MaxAttempts
  THEN Goto(w, label) /\ UNCHANGED attempt /\ UNCHANGED directUnavailable
  ELSE FallBack(w)

-----------------------------------------------------------------------------
(* uploadPartDirect *)

(* No URL: another attempt, or the end of the direct way. *)
UrlFailed(w) ==
  /\ pc[w] = "urlError" /\ ~failed
  /\ RestOrFallBack(w, "putRest")
  /\ Locally /\ Kept

(* Bug: the signal is not looked at between the URL and the PUT. *)
PutUnchecked(w) ==
  /\ pc[w] = "url"
  /\ Goto(w, "put")
  /\ UNCHANGED attempt /\ UNCHANGED directUnavailable /\ Locally /\ Kept

Put(w) ==
  /\ pc[w] = "url" /\ ~failed
  /\ Goto(w, "put")
  /\ UNCHANGED attempt /\ UNCHANGED directUnavailable /\ Locally /\ Kept

(* Bug: the bytes are reported when R2 has them. *)
PutStoredReported(w) ==
  /\ pc[w] = "put" /\ ~failed
  /\ stored' = stored \cup {part[w]}
  /\ progress' = [progress EXCEPT ![part[w]] = @ + 1]
  /\ attempt' = [attempt EXCEPT ![w] = 1]
  /\ Goto(w, "ack")
  /\ UNCHANGED <<mode, produced, part, directUnavailable, batcherVars, endVars, recorded,
                 faults>>

(* R2 answers with the ETag; the acknowledgement is sent. *)
PutStored(w) ==
  /\ pc[w] = "put" /\ ~failed
  /\ stored' = stored \cup {part[w]}
  /\ attempt' = [attempt EXCEPT ![w] = 1]
  /\ Goto(w, "ack")
  /\ UNCHANGED directUnavailable /\ UNCHANGED recorded /\ Locally /\ UNCHANGED faults

(* A network error or a retryable status; or another status, or no ETag. *)
PutFails(w) ==
  /\ pc[w] = "put" /\ ~failed /\ Fault
  /\ stored' \in {stored, stored \cup {part[w]}}
  /\ RestOrFallBack(w, "putRest") \/ FallBack(w)
  /\ UNCHANGED recorded /\ Locally

RetryPut(w) ==
  /\ pc[w] = "putRest" /\ ~failed
  /\ attempt' = [attempt EXCEPT ![w] = @ + 1]
  /\ Goto(w, "waiting") /\ Enqueue(w)
  /\ UNCHANGED <<mode, produced, part, directUnavailable, endVars, progress>> /\ Kept

Acknowledged(w) ==
  /\ pc[w] = "ack" /\ ~failed
  /\ recorded' = recorded \cup {part[w]}
  /\ Report(w)
  /\ UNCHANGED <<mode, produced, attempt, directUnavailable, batcherVars, endVars, stored,
                 faults>>

(* Bug: a part whose acknowledgement failed counts as sent, R2 having it. *)
AckFailsIgnored(w) ==
  /\ pc[w] = "ack" /\ ~failed /\ Fault
  /\ recorded' \in {recorded, recorded \cup {part[w]}}
  /\ IF attempt[w] < MaxAttempts
     THEN Goto(w, "ackRest") /\ UNCHANGED part
     ELSE Goto(w, "idle") /\ part' = [part EXCEPT ![w] = 0]
  /\ UNCHANGED <<mode, produced, attempt, directUnavailable, batcherVars, endVars, stored,
                 progress>>

(* Every failure of the acknowledgement is retried. *)
AckFails(w) ==
  /\ pc[w] = "ack" /\ ~failed /\ Fault
  /\ recorded' \in {recorded, recorded \cup {part[w]}}
  /\ RestOrFallBack(w, "ackRest")
  /\ UNCHANGED stored /\ Locally

RetryAck(w) ==
  /\ pc[w] = "ackRest" /\ ~failed
  /\ attempt' = [attempt EXCEPT ![w] = @ + 1]
  /\ Goto(w, "ack")
  /\ UNCHANGED directUnavailable /\ Locally /\ Kept

-----------------------------------------------------------------------------
(* uploadPartProxy *)

ProxyAnswered(w) ==
  /\ pc[w] = "proxy" /\ ~failed
  /\ stored' = stored \cup {part[w]} /\ recorded' = recorded \cup {part[w]}
  /\ Report(w)
  /\ UNCHANGED <<mode, produced, attempt, directUnavailable, batcherVars, endVars, faults>>

(* Before, between or after its two effects, R2's and D1's; a retryable     *)
(* failure with attempts left is retried, any other stops the upload.       *)
ProxyFails(w) ==
  /\ pc[w] = "proxy" /\ ~failed /\ Fault
  /\ \/ UNCHANGED serverVars
     \/ stored' = stored \cup {part[w]} /\ UNCHANGED recorded
     \/ stored' = stored \cup {part[w]} /\ recorded' = recorded \cup {part[w]}
  /\ \/ attempt[w] < MaxAttempts /\ Goto(w, "proxyRest") /\ UNCHANGED endVars
     \/ Stop(w)
  /\ UNCHANGED <<mode, produced, part, attempt, directUnavailable, batcherVars, progress>>

RetryProxy(w) ==
  /\ pc[w] = "proxyRest" /\ ~failed
  /\ attempt' = [attempt EXCEPT ![w] = @ + 1]
  /\ Goto(w, "proxy")
  /\ UNCHANGED directUnavailable /\ Locally /\ Kept

-----------------------------------------------------------------------------
(* uploadChunksFromStream *)

Reading == \E w \in Workers : pc[w] = "reading"

(* Bug: the generator's return() is awaited behind a read under way. *)
RaceWonWaiting ==
  /\ main = "racing"
  /\ failed \/ \A w \in Workers : pc[w] = "stopped"
  /\ main' = "closing"
  /\ UNCHANGED <<mode, workerVars, batcherVars, failed, serverVars, progress, faults>>

(* All workers are done, or the first has failed: the generator is closed,  *)
(* and waited for unless a read is under way.                               *)
RaceWon ==
  /\ main = "racing"
  /\ failed \/ \A w \in Workers : pc[w] = "stopped"
  /\ main' = IF Reading THEN "failed" ELSE "closing"
  /\ UNCHANGED <<mode, workerVars, batcherVars, failed, serverVars, progress, faults>>

(* parts.return() settles, which it cannot before the reads it follows. *)
Closed ==
  /\ main = "closing" /\ ~Reading
  /\ \/ failed' = failed /\ UNCHANGED faults
     \/ failed' = TRUE /\ Fault
  /\ main' = IF failed' THEN "failed" ELSE "ok"
  /\ UNCHANGED <<mode, workerVars, batcherVars, serverVars, progress>>

-----------------------------------------------------------------------------
Batcher == TimerFires \/ UrlsAnswered \/ UrlsFail \/ FlushSettled

Source(w) == Take(w) \/ ReadDone(w) \/ ReadFails(w)

UploadPart(w) ==
  \/ UrlFailed(w) \/ Put(w) \/ PutStored(w) \/ PutFails(w) \/ RetryPut(w)
  \/ Acknowledged(w) \/ AckFails(w) \/ RetryAck(w)
  \/ ProxyAnswered(w) \/ ProxyFails(w) \/ RetryProxy(w)

Work(w) == Ask(w) \/ Halt(w) \/ UploadPart(w)

Main == RaceWon \/ Closed

Next == (\E w \in Workers : Source(w) \/ Work(w)) \/ Batcher \/ Main

Spec == Init /\ [][Next]_vars

(* Callbacks that are due run, and the browser settles every request; the  *)
(* source of the chunks may hang.                                          *)
Fairness == /\ \A w \in Workers : WF_vars(Work(w))
            /\ WF_vars(Batcher) /\ WF_vars(Main)

FairSpec == Spec /\ Fairness

-----------------------------------------------------------------------------
(* Properties. *)

PcStates == {"idle", "reading", "waiting", "url", "urlError", "put", "putRest", "ack",
             "ackRest", "proxy", "proxyRest", "stopped"}

(* Every variable has its type; no request is made more often than allowed. *)
TypeOK ==
  /\ mode \in {"direct", "proxy"}
  /\ produced \in 0..PartCount
  /\ pc \in [Workers -> PcStates]
  /\ part \in [Workers -> 0..PartCount]
  /\ attempt \in [Workers -> 0..MaxAttempts]
  /\ directUnavailable \in BOOLEAN
  /\ queue \in Seq(Workers) /\ batch \subseteq Workers
  /\ timer \in BOOLEAN /\ flush \in {"off", "sending", "settled"}
  /\ failed \in BOOLEAN /\ main \in {"racing", "closing", "ok", "failed"}
  /\ stored \subseteq Parts /\ recorded \subseteq Parts
  /\ progress \in [Parts -> Nat]
  /\ faults \in Nat

(* The upload succeeds only when every part is in R2 and recorded in D1:    *)
(* complete puts the file together from the recorded parts, so one that is  *)
(* missing would be cut out of the file without an error.                   *)
SuccessMeansRecorded == main = "ok" => stored = Parts /\ recorded = Parts

(* The progress shown never counts a part that could still be lost, nor a   *)
(* part twice, though a part may be sent over and over and on two ways.     *)
ProgressHonest ==
  /\ \A p \in Parts : progress[p] <= 1 /\ (progress[p] = 1 => p \in recorded)
  /\ main = "ok" => \A p \in Parts : progress[p] = 1

(* The batcher forgets no waiter: whoever waits for a URL is in the request *)
(* under way or in a queue that a timer, that request or the flush's own    *)
(* finally will serve.                                                      *)
WaiterServed ==
  \A w \in Workers : pc[w] = "waiting" =>
    \/ w \in batch /\ flush = "sending"
    \/ w \in Elements(queue) /\ (timer \/ flush # "off")

(* After the first error no worker makes a request and no progress is       *)
(* reported: the caller may already be sending the file anew, under the     *)
(* same progress bar.                                                       *)
SilentAfterError ==
  [][failed => /\ \A w \in Workers : pc'[w] \in {"put", "ack", "proxy"} => pc'[w] = pc[w]
               /\ batch' \subseteq batch
               /\ progress' = progress]_vars

(* An error is reported even if the source of the chunks hangs for ever; and  *)
(* if the source keeps delivering, the upload ends.                          *)
UploadEnds ==
  /\ failed ~> main = "failed"
  /\ (\A w \in Workers : WF_vars(Source(w))) => <>(main \in {"ok", "failed"})

-----------------------------------------------------------------------------
(* The inductive invariant. *)

Sending == PcStates \ {"idle", "reading", "stopped"}

(* A part is held by one worker until it is reported. *)
Holding ==
  /\ \A w \in Workers : pc[w] \in Sending =>
       part[w] \in 1..produced /\ progress[part[w]] = 0
  /\ \A w, v \in Workers :
       pc[w] \in Sending /\ pc[v] \in Sending /\ part[w] = part[v] => w = v
  /\ \A w \in Workers : pc[w] \in {"ack", "ackRest"} => part[w] \in stored

Reported ==
  \A p \in Parts : /\ progress[p] \in {0, 1}
                   /\ progress[p] = 1 => p \in 1..produced /\ p \in stored /\ p \in recorded

(* While nothing has failed no part is dropped. *)
NothingDropped ==
  ~failed =>
    /\ \A p \in 1..produced :
         progress[p] = 1 \/ \E w \in Workers : pc[w] \in Sending /\ part[w] = p
    /\ \A w \in Workers : pc[w] = "stopped" => produced = PartCount

(* How the call ends. *)
Ending ==
  /\ main = "failed" => failed
  /\ main = "ok" => ~failed
  /\ main \in {"closing", "ok"} /\ ~failed => \A w \in Workers : pc[w] = "stopped"

(* The batcher holds the workers that wait, each once. *)
WaitersHeldOnce ==
  /\ timer => flush = "off"
  /\ flush # "sending" => batch = {}
  /\ \A w \in batch \cup Elements(queue) : pc[w] = "waiting"
  /\ batch \cap Elements(queue) = {}
  /\ \A j, k \in DOMAIN queue : queue[j] = queue[k] => j = k

(* A worker sleeps only before another attempt. *)
RestsToRetry ==
  \A w \in Workers :
    pc[w] \in {"putRest", "ackRest", "proxyRest"} => attempt[w] < MaxAttempts

UploadInv == /\ TypeOK /\ Holding /\ Reported /\ NothingDropped /\ Ending
             /\ RestsToRetry /\ WaitersHeldOnce /\ WaiterServed

=============================================================================
