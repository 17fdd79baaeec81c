---------------------------- MODULE ParallelFetch ----------------------------
(***************************************************************************)
(* lib/download/parallelFetch.ts: one file is fetched as WindowCount       *)
(* ranges, several at a time, and handed to the reader as one stream in    *)
(* order.  Everything runs on the browser's single thread; a step is what  *)
(* runs between two awaits, and a promise's catch and finally callbacks    *)
(* are steps of their own, since other callbacks may run between them.     *)
(*                                                                         *)
(* The bytes of a window are abstracted to the set of windows they belong  *)
(* to: {i} for the partial answer to range i, all of Windows for a server  *)
(* that answers with the whole file.                                       *)
(***************************************************************************)
EXTENDS Naturals, Sequences, FiniteSets

CONSTANTS
  WindowCount,   \* windows of the file
  Concurrency,   \* DOWNLOAD_CONCURRENCY
  MaxAttempts,   \* MAX_REQUEST_ATTEMPTS
  MaxFaults      \* bound: answers other than the partial content asked for

(* A file of one window is answered by singleChunkStream. *)
ASSUME WindowAssumption == WindowCount \in Nat /\ WindowCount >= 2
ASSUME RequestAssumption == /\ Concurrency \in Nat \ {0}
                            /\ MaxAttempts \in Nat \ {0}
                            /\ MaxFaults \in Nat

VARIABLES
  buffers,         \* fetched windows the reader has not taken ({}: none)
  nextToEnqueue,   \* the window the reader needs
  nextToSchedule,  \* nextToScheduleIndex: the first window not asked for
  inFlight,        \* fetchWindow calls whose finally has not run
  failure,         \* the first error
  aborted,         \* abort.signal.aborted
  fetch,           \* where the request of each window stands
  attempt,         \* attempts made for each window
  pull,            \* the pull callback: "idle", "waiting" or "woken"
  queued,          \* a piece is in the stream's own queue
  stream,          \* the stream as its reader sees it
  out,             \* the pieces enqueued so far
  faults

fetchVars  == <<nextToSchedule, inFlight, fetch, attempt>>
errorVars  == <<failure, aborted>>
readerVars == <<pull, queued, stream, out, nextToEnqueue>>
vars == <<buffers, fetchVars, errorVars, readerVars, faults>>

Windows  == 0..(WindowCount - 1)
MaxAhead == Concurrency + 2
Rejected == {"gone", "broken", "cut"}  \* 404, FriendlyError, AbortError

Fault == faults < MaxFaults /\ faults' = faults + 1
Goto(i, label) == fetch' = [fetch EXCEPT ![i] = label]

(* The probe, createParallelCiphertextStream's first request, is under way. *)
Init ==
  /\ buffers = [i \in Windows |-> {}]
  /\ nextToEnqueue = 0 /\ nextToSchedule = 1 /\ inFlight = 0
  /\ failure = "none" /\ aborted = FALSE
  /\ fetch = [i \in Windows |-> IF i = 0 THEN "asking" ELSE "idle"]
  /\ attempt = [i \in Windows |-> IF i = 0 THEN 1 ELSE 0]
  /\ pull = "idle" /\ queued = FALSE /\ stream = "opening" /\ out = <<>>
  /\ faults = 0

-----------------------------------------------------------------------------
(* fetchRangeWithRetry and fetchWindow. *)

(* A network error or a retryable status: another attempt, or the end. *)
TransientFailure(i) ==
  /\ fetch[i] = "asking" /\ Fault
  /\ Goto(i, IF attempt[i] < MaxAttempts THEN "resting" ELSE "broken")
  /\ UNCHANGED <<buffers, nextToSchedule, inFlight, attempt, errorVars, readerVars>>

(* Bug: the signal is not looked at after the back-off. *)
RetryBlind(i) ==
  /\ fetch[i] = "resting"
  /\ Goto(i, "asking") /\ attempt' = [attempt EXCEPT ![i] = @ + 1]
  /\ UNCHANGED <<buffers, nextToSchedule, inFlight, errorVars, readerVars, faults>>

(* The back-off is over. *)
Retry(i) ==
  /\ fetch[i] = "resting"
  /\ IF aborted
     THEN Goto(i, "ended") /\ UNCHANGED attempt
     ELSE Goto(i, "asking") /\ attempt' = [attempt EXCEPT ![i] = @ + 1]
  /\ UNCHANGED <<buffers, nextToSchedule, inFlight, errorVars, readerVars, faults>>

(* The abort reaches a request: fetch rejects, and fetchWindow returns. *)
AbortRequest(i) ==
  /\ fetch[i] = "asking" /\ aborted
  /\ Goto(i, "ended")
  /\ UNCHANGED <<buffers, nextToSchedule, inFlight, attempt, errorVars, readerVars, faults>>

(* 206; it may have been under way when the signal was aborted. *)
AnswerPartial(i) ==
  /\ fetch[i] = "asking"
  /\ Goto(i, "reading")
  /\ UNCHANGED <<buffers, nextToSchedule, inFlight, attempt, errorVars, readerVars, faults>>

(* 404: the share was deleted meanwhile. *)
AnswerGone(i) ==
  /\ fetch[i] = "asking" /\ Fault
  /\ Goto(i, "gone")
  /\ UNCHANGED <<buffers, nextToSchedule, inFlight, attempt, errorVars, readerVars>>

(* Bug: a 200 with the whole file is taken for the window. *)
AnswerWholeAccepted(i) ==
  /\ i # 0 /\ fetch[i] = "asking" /\ Fault
  /\ buffers' = [buffers EXCEPT ![i] = Windows]
  /\ Goto(i, "ended")
  /\ UNCHANGED <<nextToSchedule, inFlight, attempt, errorVars, readerVars>>

(* Any other status than 206, a 200 included; the probe's 200 is HandOver. *)
AnswerWhole(i) ==
  /\ fetch[i] = "asking" /\ Fault
  /\ Goto(i, "broken")
  /\ UNCHANGED <<buffers, nextToSchedule, inFlight, attempt, errorVars, readerVars>>

ReadBody(i) ==
  /\ i # 0 /\ fetch[i] = "reading"
  /\ buffers' = [buffers EXCEPT ![i] = {i}]
  /\ Goto(i, "ended")
  /\ UNCHANGED <<nextToSchedule, inFlight, attempt, errorVars, readerVars, faults>>

(* arrayBuffer() rejects: the connection broke, or the signal was aborted. *)
BodyFails(i) ==
  /\ fetch[i] = "reading"
  /\ \/ aborted /\ Goto(i, "cut") /\ UNCHANGED faults
     \/ Fault /\ Goto(i, "broken")
  /\ UNCHANGED <<buffers, nextToSchedule, inFlight, attempt, errorVars, readerVars>>

-----------------------------------------------------------------------------
(* pump *)

(* Bug: no bound on how far the requests run ahead of the reader. *)
CanScheduleFarAhead(i, enqueued, flying) ==
  /\ failure = "none" /\ ~aborted
  /\ flying + (i - nextToSchedule) < Concurrency
  /\ i < WindowCount

(* The loop condition when window i is next to be asked for. *)
CanSchedule(i, enqueued, flying) ==
  /\ failure = "none" /\ ~aborted
  /\ flying + (i - nextToSchedule) < Concurrency
  /\ i < WindowCount
  /\ i < enqueued + MaxAhead

(* The loop asks for the windows from nextToSchedule up to the first it may *)
(* not ask for.                                                             *)
Pump(enqueued, flying, states) ==
  \E n \in nextToSchedule..WindowCount :
    LET asked == nextToSchedule..(n - 1) IN
    /\ \A i \in asked : CanSchedule(i, enqueued, flying)
    /\ ~CanSchedule(n, enqueued, flying)
    /\ nextToSchedule' = n
    /\ inFlight' = flying + (n - nextToSchedule)
    /\ fetch' = [i \in Windows |-> IF i \in asked THEN "asking" ELSE states[i]]
    /\ attempt' = [i \in Windows |-> IF i \in asked THEN 1 ELSE attempt[i]]

(* signalConsumer *)
SignalConsumer == pull' = IF pull = "waiting" THEN "woken" ELSE pull

(* Bug: the last error is reported, be it the echo of our own abort. *)
CatchLast(i) ==
  /\ i # 0 /\ fetch[i] \in Rejected
  /\ failure' = fetch[i]
  /\ aborted' = TRUE
  /\ buffers' = [j \in Windows |-> {}]
  /\ Goto(i, "ended")
  /\ UNCHANGED <<nextToSchedule, inFlight, attempt, readerVars, faults>>

(* fetchWindow rejected: the catch callback. *)
Catch(i) ==
  /\ i # 0 /\ fetch[i] \in Rejected
  /\ failure' = IF failure = "none" THEN fetch[i] ELSE failure
  /\ aborted' = TRUE
  /\ buffers' = [j \in Windows |-> {}]
  /\ Goto(i, "ended")
  /\ UNCHANGED <<nextToSchedule, inFlight, attempt, readerVars, faults>>

(* Bug: the reader is woken only by a window that was fetched. *)
SettleSilently(i) ==
  /\ i # 0 /\ fetch[i] = "ended"
  /\ IF buffers[i] # {} THEN SignalConsumer ELSE UNCHANGED pull
  /\ Pump(nextToEnqueue, inFlight - 1, [fetch EXCEPT ![i] = "done"])
  /\ UNCHANGED <<buffers, errorVars, nextToEnqueue, queued, stream, out, faults>>

(* The finally callback. *)
Settle(i) ==
  /\ i # 0 /\ fetch[i] = "ended"
  /\ SignalConsumer
  /\ Pump(nextToEnqueue, inFlight - 1, [fetch EXCEPT ![i] = "done"])
  /\ UNCHANGED <<buffers, errorVars, nextToEnqueue, queued, stream, out, faults>>

-----------------------------------------------------------------------------
(* createParallelCiphertextStream after its probe. *)

(* The probe was answered with the whole file. *)
HandOver ==
  /\ fetch[0] = "asking"
  /\ stream' = "whole" /\ Goto(0, "done")
  /\ UNCHANGED <<buffers, nextToSchedule, inFlight, attempt, errorVars, pull, queued, out,
                 nextToEnqueue, faults>>

(* The promise rejects. *)
Reject ==
  /\ fetch[0] \in Rejected
  /\ stream' = "errored" /\ Goto(0, "done")
  /\ UNCHANGED <<buffers, nextToSchedule, inFlight, attempt, errorVars, pull, queued, out,
                 nextToEnqueue, faults>>

(* The first window is read; start() pumps. *)
OpenStream ==
  /\ fetch[0] = "reading"
  /\ stream' = "open"
  /\ buffers' = [buffers EXCEPT ![0] = {0}]
  /\ Pump(0, 0, [fetch EXCEPT ![0] = "done"])
  /\ UNCHANGED <<errorVars, pull, queued, out, nextToEnqueue, faults>>

-----------------------------------------------------------------------------
(* The reader: the stream calls pull() when its queue is empty and no pull *)
(* is pending; a pull that waited goes on when it is woken.                *)
Pulling == \/ stream = "open" /\ pull = "idle" /\ ~queued
           \/ pull = "woken"

PullFails ==
  /\ Pulling /\ failure # "none"
  /\ stream' = IF stream = "open" THEN "errored" ELSE stream
  /\ pull' = "idle"
  /\ UNCHANGED <<buffers, fetchVars, errorVars, queued, out, nextToEnqueue, faults>>

(* Bug: a pull that cancel() has woken looks for its window again. *)
PullCancelledAgain ==
  /\ Pulling /\ failure = "none" /\ aborted
  /\ pull' = "waiting"
  /\ UNCHANGED <<buffers, fetchVars, errorVars, queued, stream, out, nextToEnqueue, faults>>

PullCancelled ==
  /\ Pulling /\ failure = "none" /\ aborted
  /\ pull' = "idle"
  /\ UNCHANGED <<buffers, fetchVars, errorVars, queued, stream, out, nextToEnqueue, faults>>

PullCloses ==
  /\ Pulling /\ failure = "none" /\ ~aborted /\ nextToEnqueue = WindowCount
  /\ stream' = "closed" /\ pull' = "idle"
  /\ UNCHANGED <<buffers, fetchVars, errorVars, queued, out, nextToEnqueue, faults>>

PullDelivers ==
  /\ Pulling /\ failure = "none" /\ ~aborted /\ nextToEnqueue < WindowCount
  /\ buffers[nextToEnqueue] # {}
  /\ out' = Append(out, buffers[nextToEnqueue])
  /\ buffers' = [buffers EXCEPT ![nextToEnqueue] = {}]
  /\ nextToEnqueue' = nextToEnqueue + 1
  /\ Pump(nextToEnqueue + 1, inFlight, fetch)
  /\ queued' = TRUE /\ pull' = "idle"
  /\ UNCHANGED <<errorVars, stream, faults>>

PullWaits ==
  /\ Pulling /\ failure = "none" /\ ~aborted /\ nextToEnqueue < WindowCount
  /\ buffers[nextToEnqueue] = {}
  /\ pull' = "waiting"
  /\ UNCHANGED <<buffers, fetchVars, errorVars, queued, stream, out, nextToEnqueue, faults>>

(* The reader takes the piece in the queue. *)
Read ==
  /\ stream = "open" /\ queued
  /\ queued' = FALSE
  /\ UNCHANGED <<buffers, fetchVars, errorVars, pull, stream, out, nextToEnqueue, faults>>

Cancel ==
  /\ stream = "open"
  /\ stream' = "cancelled" /\ queued' = FALSE
  /\ aborted' = TRUE
  /\ buffers' = [i \in Windows |-> {}]
  /\ SignalConsumer
  /\ UNCHANGED <<fetchVars, failure, out, nextToEnqueue, faults>>

-----------------------------------------------------------------------------
Request(i) ==
  \/ TransientFailure(i) \/ Retry(i) \/ AbortRequest(i) \/ AnswerPartial(i)
  \/ AnswerGone(i) \/ AnswerWhole(i) \/ ReadBody(i) \/ BodyFails(i)
  \/ Catch(i) \/ Settle(i)

Open == HandOver \/ Reject \/ OpenStream

Pull == PullFails \/ PullCancelled \/ PullCloses \/ PullDelivers \/ PullWaits

Next == (\E i \in Windows : Request(i)) \/ Open \/ Pull \/ Read \/ Cancel

Spec == Init /\ [][Next]_vars

(* Callbacks that are due run, the browser settles every request, and the  *)
(* reader goes on reading until the stream ends or it cancels it.          *)
Fairness == /\ \A i \in Windows : WF_vars(Request(i))
            /\ WF_vars(Open) /\ WF_vars(Pull) /\ WF_vars(Read)

FairSpec == Spec /\ Fairness

-----------------------------------------------------------------------------
(* Properties. *)

FetchStates == {"idle", "asking", "resting", "reading", "ended", "done"} \cup Rejected

(* Every variable has its type; no more requests than Concurrency. *)
TypeOK ==
  /\ buffers \in [Windows -> SUBSET Windows]
  /\ nextToEnqueue \in 0..WindowCount /\ nextToSchedule \in 1..WindowCount
  /\ inFlight \in 0..Concurrency
  /\ failure \in {"none"} \cup Rejected /\ aborted \in BOOLEAN
  /\ fetch \in [Windows -> FetchStates]
  /\ attempt \in [Windows -> 0..MaxAttempts]
  /\ pull \in {"idle", "waiting", "woken"} /\ queued \in BOOLEAN
  /\ stream \in {"opening", "whole", "open", "closed", "errored", "cancelled"}
  /\ out \in Seq(SUBSET Windows)
  /\ faults \in Nat

(* Windows that take memory: fetched and not taken, or being fetched. *)
Held == {i \in Windows : buffers[i] # {} \/ fetch[i] \in {"asking", "resting", "reading"}}

(* A slow reader does not make the browser hold the file: the windows held  *)
(* or on their way stay within MaxAhead, in whatever order answers, retries *)
(* and reads come, and also after the buffers were cleared by an abort that *)
(* late bodies follow.                                                      *)
HeldBounded == Cardinality(Held) <= MaxAhead

(* No lost wake-up: a waiting pull always has a request under way whose     *)
(* finally callback will wake it.                                           *)
NoLostWakeup == pull = "waiting" => inFlight > 0

(* The error the reader gets is the one that ended the download, never the  *)
(* AbortError the sibling requests die of.                                  *)
CauseReported == stream = "errored" => failure # "cut"

(* Once the download is aborted no request is started, not even by a        *)
(* window that was sleeping between two attempts.                           *)
NoRequestAfterAbort ==
  [][aborted => \A i \in Windows : fetch'[i] = "asking" => fetch[i] = "asking"]_vars

(* The stream ends: delivered, failed or cancelled, never hanging. *)
StreamEnds == <>(stream \notin {"opening", "open"})

(* The stream delivers what OrderedStream promises. *)
State == CASE stream \in {"opening", "open"} -> "open"
           [] stream = "closed" -> "complete"
           [] stream = "errored" -> "failed"
           [] OTHER -> stream

Ordered == INSTANCE OrderedStream WITH state <- State
StreamSpec == Ordered!Spec

(* docs/architecture.md and the comment on MAX_REQUEST_ATTEMPTS: a request  *)
(* that fails for a moment is tried several times before the download fails. *)
(* A connection that breaks while a window's body is read is such a failure: *)
(* it ends the download only when the window's attempts are used up.         *)
FailsOnlyExhausted ==
  [][\A i \in Windows : fetch[i] = "reading" /\ fetch'[i] = "broken" =>
       attempt[i] = MaxAttempts]_vars

-----------------------------------------------------------------------------
(* The inductive invariant. *)

Flying(states) == {i \in Windows \ {0} : states[i] \notin {"idle", "done"}}

(* The probe comes before everything else. *)
ProbeFirst ==
  /\ stream = "opening" <=> fetch[0] # "done"
  /\ fetch[0] \in {"asking", "resting", "reading", "gone", "broken", "done"}
  /\ stream = "opening" =>
       /\ nextToSchedule = 1 /\ nextToEnqueue = 0 /\ buffers[0] = {}
       /\ ~aborted /\ failure = "none"
  /\ stream \in {"opening", "whole"} => pull = "idle" /\ nextToEnqueue = 0
  /\ pull # "idle" => stream \in {"open", "cancelled"}

(* The three cursors: windows are taken, held or asked for, not asked for. *)
Cursors ==
  /\ nextToEnqueue <= nextToSchedule
  /\ nextToSchedule <= nextToEnqueue + MaxAhead
  /\ \A i \in Windows :
       /\ i >= nextToSchedule => fetch[i] = "idle" /\ buffers[i] = {}
       /\ i < nextToSchedule => fetch[i] # "idle"
       /\ i < nextToEnqueue => fetch[i] \in {"ended", "done"} /\ buffers[i] = {}
       /\ buffers[i] # {} => buffers[i] = {i} /\ fetch[i] \in {"ended", "done"}
       /\ fetch[i] = "resting" => attempt[i] < MaxAttempts
  /\ inFlight = Cardinality(Flying(fetch))

(* While nothing has gone wrong, a window that was asked for and is no      *)
(* longer under way is held, and pump has nothing left to ask for.          *)
Busy ==
  stream = "open" /\ ~aborted =>
    /\ \A i \in Windows :
         nextToEnqueue <= i /\ fetch[i] \in {"ended", "done"} => buffers[i] # {}
    /\ \/ nextToSchedule = WindowCount \/ inFlight = Concurrency
       \/ nextToSchedule = nextToEnqueue + MaxAhead

(* How a download ends. *)
Ending ==
  /\ failure # "none" => aborted
  /\ aborted => failure # "none" \/ stream = "cancelled"
  /\ stream = "cancelled" => aborted
  /\ failure = "cut" => stream = "cancelled"
  /\ \A i \in Windows : fetch[i] = "cut" => aborted
  /\ stream = "closed" => nextToEnqueue = WindowCount

Delivered == out = [k \in 1..nextToEnqueue |-> {k - 1}]

FetchInv == /\ TypeOK /\ ProbeFirst /\ Cursors /\ Busy /\ Ending /\ Delivered
            /\ NoLostWakeup

=============================================================================
