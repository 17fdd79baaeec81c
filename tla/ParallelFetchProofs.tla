------------------------ MODULE ParallelFetchProofs ------------------------
(***************************************************************************)
(* The parallel download for any number of windows, of requests at a time, *)
(* of attempts and of faults: its memory stays bounded, its reader is      *)
(* never left asleep, it reports the first error, it starts nothing after  *)
(* an abort, and it delivers the stream OrderedStream promises.            *)
(***************************************************************************)
EXTENDS ParallelFetch, FiniteSetTheorems, TLAPS

USE WindowAssumption, RequestAssumption

(* The windows under way can be counted. *)
LEMMA FlyingFinite ==
  ASSUME NEW states
  PROVE  IsFiniteSet(Flying(states)) /\ Cardinality(Flying(states)) \in Nat
<1>1. IsFiniteSet(0..(WindowCount - 1))
  BY FS_Interval
<1>2. Flying(states) \in SUBSET (0..(WindowCount - 1))
  BY DEF Flying, Windows
<1>3. IsFiniteSet(Flying(states))
  BY <1>1, <1>2, FS_Subset
<1> QED
  BY <1>3, FS_CardinalityType

(* A step of one request that is and stays under way keeps the count. *)
LEMMA Relabel ==
  ASSUME TypeOK, NEW i \in Windows, NEW label \in FetchStates \ {"idle", "done"},
         fetch[i] \notin {"idle", "done"}, Goto(i, label)
  PROVE  /\ fetch' \in [Windows -> FetchStates]
         /\ fetch'[i] = label
         /\ \A j \in Windows : j # i => fetch'[j] = fetch[j]
         /\ Flying(fetch') = Flying(fetch)
<1>1. /\ fetch' \in [Windows -> FetchStates]
      /\ fetch'[i] = label
      /\ \A j \in Windows : j # i => fetch'[j] = fetch[j]
  BY DEF TypeOK, Goto
<1>2. Flying(fetch') = Flying(fetch)
  BY <1>1 DEF Flying
<1> QED
  BY <1>1, <1>2

(* What pump does, from the states the caller leaves behind. *)
LEMMA PumpEffect ==
  ASSUME TypeOK,
         NEW states \in [Windows -> FetchStates],
         NEW enq \in 0..WindowCount, NEW fly \in 0..Concurrency,
         fly = Cardinality(Flying(states)),
         \A i \in Windows : i >= nextToSchedule => states[i] = "idle",
         nextToSchedule <= enq + MaxAhead,
         Pump(enq, fly, states)
  PROVE  /\ nextToSchedule' \in nextToSchedule..WindowCount
         /\ nextToSchedule' <= enq + MaxAhead
         /\ aborted => nextToSchedule' = nextToSchedule
         /\ inFlight' \in 0..Concurrency
         /\ inFlight' = Cardinality(Flying(fetch'))
         /\ fetch' \in [Windows -> FetchStates]
         /\ attempt' \in [Windows -> 0..MaxAttempts]
         /\ \A i \in Windows :
              IF nextToSchedule <= i /\ i < nextToSchedule'
              THEN fetch'[i] = "asking"
              ELSE fetch'[i] = states[i] /\ attempt'[i] = attempt[i]
         /\ failure = "none" /\ ~aborted =>
              \/ nextToSchedule' = WindowCount \/ inFlight' = Concurrency
              \/ nextToSchedule' = enq + MaxAhead
<1> DEFINE asked(n) == nextToSchedule..(n - 1)
<1>1. PICK n \in nextToSchedule..WindowCount :
        /\ \A i \in asked(n) : CanSchedule(i, enq, fly)
        /\ ~CanSchedule(n, enq, fly)
        /\ nextToSchedule' = n
        /\ inFlight' = fly + (n - nextToSchedule)
        /\ fetch' = [i \in Windows |-> IF i \in asked(n) THEN "asking" ELSE states[i]]
        /\ attempt' = [i \in Windows |-> IF i \in asked(n) THEN 1 ELSE attempt[i]]
  BY DEF Pump
<1>2. nextToSchedule \in 1..WindowCount /\ n \in Int /\ MaxAhead = Concurrency + 2
  BY DEF TypeOK, MaxAhead
<1>3. n > nextToSchedule =>
        /\ ~aborted
        /\ fly + ((n - 1) - nextToSchedule) < Concurrency
        /\ n - 1 < enq + MaxAhead
  <2> SUFFICES ASSUME n > nextToSchedule PROVE CanSchedule(n - 1, enq, fly)
    BY DEF CanSchedule
  <2>1. n - 1 \in asked(n)
    BY <1>2
  <2> QED
    BY <1>1, <2>1
<1>4. /\ n <= enq + MaxAhead
      /\ fly + (n - nextToSchedule) \in 0..Concurrency
      /\ aborted => n = nextToSchedule
  BY <1>2, <1>3
<1>5. failure = "none" /\ ~aborted =>
        \/ n = WindowCount \/ fly + (n - nextToSchedule) = Concurrency
        \/ n = enq + MaxAhead
  BY <1>1, <1>2, <1>4 DEF CanSchedule
<1>6. /\ fetch' \in [Windows -> FetchStates]
      /\ attempt' \in [Windows -> 0..MaxAttempts]
      /\ \A i \in Windows : IF i \in asked(n) THEN fetch'[i] = "asking"
                            ELSE fetch'[i] = states[i] /\ attempt'[i] = attempt[i]
  BY <1>1 DEF FetchStates, TypeOK
<1>7. Cardinality(Flying(fetch')) = fly + (n - nextToSchedule)
  <2>1. asked(n) \subseteq Windows \ {0}
    BY <1>2 DEF Windows
  <2>2. Flying(fetch') = Flying(states) \cup asked(n)
    BY <1>6, <2>1 DEF Flying
  <2>3. Flying(states) \cap asked(n) = {}
    BY <1>2, <2>1 DEF Flying
  <2>4. IsFiniteSet(asked(n)) /\ Cardinality(asked(n)) = n - nextToSchedule
    <3>1. nextToSchedule \in Int /\ n - 1 \in Int /\ nextToSchedule <= n
      BY <1>2
    <3>2. /\ IsFiniteSet(nextToSchedule..(n - 1))
          /\ Cardinality(nextToSchedule..(n - 1)) =
               IF nextToSchedule > n - 1 THEN 0 ELSE (n - 1) - nextToSchedule + 1
      BY <3>1, FS_Interval
    <3> QED
      BY <1>2, <3>1, <3>2
  <2>5. IsFiniteSet(Flying(states))
    BY FlyingFinite
  <2>6. Cardinality(Flying(states) \cup asked(n))
          = Cardinality(Flying(states)) + Cardinality(asked(n))
              - Cardinality(Flying(states) \cap asked(n))
    BY <2>4, <2>5, FS_Union
  <2>7. Cardinality(Flying(states) \cap asked(n)) = 0
    BY <2>3, FS_EmptySet
  <2> QED
    BY <1>2, <2>2, <2>4, <2>6, <2>7
<1>8. \A i \in Windows : i \in asked(n) <=> nextToSchedule <= i /\ i < n
  BY <1>2 DEF Windows
<1> QED
  BY <1>1, <1>2, <1>4, <1>5, <1>6, <1>7, <1>8

(* A request whose finally runs is no longer under way. *)
LEMMA SettleCounts ==
  ASSUME FetchInv, NEW i \in Windows, i # 0, fetch[i] = "ended"
  PROVE  /\ [fetch EXCEPT ![i] = "done"] \in [Windows -> FetchStates]
         /\ inFlight - 1 \in 0..Concurrency
         /\ inFlight - 1 = Cardinality(Flying([fetch EXCEPT ![i] = "done"]))
<1>1. TypeOK /\ inFlight = Cardinality(Flying(fetch))
  BY DEF FetchInv, Cursors
<1>2. i \in Flying(fetch)
  BY DEF Flying
<1>3. Flying([fetch EXCEPT ![i] = "done"]) = Flying(fetch) \ {i}
  BY <1>1 DEF Flying, TypeOK
<1>4. /\ IsFiniteSet(Flying(fetch)) /\ IsFiniteSet(Flying([fetch EXCEPT ![i] = "done"]))
      /\ Cardinality(Flying(fetch)) \in Nat
      /\ Cardinality(Flying([fetch EXCEPT ![i] = "done"])) \in Nat
  BY FlyingFinite
<1>5. Cardinality(Flying(fetch) \ {i}) = Cardinality(Flying(fetch)) - 1
  BY <1>2, <1>4, FS_RemoveElement
<1>6. [fetch EXCEPT ![i] = "done"] \in [Windows -> FetchStates]
  BY <1>1 DEF TypeOK, FetchStates
<1>7. inFlight - 1 = Cardinality(Flying([fetch EXCEPT ![i] = "done"]))
  BY <1>1, <1>3, <1>5
<1>8. inFlight - 1 \in Nat /\ inFlight \in 0..Concurrency
  BY <1>1, <1>4, <1>7 DEF TypeOK
<1> QED
  BY <1>6, <1>7, <1>8

-----------------------------------------------------------------------------
(* The inductive invariant. *)

LEMMA InitInv == Init => FetchInv
<1> SUFFICES ASSUME Init PROVE FetchInv
  OBVIOUS
<1> USE DEF Init
<1>1. TypeOK
  BY DEF TypeOK, Windows, FetchStates, Rejected
<1>2. Flying(fetch) = {}
  BY DEF Flying
<1>3. inFlight = Cardinality(Flying(fetch))
  BY <1>2, FS_EmptySet
<1>4. Cursors
  BY <1>3 DEF Cursors, Windows, MaxAhead
<1>5. ProbeFirst /\ Busy /\ Ending /\ NoLostWakeup
  BY DEF ProbeFirst, Busy, Ending, NoLostWakeup, Windows
<1>6. Delivered
  BY DEF Delivered
<1> QED
  BY <1>1, <1>4, <1>5, <1>6 DEF FetchInv

(* A request moves on without touching the reader and the errors. *)
LEMMA RequestMoves ==
  ASSUME FetchInv, NEW i \in Windows, NEW label \in FetchStates \ {"idle", "done"},
         fetch[i] \notin {"idle", "done"}, Goto(i, label),
         i = 0 => label \in {"asking", "resting", "reading", "gone", "broken"},
         fetch[i] \notin {"ended", "done"},
         label = "cut" => aborted,
         label = "ended" => aborted \/ buffers'[i] = {i},
         label = "resting" => attempt[i] < MaxAttempts,
         \/ attempt' = attempt
         \/ fetch[i] = "resting" /\ label # "resting" /\ attempt' = [attempt EXCEPT ![i] = @ + 1],
         \/ buffers' = buffers
         \/ label = "ended" /\ buffers' = [buffers EXCEPT ![i] = {i}],
         UNCHANGED <<nextToSchedule, inFlight, errorVars, readerVars>>,
         faults' \in Nat
  PROVE  FetchInv'
<1> USE DEF readerVars, errorVars
<1>1. TypeOK /\ ProbeFirst /\ Cursors /\ Busy /\ Ending /\ Delivered /\ NoLostWakeup
  BY DEF FetchInv
<1>2. /\ fetch' \in [Windows -> FetchStates]
      /\ fetch'[i] = label
      /\ \A j \in Windows : j # i => fetch'[j] = fetch[j]
      /\ Flying(fetch') = Flying(fetch)
  BY <1>1, Relabel
<1>3. attempt' \in [Windows -> 0..MaxAttempts]
  BY <1>1 DEF TypeOK, Cursors
<1>4. buffers' \in [Windows -> SUBSET Windows]
  BY <1>1 DEF TypeOK
<1>5. TypeOK'
  BY <1>1, <1>2, <1>3, <1>4 DEF TypeOK
<1>6. ProbeFirst'
  BY <1>1, <1>2 DEF ProbeFirst, TypeOK, Windows
<1>7. Cursors'
  <2>1. i < nextToSchedule /\ i >= nextToEnqueue /\ buffers[i] = {}
    BY <1>1 DEF Cursors, TypeOK, Windows
  <2>2. \A j \in Windows : j # i => attempt'[j] = attempt[j] /\ buffers'[j] = buffers[j]
    BY <1>1 DEF TypeOK
  <2>3. buffers'[i] = {} \/ (buffers'[i] = {i} /\ label = "ended")
    <3>1. buffers \in [Windows -> SUBSET Windows]
      BY <1>1 DEF TypeOK
    <3>2. CASE buffers' = buffers
      <4>1. buffers'[i] = buffers[i]
        BY <3>2
      <4> QED
        BY <2>1, <4>1
    <3>3. CASE label = "ended" /\ buffers' = [buffers EXCEPT ![i] = {i}]
      BY <3>1, <3>3
    <3> QED
      BY <3>2, <3>3
  <2>4. label = "resting" => attempt'[i] < MaxAttempts
    OBVIOUS
  <2> QED
    BY <1>1, <1>2, <2>1, <2>2, <2>3, <2>4 DEF Cursors, TypeOK, Windows
<1>8. Busy'
  BY <1>1, <1>2 DEF Busy, TypeOK
<1>9. Ending' /\ Delivered' /\ NoLostWakeup'
  BY <1>1, <1>2 DEF Ending, Delivered, NoLostWakeup
<1> QED
  BY <1>5, <1>6, <1>7, <1>8, <1>9 DEF FetchInv

(* The steps of a request before its catch and finally callbacks. *)
LEMMA RequestKeepsInv ==
  ASSUME FetchInv, NEW i \in Windows,
         \/ TransientFailure(i) \/ Retry(i) \/ AbortRequest(i) \/ AnswerPartial(i)
         \/ AnswerGone(i) \/ AnswerWhole(i) \/ ReadBody(i) \/ BodyFails(i)
  PROVE  FetchInv'
<1> USE DEF Fault, FetchStates, Rejected
<1>0. /\ fetch \in [Windows -> FetchStates] /\ faults \in Nat
      /\ buffers \in [Windows -> SUBSET Windows]
      /\ 0 \in Windows /\ (aborted => fetch[0] = "done")
  BY DEF FetchInv, TypeOK, ProbeFirst, Windows
<1>1. CASE TransientFailure(i)
  <2>1. CASE attempt[i] < MaxAttempts
    BY <1>0, <1>1, <2>1, RequestMoves DEF TransientFailure
  <2>2. CASE ~(attempt[i] < MaxAttempts)
    BY <1>0, <1>1, <2>2, RequestMoves DEF TransientFailure
  <2> QED
    BY <2>1, <2>2
<1>2. CASE Retry(i)
  <2>1. CASE aborted
    BY <1>0, <1>2, <2>1, RequestMoves DEF Retry
  <2>2. CASE ~aborted
    BY <1>0, <1>2, <2>2, RequestMoves DEF Retry
  <2> QED
    BY <2>1, <2>2
<1>3. CASE AbortRequest(i)
  BY <1>0, <1>3, RequestMoves DEF AbortRequest
<1>4. CASE AnswerPartial(i)
  BY <1>0, <1>4, RequestMoves DEF AnswerPartial
<1>5. CASE AnswerGone(i)
  BY <1>0, <1>5, RequestMoves DEF AnswerGone
<1>6. CASE AnswerWhole(i)
  BY <1>0, <1>6, RequestMoves DEF AnswerWhole
<1>7. CASE ReadBody(i)
  BY <1>0, <1>7, RequestMoves DEF ReadBody
<1>8. CASE BodyFails(i)
  <2>1. CASE aborted /\ Goto(i, "cut") /\ UNCHANGED faults
    BY <1>0, <1>8, <2>1, RequestMoves DEF BodyFails
  <2>2. CASE Fault /\ Goto(i, "broken")
    BY <1>0, <1>8, <2>2, RequestMoves DEF BodyFails
  <2> QED
    BY <1>8, <2>1, <2>2 DEF BodyFails
<1> QED
  BY <1>1, <1>2, <1>3, <1>4, <1>5, <1>6, <1>7, <1>8

LEMMA CatchKeepsInv ==
  ASSUME FetchInv, NEW i \in Windows, Catch(i)
  PROVE  FetchInv'
<1> USE DEF Catch, readerVars
<1>1. TypeOK /\ ProbeFirst /\ Cursors /\ Ending /\ Delivered /\ NoLostWakeup
  BY DEF FetchInv
<1>2. /\ fetch' \in [Windows -> FetchStates]
      /\ fetch'[i] = "ended"
      /\ \A j \in Windows : j # i => fetch'[j] = fetch[j]
      /\ Flying(fetch') = Flying(fetch)
  BY <1>1, Relabel DEF FetchStates, Rejected
<1>3. /\ buffers' \in [Windows -> SUBSET Windows]
      /\ \A j \in Windows : buffers'[j] = {}
      /\ failure' \in Rejected /\ aborted'
      /\ failure # "none" => failure' = failure
      /\ failure = "none" => failure' = fetch[i]
  BY <1>1 DEF TypeOK, Rejected
<1>4. TypeOK'
  BY <1>1, <1>2, <1>3 DEF TypeOK
<1>5. ProbeFirst' /\ Delivered' /\ NoLostWakeup'
  <2>1. stream # "opening"
    BY <1>1 DEF ProbeFirst, Cursors, TypeOK, Windows, Rejected
  <2>2. fetch'[0] = fetch[0]
    BY <1>2 DEF Windows
  <2>3. UNCHANGED <<pull, stream, nextToEnqueue, inFlight, out>>
    OBVIOUS
  <2> QED
    BY <1>1, <2>1, <2>2, <2>3 DEF ProbeFirst, Delivered, NoLostWakeup
<1>6. Cursors'
  <2>1. i < nextToSchedule
    BY <1>1 DEF Cursors, TypeOK, Windows, Rejected
  <2>2. i >= nextToEnqueue
    <3>1. i \in Int /\ nextToEnqueue \in Int
      BY <1>1 DEF TypeOK, Windows
    <3>2. fetch[i] \notin {"ended", "done"}
      BY DEF Rejected
    <3>3. ~(i < nextToEnqueue)
      BY <1>1, <3>2 DEF Cursors
    <3> QED
      BY <3>1, <3>3
  <2> QED
    BY <1>1, <1>2, <1>3, <2>1, <2>2 DEF Cursors, TypeOK, Windows
<1>7. Busy'
  BY <1>3 DEF Busy
<1>8. Ending'
  BY <1>1, <1>2, <1>3 DEF Ending, Rejected
<1> QED
  BY <1>4, <1>5, <1>6, <1>7, <1>8 DEF FetchInv

LEMMA SettleKeepsInv ==
  ASSUME FetchInv, NEW i \in Windows, Settle(i)
  PROVE  FetchInv'
<1> DEFINE states == [fetch EXCEPT ![i] = "done"]
<1>1. TypeOK /\ ProbeFirst /\ Cursors /\ Busy /\ Ending /\ Delivered /\ NoLostWakeup
  BY DEF FetchInv
<1>2. i # 0 /\ fetch[i] = "ended" /\ i < nextToSchedule
  BY <1>1 DEF Settle, Cursors, TypeOK, Windows
<1>3. /\ states \in [Windows -> FetchStates]
      /\ inFlight - 1 \in 0..Concurrency
      /\ inFlight - 1 = Cardinality(Flying(states))
  BY <1>2, SettleCounts
<1>4. \A j \in Windows : states[j] = IF j = i THEN "done" ELSE fetch[j]
  BY <1>1 DEF TypeOK
<1>5. \A j \in Windows : j >= nextToSchedule => states[j] = "idle"
  BY <1>1, <1>2, <1>4 DEF Cursors, TypeOK, Windows
<1>6. /\ Pump(nextToEnqueue, inFlight - 1, states)
      /\ nextToEnqueue \in 0..WindowCount /\ nextToSchedule <= nextToEnqueue + MaxAhead
  BY <1>1 DEF Settle, TypeOK, Cursors
<1> HIDE DEF states
<1>7. /\ nextToSchedule' \in nextToSchedule..WindowCount
      /\ nextToSchedule' <= nextToEnqueue + MaxAhead
      /\ aborted => nextToSchedule' = nextToSchedule
      /\ inFlight' \in 0..Concurrency
      /\ inFlight' = Cardinality(Flying(fetch'))
      /\ fetch' \in [Windows -> FetchStates]
      /\ attempt' \in [Windows -> 0..MaxAttempts]
      /\ \A j \in Windows :
           IF nextToSchedule <= j /\ j < nextToSchedule'
           THEN fetch'[j] = "asking"
           ELSE fetch'[j] = states[j] /\ attempt'[j] = attempt[j]
      /\ failure = "none" /\ ~aborted =>
           \/ nextToSchedule' = WindowCount \/ inFlight' = Concurrency
           \/ nextToSchedule' = nextToEnqueue + MaxAhead
  BY <1>1, <1>3, <1>5, <1>6, PumpEffect
<1>8. /\ UNCHANGED <<buffers, failure, aborted, nextToEnqueue, queued, stream, out, faults>>
      /\ pull' = IF pull = "waiting" THEN "woken" ELSE pull
  BY DEF Settle, SignalConsumer, errorVars
<1>9. nextToSchedule \in 1..WindowCount
  BY <1>1 DEF TypeOK
<1>10. TypeOK'
  BY <1>1, <1>7, <1>8, <1>9 DEF TypeOK
<1>11. ProbeFirst'
  <2>1. fetch'[0] = fetch[0]
    BY <1>2, <1>4, <1>7, <1>9 DEF Windows
  <2>2. stream # "opening"
    BY <1>1, <1>2 DEF ProbeFirst, Cursors, TypeOK, Windows
  <2> QED
    BY <1>1, <1>8, <2>1, <2>2 DEF ProbeFirst
<1>12. Cursors'
  <2>1. \A j \in Windows : nextToSchedule <= j => buffers[j] = {}
    BY <1>1 DEF Cursors
  <2>2. nextToEnqueue' <= nextToSchedule' /\ nextToSchedule' <= nextToEnqueue' + MaxAhead
    BY <1>1, <1>6, <1>7, <1>8, <1>9 DEF Cursors
  <2>3. ASSUME NEW j \in Windows
        PROVE  /\ j >= nextToSchedule' => fetch'[j] = "idle" /\ buffers'[j] = {}
               /\ j < nextToSchedule' => fetch'[j] # "idle"
               /\ j < nextToEnqueue' => fetch'[j] \in {"ended", "done"} /\ buffers'[j] = {}
               /\ buffers'[j] # {} => buffers'[j] = {j} /\ fetch'[j] \in {"ended", "done"}
               /\ fetch'[j] = "resting" => attempt'[j] < MaxAttempts
    <3>1. j \in Nat /\ nextToSchedule' \in Nat /\ nextToEnqueue \in Nat
      BY <1>6, <1>7, <1>9 DEF Windows
    <3>2. CASE nextToSchedule <= j /\ j < nextToSchedule'
      BY <1>1, <1>7, <1>8, <1>9, <2>1, <3>1, <3>2 DEF Cursors
    <3>3. CASE ~(nextToSchedule <= j /\ j < nextToSchedule')
      <4>1. fetch'[j] = states[j] /\ attempt'[j] = attempt[j]
        BY <1>7, <3>3
      <4>2. j < nextToSchedule \/ j >= nextToSchedule'
        BY <1>9, <3>1, <3>3
      <4> QED
        BY <1>1, <1>2, <1>4, <1>7, <1>8, <1>9, <3>1, <4>1, <4>2 DEF Cursors
    <3> QED
      BY <3>2, <3>3
  <2> QED
    BY <1>7, <2>2, <2>3 DEF Cursors
<1>13. Busy'
  <2>1. ASSUME stream' = "open", ~aborted', NEW j \in Windows, nextToEnqueue' <= j,
               fetch'[j] \in {"ended", "done"}
        PROVE  buffers'[j] # {}
    <3>1. states[j] \in {"ended", "done"}
      BY <1>7, <2>1
    <3>2. fetch[j] \in {"ended", "done"}
      BY <1>2, <1>4, <3>1
    <3> QED
      BY <1>1, <1>8, <2>1, <3>2 DEF Busy
  <2> QED
    BY <1>1, <1>7, <1>8, <2>1 DEF Busy, Ending
<1>14. Ending'
  <2>1. \A j \in Windows : fetch'[j] = "cut" => fetch[j] = "cut"
    BY <1>4, <1>7
  <2> QED
    BY <1>1, <1>8, <2>1 DEF Ending
<1>15. Delivered' /\ NoLostWakeup'
  BY <1>1, <1>8 DEF Delivered, NoLostWakeup
<1> QED
  BY <1>10, <1>11, <1>12, <1>13, <1>14, <1>15 DEF FetchInv

LEMMA OpenKeepsInv == FetchInv /\ Open => FetchInv'
<1> SUFFICES ASSUME FetchInv, Open PROVE FetchInv'
  OBVIOUS
<1> DEFINE states == [fetch EXCEPT ![0] = "done"]
<1>1. TypeOK /\ ProbeFirst /\ Cursors /\ Busy /\ Ending /\ Delivered /\ NoLostWakeup
  BY DEF FetchInv
<1>2. 0 \in Windows
  BY DEF Windows
<1>3. /\ fetch[0] # "done" /\ stream = "opening" /\ nextToSchedule = 1
      /\ nextToEnqueue = 0 /\ ~aborted /\ failure = "none" /\ pull = "idle"
      /\ out = <<>>
  <2>1. fetch[0] # "done"
    BY DEF Open, HandOver, Reject, OpenStream, Rejected
  <2>2. stream = "opening"
    BY <1>1, <2>1 DEF ProbeFirst
  <2> QED
    BY <1>1, <2>1, <2>2 DEF ProbeFirst, Delivered
<1>4. /\ states \in [Windows -> FetchStates]
      /\ states[0] = "done"
      /\ \A j \in Windows : j # 0 => states[j] = fetch[j]
      /\ Flying(states) = Flying(fetch)
  BY <1>1, <1>2 DEF TypeOK, FetchStates, Flying
<1>5. \A j \in Windows : j # 0 => fetch[j] = "idle" /\ buffers[j] = {}
  BY <1>1, <1>3 DEF Cursors, Windows
<1>6. Flying(fetch) = {} /\ inFlight = 0
  <2>1. Flying(fetch) = {}
    BY <1>5 DEF Flying
  <2> QED
    BY <1>1, <2>1, FS_EmptySet DEF Cursors
<1> HIDE DEF states
<1>7. CASE HandOver \/ Reject
  <2>1. /\ fetch' = states /\ stream' \in {"whole", "errored"}
        /\ UNCHANGED <<buffers, nextToSchedule, inFlight, attempt, failure, aborted, pull,
                       queued, out, nextToEnqueue, faults>>
    BY <1>7 DEF HandOver, Reject, Goto, errorVars, states
  <2>2. TypeOK'
    BY <1>1, <1>4, <2>1 DEF TypeOK
  <2>3. ProbeFirst'
    BY <1>3, <1>4, <2>1 DEF ProbeFirst
  <2>4. Cursors'
    <3>1. ASSUME NEW j \in Windows
          PROVE  fetch'[j] = states[j] /\ (j # 0 => states[j] = fetch[j])
      BY <1>4, <2>1
    <3>2. buffers[0] = {}
      BY <1>1, <1>3 DEF ProbeFirst
    <3> QED
      BY <1>1, <1>3, <1>4, <1>5, <1>6, <2>1, <3>1, <3>2, FS_EmptySet DEF Cursors, MaxAhead, Windows
  <2>5. Busy' /\ Ending' /\ Delivered' /\ NoLostWakeup'
    BY <1>1, <1>3, <1>4, <2>1 DEF Busy, Ending, Delivered, NoLostWakeup
  <2> QED
    BY <2>2, <2>3, <2>4, <2>5 DEF FetchInv
<1>8. CASE OpenStream
  <2>1. /\ stream' = "open" /\ Pump(0, 0, states)
        /\ buffers' = [buffers EXCEPT ![0] = {0}]
        /\ UNCHANGED <<failure, aborted, pull, queued, out, nextToEnqueue, faults>>
    BY <1>8 DEF OpenStream, errorVars, states
  <2>2. \A j \in Windows : j >= nextToSchedule => states[j] = "idle"
    BY <1>3, <1>4, <1>5 DEF Windows
  <2>3. /\ 0 \in 0..WindowCount /\ 0 \in 0..Concurrency /\ nextToSchedule <= 0 + MaxAhead
        /\ 0 = Cardinality(Flying(states))
    BY <1>3, <1>4, <1>6, FS_EmptySet DEF MaxAhead
  <2>4. /\ nextToSchedule' \in nextToSchedule..WindowCount
        /\ nextToSchedule' <= 0 + MaxAhead
        /\ inFlight' \in 0..Concurrency
        /\ inFlight' = Cardinality(Flying(fetch'))
        /\ fetch' \in [Windows -> FetchStates]
        /\ attempt' \in [Windows -> 0..MaxAttempts]
        /\ \A j \in Windows :
             IF nextToSchedule <= j /\ j < nextToSchedule'
             THEN fetch'[j] = "asking"
             ELSE fetch'[j] = states[j] /\ attempt'[j] = attempt[j]
        /\ failure = "none" /\ ~aborted =>
             \/ nextToSchedule' = WindowCount \/ inFlight' = Concurrency
             \/ nextToSchedule' = 0 + MaxAhead
    BY <1>1, <1>4, <2>1, <2>2, <2>3, PumpEffect
  <2>5. /\ buffers' \in [Windows -> SUBSET Windows] /\ buffers'[0] = {0}
        /\ \A j \in Windows : j # 0 => buffers'[j] = {}
    BY <1>1, <1>2, <1>5, <2>1 DEF TypeOK
  <2>6. TypeOK'
    BY <1>1, <1>3, <2>1, <2>4, <2>5 DEF TypeOK
  <2>7. fetch'[0] = "done"
    BY <1>2, <1>3, <1>4, <2>4
  <2>8. ProbeFirst'
    BY <1>3, <2>1, <2>7 DEF ProbeFirst
  <2>9. \A j \in Windows : j # 0 =>
          \/ j < nextToSchedule' /\ fetch'[j] = "asking"
          \/ j >= nextToSchedule' /\ fetch'[j] = "idle"
    <3> SUFFICES ASSUME NEW j \in Windows, j # 0
                 PROVE  \/ j < nextToSchedule' /\ fetch'[j] = "asking"
                        \/ j >= nextToSchedule' /\ fetch'[j] = "idle"
      OBVIOUS
    <3>1. j \in Nat /\ j >= nextToSchedule /\ nextToSchedule' \in Nat
      BY <1>3, <2>4 DEF Windows
    <3>2. states[j] = "idle"
      BY <1>4, <1>5
    <3>3. CASE j < nextToSchedule'
      BY <2>4, <3>1, <3>3
    <3>4. CASE ~(j < nextToSchedule')
      BY <2>4, <3>1, <3>2, <3>4
    <3> QED
      BY <3>3, <3>4
  <2>10. Cursors'
    BY <1>3, <2>1, <2>4, <2>5, <2>7, <2>9 DEF Cursors, Windows, MaxAhead
  <2>11. Busy' /\ Ending' /\ Delivered' /\ NoLostWakeup'
    BY <1>1, <1>3, <2>1, <2>4, <2>5, <2>7, <2>9 DEF Busy, Ending, Delivered, NoLostWakeup
  <2> QED
    BY <2>6, <2>8, <2>10, <2>11 DEF FetchInv
<1> QED
  BY <1>7, <1>8 DEF Open

(* The reader's steps that do not take a window. *)
LEMMA ReaderKeepsInv ==
  FetchInv /\ (PullFails \/ PullCancelled \/ PullCloses \/ PullWaits \/ Read \/ Cancel)
    => FetchInv'
<1> SUFFICES ASSUME FetchInv,
                    PullFails \/ PullCancelled \/ PullCloses \/ PullWaits \/ Read \/ Cancel
             PROVE  FetchInv'
  OBVIOUS
<1> USE DEF fetchVars, errorVars, readerVars
<1>1. TypeOK /\ ProbeFirst /\ Cursors /\ Busy /\ Ending /\ Delivered /\ NoLostWakeup
  BY DEF FetchInv
<1>2. Pulling => stream \in {"open", "cancelled"}
  BY <1>1 DEF Pulling, ProbeFirst
<1>3. CASE PullFails
  <2>1. TypeOK' /\ Cursors' /\ Delivered'
    BY <1>1, <1>3 DEF PullFails, TypeOK, Cursors, Delivered
  <2>2. ProbeFirst' /\ NoLostWakeup' /\ Ending' /\ Busy'
    BY <1>1, <1>2, <1>3 DEF PullFails, ProbeFirst, NoLostWakeup, Ending, Busy
  <2> QED
    BY <2>1, <2>2 DEF FetchInv
<1>4. CASE PullCancelled
  <2>1. TypeOK' /\ Cursors' /\ Delivered'
    BY <1>1, <1>4 DEF PullCancelled, TypeOK, Cursors, Delivered
  <2>2. ProbeFirst' /\ NoLostWakeup' /\ Ending' /\ Busy'
    BY <1>1, <1>2, <1>4 DEF PullCancelled, ProbeFirst, NoLostWakeup, Ending, Busy
  <2> QED
    BY <2>1, <2>2 DEF FetchInv
<1>5. CASE PullCloses
  <2>1. TypeOK' /\ Cursors' /\ Delivered'
    BY <1>1, <1>5 DEF PullCloses, TypeOK, Cursors, Delivered
  <2>2. ProbeFirst' /\ NoLostWakeup' /\ Ending' /\ Busy'
    BY <1>1, <1>2, <1>5 DEF PullCloses, ProbeFirst, NoLostWakeup, Ending, Busy
  <2> QED
    BY <2>1, <2>2 DEF FetchInv
<1>6. CASE PullWaits
  <2>1. TypeOK' /\ Cursors' /\ Delivered'
    BY <1>1, <1>6 DEF PullWaits, TypeOK, Cursors, Delivered
  <2>2. ProbeFirst' /\ Ending' /\ Busy'
    BY <1>1, <1>2, <1>6 DEF PullWaits, ProbeFirst, Ending, Busy
  <2>3. inFlight > 0
    <3>1. stream = "open" /\ ~aborted /\ nextToEnqueue \in Windows
      BY <1>1, <1>2, <1>6 DEF PullWaits, Ending, TypeOK, Windows
    <3>2. fetch[nextToEnqueue] \notin {"ended", "done"}
      BY <1>1, <1>6, <3>1 DEF PullWaits, Busy, TypeOK
    <3>3. CASE nextToEnqueue < nextToSchedule
      <4>1. fetch[nextToEnqueue] # "idle"
        BY <1>1, <3>1, <3>3 DEF Cursors
      <4>2. nextToEnqueue # 0
        BY <1>1, <3>1, <3>2 DEF ProbeFirst
      <4>3. nextToEnqueue \in Flying(fetch)
        BY <3>1, <3>2, <4>1, <4>2 DEF Flying
      <4>4. Cardinality(Flying(fetch)) # 0 /\ Cardinality(Flying(fetch)) \in Nat
        BY <4>3, FlyingFinite, FS_EmptySet
      <4> QED
        BY <1>1, <4>4 DEF Cursors
    <3>4. CASE ~(nextToEnqueue < nextToSchedule)
      BY <1>1, <3>1, <3>4 DEF Busy, Cursors, TypeOK, Windows, MaxAhead
    <3> QED
      BY <3>3, <3>4
  <2>4. NoLostWakeup'
    BY <1>6, <2>3 DEF PullWaits, NoLostWakeup
  <2> QED
    BY <2>1, <2>2, <2>4 DEF FetchInv
<1>7. CASE Read
  <2>1. TypeOK' /\ Cursors' /\ Delivered'
    BY <1>1, <1>7 DEF Read, TypeOK, Cursors, Delivered
  <2>2. ProbeFirst' /\ NoLostWakeup' /\ Ending' /\ Busy'
    BY <1>1, <1>7 DEF Read, ProbeFirst, NoLostWakeup, Ending, Busy
  <2> QED
    BY <2>1, <2>2 DEF FetchInv
<1>8. CASE Cancel
  <2>1. TypeOK' /\ Delivered'
    BY <1>1, <1>8 DEF Cancel, SignalConsumer, TypeOK, Delivered
  <2>2. Cursors'
    BY <1>1, <1>8 DEF Cancel, Cursors
  <2>3. ProbeFirst' /\ NoLostWakeup' /\ Ending' /\ Busy'
    BY <1>1, <1>8 DEF Cancel, SignalConsumer, ProbeFirst, NoLostWakeup, Ending, Busy
  <2> QED
    BY <2>1, <2>2, <2>3 DEF FetchInv
<1> QED
  BY <1>3, <1>4, <1>5, <1>6, <1>7, <1>8

(* The reader takes its window, and pump goes on. *)
LEMMA DeliverKeepsInv == FetchInv /\ PullDelivers => FetchInv'
<1> SUFFICES ASSUME FetchInv, PullDelivers PROVE FetchInv'
  OBVIOUS
<1>1. TypeOK /\ ProbeFirst /\ Cursors /\ Busy /\ Ending /\ Delivered /\ NoLostWakeup
  BY DEF FetchInv
<1>2. /\ nextToEnqueue \in Windows /\ nextToEnqueue < nextToSchedule
      /\ buffers[nextToEnqueue] = {nextToEnqueue}
      /\ fetch[nextToEnqueue] \in {"ended", "done"}
  BY <1>1 DEF PullDelivers, Cursors, TypeOK, Windows
<1>3. stream = "open" /\ ~aborted /\ failure = "none"
  BY <1>1 DEF PullDelivers, Pulling, ProbeFirst, Ending
<1>4. /\ Pump(nextToEnqueue + 1, inFlight, fetch)
      /\ nextToEnqueue' = nextToEnqueue + 1 /\ queued' = TRUE /\ pull' = "idle"
      /\ out' = Append(out, {nextToEnqueue})
      /\ buffers' = [buffers EXCEPT ![nextToEnqueue] = {}]
      /\ UNCHANGED <<failure, aborted, stream, faults>>
  BY <1>2 DEF PullDelivers, errorVars
<1>5. /\ nextToEnqueue + 1 \in 0..WindowCount /\ fetch \in [Windows -> FetchStates]
      /\ inFlight \in 0..Concurrency /\ inFlight = Cardinality(Flying(fetch))
      /\ nextToSchedule <= nextToEnqueue + 1 + MaxAhead
      /\ \A i \in Windows : i >= nextToSchedule => fetch[i] = "idle"
  BY <1>1, <1>2 DEF TypeOK, Cursors, Windows, MaxAhead
<1>6. /\ nextToSchedule' \in nextToSchedule..WindowCount
      /\ nextToSchedule' <= nextToEnqueue + 1 + MaxAhead
      /\ inFlight' \in 0..Concurrency
      /\ inFlight' = Cardinality(Flying(fetch'))
      /\ fetch' \in [Windows -> FetchStates]
      /\ attempt' \in [Windows -> 0..MaxAttempts]
      /\ \A j \in Windows :
           IF nextToSchedule <= j /\ j < nextToSchedule'
           THEN fetch'[j] = "asking"
           ELSE fetch'[j] = fetch[j] /\ attempt'[j] = attempt[j]
      /\ failure = "none" /\ ~aborted =>
           \/ nextToSchedule' = WindowCount \/ inFlight' = Concurrency
           \/ nextToSchedule' = nextToEnqueue + 1 + MaxAhead
  BY <1>1, <1>4, <1>5, PumpEffect
<1>7. /\ buffers' \in [Windows -> SUBSET Windows] /\ buffers'[nextToEnqueue] = {}
      /\ \A j \in Windows : j # nextToEnqueue => buffers'[j] = buffers[j]
  BY <1>1, <1>2, <1>4 DEF TypeOK
<1>8. nextToSchedule \in 1..WindowCount /\ nextToEnqueue \in Nat
  BY <1>1 DEF TypeOK
<1>9. TypeOK'
  <2>1. out' \in Seq(SUBSET Windows)
    BY <1>1, <1>2, <1>4 DEF TypeOK
  <2> QED
    BY <1>1, <1>4, <1>5, <1>6, <1>7, <1>8, <2>1 DEF TypeOK
<1>10. ProbeFirst'
  <2>1. fetch'[0] = fetch[0]
    BY <1>6, <1>8 DEF Windows
  <2> QED
    BY <1>1, <1>3, <1>4, <2>1 DEF ProbeFirst
<1>11. Cursors'
  <2>1. nextToEnqueue' <= nextToSchedule' /\ nextToSchedule' <= nextToEnqueue' + MaxAhead
    BY <1>2, <1>4, <1>6, <1>8
  <2>2. ASSUME NEW j \in Windows
        PROVE  /\ j >= nextToSchedule' => fetch'[j] = "idle" /\ buffers'[j] = {}
               /\ j < nextToSchedule' => fetch'[j] # "idle"
               /\ j < nextToEnqueue' => fetch'[j] \in {"ended", "done"} /\ buffers'[j] = {}
               /\ buffers'[j] # {} => buffers'[j] = {j} /\ fetch'[j] \in {"ended", "done"}
               /\ fetch'[j] = "resting" => attempt'[j] < MaxAttempts
    <3>1. j \in Nat /\ nextToSchedule' \in Nat
      BY <1>6, <1>8 DEF Windows
    <3>2. CASE nextToSchedule <= j /\ j < nextToSchedule'
      <4>1. buffers'[j] = {} /\ fetch'[j] = "asking" /\ ~(j < nextToEnqueue')
        BY <1>1, <1>2, <1>4, <1>6, <1>7, <1>8, <3>1, <3>2 DEF Cursors
      <4> QED
        BY <3>1, <3>2, <4>1
    <3>3. CASE ~(nextToSchedule <= j /\ j < nextToSchedule')
      <4>1. fetch'[j] = fetch[j] /\ attempt'[j] = attempt[j]
        BY <1>6, <3>3
      <4>2. j < nextToSchedule \/ j >= nextToSchedule'
        BY <1>8, <3>1, <3>3
      <4>3. CASE j = nextToEnqueue
        BY <1>2, <1>6, <1>7, <1>8, <3>1, <4>1, <4>3
      <4>4. CASE j # nextToEnqueue
        BY <1>1, <1>4, <1>6, <1>7, <1>8, <3>1, <4>1, <4>2, <4>4 DEF Cursors
      <4> QED
        BY <4>3, <4>4
    <3> QED
      BY <3>2, <3>3
  <2> QED
    BY <1>6, <2>1, <2>2 DEF Cursors
<1>12. Busy'
  <2>1. ASSUME NEW j \in Windows, nextToEnqueue' <= j, fetch'[j] \in {"ended", "done"}
        PROVE  buffers'[j] # {}
    <3>1. fetch[j] \in {"ended", "done"}
      <4>1. ~(nextToSchedule <= j /\ j < nextToSchedule')
        BY <1>6, <2>1
      <4> QED
        BY <1>6, <2>1, <4>1
    <3>2. j # nextToEnqueue /\ nextToEnqueue <= j
      <4>1. j \in Nat /\ nextToEnqueue' = nextToEnqueue + 1
        BY <1>4 DEF Windows
      <4> QED
        BY <1>8, <2>1, <4>1
    <3> QED
      BY <1>1, <1>3, <1>7, <3>1, <3>2 DEF Busy
  <2> QED
    BY <1>3, <1>4, <1>6, <2>1 DEF Busy
<1>13. Ending' /\ NoLostWakeup'
  <2>1. \A j \in Windows : fetch'[j] = "cut" => fetch[j] = "cut"
    BY <1>6
  <2> QED
    BY <1>1, <1>3, <1>4, <2>1 DEF Ending, NoLostWakeup
<1>14. Delivered'
  BY <1>1, <1>4, <1>8 DEF Delivered
<1> QED
  BY <1>9, <1>10, <1>11, <1>12, <1>13, <1>14 DEF FetchInv

LEMMA NextKeepsInv == FetchInv /\ [Next]_vars => FetchInv'
<1> SUFFICES ASSUME FetchInv, [Next]_vars PROVE FetchInv'
  OBVIOUS
<1>1. ASSUME NEW i \in Windows, Request(i) PROVE FetchInv'
  BY <1>1, RequestKeepsInv, CatchKeepsInv, SettleKeepsInv DEF Request
<1>2. CASE Open
  BY <1>2, OpenKeepsInv
<1>3. CASE Pull \/ Read \/ Cancel
  BY <1>3, ReaderKeepsInv, DeliverKeepsInv DEF Pull
<1>4. CASE UNCHANGED vars
  <2>1. UNCHANGED <<buffers, nextToSchedule, inFlight, fetch, attempt, failure, aborted,
                    pull, queued, stream, out, nextToEnqueue, faults>>
    BY <1>4 DEF vars, fetchVars, errorVars, readerVars
  <2> QED
    BY <2>1 DEF FetchInv, TypeOK, ProbeFirst, Cursors, Busy, Ending, Delivered, NoLostWakeup,
                Flying
<1> QED
  BY <1>1, <1>2, <1>3, <1>4 DEF Next

(* FetchInv holds in every state of every parallel download. *)
THEOREM FetchInvariant == Spec => []FetchInv
  BY InitInv, NextKeepsInv, PTL DEF Spec

(* Every variable has its type; never more requests than Concurrency. *)
THEOREM FetchTypes == Spec => []TypeOK
<1>1. FetchInv => TypeOK
  BY DEF FetchInv
<1> QED
  BY <1>1, FetchInvariant, PTL

(* A pull that waits has a request under way that will wake it: the reader  *)
(* of pull() in parallelFetch.ts is never left asleep.                      *)
THEOREM AlwaysWoken == Spec => []NoLostWakeup
<1>1. FetchInv => NoLostWakeup
  BY DEF FetchInv
<1> QED
  BY <1>1, FetchInvariant, PTL

(* The memory bound pump keeps: what is held or on its way lies between the *)
(* cursors, which are never further apart than MaxAhead.                    *)
THEOREM MemoryBounded == Spec => []HeldBounded
<1>1. ASSUME FetchInv PROVE HeldBounded
  <2>1. TypeOK /\ Cursors
    BY <1>1 DEF FetchInv
  <2>2. /\ nextToEnqueue \in Int /\ nextToSchedule \in Int /\ nextToSchedule - 1 \in Int
        /\ nextToEnqueue <= nextToSchedule /\ nextToSchedule <= nextToEnqueue + MaxAhead
        /\ MaxAhead \in Nat
    BY <2>1 DEF TypeOK, Cursors, MaxAhead
  <2>3. Held \subseteq nextToEnqueue..(nextToSchedule - 1)
    <3> SUFFICES ASSUME NEW i \in Held PROVE i \in nextToEnqueue..(nextToSchedule - 1)
      OBVIOUS
    <3>1. /\ i \in Windows /\ i \in Int
          /\ buffers[i] # {} \/ fetch[i] \in {"asking", "resting", "reading"}
      BY DEF Held, Windows
    <3>2. ~(i >= nextToSchedule)
      BY <2>1, <3>1 DEF Cursors
    <3>3. ~(i < nextToEnqueue)
      BY <2>1, <3>1 DEF Cursors
    <3> QED
      BY <2>2, <3>1, <3>2, <3>3
  <2>4. /\ IsFiniteSet(nextToEnqueue..(nextToSchedule - 1))
        /\ Cardinality(nextToEnqueue..(nextToSchedule - 1)) =
             IF nextToEnqueue > nextToSchedule - 1 THEN 0
             ELSE (nextToSchedule - 1) - nextToEnqueue + 1
    BY <2>2, FS_Interval
  <2>5. /\ IsFiniteSet(Held)
        /\ Cardinality(Held) <= Cardinality(nextToEnqueue..(nextToSchedule - 1))
    BY <2>3, <2>4, FS_Subset
  <2>6. Cardinality(Held) \in Nat
    BY <2>5, FS_CardinalityType
  <2>7. Cardinality(nextToEnqueue..(nextToSchedule - 1)) \in 0..MaxAhead
    BY <2>2, <2>4
  <2> QED
    BY <2>2, <2>5, <2>6, <2>7 DEF HeldBounded
<1> QED
  BY <1>1, FetchInvariant, PTL

(* The reader is told what ended the download, not that a sibling of the    *)
(* failed request was aborted.                                              *)
THEOREM FirstErrorReported == Spec => []CauseReported
<1>1. FetchInv => CauseReported
  BY DEF FetchInv, Ending, CauseReported
<1> QED
  BY <1>1, FetchInvariant, PTL

-----------------------------------------------------------------------------
(* What steps may not do, and the stream the steps implement. *)

LEMMA PumpAborted ==
  ASSUME aborted, NEW states, NEW enq, NEW fly, Pump(enq, fly, states), NEW i \in Windows
  PROVE  fetch'[i] = states[i]
  BY DEF Pump, CanSchedule

(* No request is started once the download is aborted, by cancel() or by a  *)
(* failed window.                                                           *)
THEOREM SilentAfterAbort == Spec => NoRequestAfterAbort
<1>1. ASSUME FetchInv, [Next]_vars, aborted, NEW i \in Windows, fetch'[i] = "asking"
      PROVE  fetch[i] = "asking"
  <2>1. fetch \in [Windows -> FetchStates] /\ stream # "opening"
    BY <1>1 DEF FetchInv, TypeOK, ProbeFirst
  <2>2. CASE \E j \in Windows : \/ TransientFailure(j) \/ Retry(j) \/ AbortRequest(j)
                                \/ AnswerPartial(j) \/ AnswerGone(j) \/ AnswerWhole(j)
                                \/ ReadBody(j) \/ BodyFails(j) \/ Catch(j)
    BY <1>1, <2>1, <2>2 DEF TransientFailure, Retry, AbortRequest, AnswerPartial, AnswerGone,
       AnswerWhole, ReadBody, BodyFails, Catch, Goto, Fault
  <2>3. CASE \E j \in Windows : Settle(j)
    <3>1. PICK j \in Windows : Settle(j)
      BY <2>3
    <3>2. fetch'[i] = [fetch EXCEPT ![j] = "done"][i]
      BY <1>1, <3>1, PumpAborted DEF Settle
    <3> QED
      BY <1>1, <2>1, <3>2
  <2>4. CASE Open
    <3>1. fetch[0] = "done"
      BY <1>1, <2>1 DEF FetchInv, ProbeFirst
    <3> QED
      BY <2>4, <3>1 DEF Open, HandOver, Reject, OpenStream, Rejected
  <2>5. CASE Pull \/ Read \/ Cancel \/ UNCHANGED vars
    BY <1>1, <2>5 DEF Pull, PullFails, PullCancelled, PullCloses, PullDelivers, PullWaits,
       Read, Cancel, vars, fetchVars
  <2> QED
    BY <1>1, <2>2, <2>3, <2>4, <2>5 DEF Next, Request
<1>2. FetchInv /\ [Next]_vars =>
        [aborted => \A i \in Windows : fetch'[i] = "asking" => fetch[i] = "asking"]_vars
  BY <1>1
<1> QED
  BY <1>2, FetchInvariant, PTL DEF Spec, NoRequestAfterAbort

LEMMA InitOrdered == Init => Ordered!Init
  BY DEF Init, Ordered!Init, State

LEMMA NextOrdered == FetchInv /\ [Next]_vars => [Ordered!Next]_(Ordered!vars)
<1> SUFFICES ASSUME FetchInv, [Next]_vars PROVE [Ordered!Next]_(Ordered!vars)
  OBVIOUS
<1> USE DEF Ordered!Next, Ordered!vars
<1>1. /\ TypeOK /\ ProbeFirst /\ Ending /\ Delivered
      /\ Len(out) = nextToEnqueue /\ nextToEnqueue \in 0..WindowCount
  BY DEF FetchInv, TypeOK, Delivered
<1>2. ASSUME UNCHANGED <<stream, out>> PROVE UNCHANGED Ordered!vars
  BY <1>2 DEF State
<1>3. ASSUME NEW i \in Windows, Request(i) PROVE UNCHANGED <<stream, out>>
  BY <1>3 DEF Request, TransientFailure, Retry, AbortRequest, AnswerPartial, AnswerGone,
     AnswerWhole, ReadBody, BodyFails, Catch, Settle, readerVars
<1>4. CASE HandOver \/ Reject
  <2>1. stream = "opening" /\ out = <<>>
    BY <1>1, <1>4 DEF ProbeFirst, HandOver, Reject, Rejected, Delivered
  <2>2. Ordered!HandOver \/ Ordered!Fail
    BY <1>4, <2>1 DEF HandOver, Reject, Ordered!HandOver, Ordered!Fail, State
  <2> QED
    BY <2>2
<1>5. CASE OpenStream
  <2>1. stream = "opening" /\ stream' = "open" /\ out' = out
    BY <1>1, <1>5 DEF ProbeFirst, OpenStream
  <2> QED
    BY <2>1 DEF State
<1>6. CASE PullFails
  <2>1. CASE stream = "open"
    <3>1. Ordered!Fail
      BY <1>6, <2>1 DEF PullFails, Ordered!Fail, State
    <3> QED
      BY <3>1
  <2>2. CASE stream # "open"
    BY <1>2, <1>6, <2>2 DEF PullFails
  <2> QED
    BY <2>1, <2>2
<1>7. CASE PullCloses
  <2>1. stream = "open"
    BY <1>1, <1>7 DEF PullCloses, Pulling, ProbeFirst, Ending
  <2>2. Ordered!Close
    BY <1>1, <1>7, <2>1 DEF PullCloses, Ordered!Close, State
  <2> QED
    BY <2>2
<1>8. CASE PullDelivers
  <2>1. stream = "open" /\ UNCHANGED stream
    BY <1>1, <1>8 DEF PullDelivers, Pulling, ProbeFirst, Ending
  <2>2. buffers[nextToEnqueue] = {nextToEnqueue}
    BY <1>1, <1>8 DEF PullDelivers, FetchInv, Cursors, Windows
  <2>3. Len(out) < WindowCount /\ out' = Append(out, {Len(out)})
    BY <1>1, <1>8, <2>2 DEF PullDelivers
  <2>4. Ordered!Deliver
    BY <2>1, <2>3 DEF Ordered!Deliver, State
  <2> QED
    BY <2>4
<1>9. CASE Cancel
  <2>1. Ordered!Cancel
    BY <1>9 DEF Cancel, Ordered!Cancel, State
  <2> QED
    BY <2>1
<1>10. CASE PullCancelled \/ PullWaits \/ Read \/ UNCHANGED vars
  BY <1>2, <1>10 DEF PullCancelled, PullWaits, Read, vars, readerVars
<1> QED
  BY <1>2, <1>3, <1>4, <1>5, <1>6, <1>7, <1>8, <1>9, <1>10 DEF Next, Open, Pull

(* The parallel download is an ordered stream: every window once, in order, *)
(* closed only when complete, silent after an end.                          *)
THEOREM FetchImplementsStream == Spec => StreamSpec
<1>1. Spec => []FetchInv
  BY FetchInvariant
<1> QED
  BY <1>1, InitOrdered, NextOrdered, PTL DEF Spec, StreamSpec, Ordered!Spec

=============================================================================
