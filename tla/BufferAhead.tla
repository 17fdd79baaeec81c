---------------------------- MODULE BufferAhead ----------------------------
(***************************************************************************)
(* bufferAhead (lib/asyncBuffer.ts): a pump reads the encrypted chunks     *)
(* ahead into a bounded queue while the uploader consumes them.  Each side *)
(* sleeps on a slot the other one empties when it wakes it; the uploader's *)
(* signal may abort both, and the uploader may leave, at any point.        *)
(***************************************************************************)
EXTENDS Naturals, Sequences

CONSTANTS Chunks,    \* chunks of the source
          Capacity   \* ENCRYPT_PREFETCH_CHUNKS

ASSUME BufferAssumption == Chunks \in Nat /\ Capacity \in Nat \ {0}

VARIABLES ahead,      \* the queue
          readCount,  \* chunks taken from the source
          taken,      \* chunks handed to the consumer
          pump,       \* where the pump is; "asleep" while notifyProducer is set
          consumer,   \* where the consumer is; "asleep" while notifyConsumer is set
          stopped, producerError,
          aborted,    \* the signal was aborted
          told        \* what the uploader was told at the end: "", "done" or "error"

bufferVars == <<ahead, readCount, taken, pump, consumer, stopped, producerError, aborted, told>>

BufferInit ==
    /\ ahead = <<>> /\ readCount = 0 /\ taken = <<>>
    /\ pump = "loop" /\ consumer = "paused"
    /\ stopped = FALSE /\ producerError = FALSE /\ aborted = FALSE /\ told = ""

Woken(side) == IF side = "asleep" THEN "loop" ELSE side
ProducerDone == pump \in {"closing", "done"}

\* The loop's tests up to the next await.
PumpRound ==
    /\ pump = "loop"
    /\ pump' = IF stopped THEN "finish"
               ELSE IF Len(ahead) >= Capacity THEN "asleep" ELSE "reading"
    /\ UNCHANGED <<ahead, readCount, taken, consumer, stopped, producerError, aborted, told>>

\* iterator.next() settles; what arrives after the end was asked for is dropped.
SourceYields ==
    /\ pump = "reading" /\ readCount < Chunks
    /\ readCount' = readCount + 1
    /\ pump' = IF stopped THEN "finish" ELSE "loop"
    /\ ahead' = IF stopped THEN ahead ELSE Append(ahead, readCount')
    /\ consumer' = IF stopped THEN consumer ELSE Woken(consumer)
    /\ UNCHANGED <<taken, stopped, producerError, aborted, told>>

SourceEnds ==
    /\ pump = "reading" /\ readCount = Chunks /\ pump' = "finish"
    /\ UNCHANGED <<ahead, readCount, taken, consumer, stopped, producerError, aborted, told>>

SourceFails ==
    /\ pump = "reading" /\ producerError' = TRUE /\ pump' = "finish"
    /\ UNCHANGED <<ahead, readCount, taken, consumer, stopped, aborted, told>>

\* finally: the consumer is woken, and a source that was not read to its end is closed.
PumpFinishes ==
    /\ pump = "finish" /\ pump' = (IF stopped THEN "closing" ELSE "done")
    /\ consumer' = Woken(consumer)
    /\ UNCHANGED <<ahead, readCount, taken, stopped, producerError, aborted, told>>

SourceClosed ==
    /\ pump = "closing" /\ pump' = "done"
    /\ UNCHANGED <<ahead, readCount, taken, consumer, stopped, producerError, aborted, told>>

\* Mutant: an abort empties the queue but leaves the sleepers asleep.
AbortSilently ==
    /\ ~aborted /\ consumer \notin {"exit", "left", "leaving", "ended"}
    /\ aborted' = TRUE /\ stopped' = TRUE /\ ahead' = <<>>
    /\ UNCHANGED <<readCount, taken, pump, consumer, producerError, told>>

OnAbort ==
    /\ ~aborted /\ consumer \notin {"exit", "left", "leaving", "ended"}
    /\ aborted' = TRUE /\ stopped' = TRUE /\ ahead' = <<>>
    /\ pump' = Woken(pump) /\ consumer' = Woken(consumer)
    /\ UNCHANGED <<readCount, taken, producerError, told>>

\* next() is called on a generator that is not running.
CallNext ==
    /\ consumer = "paused" /\ consumer' = "loop"
    /\ UNCHANGED <<ahead, readCount, taken, pump, stopped, producerError, aborted, told>>

\* The consumer's loop up to its next await or yield.
ConsumerRound ==
    /\ consumer = "loop"
    /\ \/ /\ stopped /\ consumer' = "exit" /\ told' = "done"
          /\ UNCHANGED <<ahead, taken, pump>>
       \/ /\ ~stopped /\ ahead # <<>> /\ consumer' = "paused"
          /\ taken' = Append(taken, Head(ahead)) /\ ahead' = Tail(ahead)
          /\ pump' = Woken(pump) /\ UNCHANGED told
       \/ /\ ~stopped /\ ahead = <<>>
          /\ consumer' = IF ProducerDone THEN "drain" ELSE "asleep"
          /\ UNCHANGED <<ahead, taken, pump, told>>
    /\ UNCHANGED <<readCount, stopped, producerError, aborted>>

\* The end of the source is reached once the pump itself has ended.
Drained ==
    /\ consumer = "drain" /\ pump = "done" /\ consumer' = "exit"
    /\ told' = IF producerError THEN "error" ELSE "done"
    /\ UNCHANGED <<ahead, readCount, taken, pump, stopped, producerError, aborted>>

\* The uploader leaves early: return() at a yield.
LeaveLoop ==
    /\ consumer = "paused" /\ taken # <<>> /\ consumer' = "left"
    /\ UNCHANGED <<ahead, readCount, taken, pump, stopped, producerError, aborted, told>>

\* The consumer's finally; only a pump that is not inside the source is waited for.
Exit ==
    /\ consumer \in {"exit", "left"}
    /\ stopped' = TRUE /\ ahead' = <<>> /\ pump' = Woken(pump)
    /\ consumer' = IF pump = "reading" \/ pump = "done" THEN "ended" ELSE "leaving"
    /\ UNCHANGED <<readCount, taken, producerError, aborted, told>>

Left ==
    /\ consumer = "leaving" /\ pump = "done" /\ consumer' = "ended"
    /\ UNCHANGED <<ahead, readCount, taken, pump, stopped, producerError, aborted, told>>

BufferNext ==
    \/ PumpRound \/ SourceYields \/ SourceEnds \/ SourceFails \/ PumpFinishes \/ SourceClosed
    \/ OnAbort \/ CallNext \/ ConsumerRound \/ Drained \/ LeaveLoop \/ Exit \/ Left

BufferSpec == BufferInit /\ [][BufferNext]_bufferVars

(* The buffer never loses, repeats or reorders a chunk and never stalls: the uploader holds a     *)
(* prefix of the source, is told of the end only when it holds all of it (unless its own signal   *)
(* cut it off), at most Capacity chunks wait, and a side that sleeps has a reason to - the queue  *)
(* is full, or is empty with the pump still running - and is not asked to stop                    *)
(* (lib/asyncBuffer.ts 34-58, 62-70, 75-88).                                                      *)
BufferFaithful ==
    /\ Len(ahead) <= Capacity /\ \A i \in DOMAIN taken : taken[i] = i
    /\ told = "done" /\ ~aborted => Len(taken) = Chunks
    /\ pump = "asleep" => Len(ahead) = Capacity /\ ~stopped
    /\ consumer = "asleep" => ahead = <<>> /\ ~ProducerDone /\ ~stopped
=============================================================================
