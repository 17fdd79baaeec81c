------------------------- MODULE PagesAndJobsProofs -------------------------
(***************************************************************************)
(* Proofs about the browser's pages and streams and about the scheduled    *)
(* jobs, each for any sizes, visitors, files and timers.                   *)
(***************************************************************************)
EXTENDS BufferAhead, DownloadWorker, SharePage, AdminPages, UploadPage, SaveFiles,
        PublicForms, CleanupBatches, FiniteSetTheorems, WellFoundedInduction, TLAPS

(***************************************************************************)
(* The buffer of encrypted chunks.  Nothing that is read is lost: what was *)
(* taken and what waits are together what was read, until an abort or the  *)
(* consumer's own exit empties the queue; and the pump ends only for a     *)
(* reason the consumer may be told.                                        *)
(***************************************************************************)
BufferTypes ==
    /\ readCount \in 0..Chunks
    /\ ahead \in Seq(Nat) /\ taken \in Seq(Nat)
    /\ pump \in {"loop", "asleep", "reading", "finish", "closing", "done"}
    /\ consumer \in {"paused", "loop", "asleep", "drain", "exit", "left", "leaving", "ended"}
    /\ stopped \in BOOLEAN /\ producerError \in BOOLEAN /\ aborted \in BOOLEAN
    /\ told \in {"", "done", "error"}

\* What was taken, and then what waits, is what was read, in its order.
BufferOrder ==
    /\ \A i \in 1..Len(taken) : taken[i] = i
    /\ \A i \in 1..Len(ahead) : ahead[i] = Len(taken) + i
    /\ ~stopped => Len(taken) + Len(ahead) = readCount

BufferEnds ==
    /\ stopped => Len(ahead) = 0 /\ (aborted \/ consumer \in {"leaving", "ended"})
    /\ pump \in {"finish", "closing", "done"} => stopped \/ producerError \/ readCount = Chunks
    /\ consumer = "drain" => Len(ahead) = 0 /\ ProducerDone
    /\ told # "" => consumer \in {"exit", "leaving", "ended"}
    /\ told = "done" /\ ~aborted => Len(taken) = Chunks

BufferSleep ==
    /\ Len(ahead) <= Capacity
    /\ pump = "reading" => Len(ahead) < Capacity
    /\ pump = "asleep" => Len(ahead) = Capacity /\ ~stopped
    /\ consumer = "asleep" => Len(ahead) = 0 /\ ~ProducerDone /\ ~stopped

BufferInv == BufferTypes /\ BufferOrder /\ BufferEnds /\ BufferSleep

\* How long a queue is after a chunk came, or left, or the queue was emptied.
LEMMA QueueLengths ==
    ASSUME NEW q \in Seq(Nat)
    PROVE  /\ Len(q) \in Nat /\ <<>> \in Seq(Nat) /\ Len(<<>>) = 0 /\ (q = <<>> <=> Len(q) = 0)
           /\ \A n \in Nat : /\ Append(q, n) \in Seq(Nat) /\ Len(Append(q, n)) = Len(q) + 1
                            /\ \A i \in 1..Len(q) : Append(q, n)[i] = q[i]
                            /\ Append(q, n)[Len(q) + 1] = n
           /\ Len(q) # 0 => /\ Head(q) = q[1] /\ Head(q) \in Nat /\ Tail(q) \in Seq(Nat)
                            /\ Len(Tail(q)) = Len(q) - 1
                            /\ \A i \in 1..(Len(q) - 1) : Tail(q)[i] = q[i + 1]
<1>1. Len(q) \in Nat /\ <<>> \in Seq(Nat) /\ Len(<<>>) = 0 /\ (q = <<>> <=> Len(q) = 0)
  OBVIOUS
<1>2. ASSUME NEW n \in Nat
      PROVE  /\ Append(q, n) \in Seq(Nat) /\ Len(Append(q, n)) = Len(q) + 1
             /\ \A i \in 1..Len(q) : Append(q, n)[i] = q[i]
             /\ Append(q, n)[Len(q) + 1] = n
  OBVIOUS
<1>3. ASSUME Len(q) # 0
      PROVE  /\ Head(q) = q[1] /\ Head(q) \in Nat /\ Tail(q) \in Seq(Nat)
             /\ Len(Tail(q)) = Len(q) - 1
             /\ \A i \in 1..(Len(q) - 1) : Tail(q)[i] = q[i + 1]
  BY <1>1, <1>3
<1> QED  BY <1>1, <1>2, <1>3

\* The pump's rounds and its source (lib/asyncBuffer.ts, pump).
LEMMA PumpKeepsBuffer ==
    ASSUME BufferInv,
           PumpRound \/ SourceYields \/ SourceEnds \/ SourceFails \/ PumpFinishes \/ SourceClosed
    PROVE  BufferInv'
<1>1. /\ BufferTypes /\ BufferOrder /\ BufferEnds /\ BufferSleep
      /\ ahead \in Seq(Nat) /\ taken \in Seq(Nat) /\ <<>> \in Seq(Nat)
      /\ Len(ahead) \in Nat /\ Len(taken) \in Nat /\ Len(<<>>) = 0 /\ (ahead = <<>> <=> Len(ahead) = 0)
      /\ Capacity \in Nat /\ Capacity # 0 /\ Chunks \in Nat /\ readCount \in Nat
  <2>1. /\ BufferTypes /\ BufferOrder /\ BufferEnds /\ BufferSleep
        /\ ahead \in Seq(Nat) /\ taken \in Seq(Nat) /\ readCount \in 0..Chunks
    BY DEF BufferInv, BufferTypes
  <2>2. Capacity \in Nat /\ Capacity # 0 /\ Chunks \in Nat
    BY BufferAssumption
  <2>3. readCount \in Nat
    BY <2>1, <2>2
  <2> QED  BY <2>1, <2>2, <2>3, QueueLengths
<1>2. \A k \in Nat : \A i \in 1..0 : i = k + i
  OBVIOUS
<1>3. CASE PumpRound
  <2>1. UNCHANGED <<ahead, readCount, taken, stopped>> /\ ahead' \in Seq(Nat) /\ taken' \in Seq(Nat)
    BY <1>3, <1>1 DEF PumpRound
  <2>2. /\ pump = "loop" /\ UNCHANGED <<consumer, producerError, aborted, told>>
        /\ \/ stopped /\ pump' = "finish"
           \/ ~stopped /\ Len(ahead) = Capacity /\ pump' = "asleep"
           \/ ~stopped /\ Len(ahead) < Capacity /\ pump' = "reading"
    <3>1. Len(ahead) >= Capacity <=> Len(ahead) = Capacity
      BY <1>1 DEF BufferSleep
    <3>2. ~(Len(ahead) >= Capacity) <=> Len(ahead) < Capacity
      BY <1>1
    <3> QED  BY <1>3, <3>1, <3>2 DEF PumpRound
  <2>3. Len(ahead') = Len(ahead) /\ Len(taken') = Len(taken)
    BY <1>1, <2>1
  <2>4. BufferTypes'
    BY <1>1, <2>1, <2>2 DEF BufferTypes
  <2>5. BufferOrder'
    BY <1>1, <1>2, <2>1, <2>3 DEF BufferOrder
  <2>6. BufferEnds'
    BY <1>1, <2>1, <2>2, <2>3 DEF BufferTypes, BufferOrder, BufferEnds, BufferSleep, ProducerDone
  <2>7. BufferSleep'
    BY <1>1, <2>1, <2>2, <2>3 DEF BufferEnds, BufferSleep, ProducerDone
  <2> QED  BY <2>4, <2>5, <2>6, <2>7 DEF BufferInv
<1>4. CASE SourceEnds
  <2>1. UNCHANGED <<ahead, readCount, taken, stopped>> /\ ahead' \in Seq(Nat) /\ taken' \in Seq(Nat)
    BY <1>4, <1>1 DEF SourceEnds
  <2>2. /\ pump = "reading" /\ pump' = "finish" /\ readCount = Chunks
        /\ UNCHANGED <<consumer, producerError, aborted, told>>
    BY <1>4 DEF SourceEnds, ProducerDone, Woken
  <2>3. Len(ahead') = Len(ahead) /\ Len(taken') = Len(taken)
    BY <1>1, <2>1
  <2>4. BufferTypes'
    BY <1>1, <2>1, <2>2 DEF BufferTypes
  <2>5. BufferOrder'
    BY <1>1, <1>2, <2>1, <2>3 DEF BufferOrder
  <2>6. BufferEnds'
    BY <1>1, <2>1, <2>2, <2>3 DEF BufferTypes, BufferOrder, BufferEnds, BufferSleep, ProducerDone
  <2>7. BufferSleep'
    BY <1>1, <2>1, <2>2, <2>3 DEF BufferEnds, BufferSleep, ProducerDone
  <2> QED  BY <2>4, <2>5, <2>6, <2>7 DEF BufferInv
<1>5. CASE SourceFails
  <2>1. UNCHANGED <<ahead, readCount, taken, stopped>> /\ ahead' \in Seq(Nat) /\ taken' \in Seq(Nat)
    BY <1>5, <1>1 DEF SourceFails
  <2>2. /\ pump = "reading" /\ pump' = "finish" /\ producerError' = TRUE
        /\ UNCHANGED <<consumer, aborted, told>>
    BY <1>5 DEF SourceFails, ProducerDone, Woken
  <2>3. Len(ahead') = Len(ahead) /\ Len(taken') = Len(taken)
    BY <1>1, <2>1
  <2>4. BufferTypes'
    BY <1>1, <2>1, <2>2 DEF BufferTypes
  <2>5. BufferOrder'
    BY <1>1, <1>2, <2>1, <2>3 DEF BufferOrder
  <2>6. BufferEnds'
    BY <1>1, <2>1, <2>2, <2>3 DEF BufferTypes, BufferOrder, BufferEnds, BufferSleep, ProducerDone
  <2>7. BufferSleep'
    BY <1>1, <2>1, <2>2, <2>3 DEF BufferEnds, BufferSleep, ProducerDone
  <2> QED  BY <2>4, <2>5, <2>6, <2>7 DEF BufferInv
<1>6. CASE PumpFinishes
  <2>1. UNCHANGED <<ahead, readCount, taken, stopped>> /\ ahead' \in Seq(Nat) /\ taken' \in Seq(Nat)
    BY <1>6, <1>1 DEF PumpFinishes
  <2>2. /\ pump = "finish" /\ UNCHANGED <<producerError, aborted, told>>
        /\ pump' \in {"closing", "done"}
        /\ (consumer' = consumer /\ consumer' # "asleep") \/ (consumer = "asleep" /\ consumer' = "loop")
    BY <1>6 DEF PumpFinishes, ProducerDone, Woken
  <2>3. Len(ahead') = Len(ahead) /\ Len(taken') = Len(taken)
    BY <1>1, <2>1
  <2>4. BufferTypes'
    BY <1>1, <2>1, <2>2 DEF BufferTypes
  <2>5. BufferOrder'
    BY <1>1, <1>2, <2>1, <2>3 DEF BufferOrder
  <2>6. BufferEnds'
    BY <1>1, <2>1, <2>2, <2>3 DEF BufferTypes, BufferOrder, BufferEnds, BufferSleep, ProducerDone
  <2>7. BufferSleep'
    BY <1>1, <2>1, <2>2, <2>3 DEF BufferEnds, BufferSleep, ProducerDone
  <2> QED  BY <2>4, <2>5, <2>6, <2>7 DEF BufferInv
<1>7. CASE SourceClosed
  <2>1. UNCHANGED <<ahead, readCount, taken, stopped>> /\ ahead' \in Seq(Nat) /\ taken' \in Seq(Nat)
    BY <1>7, <1>1 DEF SourceClosed
  <2>2. /\ pump = "closing" /\ pump' = "done"
        /\ UNCHANGED <<consumer, producerError, aborted, told>>
    BY <1>7 DEF SourceClosed, ProducerDone, Woken
  <2>3. Len(ahead') = Len(ahead) /\ Len(taken') = Len(taken)
    BY <1>1, <2>1
  <2>4. BufferTypes'
    BY <1>1, <2>1, <2>2 DEF BufferTypes
  <2>5. BufferOrder'
    BY <1>1, <1>2, <2>1, <2>3 DEF BufferOrder
  <2>6. BufferEnds'
    BY <1>1, <2>1, <2>2, <2>3 DEF BufferTypes, BufferOrder, BufferEnds, BufferSleep, ProducerDone
  <2>7. BufferSleep'
    BY <1>1, <2>1, <2>2, <2>3 DEF BufferEnds, BufferSleep, ProducerDone
  <2> QED  BY <2>4, <2>5, <2>6, <2>7 DEF BufferInv
<1>8. CASE SourceYields /\ stopped
  <2>1. /\ readCount' = readCount + 1 /\ readCount # Chunks /\ pump = "reading" /\ pump' = "finish"
        /\ readCount' \in 0..Chunks /\ stopped
        /\ UNCHANGED <<ahead, consumer, taken, stopped, producerError, aborted, told>>
        /\ ahead' \in Seq(Nat) /\ taken' \in Seq(Nat)
    BY <1>1, <1>8 DEF SourceYields
  <2>2. Len(ahead') = Len(ahead) /\ Len(taken') = Len(taken)
    BY <2>1
  <2>3. BufferTypes'
    BY <1>1, <2>1 DEF BufferTypes
  <2>4. BufferOrder'
    BY <1>1, <2>1, <2>2 DEF BufferOrder
  <2>5. BufferEnds'
    BY <1>1, <2>1, <2>2 DEF BufferTypes, BufferEnds, ProducerDone
  <2>6. BufferSleep'
    BY <1>1, <2>1, <2>2 DEF BufferTypes, BufferSleep, ProducerDone
  <2> QED  BY <2>3, <2>4, <2>5, <2>6 DEF BufferInv
<1>9. CASE SourceYields /\ ~stopped
  <2>1. /\ readCount' = readCount + 1 /\ readCount < Chunks /\ pump = "reading" /\ pump' = "loop"
        /\ ~stopped /\ UNCHANGED <<taken, stopped, producerError, aborted, told>>
    BY <1>9 DEF SourceYields
  <2>2. ahead' = Append(ahead, readCount + 1)
    BY <1>9 DEF SourceYields
  <2>3. (consumer' = consumer /\ consumer' # "asleep") \/ (consumer = "asleep" /\ consumer' = "loop")
    BY <1>9 DEF SourceYields, Woken
  <2>4. readCount + 1 \in Nat /\ readCount + 1 \in 0..Chunks
    BY <1>1, <2>1
  <2>5. /\ ahead' \in Seq(Nat) /\ Len(ahead') = Len(ahead) + 1
        /\ \A i \in 1..Len(ahead) : ahead'[i] = ahead[i]
        /\ ahead'[Len(ahead) + 1] = readCount + 1
    BY <1>1, <2>2, <2>4, QueueLengths
  <2>6. taken' \in Seq(Nat) /\ Len(taken') = Len(taken)
    BY <1>1, <2>1
  <2>7. BufferTypes'
    BY <1>1, <2>1, <2>3, <2>4, <2>5, <2>6 DEF BufferTypes
  <2>8. BufferOrder'
    <3>1. Len(taken) + Len(ahead) = readCount
      BY <1>1, <2>1 DEF BufferOrder
    <3>2. ASSUME NEW i \in 1..(Len(ahead) + 1) PROVE ahead'[i] = Len(taken) + i
      <4>1. CASE i = Len(ahead) + 1
        <5>1. ahead'[i] = readCount + 1
          BY <2>5, <4>1
        <5>2. Len(taken) + (Len(ahead) + 1) = readCount + 1
          BY <1>1, <3>1
        <5> QED  BY <4>1, <5>1, <5>2
      <4>2. CASE i # Len(ahead) + 1
        <5>1. i \in 1..Len(ahead)
          BY <1>1, <4>2
        <5> QED  BY <1>1, <2>5, <5>1 DEF BufferOrder
      <4> QED  BY <4>1, <4>2
    <3>3. \A i \in 1..Len(taken') : taken'[i] = i
      BY <1>1, <2>1 DEF BufferOrder
    <3>4. Len(taken') + Len(ahead') = readCount'
      BY <1>1, <2>1, <2>5, <2>6, <3>1
    <3> QED  BY <2>5, <2>6, <3>2, <3>3, <3>4 DEF BufferOrder
  <2>9. BufferEnds'
    BY <1>1, <2>1, <2>3 DEF BufferTypes, BufferEnds, ProducerDone
  <2>10. BufferSleep'
    <3>1. Len(ahead') <= Capacity
      BY <1>1, <2>1, <2>5 DEF BufferSleep
    <3> QED  BY <2>1, <2>3, <3>1 DEF BufferSleep
  <2> QED  BY <2>7, <2>8, <2>9, <2>10 DEF BufferInv
<1> QED  BY <1>3, <1>4, <1>5, <1>6, <1>7, <1>8, <1>9

\* The uploader takes chunks, leaves, or aborts.
LEMMA ConsumerKeepsBuffer ==
    ASSUME BufferInv,
           OnAbort \/ CallNext \/ ConsumerRound \/ Drained \/ LeaveLoop \/ Exit \/ Left
    PROVE  BufferInv'
<1>1. /\ BufferTypes /\ BufferOrder /\ BufferEnds /\ BufferSleep
      /\ ahead \in Seq(Nat) /\ taken \in Seq(Nat) /\ <<>> \in Seq(Nat)
      /\ Len(ahead) \in Nat /\ Len(taken) \in Nat /\ Len(<<>>) = 0 /\ (ahead = <<>> <=> Len(ahead) = 0)
      /\ Capacity \in Nat /\ Capacity # 0 /\ Chunks \in Nat /\ readCount \in Nat
  <2>1. /\ BufferTypes /\ BufferOrder /\ BufferEnds /\ BufferSleep
        /\ ahead \in Seq(Nat) /\ taken \in Seq(Nat) /\ readCount \in 0..Chunks
    BY DEF BufferInv, BufferTypes
  <2>2. Capacity \in Nat /\ Capacity # 0 /\ Chunks \in Nat
    BY BufferAssumption
  <2>3. readCount \in Nat
    BY <2>1, <2>2
  <2> QED  BY <2>1, <2>2, <2>3, QueueLengths
<1>2. \A k \in Nat : \A i \in 1..0 : i = k + i
  OBVIOUS
<1>3. CASE OnAbort
  <2>1. ahead' = <<>> /\ stopped' = TRUE /\ UNCHANGED <<readCount, taken>>
    BY <1>3 DEF OnAbort
  <2>2. /\ (pump' = pump /\ pump' # "asleep") \/ (pump = "asleep" /\ pump' = "loop")
        /\ (consumer' = consumer /\ consumer' # "asleep") \/ (consumer = "asleep" /\ consumer' = "loop")
        /\ aborted' = TRUE /\ UNCHANGED <<producerError, told>>
    BY <1>3 DEF OnAbort, ProducerDone, Woken
  <2>3. Len(ahead') = 0 /\ Len(taken') = Len(taken)
    BY <1>1, <2>1
  <2>4. BufferTypes'
    BY <1>1, <2>1, <2>2 DEF BufferTypes
  <2>5. BufferOrder'
    BY <1>1, <1>2, <2>1, <2>3 DEF BufferOrder
  <2>6. BufferEnds'
    BY <1>1, <2>1, <2>2, <2>3 DEF BufferTypes, BufferOrder, BufferEnds, BufferSleep, ProducerDone
  <2>7. BufferSleep'
    <3>1. 0 <= Capacity /\ 0 < Capacity
      BY <1>1
    <3>2. pump' # "asleep" /\ consumer' # "asleep"
      BY <2>2
    <3> QED  BY <2>3, <3>1, <3>2 DEF BufferSleep
  <2> QED  BY <2>4, <2>5, <2>6, <2>7 DEF BufferInv
<1>4. CASE CallNext
  <2>1. UNCHANGED <<ahead, readCount, taken, stopped>> /\ ahead' \in Seq(Nat) /\ taken' \in Seq(Nat)
    BY <1>4, <1>1 DEF CallNext
  <2>2. /\ consumer = "paused" /\ consumer' = "loop"
        /\ UNCHANGED <<pump, producerError, aborted, told>>
    BY <1>4 DEF CallNext, ProducerDone, Woken
  <2>3. Len(ahead') = Len(ahead) /\ Len(taken') = Len(taken)
    BY <1>1, <2>1
  <2>4. BufferTypes'
    BY <1>1, <2>1, <2>2 DEF BufferTypes
  <2>5. BufferOrder'
    BY <1>1, <1>2, <2>1, <2>3 DEF BufferOrder
  <2>6. BufferEnds'
    BY <1>1, <2>1, <2>2, <2>3 DEF BufferTypes, BufferOrder, BufferEnds, BufferSleep, ProducerDone
  <2>7. BufferSleep'
    BY <1>1, <2>1, <2>2, <2>3 DEF BufferEnds, BufferSleep, ProducerDone
  <2> QED  BY <2>4, <2>5, <2>6, <2>7 DEF BufferInv
<1>5. CASE Drained
  <2>1. UNCHANGED <<ahead, readCount, taken, stopped>> /\ ahead' \in Seq(Nat) /\ taken' \in Seq(Nat)
    BY <1>5, <1>1 DEF Drained
  <2>2. /\ consumer = "drain" /\ pump = "done" /\ consumer' = "exit"
        /\ told' \in {"error", "done"} /\ (told' = "done" => ~producerError)
        /\ UNCHANGED <<pump, producerError, aborted>>
    BY <1>5 DEF Drained, ProducerDone, Woken
  <2>3. Len(ahead') = Len(ahead) /\ Len(taken') = Len(taken)
    BY <1>1, <2>1
  <2>4. BufferTypes'
    BY <1>1, <2>1, <2>2 DEF BufferTypes
  <2>5. BufferOrder'
    BY <1>1, <1>2, <2>1, <2>3 DEF BufferOrder
  <2>6. BufferEnds'
    <3>1. told' = "done" /\ ~aborted' => Len(taken') = Chunks
      <4> SUFFICES ASSUME told' = "done", ~aborted' PROVE Len(taken) = Chunks
        BY <2>3
      <4>1. ~stopped /\ readCount = Chunks /\ Len(ahead) = 0
        BY <1>1, <2>2 DEF BufferEnds
      <4> QED  BY <1>1, <4>1 DEF BufferOrder
    <3> QED  BY <1>1, <2>1, <2>2, <2>3, <3>1 DEF BufferEnds, ProducerDone
  <2>7. BufferSleep'
    BY <1>1, <2>1, <2>2, <2>3 DEF BufferEnds, BufferSleep, ProducerDone
  <2> QED  BY <2>4, <2>5, <2>6, <2>7 DEF BufferInv
<1>6. CASE LeaveLoop
  <2>1. UNCHANGED <<ahead, readCount, taken, stopped>> /\ ahead' \in Seq(Nat) /\ taken' \in Seq(Nat)
    BY <1>6, <1>1 DEF LeaveLoop
  <2>2. /\ consumer = "paused" /\ consumer' = "left"
        /\ UNCHANGED <<pump, producerError, aborted, told>>
    BY <1>6 DEF LeaveLoop, ProducerDone, Woken
  <2>3. Len(ahead') = Len(ahead) /\ Len(taken') = Len(taken)
    BY <1>1, <2>1
  <2>4. BufferTypes'
    BY <1>1, <2>1, <2>2 DEF BufferTypes
  <2>5. BufferOrder'
    BY <1>1, <1>2, <2>1, <2>3 DEF BufferOrder
  <2>6. BufferEnds'
    BY <1>1, <2>1, <2>2, <2>3 DEF BufferTypes, BufferOrder, BufferEnds, BufferSleep, ProducerDone
  <2>7. BufferSleep'
    BY <1>1, <2>1, <2>2, <2>3 DEF BufferEnds, BufferSleep, ProducerDone
  <2> QED  BY <2>4, <2>5, <2>6, <2>7 DEF BufferInv
<1>7. CASE Exit
  <2>1. ahead' = <<>> /\ stopped' = TRUE /\ UNCHANGED <<readCount, taken>>
    BY <1>7 DEF Exit
  <2>2. /\ (pump' = pump /\ pump' # "asleep") \/ (pump = "asleep" /\ pump' = "loop")
        /\ consumer \in {"exit", "left"} /\ consumer' \in {"ended", "leaving"}
        /\ UNCHANGED <<producerError, aborted, told>>
    BY <1>7 DEF Exit, ProducerDone, Woken
  <2>3. Len(ahead') = 0 /\ Len(taken') = Len(taken)
    BY <1>1, <2>1
  <2>4. BufferTypes'
    BY <1>1, <2>1, <2>2 DEF BufferTypes
  <2>5. BufferOrder'
    BY <1>1, <1>2, <2>1, <2>3 DEF BufferOrder
  <2>6. BufferEnds'
    BY <1>1, <2>1, <2>2, <2>3 DEF BufferTypes, BufferOrder, BufferEnds, BufferSleep, ProducerDone
  <2>7. BufferSleep'
    <3>1. 0 <= Capacity /\ 0 < Capacity
      BY <1>1
    <3>2. pump' # "asleep" /\ consumer' # "asleep"
      BY <2>2
    <3> QED  BY <2>3, <3>1, <3>2 DEF BufferSleep
  <2> QED  BY <2>4, <2>5, <2>6, <2>7 DEF BufferInv
<1>8. CASE Left
  <2>1. UNCHANGED <<ahead, readCount, taken, stopped>> /\ ahead' \in Seq(Nat) /\ taken' \in Seq(Nat)
    BY <1>8, <1>1 DEF Left
  <2>2. /\ consumer = "leaving" /\ consumer' = "ended" /\ pump = "done"
        /\ UNCHANGED <<pump, producerError, aborted, told>>
    BY <1>8 DEF Left, ProducerDone, Woken
  <2>3. Len(ahead') = Len(ahead) /\ Len(taken') = Len(taken)
    BY <1>1, <2>1
  <2>4. BufferTypes'
    BY <1>1, <2>1, <2>2 DEF BufferTypes
  <2>5. BufferOrder'
    BY <1>1, <1>2, <2>1, <2>3 DEF BufferOrder
  <2>6. BufferEnds'
    BY <1>1, <2>1, <2>2, <2>3 DEF BufferTypes, BufferOrder, BufferEnds, BufferSleep, ProducerDone
  <2>7. BufferSleep'
    BY <1>1, <2>1, <2>2, <2>3 DEF BufferEnds, BufferSleep, ProducerDone
  <2> QED  BY <2>4, <2>5, <2>6, <2>7 DEF BufferInv
<1>9. CASE ConsumerRound /\ (stopped \/ ahead = <<>>)
  <2>1. UNCHANGED <<ahead, readCount, taken, stopped>> /\ ahead' \in Seq(Nat) /\ taken' \in Seq(Nat)
    BY <1>1, <1>9 DEF ConsumerRound
  <2>2. /\ consumer = "loop" /\ UNCHANGED <<pump, producerError, aborted>>
        /\ \/ stopped /\ consumer' = "exit" /\ told' = "done"
           \/ ~stopped /\ ahead = <<>> /\ ProducerDone /\ consumer' = "drain" /\ told' = told
           \/ ~stopped /\ ahead = <<>> /\ ~ProducerDone /\ consumer' = "asleep" /\ told' = told
    BY <1>9 DEF ConsumerRound
  <2>3. Len(ahead') = Len(ahead) /\ Len(taken') = Len(taken)
    BY <1>1, <2>1
  <2>4. BufferTypes'
    BY <1>1, <2>1, <2>2 DEF BufferTypes
  <2>5. BufferOrder'
    BY <1>1, <2>1, <2>3 DEF BufferOrder
  <2>6. BufferEnds'
    BY <1>1, <2>1, <2>2, <2>3 DEF BufferTypes, BufferOrder, BufferEnds, BufferSleep, ProducerDone
  <2>7. BufferSleep'
    BY <1>1, <2>1, <2>2, <2>3 DEF BufferEnds, BufferSleep, ProducerDone
  <2> QED  BY <2>4, <2>5, <2>6, <2>7 DEF BufferInv
<1>10. CASE ConsumerRound /\ ~stopped /\ ahead # <<>>
  <2>1. /\ consumer = "loop" /\ consumer' = "paused" /\ taken' = Append(taken, Head(ahead))
        /\ ahead' = Tail(ahead) /\ pump' = Woken(pump) /\ ~stopped
        /\ UNCHANGED <<readCount, stopped, producerError, aborted, told>>
    BY <1>10 DEF ConsumerRound
  <2>2. (pump' = pump /\ pump' # "asleep") \/ (pump = "asleep" /\ pump' = "loop")
    BY <2>1 DEF Woken
  <2>3. /\ Len(ahead) # 0 /\ ahead' \in Seq(Nat) /\ Len(ahead') = Len(ahead) - 1
        /\ \A i \in 1..(Len(ahead) - 1) : ahead'[i] = ahead[i + 1]
        /\ Head(ahead) = ahead[1] /\ Head(ahead) \in Nat
    BY <1>1, <1>10, <2>1, QueueLengths
  <2>4. /\ taken' \in Seq(Nat) /\ Len(taken') = Len(taken) + 1
        /\ \A i \in 1..Len(taken) : taken'[i] = taken[i]
        /\ taken'[Len(taken) + 1] = Head(ahead)
    BY <1>1, <2>1, <2>3, QueueLengths
  <2>5. BufferTypes'
    BY <1>1, <2>1, <2>2, <2>3, <2>4 DEF BufferTypes
  <2>6. BufferOrder'
    <3>1. Head(ahead) = Len(taken) + 1
      <4>1. 1 \in 1..Len(ahead)
        BY <1>1, <2>3
      <4> QED  BY <1>1, <2>3, <4>1 DEF BufferOrder
    <3>2. ASSUME NEW i \in 1..(Len(taken) + 1) PROVE taken'[i] = i
      <4>1. CASE i = Len(taken) + 1
        BY <2>4, <3>1, <4>1
      <4>2. CASE i # Len(taken) + 1
        <5>1. i \in 1..Len(taken)
          BY <1>1, <4>2
        <5> QED  BY <1>1, <2>4, <5>1 DEF BufferOrder
      <4> QED  BY <4>1, <4>2
    <3>3. ASSUME NEW i \in 1..(Len(ahead) - 1) PROVE ahead'[i] = (Len(taken) + 1) + i
      <4>1. i + 1 \in 1..Len(ahead) /\ i \in Nat
        BY <1>1
      <4>2. ahead[i + 1] = Len(taken) + (i + 1)
        BY <1>1, <4>1 DEF BufferOrder
      <4> QED  BY <1>1, <2>3, <4>1, <4>2
    <3>4. Len(taken') + Len(ahead') = readCount'
      <4>1. Len(taken) + Len(ahead) = readCount
        BY <1>1, <2>1 DEF BufferOrder
      <4>2. (Len(taken) + 1) + (Len(ahead) - 1) = readCount
        <5>1. Len(taken) \in Nat /\ Len(ahead) \in Nat
          BY <1>1
        <5> QED  BY <4>1, <5>1
      <4> QED  BY <2>1, <2>3, <2>4, <4>2
    <3> QED  BY <2>3, <2>4, <3>2, <3>3, <3>4 DEF BufferOrder
  <2>7. BufferEnds'
    BY <1>1, <2>1, <2>2 DEF BufferTypes, BufferEnds, ProducerDone
  <2>8. BufferSleep'
    <3>1. Len(ahead') <= Capacity /\ Len(ahead') < Capacity
      BY <1>1, <2>3 DEF BufferSleep
    <3> QED  BY <2>1, <2>2, <3>1 DEF BufferSleep
  <2> QED  BY <2>5, <2>6, <2>7, <2>8 DEF BufferInv
<1> QED  BY <1>3, <1>4, <1>5, <1>6, <1>7, <1>8, <1>9, <1>10

\* The buffer never loses, repeats or reorders a chunk, keeps to its capacity, tells of the end
\* only when it was reached, and no side of lib/asyncBuffer.ts sleeps without a reason.
THEOREM BufferIsFaithful == BufferSpec => []BufferFaithful
<1>1. BufferInit => BufferInv
  <2>1. \A i \in 1..0 : FALSE
    OBVIOUS
  <2>2. ahead = <<>> /\ taken = <<>> => /\ Len(ahead) = 0 /\ Len(taken) = 0
                                       /\ ahead \in Seq(Nat) /\ taken \in Seq(Nat)
    OBVIOUS
  <2>3. Capacity \in Nat /\ Capacity # 0 /\ Chunks \in Nat
    BY BufferAssumption
  <2>4. BufferInit => BufferTypes
    <3>1. 0 \in 0..Chunks
      BY <2>3
    <3> QED  BY <2>2, <3>1 DEF BufferInit, BufferTypes
  <2>5. BufferInit => BufferEnds
    BY <2>2 DEF BufferInit, BufferEnds, ProducerDone
  <2>6. BufferInit => BufferSleep
    <3>1. 0 <= Capacity
      BY <2>3
    <3> QED  BY <2>2, <3>1 DEF BufferInit, BufferSleep
  <2>7. BufferInit => BufferOrder
    <3> SUFFICES ASSUME BufferInit PROVE BufferOrder
      OBVIOUS
    <3>1. Len(ahead) = 0 /\ Len(taken) = 0 /\ readCount = 0
      BY <2>2 DEF BufferInit
    <3>2. Len(taken) + Len(ahead) = readCount
      BY <3>1
    <3> QED  BY <2>1, <3>1, <3>2 DEF BufferOrder
  <2> QED  BY <2>4, <2>5, <2>6, <2>7 DEF BufferInv
<1>2. BufferInv /\ [BufferNext]_bufferVars => BufferInv'
  <2>1. ASSUME BufferInv, UNCHANGED bufferVars PROVE BufferInv'
    <3> USE <2>1 DEF bufferVars, BufferInv
    <3>1. BufferTypes'
      BY DEF BufferTypes
    <3>2. BufferOrder'
      BY DEF BufferOrder
    <3>3. BufferEnds'
      BY DEF BufferEnds, ProducerDone
    <3>4. BufferSleep'
      BY DEF BufferSleep, ProducerDone
    <3> QED  BY <3>1, <3>2, <3>3, <3>4
  <2> QED  BY <2>1, PumpKeepsBuffer, ConsumerKeepsBuffer DEF BufferNext
<1>3. BufferInv => BufferFaithful
  <2> SUFFICES ASSUME BufferInv PROVE BufferFaithful
    OBVIOUS
  <2>1. ahead \in Seq(Nat) /\ taken \in Seq(Nat)
    BY DEF BufferInv, BufferTypes
  <2>2. Len(ahead) \in Nat /\ (ahead = <<>> <=> Len(ahead) = 0)
    BY <2>1
  <2>3. DOMAIN taken = 1..Len(taken)
    BY <2>1
  <2> QED  BY <2>2, <2>3 DEF BufferFaithful, BufferInv, BufferOrder, BufferEnds, BufferSleep
<1> QED  BY <1>1, <1>2, <1>3, PTL DEF BufferSpec

-----------------------------------------------------------------------------
(***************************************************************************)
(* The hand-over to the service worker.  A stream is in the page, in a     *)
(* message, in the worker's map, with the browser, or gone, and in one of  *)
(* these places only; the frame knows which.                               *)
(***************************************************************************)
WorkerInv ==
    /\ saver \in [Streams -> {"idle", "waiting", "started", "failed"}]
    /\ offer \in [Streams -> {"none", "sent", "handled"}]
    /\ giveUp \in [Streams -> {"none", "sent", "handled"}]
    /\ address \in [Streams -> BOOLEAN] /\ notice \in [Streams -> BOOLEAN]
    /\ pending \subseteq Streams
    /\ frame \in [Streams -> {"none", "loading", "open", "closing", "removed"}]
    /\ stream \in [Streams -> {"ours", "held", "read", "saved", "broken", "lost", "released"}]
    /\ \A s \in Streams :
         /\ s \in pending => stream[s] = "held"
         /\ stream[s] = "held" => s \in pending \/ offer[s] = "sent"
         /\ offer[s] = "sent" => stream[s] = "held" /\ s \notin pending
         /\ offer[s] = "none" => stream[s] = "ours"
         /\ saver[s] = "idle" => offer[s] = "none"
         /\ frame[s] # "none" => saver[s] = "started"
         /\ stream[s] \in {"ours", "held", "read"} => ~notice[s] /\ frame[s] # "closing"
         /\ stream[s] = "read" => frame[s] \in {"open", "removed"}

\* Every step of the page, the worker and the browser leaves each stream in one place.
LEMMA WorkerStep ==
    ASSUME WorkerInv, [WorkerNext]_workerVars
    PROVE  WorkerInv'
<1> USE DEF WorkerInv
<1>1. ASSUME NEW s \in Streams, HandOver(s) \/ NoController(s) \/ OpenFrame(s) \/ AbandonHandOver(s)
      PROVE  WorkerInv'
  <2>1. CASE HandOver(s)
    BY <2>1 DEF HandOver
  <2>2. CASE NoController(s)
    BY <2>2 DEF NoController
  <2>3. CASE OpenFrame(s)
    BY <2>3 DEF OpenFrame
  <2>4. CASE AbandonHandOver(s)
    BY <2>4 DEF AbandonHandOver
  <2> QED  BY <1>1, <2>1, <2>2, <2>3, <2>4
<1>2. ASSUME NEW s \in Streams, HearDone(s) \/ GraceEnds(s) \/ FrameExpires(s) PROVE WorkerInv'
  <2>1. CASE HearDone(s)
    BY <2>1 DEF HearDone
  <2>2. CASE GraceEnds(s)
    BY <2>2 DEF GraceEnds
  <2>3. CASE FrameExpires(s)
    BY <2>3 DEF FrameExpires
  <2> QED  BY <1>2, <2>1, <2>2, <2>3
<1>3. ASSUME NEW s \in Streams, TakeStream(s) PROVE WorkerInv'
  <2>1. (saver[s] = "waiting") \in BOOLEAN
    OBVIOUS
  <2> QED  BY <1>3, <2>1 DEF TakeStream
<1>4. ASSUME NEW s \in Streams, TakeGiveUp(s) \/ Unclaimed(s) PROVE WorkerInv'
  <2>1. /\ UNCHANGED <<saver, offer, address, frame, deaths>>
        /\ giveUp' \in [Streams -> {"none", "sent", "handled"}]
        /\ Release(s)
    BY <1>4 DEF TakeGiveUp, Unclaimed
  <2>2. CASE s \in pending
    <3>1. /\ pending' = pending \ {s} /\ notice' = [notice EXCEPT ![s] = TRUE]
          /\ stream' = [stream EXCEPT ![s] = "released"]
      BY <2>1, <2>2 DEF Release
    <3> QED  BY <2>1, <2>2, <3>1
  <2>3. CASE s \notin pending
    BY <2>1, <2>3 DEF Release
  <2> QED  BY <2>2, <2>3
<1>5. ASSUME NEW s \in Streams, AnswerFrame(s) PROVE WorkerInv'
  BY <1>5 DEF AnswerFrame, Claim
<1>6. ASSUME NEW s \in Streams, StreamEnds(s) PROVE WorkerInv'
  BY <1>6 DEF StreamEnds
<1>7. CASE WorkerDies
  BY <1>7 DEF WorkerDies
<1>8. CASE UNCHANGED workerVars
  BY <1>8 DEF workerVars
<1> QED  BY <1>1, <1>2, <1>3, <1>4, <1>5, <1>6, <1>7, <1>8 DEF WorkerNext

\* A download the browser has begun is cut off by no timer and by no late message, a stream
\* its page gave up is never saved, and none stays open unclaimed (download-sw.js,
\* streamDownloadSaver.ts), however often the browser ends the worker.
THEOREM StreamsAreHandedOverOnce == WorkerSpec => []HandedOverOnce
<1>1. WorkerInit => WorkerInv
  BY DEF WorkerInit, WorkerInv
<1>2. WorkerInv /\ [WorkerNext]_workerVars => WorkerInv'
  BY WorkerStep
<1>3. WorkerInv => HandedOverOnce
  BY DEF WorkerInv, HandedOverOnce
<1> QED  BY <1>1, <1>2, <1>3, PTL DEF WorkerSpec

-----------------------------------------------------------------------------
(***************************************************************************)
(* The download page.  Of the current visit g, to the share s, at most one *)
(* load and one password check are out, the check is of that share, and a  *)
(* page that still loads has neither files nor a password form yet.  What  *)
(* is of an earlier visit can never become current again.                  *)
(***************************************************************************)
OfVisit(g, s, L, U, v) ==
    /\ v \in [files : Shares \cup {NoShare}, key : Shares \cup {NoShare},
              protection : Shares \cup {NoShare}, preview : BOOLEAN,
              error : BOOLEAN, loading : BOOLEAN, unlocking : BOOLEAN]
    /\ \A l \in L : l.gen \in 1..g /\ l = [gen |-> l.gen, step |-> l.step]
    /\ \A u \in U : u.gen \in 1..g /\ (u.gen = g => u.of = s)
    /\ \A l, m \in L : l.gen = m.gen => l = m
    /\ \A u, w \in U : u.gen = g /\ w.gen = g => u = w
    /\ v.loading => v.files = NoShare /\ v.key = NoShare /\ v.protection = NoShare /\ ~v.unlocking
    /\ {v.files, v.key, v.protection} \subseteq {s, NoShare}
    /\ v.files = v.key /\ (v.files = s => v.protection = NoShare)
    /\ v.preview => s \in Previewable
    /\ v.loading <=> \E l \in L : l.gen = g
    /\ v.unlocking <=> \E u \in U : u.gen = g

SharePageInv ==
    /\ shareOf \in Seq(Shares) /\ generation \in Nat /\ generation # 0
    /\ OfVisit(generation, shareOf[generation], loads, unlocks, view)

\* A visit starts with nothing of its own but its load.
LEMMA VisitKeepsPage ==
    ASSUME SharePageInv, NEW s \in Shares, Visit(s)
    PROVE  SharePageInv'
<1>1. /\ shareOf \in Seq(Shares) /\ generation \in Nat /\ generation # 0
      /\ OfVisit(generation, shareOf[generation], loads, unlocks, view)
  BY DEF SharePageInv
<1>2. /\ shareOf' = Append(shareOf, s) /\ view' = Blank /\ unlocks' = unlocks
      /\ loads' = loads \cup {[gen |-> generation + 1, step |-> "list"]}
  BY DEF Visit
<1>3. /\ shareOf' \in Seq(Shares) /\ generation' = generation + 1 /\ generation' \in Nat
      /\ generation' # 0 /\ shareOf'[generation'] = s
  BY <1>1, <1>2 DEF generation
<1>4. ASSUME NEW g \in Nat, g # 0, NEW t, NEW L, NEW U, NEW v, OfVisit(g, t, L, U, v)
      PROVE  OfVisit(g + 1, s, L \cup {[gen |-> g + 1, step |-> "list"]}, U, Blank)
  <2>1. \A i \in 1..g : i \in 1..(g + 1) /\ i # g + 1
    OBVIOUS
  <2>2. g + 1 \in 1..(g + 1)
    OBVIOUS
  <2> DEFINE new == [gen |-> g + 1, step |-> "list"]
  <2>3. new.gen = g + 1 /\ new = [gen |-> new.gen, step |-> new.step]
    OBVIOUS
  <2> HIDE DEF new
  <2>4. \A l \in L \cup {new} : l.gen \in 1..(g + 1) /\ l = [gen |-> l.gen, step |-> l.step]
    BY <1>4, <2>1, <2>2, <2>3 DEF OfVisit
  <2>5. \A u \in U : u.gen \in 1..(g + 1) /\ u.gen # g + 1
    BY <1>4, <2>1 DEF OfVisit
  <2>6. \A l, m \in L \cup {new} : l.gen = m.gen => l = m
    BY <1>4, <2>1, <2>3 DEF OfVisit
  <2>7. OfVisit(g + 1, s, L \cup {new}, U, Blank)
    BY <2>3, <2>4, <2>5, <2>6 DEF OfVisit, Blank, NoShare
  <2> QED  BY <2>7 DEF new
<1> QED  BY <1>1, <1>2, <1>3, <1>4 DEF SharePageInv

\* A load moves on or ends; one of an earlier visit changes nothing that is shown.
LEMMA LoadKeepsPage ==
    ASSUME SharePageInv, NEW l \in loads, LoadFails(l) \/ ListArrives(l) \/ NamesDecrypted(l)
    PROVE  SharePageInv'
<1> DEFINE s == shareOf[generation]
<1>1. /\ shareOf \in Seq(Shares) /\ generation \in Nat /\ generation # 0
      /\ OfVisit(generation, s, loads, unlocks, view)
  BY DEF SharePageInv
<1>2. UNCHANGED <<shareOf, unlocks>> /\ generation' = generation /\ s' = s /\ s \in Shares
  <2>1. UNCHANGED <<shareOf, unlocks>>
    BY DEF LoadFails, ListArrives, NamesDecrypted, LoadEnds
  <2>2. s \in Shares
    BY <1>1 DEF generation
  <2> QED  BY <2>1, <2>2 DEF generation
<1> HIDE DEF s
<1>3. CASE l.gen # generation
  <2>1. CASE loads' = loads \ {l} /\ view' = view
    <3>1. OfVisit(generation, s, loads \ {l}, unlocks, view)
      BY <1>1, <1>3 DEF OfVisit
    <3> QED  BY <1>1, <1>2, <2>1, <3>1 DEF SharePageInv, s
  <2> QED  BY <1>3, <2>1 DEF LoadFails, ListArrives, NamesDecrypted, LoadEnds, Current
<1>4. CASE l.gen = generation
  <2>1. view.loading /\ view.files = NoShare /\ view.key = NoShare /\ view.protection = NoShare
    BY <1>1, <1>4 DEF OfVisit
  <2>2. ASSUME NEW f \in {s, NoShare}, NEW p \in {s, NoShare}, NEW n \in BOOLEAN, NEW e \in BOOLEAN,
               f = s => p = NoShare, n => s \in Previewable,
               view' = [view EXCEPT !.files = f, !.key = f, !.protection = p, !.preview = n,
                                    !.error = e, !.loading = FALSE],
               loads' = loads \ {l}
        PROVE  SharePageInv'
    <3>1. OfVisit(generation, s, loads', unlocks, view')
      BY <1>1, <1>2, <1>4, <2>2 DEF OfVisit
    <3> QED  BY <1>1, <1>2, <3>1 DEF SharePageInv, s
  <2>3. CASE LoadFails(l)
    <3>1. view' = [view EXCEPT !.files = NoShare, !.key = NoShare, !.protection = NoShare,
                               !.preview = view.preview, !.error = TRUE, !.loading = FALSE]
      BY <1>1, <1>4, <2>1, <2>3 DEF LoadFails, LoadEnds, Current, OfVisit
    <3>2. loads' = loads \ {l}
      BY <2>3 DEF LoadFails, LoadEnds
    <3>3. view.preview \in BOOLEAN /\ (view.preview => s \in Previewable)
      BY <1>1 DEF OfVisit
    <3> QED  BY <2>2, <3>1, <3>2, <3>3
  <2>4. CASE NamesDecrypted(l)
    <3>1. view' = [view EXCEPT !.files = s, !.key = s, !.protection = NoShare,
                               !.preview = view.preview, !.error = view.error, !.loading = FALSE]
      BY <1>1, <1>4, <2>1, <2>4 DEF NamesDecrypted, LoadEnds, Current, OfVisit, s
    <3>2. loads' = loads \ {l}
      BY <2>4 DEF NamesDecrypted, LoadEnds
    <3>3. view.preview \in BOOLEAN /\ (view.preview => s \in Previewable) /\ view.error \in BOOLEAN
      BY <1>1 DEF OfVisit
    <3> QED  BY <2>2, <3>1, <3>2, <3>3
  <2>5. CASE ListArrives(l) /\ s \in Protected
    <3>1. view' = [view EXCEPT !.files = NoShare, !.key = NoShare, !.protection = s,
                               !.preview = (s \in Previewable), !.error = view.error, !.loading = FALSE]
      <4>1. view' = [[view EXCEPT !.preview = (s \in Previewable), !.protection = s]
                       EXCEPT !.loading = FALSE]
        BY <1>4, <2>5 DEF ListArrives, LoadEnds, Current, s
      <4> QED  BY <1>1, <2>1, <4>1 DEF OfVisit
    <3>2. loads' = loads \ {l}
      BY <1>4, <2>5 DEF ListArrives, LoadEnds, s
    <3>3. view.error \in BOOLEAN /\ (s \in Previewable) \in BOOLEAN
      BY <1>1 DEF OfVisit
    <3> QED  BY <2>2, <3>1, <3>2, <3>3
  <2>6. CASE ListArrives(l) /\ s \notin Protected
    <3>1. /\ view' = [view EXCEPT !.preview = (s \in Previewable)]
          /\ loads' = (loads \ {l}) \cup {[l EXCEPT !.step = "names"]}
      BY <1>4, <2>6 DEF ListArrives, Current, s
    <3>2. [l EXCEPT !.step = "names"] = [gen |-> l.gen, step |-> "names"]
      BY <1>1 DEF OfVisit
    <3>3. OfVisit(generation, s, loads', unlocks, view')
      BY <1>1, <1>2, <1>4, <3>1, <3>2 DEF OfVisit
    <3> QED  BY <1>1, <1>2, <3>3 DEF SharePageInv, s
  <2> QED  BY <2>3, <2>4, <2>5, <2>6
<1> QED  BY <1>3, <1>4

\* A password is checked; an answer of an earlier visit unlocks nothing.
LEMMA UnlockKeepsPage ==
    ASSUME SharePageInv,
           (\E right \in BOOLEAN : Unlock(right)) \/ (\E u \in unlocks : UnlockEnds(u))
    PROVE  SharePageInv'
<1> DEFINE s == shareOf[generation]
<1>1. /\ shareOf \in Seq(Shares) /\ generation \in Nat /\ generation # 0
      /\ OfVisit(generation, s, loads, unlocks, view)
  BY DEF SharePageInv
<1>2. UNCHANGED <<shareOf, loads>> /\ generation' = generation /\ s' = s
  BY DEF Unlock, UnlockEnds, generation
<1>3. generation \in 1..generation
  BY <1>1
<1> HIDE DEF s
<1>4. ASSUME NEW right \in BOOLEAN, Unlock(right) PROVE SharePageInv'
  <2>1. /\ view.protection # NoShare /\ ~view.unlocking /\ view' = [view EXCEPT !.unlocking = TRUE]
        /\ unlocks' = unlocks \cup {[gen |-> generation, of |-> view.protection, right |-> right]}
    BY <1>4 DEF Unlock
  <2>2. view.protection = s /\ \A u \in unlocks : u.gen # generation
    BY <1>1, <2>1 DEF OfVisit
  <2> DEFINE new == [gen |-> generation, of |-> view.protection, right |-> right]
  <2>3. new.gen = generation /\ new.of = s /\ unlocks' = unlocks \cup {new}
    BY <2>1, <2>2
  <2> HIDE DEF new
  <2>4. \A u, w \in unlocks' : u.gen = generation /\ w.gen = generation => u = w
    BY <2>2, <2>3
  <2>5. \A u \in unlocks' : u.gen \in 1..generation /\ (u.gen = generation => u.of = s)
    BY <1>1, <1>3, <2>3 DEF OfVisit
  <2>6. \E u \in unlocks' : u.gen = generation
    BY <2>3
  <2>7. view.protection # NoShare => ~view.loading
    BY <1>1 DEF OfVisit
  <2>8. OfVisit(generation, s, loads, unlocks', view')
    BY <1>1, <2>1, <2>4, <2>5, <2>6, <2>7 DEF OfVisit
  <2> QED  BY <1>1, <1>2, <2>8 DEF SharePageInv, s
<1>5. ASSUME NEW u \in unlocks, UnlockEnds(u) PROVE SharePageInv'
  <2>1. unlocks' = unlocks \ {u}
    BY <1>5 DEF UnlockEnds
  <2>2. CASE u.gen # generation
    <3>1. view' = view
      BY <1>5, <2>2 DEF UnlockEnds, Current
    <3>2. OfVisit(generation, s, loads, unlocks', view')
      BY <1>1, <2>1, <2>2, <3>1 DEF OfVisit
    <3> QED  BY <1>1, <1>2, <3>2 DEF SharePageInv, s
  <2>3. CASE u.gen = generation
    <3>1. u.of = s /\ \A w \in unlocks \ {u} : w.gen # generation
      BY <1>1, <2>3 DEF OfVisit
    <3>2. CASE u.right
      <4>1. view' = [view EXCEPT !.key = s, !.files = s, !.protection = NoShare, !.unlocking = FALSE]
        BY <1>5, <2>3, <3>1, <3>2 DEF UnlockEnds, Current
      <4>2. s \in Shares /\ ~view.loading
        BY <1>1, <1>3, <2>3 DEF OfVisit, s, generation
      <4>3. OfVisit(generation, s, loads, unlocks', view')
        BY <1>1, <2>1, <2>3, <3>1, <4>1, <4>2 DEF OfVisit
      <4> QED  BY <1>1, <1>2, <4>3 DEF SharePageInv, s
    <3>3. CASE ~u.right
      <4>1. view' = [view EXCEPT !.unlocking = FALSE]
        BY <1>5, <2>3, <3>3 DEF UnlockEnds, Current
      <4>2. OfVisit(generation, s, loads, unlocks', view')
        BY <1>1, <2>1, <2>3, <3>1, <4>1 DEF OfVisit
      <4> QED  BY <1>1, <1>2, <4>2 DEF SharePageInv, s
    <3> QED  BY <3>2, <3>3
  <2> QED  BY <2>2, <2>3
<1> QED  BY <1>4, <1>5

\* Files, key, password form, previews and spinners are of the share that is shown and of its
\* own visit, however late the answers of earlier visits come (lib/download/useSharedFiles.ts).
THEOREM PageBelongsTogether == SharePageSpec => []ShownBelongsTogether
<1>1. SharePageInit => SharePageInv
  <2> SUFFICES ASSUME SharePageInit PROVE SharePageInv
    OBVIOUS
  <2>1. PICK s \in Shares : shareOf = <<s>>
    BY DEF SharePageInit
  <2>2. shareOf \in Seq(Shares) /\ generation = 1 /\ shareOf[generation] = s
    BY <2>1 DEF generation
  <2>3. 1 \in 1..1
    OBVIOUS
  <2>4. OfVisit(1, s, loads, unlocks, view)
    BY <2>3 DEF SharePageInit, OfVisit, Blank, NoShare
  <2> QED  BY <2>2, <2>4 DEF SharePageInv
<1>2. SharePageInv /\ [SharePageNext]_shareVars => SharePageInv'
  <2> SUFFICES ASSUME SharePageInv, [SharePageNext]_shareVars PROVE SharePageInv'
    OBVIOUS
  <2>1. CASE UNCHANGED shareVars
    BY <2>1 DEF shareVars, SharePageInv, generation
  <2> QED  BY <2>1, VisitKeepsPage, LoadKeepsPage, UnlockKeepsPage DEF SharePageNext
<1>3. SharePageInv => ShownBelongsTogether
  BY DEF SharePageInv, OfVisit, ShownBelongsTogether
<1> QED  BY <1>1, <1>2, <1>3, PTL DEF SharePageSpec

-----------------------------------------------------------------------------
(***************************************************************************)
(* The administration pages.  The request made last is for the chosen tab  *)
(* and, once served, holds every confirmed action; what is on screen is as *)
(* fresh, or something is still out or shown as failed that explains it.   *)
(***************************************************************************)
Fresh == shown = Nothing \/ (shown.tab = tab /\ shown.version >= confirmed)

AdminTypes ==
    /\ page \in {"list", "accounts", "analytics"}
    /\ loading \in BOOLEAN /\ failed \in BOOLEAN /\ sequence \in Nat
    /\ version \in Nat /\ confirmed \in Nat /\ confirmed # 0 /\ version >= confirmed
    /\ acting \in [Actions -> {"idle", "asked", "served"}]

\* Of the fetches F, the last of them number n, made for tab t after version c was confirmed.
FetchesOf(F, n, t, c) ==
    /\ \A f \in F : /\ f = [id |-> f.id, tab |-> f.tab, read |-> f.read] /\ f.id \in 0..n
                    /\ f.id = n => f.tab = t
                    /\ f.id = n /\ f.read # Nothing => f.read.tab = t /\ f.read.version >= c
    /\ \A f, h \in F : f.id = h.id => f = h

AdminShows ==
    /\ page = "accounts" => /\ Fresh /\ (fetches # {} => loading) /\ (loading => ~Busy)
                            /\ \A f \in fetches : f.id = sequence
    /\ page = "analytics" => ~Busy /\ (~loading /\ ~failed => Fresh)
    /\ page = "list" => Busy \/ failed \/ Fresh \/ \E f \in fetches : f.id = sequence

AdminInv == AdminTypes /\ FetchesOf(fetches, sequence, tab, confirmed) /\ AdminShows

\* A request takes the next number, and so outdates every other.
LEMMA RequestIsLatest ==
    ASSUME NEW F, NEW n \in Nat, NEW t, NEW c, FetchesOf(F, n, t, c), NEW u, NEW d
    PROVE  /\ FetchesOf(F \cup {Fetch(n + 1, u)}, n + 1, u, d)
           /\ \E f \in F \cup {Fetch(n + 1, u)} : f.id = n + 1
           /\ F = {} => \A f \in F \cup {Fetch(n + 1, u)} : f.id = n + 1
<1> DEFINE new == Fetch(n + 1, u)
<1>1. /\ new.id = n + 1 /\ new.tab = u /\ new.read = Nothing
      /\ new = [id |-> new.id, tab |-> new.tab, read |-> new.read]
  BY DEF Fetch
<1>2. \A i \in 0..n : i \in 0..(n + 1) /\ i # n + 1
  OBVIOUS
<1>3. n + 1 \in 0..(n + 1)
  OBVIOUS
<1> HIDE DEF new
<1>4. \A f \in F : f.id \in 0..(n + 1) /\ f.id # n + 1
  BY <1>2 DEF FetchesOf
<1>5. FetchesOf(F \cup {new}, n + 1, u, d)
  BY <1>1, <1>3, <1>4 DEF FetchesOf
<1> QED  BY <1>1, <1>5 DEF new

\* A page's fetches are served, answered or lost in any order.
LEMMA FetchKeepsAdmin ==
    ASSUME AdminInv, NEW f \in fetches, Serve(f) \/ Answer(f) \/ FetchFails(f)
    PROVE  AdminInv'
<1>1. AdminTypes /\ FetchesOf(fetches, sequence, tab, confirmed) /\ AdminShows
  BY DEF AdminInv
<1>2. /\ UNCHANGED <<page, tab, acting, version, confirmed, sequence>>
      /\ (Busy' <=> Busy)
  BY DEF Serve, Answer, FetchFails, Busy
<1>3. CASE Serve(f)
  <2> DEFINE served == [f EXCEPT !.read = [tab |-> f.tab, version |-> version]]
  <2>1. /\ fetches' = (fetches \ {f}) \cup {served} /\ UNCHANGED <<shown, loading, failed>>
    BY <1>3 DEF Serve
  <2>2. /\ served = [id |-> served.id, tab |-> served.tab, read |-> served.read]
        /\ served.id = f.id /\ served.tab = f.tab
        /\ served.read.tab = f.tab /\ served.read.version = version
    BY <1>1 DEF FetchesOf
  <2> HIDE DEF served
  <2>3. FetchesOf(fetches', sequence, tab, confirmed)
    BY <1>1, <2>1, <2>2 DEF FetchesOf, AdminTypes
  <2>4. AdminShows'
    BY <1>1, <1>2, <2>1, <2>2 DEF AdminShows, Fresh
  <2>5. AdminTypes'
    BY <1>1, <1>2, <2>1 DEF AdminTypes
  <2> QED  BY <1>2, <2>3, <2>4, <2>5 DEF AdminInv
<1>4. CASE (Answer(f) \/ FetchFails(f)) /\ ~Latest(f)
  <2>1. /\ fetches' = fetches \ {f} /\ UNCHANGED <<shown, loading, failed>> /\ f.id # sequence
    BY <1>4 DEF Answer, FetchFails, Latest
  <2>2. FetchesOf(fetches', sequence, tab, confirmed)
    BY <1>1, <2>1 DEF FetchesOf
  <2>3. AdminShows'
    BY <1>1, <1>2, <2>1 DEF AdminShows, Fresh
  <2>4. AdminTypes'
    BY <1>1, <1>2, <2>1 DEF AdminTypes
  <2> QED  BY <1>2, <2>2, <2>3, <2>4 DEF AdminInv
<1>5. CASE (Answer(f) \/ FetchFails(f)) /\ Latest(f)
  <2>1. /\ fetches' = fetches \ {f} /\ loading' = FALSE /\ f.id = sequence
    BY <1>5 DEF Answer, FetchFails, Latest
  <2>2. FetchesOf(fetches', sequence, tab, confirmed)
    BY <1>1, <2>1 DEF FetchesOf
  <2>3. page = "accounts" => fetches' = {}
    BY <1>1, <2>1 DEF AdminShows, FetchesOf
  <2>4. CASE Answer(f)
    <3>1. shown' = f.read /\ failed' = FALSE /\ f.read # Nothing
      BY <1>5, <2>4 DEF Answer
    <3>2. Fresh'
      BY <1>1, <1>2, <2>1, <3>1 DEF FetchesOf, Fresh
    <3>3. AdminTypes'
      BY <1>1, <1>2, <2>1, <3>1 DEF AdminTypes
    <3>4. AdminShows'
      BY <1>1, <1>2, <2>1, <2>3, <3>1, <3>2 DEF AdminShows
    <3> QED  BY <1>2, <2>2, <3>3, <3>4 DEF AdminInv
  <2>5. CASE FetchFails(f)
    <3>1. failed' = TRUE /\ (shown' = Nothing \/ page # "accounts")
      BY <1>5, <2>5 DEF FetchFails
    <3>2. AdminTypes'
      BY <1>1, <1>2, <2>1, <3>1 DEF AdminTypes
    <3>3. AdminShows'
      BY <1>1, <1>2, <2>1, <2>3, <3>1 DEF AdminShows, Fresh
    <3> QED  BY <1>2, <2>2, <3>2, <3>3 DEF AdminInv
  <2> QED  BY <1>5, <2>4, <2>5
<1> QED  BY <1>3, <1>4, <1>5

\* The administrator asks for another tab or account.
LEMMA AskingKeepsAdmin ==
    ASSUME AdminInv, NEW t \in Tabs, SwitchTab(t) \/ Search(t)
    PROVE  AdminInv'
<1>1. AdminTypes /\ FetchesOf(fetches, sequence, tab, confirmed) /\ AdminShows
  BY DEF AdminInv
<1>2. /\ tab' = t /\ loading' = TRUE /\ sequence' = sequence + 1
      /\ fetches' = fetches \cup {Fetch(sequence + 1, t)}
      /\ UNCHANGED <<page, acting, version, confirmed>> /\ (Busy' <=> Busy)
      /\ failed' = FALSE \/ failed' = failed
  BY DEF SwitchTab, Search, Request, Busy
<1>3. sequence \in Nat
  BY <1>1 DEF AdminTypes
<1>4. FetchesOf(fetches', sequence', t, confirmed) /\ (\E f \in fetches' : f.id = sequence')
  BY <1>1, <1>2, <1>3, RequestIsLatest
<1>5. AdminTypes'
  <2>1. failed' \in BOOLEAN
    BY <1>1, <1>2, Zenon DEF AdminTypes
  <2>2. sequence + 1 \in Nat
    BY <1>3
  <2> QED  BY <1>1, <1>2, <2>1, <2>2 DEF AdminTypes
<1>6. AdminShows'
  <2>1. CASE page = "accounts"
    <3>1. shown' = Nothing /\ ~loading /\ ~Busy
      BY <2>1 DEF SwitchTab, Search
    <3>2. fetches = {}
      BY <1>1, <2>1, <3>1 DEF AdminShows
    <3>3. \A f \in fetches' : f.id = sequence'
      BY <1>1, <1>2, <1>3, <3>2, RequestIsLatest
    <3> QED  BY <1>2, <2>1, <3>1, <3>3 DEF AdminShows, Fresh
  <2>2. CASE page # "accounts"
    BY <1>1, <1>2, <1>4, <2>2 DEF AdminShows
  <2> QED  BY <2>1, <2>2
<1> QED  BY <1>2, <1>4, <1>5, <1>6 DEF AdminInv

\* An action is asked for, served, answered or lost.
LEMMA ActingKeepsAdmin ==
    ASSUME AdminInv, NEW a \in Actions,
           Act(a) \/ ServeAction(a) \/ ActionAnswers(a) \/ ActionFails(a)
    PROVE  AdminInv'
<1>1. AdminTypes /\ FetchesOf(fetches, sequence, tab, confirmed) /\ AdminShows
  BY DEF AdminInv
<1>2. \A x : acting' = [acting EXCEPT ![a] = x] => /\ acting'[a] = x
                                                   /\ \A b \in Actions : b # a => acting'[b] = acting[b]
  BY <1>1 DEF AdminTypes
<1>3. CASE Act(a)
  <2>1. /\ acting' = [acting EXCEPT ![a] = "asked"] /\ failed' = FALSE /\ ~loading
        /\ UNCHANGED <<page, tab, shown, loading, fetches, version, confirmed, sequence>>
        /\ page \in {"list", "accounts"}
    BY <1>3 DEF Act
  <2>2. Busy'
    BY <1>2, <2>1 DEF Busy
  <2>3. AdminTypes'
    BY <1>1, <2>1 DEF AdminTypes
  <2>4. AdminShows'
    BY <1>1, <2>1, <2>2 DEF AdminShows, Fresh
  <2> QED  BY <1>1, <2>1, <2>3, <2>4 DEF AdminInv
<1>4. CASE ServeAction(a)
  <2>1. /\ acting' = [acting EXCEPT ![a] = "served"] /\ version' = version + 1
        /\ UNCHANGED <<page, tab, shown, loading, failed, fetches, confirmed, sequence>>
        /\ acting[a] # "idle"
    BY <1>4 DEF ServeAction
  <2>2. Busy' /\ Busy
    BY <1>2, <2>1 DEF Busy
  <2>3. version + 1 \in Nat /\ version + 1 >= confirmed
    BY <1>1 DEF AdminTypes
  <2>4. AdminTypes'
    BY <1>1, <2>1, <2>3 DEF AdminTypes
  <2>5. AdminShows'
    BY <1>1, <2>1, <2>2 DEF AdminShows, Fresh
  <2> QED  BY <1>1, <2>1, <2>4, <2>5 DEF AdminInv
<1>5. CASE ActionFails(a)
  <2>1. /\ acting' = [acting EXCEPT ![a] = "idle"] /\ failed' = TRUE
        /\ UNCHANGED <<page, tab, shown, loading, fetches, version, confirmed, sequence>>
    BY <1>5 DEF ActionFails
  <2>2. Busy' => Busy
    BY <1>2, <2>1 DEF Busy
  <2>3. AdminTypes'
    BY <1>1, <2>1 DEF AdminTypes
  <2>4. AdminShows'
    BY <1>1, <2>1, <2>2 DEF AdminShows, Fresh
  <2> QED  BY <1>1, <2>1, <2>3, <2>4 DEF AdminInv
<1>6. CASE ActionAnswers(a)
  <2>1. /\ acting' = [acting EXCEPT ![a] = "idle"] /\ confirmed' = version
        /\ UNCHANGED <<page, tab, loading, failed, version>> /\ acting[a] # "idle"
    BY <1>6 DEF ActionAnswers
  <2>2. Busy /\ (Busy' => Busy)
    BY <1>2, <2>1 DEF Busy
  <2>3. page # "analytics" /\ page \in {"list", "accounts", "analytics"}
    BY <1>1, <2>2 DEF AdminShows, AdminTypes
  <2>4. version \in Nat /\ version # 0 /\ version >= version /\ sequence \in Nat
    BY <1>1 DEF AdminTypes
  <2>5. CASE page = "list"
    <3>1. /\ sequence' = sequence + 1 /\ fetches' = fetches \cup {Fetch(sequence + 1, tab)}
          /\ UNCHANGED shown
      BY <1>6, <2>5 DEF ActionAnswers, Request
    <3>2. FetchesOf(fetches', sequence', tab, version) /\ (\E f \in fetches' : f.id = sequence')
      BY <1>1, <2>4, <3>1, RequestIsLatest
    <3>3. AdminTypes'
      <4>1. sequence + 1 \in Nat
        BY <2>4
      <4> QED  BY <1>1, <2>1, <2>4, <3>1, <4>1 DEF AdminTypes
    <3>4. AdminShows'
      BY <2>1, <2>5, <3>2 DEF AdminShows
    <3> QED  BY <2>1, <3>2, <3>3, <3>4 DEF AdminInv
  <2>6. CASE page = "accounts"
    <3>1. shown' = [tab |-> tab, version |-> version] /\ UNCHANGED <<fetches, sequence>>
      BY <1>6, <2>6 DEF ActionAnswers
    <3>2. fetches = {}
      BY <1>1, <2>2, <2>6 DEF AdminShows
    <3>3. FetchesOf(fetches', sequence', tab', confirmed')
      BY <3>1, <3>2 DEF FetchesOf
    <3>4. Fresh'
      BY <2>1, <2>4, <3>1 DEF Fresh
    <3>5. AdminTypes'
      BY <1>1, <2>1, <2>4, <3>1 DEF AdminTypes
    <3>6. AdminShows'
      BY <1>1, <2>1, <2>2, <2>6, <3>1, <3>2, <3>4 DEF AdminShows
    <3> QED  BY <3>3, <3>5, <3>6 DEF AdminInv
  <2> QED  BY <2>3, <2>5, <2>6
<1> QED  BY <1>3, <1>4, <1>5, <1>6

\* What an administrator decides on is of the tab or account asked for, and includes every
\* action reported as done, in whatever order the answers come (lib/admin/useAdminList.ts,
\* AdminAccountsPage.tsx, AdminAnalyticsPage.tsx), for any tabs, actions and requests.
THEOREM AdministratorSeesCurrent == AdminSpec => []ShownIsCurrent
<1>1. AdminInit => AdminInv
  <2> SUFFICES ASSUME AdminInit PROVE AdminInv
    OBVIOUS
  <2>1. AdminTypes
    <3>1. (page # "accounts") \in BOOLEAN
      OBVIOUS
    <3>2. loading \in BOOLEAN
      BY <3>1, Zenon DEF AdminInit
    <3>3. /\ page \in {"list", "accounts", "analytics"} /\ failed = FALSE
          /\ acting = [a \in Actions |-> "idle"] /\ version = 1 /\ confirmed = 1 /\ sequence = 1
      BY Zenon DEF AdminInit
    <3>4. failed \in BOOLEAN /\ acting \in [Actions -> {"idle", "asked", "served"}]
      BY <3>3
    <3>5. /\ sequence \in Nat /\ version \in Nat /\ confirmed \in Nat /\ confirmed # 0
          /\ version >= confirmed
      BY <3>3
    <3> QED  BY <3>2, <3>3, <3>4, <3>5, Zenon DEF AdminTypes
  <2>2. FetchesOf(fetches, sequence, tab, confirmed)
    BY DEF AdminInit, FetchesOf, Fetch
  <2>3. AdminShows
    BY DEF AdminInit, AdminShows, Fresh, Busy
  <2> QED  BY <2>1, <2>2, <2>3 DEF AdminInv
<1>2. AdminInv /\ [AdminNext]_adminVars => AdminInv'
  <2> SUFFICES ASSUME AdminInv, [AdminNext]_adminVars PROVE AdminInv'
    OBVIOUS
  <2>1. CASE UNCHANGED adminVars
    BY <2>1 DEF adminVars, AdminInv, AdminTypes, AdminShows, Fresh, Busy
  <2> QED  BY <2>1, FetchKeepsAdmin, AskingKeepsAdmin, ActingKeepsAdmin DEF AdminNext
<1>3. AdminInv => ShownIsCurrent
  BY DEF AdminInv, AdminTypes, AdminShows, Fresh, ShownIsCurrent
<1> QED  BY <1>1, <1>2, <1>3, PTL DEF AdminSpec

-----------------------------------------------------------------------------
(***************************************************************************)
(* The upload page.  Whatever failed before, every file of the form and    *)
(* every file of its share is under the form's one key, the share keeps    *)
(* that key wrapped exactly when the page knows it, and the share that is  *)
(* being written has what the page will rely on when it is joined.         *)
(***************************************************************************)
Body == [key : Nat, whole : BOOLEAN]
Item == [name : Nat, prepared : Body, completed : BOOLEAN]
Stored == [item : Nat, name : Nat, body : Body]
Share == [wrapped : Nat, files : SUBSET Stored]
Whole(k) == [key |-> k, whole |-> TRUE]
SendRun == [pc : {"idle", "start", "chunks", "answer", "link"}, at : Nat, isNewShare : BOOLEAN,
            wrapped : BOOLEAN, to : Nat, body : Body]

UploadTypes ==
    /\ key \in Nat /\ keysMade \in Nat /\ shareId \in Nat
    /\ passwordProtected \in BOOLEAN /\ usePassword \in BOOLEAN
    /\ send \in SendRun
    /\ shares \in Seq(Share)

ShareHolds(s, k) ==
    s.wrapped \in {0, k} /\ \A f \in s.files : f.name = k /\ f.body = Whole(k)
ItemSent(s, i) == \E f \in s.files : f.item = i

\* The queue q of a form with key k, whose share is number n of S.
QueueOf(q, k, n, S) ==
    /\ q \in Seq(Item)
    /\ \A i \in DOMAIN q : /\ q[i].name = k /\ k # 0 /\ q[i].prepared \in {NoStream, Whole(k)}
                           /\ q[i].completed => n # 0 /\ ItemSent(S[n], i)

\* Its share, and p, whether the page knows that it is protected.
ShareOf(k, n, S, p) ==
    /\ n = 0 => ~p
    /\ n # 0 => n \in DOMAIN S /\ k # 0 /\ ShareHolds(S[n], k) /\ (p <=> S[n].wrapped # 0)

\* A run x of upload(), over the queue q.
SendOf(x, q, k, n, S, p) ==
    /\ x.pc # "idle" => k # 0
    /\ x.pc \in {"start", "chunks", "answer"} =>
          /\ x.at \in DOMAIN q /\ (x.wrapped => x.isNewShare) /\ (n = 0 => x.isNewShare)
          /\ n # 0 /\ x.wrapped => p
    /\ x.pc \in {"chunks", "answer"} =>
          /\ x.to \in DOMAIN S /\ x.body = Whole(k) /\ (n # 0 => x.to = n)
          /\ n = 0 => ShareHolds(S[x.to], k) /\ (S[x.to].wrapped # 0 <=> x.wrapped)
    /\ x.pc = "answer" => ItemSent(S[x.to], x.at)
    /\ x.pc = "link" => n # 0

LinkOf(u, x, k, n, p) ==
    u # NoLink => x.pc = "idle" /\ n # 0 /\ u.share = n /\ u.key = IF p THEN 0 ELSE k

UploadPageInv ==
    /\ UploadTypes
    /\ QueueOf(queue, key, shareId, shares)
    /\ ShareOf(key, shareId, shares, passwordProtected)
    /\ SendOf(send, queue, key, shareId, shares, passwordProtected)
    /\ LinkOf(shareUrl, send, key, shareId, passwordProtected)

\* Of some numbers of a finite set one is the least.
LEMMA LeastOfFinite ==
    ASSUME NEW S \in SUBSET Int, IsFiniteSet(S), S # {}
    PROVE  \E m \in S : \A d \in S : m <= d
<1> DEFINE HasMin(T) == \E m \in T : \A d \in T : m <= d
           Bad == {T \in FiniteSubsetsOf(S) : T # {} /\ ~HasMin(T)}
<1>1. ASSUME Bad # {} PROVE FALSE
  <2>1. PICK T \in Bad : \A U \in Bad : <<U, T>> \notin StrictSubsetOrdering(S)
    <3> HIDE DEF HasMin
    <3> QED  BY <1>1, FS_StrictSubsetOrderingWellFounded, WFMin
  <2>2. T \in SUBSET Int /\ IsFiniteSet(T) /\ T \in SUBSET S
    BY <2>1 DEF FiniteSubsetsOf
  <2>3. PICK x \in T : TRUE
    BY <2>1
  <2> DEFINE U == T \ {x}
  <2>4. U \in FiniteSubsetsOf(S) /\ <<U, T>> \in StrictSubsetOrdering(S)
    BY <2>2, <2>3, FS_RemoveElement DEF FiniteSubsetsOf, StrictSubsetOrdering
  <2>5. U = {} \/ HasMin(U)
    BY <2>1, <2>4
  <2>6. HasMin(T)
    <3>1. CASE U = {}
      BY <2>2, <2>3, <3>1
    <3>2. ASSUME NEW m \in U, \A d \in U : m <= d PROVE HasMin(T)
      BY <2>2, <2>3, <3>2
    <3> QED  BY <2>5, <3>1, <3>2
  <2> QED  BY <2>1, <2>6
<1> QED  BY <1>1 DEF FiniteSubsetsOf

\* A queue with a file still to be sent has a first one.
LEMMA FirstPendingIs ==
    ASSUME NEW q \in Seq(Item), Pending(q) # {}
    PROVE  FirstPending(q) \in DOMAIN q
<1>1. Len(q) \in Nat /\ Pending(q) \in SUBSET (1..Len(q)) /\ DOMAIN q = 1..Len(q)
  BY DEF Pending
<1>2. IsFiniteSet(1..Len(q))
  BY <1>1, FS_Interval
<1>3. IsFiniteSet(Pending(q)) /\ Pending(q) \in SUBSET Int
  BY <1>1, <1>2, FS_Subset
<1>4. \E m \in Pending(q) : \A d \in Pending(q) : m <= d
  BY <1>3, LeastOfFinite
<1>5. FirstPending(q) \in Pending(q)
  BY <1>4 DEF FirstPending
<1> QED  BY <1>1, <1>5

\* One item of a queue is replaced.
LEMMA ItemReplaced ==
    ASSUME NEW q \in Seq(Item), NEW i \in DOMAIN q, NEW e \in Item
    PROVE  /\ [q EXCEPT ![i] = e] \in Seq(Item) /\ DOMAIN [q EXCEPT ![i] = e] = DOMAIN q
           /\ [q EXCEPT ![i] = e][i] = e
           /\ \A j \in DOMAIN q : j # i => [q EXCEPT ![i] = e][j] = q[j]
OBVIOUS

\* Preparing, or forgetting, a file's first chunk leaves the queue one of this form and share.
LEMMA PreparedQueue ==
    ASSUME NEW k \in Nat, NEW n, NEW S, NEW q, QueueOf(q, k, n, S)
    PROVE  /\ \A i \in DOMAIN q : \A b \in {NoStream, Whole(k)} :
                 /\ QueueOf([q EXCEPT ![i].prepared = b], k, n, S)
                 /\ DOMAIN [q EXCEPT ![i].prepared = b] = DOMAIN q
           /\ QueueOf(Prepare(q, k), k, n, S) /\ DOMAIN Prepare(q, k) = DOMAIN q
<1>1. NoStream \in Body /\ Whole(k) \in Body
  BY DEF NoStream, Whole, Body
<1>2. ASSUME NEW i \in DOMAIN q, NEW b \in {NoStream, Whole(k)}
      PROVE  /\ QueueOf([q EXCEPT ![i].prepared = b], k, n, S)
             /\ DOMAIN [q EXCEPT ![i].prepared = b] = DOMAIN q
  <2> DEFINE e == [q[i] EXCEPT !.prepared = b]
             r == [q EXCEPT ![i] = e]
  <2>1. q \in Seq(Item) /\ q[i] \in Item /\ b \in Body
    BY <1>1 DEF QueueOf
  <2>2. e \in Item /\ e.name = q[i].name /\ e.prepared = b /\ e.completed = q[i].completed
    <3> DEFINE x == q[i]
    <3>1. x \in Item
      BY <2>1
    <3> HIDE DEF x
    <3>2. /\ [x EXCEPT !.prepared = b] \in Item /\ [x EXCEPT !.prepared = b].name = x.name
          /\ [x EXCEPT !.prepared = b].prepared = b /\ [x EXCEPT !.prepared = b].completed = x.completed
      BY <2>1, <3>1 DEF Item
    <3> QED  BY <3>2 DEF x
  <2>3. r \in Seq(Item) /\ DOMAIN r = DOMAIN q /\ r[i] = e /\ \A j \in DOMAIN q : j # i => r[j] = q[j]
    BY <2>1, <2>2, ItemReplaced
  <2>4. r = [q EXCEPT ![i].prepared = b]
    OBVIOUS
  <2> HIDE DEF e, r
  <2>5. QueueOf(r, k, n, S)
    BY <2>2, <2>3 DEF QueueOf
  <2> QED  BY <2>3, <2>4, <2>5
<1>3. QueueOf(Prepare(q, k), k, n, S) /\ DOMAIN Prepare(q, k) = DOMAIN q
  <2>1. CASE Prepare(q, k) = q
    BY <2>1
  <2>2. CASE /\ Pending(q) # {}
             /\ Prepare(q, k) = [q EXCEPT ![FirstPending(q)].prepared = Whole(k)]
    <3>1. FirstPending(q) \in DOMAIN q
      BY <2>2, FirstPendingIs DEF QueueOf
    <3> QED  BY <1>2, <2>2, <3>1
  <2> QED  BY <2>1, <2>2 DEF Prepare, Whole
<1> QED  BY <1>2, <1>3

\* Files are added, at once or when the drop has been read, and the form takes a key for them.
LEMMA FilesKeepPage ==
    ASSUME UploadPageInv, ~Uploading, NEW showing, NEW busy, AddFile(showing, busy),
           UNCHANGED <<shareId, usePassword, passwordProtected, send, shares>>
    PROVE  UploadPageInv'
<1>1. /\ UploadTypes
      /\ QueueOf(queue, key, shareId, shares)
      /\ ShareOf(key, shareId, shares, passwordProtected)
      /\ LinkOf(shareUrl, send, key, shareId, passwordProtected)
      /\ send.pc = "idle"
  BY DEF UploadPageInv, Uploading
<1>2. key \in Nat /\ keysMade \in Nat /\ queue \in Seq(Item)
  BY <1>1 DEF UploadTypes, QueueOf
<1>3. /\ key' \in Nat /\ keysMade' \in Nat /\ key' # 0 /\ (key # 0 => key' = key)
  <2>1. keysMade + 1 \in Nat /\ keysMade + 1 # 0
    BY <1>2
  <2> QED  BY <1>2, <2>1 DEF AddFile
<1>4. QueueOf(queue, key', shareId, shares)
  BY <1>1, <1>3 DEF QueueOf
<1> DEFINE new == [name |-> key', prepared |-> NoStream, completed |-> FALSE]
           added == Append(queue, new)
<1>5. new \in Item /\ new.name = key' /\ new.prepared = NoStream /\ new.completed = FALSE
  BY <1>3 DEF Item, Body, NoStream
<1>6. QueueOf(added, key', shareId, shares)
  <2> HIDE DEF new
  <2>1. added \in Seq(Item) /\ Len(added) = Len(queue) + 1 /\ Len(queue) \in Nat
    BY <1>2, <1>5
  <2>2. \A i \in DOMAIN added : (i \in DOMAIN queue /\ added[i] = queue[i]) \/ added[i] = new
    BY <1>2, <1>5
  <2> HIDE DEF added
  <2> QED  BY <1>3, <1>4, <1>5, <2>1, <2>2 DEF QueueOf
<1>7. QueueOf(queue', key', shareId, shares)
  <2>1. queue' \in {added, Prepare(added, key')}
    BY DEF AddFile
  <2> HIDE DEF added
  <2> QED  BY <1>3, <1>6, <2>1, PreparedQueue
<1>8. ShareOf(key', shareId, shares, passwordProtected)
  BY <1>1, <1>3 DEF ShareOf
<1>9. SendOf(send, queue', key', shareId, shares, passwordProtected)
  BY <1>1 DEF SendOf
<1>10. LinkOf(shareUrl', send, key', shareId, passwordProtected)
  <2>1. shareUrl' = NoLink \/ shareUrl' = shareUrl
    BY DEF AddFile
  <2>2. shareId # 0 => key' = key
    BY <1>1, <1>3 DEF ShareOf
  <2> QED  BY <1>1, <2>1, <2>2 DEF LinkOf
<1>11. UploadTypes'
  BY <1>1, <1>3 DEF UploadTypes
<1> QED  BY <1>7, <1>8, <1>9, <1>10, <1>11 DEF UploadPageInv

\* The form's other steps: a forgotten chunk, the password option, a run that begins or fails.
LEMMA FormKeepsPage ==
    ASSUME UploadPageInv,
           (\E i \in 1..MaxFiles : PrepareFails(i)) \/ TogglePassword \/ Upload \/ UploadFails \/ ResetForm
    PROVE  UploadPageInv'
<1>1. /\ UploadTypes
      /\ QueueOf(queue, key, shareId, shares)
      /\ ShareOf(key, shareId, shares, passwordProtected)
      /\ SendOf(send, queue, key, shareId, shares, passwordProtected)
      /\ LinkOf(shareUrl, send, key, shareId, passwordProtected)
  BY DEF UploadPageInv
<1>2. key \in Nat /\ NoStream \in {NoStream, Whole(key)}
  BY <1>1 DEF UploadTypes
<1>3. ASSUME NEW i \in 1..MaxFiles, PrepareFails(i) PROVE UploadPageInv'
  <2>1. /\ i \in DOMAIN queue /\ queue' = [queue EXCEPT ![i].prepared = NoStream]
        /\ UNCHANGED <<key, keysMade, shareId, usePassword, passwordProtected, shareUrl, send, shares>>
    BY <1>3 DEF PrepareFails
  <2>2. QueueOf(queue', key, shareId, shares) /\ DOMAIN queue' = DOMAIN queue
    BY <1>1, <1>2, <2>1, PreparedQueue
  <2>3. SendOf(send, queue', key, shareId, shares, passwordProtected)
    BY <1>1, <2>2 DEF SendOf
  <2>4. UploadTypes'
    BY <1>1, <2>1 DEF UploadTypes
  <2> QED  BY <1>1, <2>1, <2>2, <2>3, <2>4 DEF UploadPageInv
<1>4. CASE TogglePassword
  <2>1. /\ UNCHANGED <<queue, key, keysMade, shareId, passwordProtected, shareUrl, send, shares>>
        /\ usePassword' \in BOOLEAN
    BY <1>4 DEF TogglePassword
  <2>2. UploadTypes'
    BY <1>1, <2>1 DEF UploadTypes
  <2> QED  BY <1>1, <2>1, <2>2 DEF UploadPageInv
<1>5. CASE Upload
  <2>1. /\ send.pc = "idle" /\ shareUrl = NoLink /\ Pending(queue) # {} /\ queue' = Prepare(queue, key)
        /\ UNCHANGED <<key, keysMade, shareId, usePassword, passwordProtected, shareUrl, shares>>
    BY <1>5 DEF Upload, Uploading
  <2>2. QueueOf(queue', key, shareId, shares) /\ DOMAIN queue' = DOMAIN queue
    BY <1>1, <1>2, <2>1, PreparedQueue
  <2>3. FirstPending(queue) \in DOMAIN queue /\ key # 0
    BY <1>1, <2>1, FirstPendingIs DEF QueueOf
  <2>4. FirstPending(queue) \in Nat
    BY <1>1, <2>3 DEF QueueOf
  <2>5. /\ send'.pc = "start" /\ send'.at = FirstPending(queue)
        /\ send'.isNewShare <=> shareId = 0
        /\ send'.wrapped => shareId = 0
    BY <1>5 DEF Upload, NoSend
  <2>6. SendOf(send', queue', key, shareId, shares, passwordProtected)
    BY <2>2, <2>3, <2>5 DEF SendOf
  <2>7. UploadTypes'
    <3>1. send' \in SendRun
      <4>1. /\ (shareId = 0) \in BOOLEAN /\ ((shareId = 0) /\ usePassword) \in BOOLEAN
            /\ NoStream \in Body /\ 0 \in Nat
        BY DEF NoStream, Body
      <4>2. send' = [pc |-> "start", at |-> FirstPending(queue), isNewShare |-> (shareId = 0),
                     wrapped |-> (shareId = 0) /\ usePassword, to |-> 0, body |-> NoStream]
        BY <1>5 DEF Upload, NoSend
      <4> QED  BY <2>4, <4>1, <4>2 DEF SendRun
    <3> QED  BY <1>1, <2>1, <3>1 DEF UploadTypes
  <2>8. LinkOf(shareUrl, send', key, shareId, passwordProtected)
    BY <2>1 DEF LinkOf
  <2> QED  BY <1>1, <2>1, <2>2, <2>6, <2>7, <2>8 DEF UploadPageInv
<1>6. CASE UploadFails
  <2>1. /\ send' = NoSend /\ send.pc # "idle"
        /\ UNCHANGED <<queue, key, keysMade, shareId, usePassword, passwordProtected, shareUrl, shares>>
    BY <1>6 DEF UploadFails
  <2>2. SendOf(send', queue, key, shareId, shares, passwordProtected)
    BY <2>1 DEF SendOf, NoSend
  <2>3. LinkOf(shareUrl, send', key, shareId, passwordProtected)
    BY <1>1, <2>1 DEF LinkOf
  <2>4. UploadTypes'
    BY <1>1, <2>1 DEF UploadTypes, NoSend, NoStream, Body, SendRun
  <2> QED  BY <1>1, <2>1, <2>2, <2>3, <2>4 DEF UploadPageInv
<1>7. CASE ResetForm
  <2>1. /\ queue' = <<>> /\ key' = 0 /\ shareId' = 0 /\ usePassword' = FALSE
        /\ passwordProtected' = FALSE /\ shareUrl' = NoLink /\ send.pc = "idle"
        /\ UNCHANGED <<keysMade, send, shares>>
    BY <1>7 DEF ResetForm, Uploading
  <2>2. QueueOf(<<>>, 0, 0, shares)
    BY DEF QueueOf
  <2>3. /\ ShareOf(0, 0, shares, FALSE) /\ LinkOf(NoLink, send, 0, 0, FALSE)
        /\ SendOf(send, <<>>, 0, 0, shares, FALSE)
    BY <2>1 DEF ShareOf, SendOf, LinkOf
  <2>4. UploadTypes'
    BY <1>1, <2>1 DEF UploadTypes
  <2> QED  BY <2>1, <2>2, <2>3, <2>4 DEF UploadPageInv
<1> QED  BY <1>3, <1>4, <1>5, <1>6, <1>7

\* The server's part: a share is created or joined, and a file is taken into it.
LEMMA ServerKeepsPage ==
    ASSUME UploadPageInv, Start \/ Complete
    PROVE  UploadPageInv'
<1>1. /\ UploadTypes
      /\ QueueOf(queue, key, shareId, shares)
      /\ ShareOf(key, shareId, shares, passwordProtected)
      /\ SendOf(send, queue, key, shareId, shares, passwordProtected)
      /\ LinkOf(shareUrl, send, key, shareId, passwordProtected)
  BY DEF UploadPageInv
<1>2. /\ key \in Nat /\ shares \in Seq(Share) /\ queue \in Seq(Item)
      /\ NoStream \in {NoStream, Whole(key)} /\ Whole(key) \in Body
  BY <1>1 DEF UploadTypes, QueueOf, Whole, Body
<1>3. /\ send \in SendRun
      /\ Len(shares) \in Nat /\ DOMAIN shares = 1..Len(shares)
  BY <1>1, <1>2 DEF UploadTypes
<1>4. /\ UNCHANGED <<key, keysMade, shareId, usePassword, passwordProtected, shareUrl>>
      /\ send.pc # "idle" /\ key # 0 /\ shareUrl = NoLink
  <2>1. /\ UNCHANGED <<key, keysMade, shareId, usePassword, passwordProtected, shareUrl>>
        /\ send.pc # "idle"
    BY DEF Start, Complete
  <2> QED  BY <1>1, <2>1 DEF SendOf, LinkOf
<1>5. LinkOf(shareUrl, send', key, shareId, passwordProtected)
  BY <1>4 DEF LinkOf
<1>6. CASE Start
  <2>1. /\ send.pc = "start" /\ send.at \in DOMAIN queue
        /\ (send.wrapped => send.isNewShare) /\ (shareId = 0 => send.isNewShare)
        /\ shareId # 0 /\ send.wrapped => passwordProtected
    BY <1>1, <1>6 DEF Start, SendOf
  <2>2. ChunkStream(queue[send.at]) = [body |-> Whole(key), left |-> NoStream]
    <3> DEFINE p == queue[send.at].prepared
    <3>1. p \in {NoStream, Whole(key)}
      BY <1>1, <2>1 DEF QueueOf
    <3>2. NoStream.key = 0 /\ Whole(key).key # 0
      BY <1>4 DEF NoStream, Whole
    <3>3. (IF p.key # 0 THEN p ELSE Whole(key)) = Whole(key)
      BY <3>1, <3>2
    <3> QED  BY <3>3 DEF ChunkStream, Whole
  <2>3. queue' = [queue EXCEPT ![send.at].prepared = NoStream]
    BY <1>6, <2>2 DEF Start
  <2>4. QueueOf(queue', key, shareId, shares) /\ DOMAIN queue' = DOMAIN queue
    BY <1>1, <1>2, <2>1, <2>3, PreparedQueue
  <2>5. send' = [send EXCEPT !.pc = "chunks", !.to = IF shareId # 0 THEN shareId ELSE Len(shares'),
                             !.body = Whole(key)]
    BY <1>6, <2>2 DEF Start
  <2>6. /\ send'.pc = "chunks" /\ send'.at = send.at /\ send'.isNewShare = send.isNewShare
        /\ send'.wrapped = send.wrapped /\ send'.body = Whole(key)
        /\ send'.to = IF shareId # 0 THEN shareId ELSE Len(shares')
    BY <1>3, <2>5
  <2>7. ASSUME shares' \in Seq(Share)
        PROVE  UploadTypes'
    <3>1. (IF shareId # 0 THEN shareId ELSE Len(shares')) \in Nat
      BY <1>1, <2>7 DEF UploadTypes
    <3>2. send' \in SendRun
      BY <1>2, <1>3, <2>5, <3>1 DEF SendRun
    <3> QED  BY <1>1, <1>4, <2>7, <3>2 DEF UploadTypes
  <2>8. CASE shareId # 0
    <3>1. shares' = shares
      BY <1>6, <2>8 DEF Start
    <3>2. shareId \in DOMAIN shares
      BY <1>1, <2>8 DEF ShareOf
    <3>3. SendOf(send', queue', key, shareId, shares, passwordProtected)
      BY <1>4, <2>1, <2>4, <2>6, <2>8, <3>2 DEF SendOf
    <3> QED  BY <1>1, <1>2, <1>4, <1>5, <2>4, <2>7, <3>1, <3>3 DEF UploadPageInv
  <2>9. CASE shareId = 0
    <3> DEFINE new == [wrapped |-> IF send.wrapped THEN key ELSE 0, files |-> {}]
    <3>1. new \in Share /\ new.wrapped = (IF send.wrapped THEN key ELSE 0) /\ new.files = {}
      BY <1>2 DEF Share
    <3>2. shares' = Append(shares, new)
      BY <1>6, <2>9 DEF Start
    <3> HIDE DEF new
    <3>3. shares' \in Seq(Share) /\ Len(shares') \in DOMAIN shares' /\ shares'[Len(shares')] = new
      BY <1>2, <1>3, <3>1, <3>2
    <3>4. ShareHolds(new, key) /\ (new.wrapped # 0 <=> send.wrapped)
      BY <1>4, <3>1 DEF ShareHolds
    <3>5. SendOf(send', queue', key, shareId, shares', passwordProtected)
      BY <1>4, <2>1, <2>4, <2>6, <2>9, <3>3, <3>4 DEF SendOf
    <3>6. QueueOf(queue', key, shareId, shares')
      BY <2>4, <2>9 DEF QueueOf
    <3>7. ShareOf(key, shareId, shares', passwordProtected)
      BY <1>1, <2>9 DEF ShareOf
    <3> QED  BY <1>4, <1>5, <2>7, <3>3, <3>5, <3>6, <3>7 DEF UploadPageInv
  <2> QED  BY <2>8, <2>9
<1>7. CASE Complete
  <2> DEFINE new == [item |-> send.at, name |-> queue[send.at].name, body |-> send.body]
             kept == shares[send.to]
             full == [kept EXCEPT !.files = @ \cup {new}]
  <2>1. /\ send.pc = "chunks" /\ send.at \in DOMAIN queue /\ send.to \in DOMAIN shares
        /\ send.body = Whole(key) /\ queue[send.at].name = key
    BY <1>1, <1>7 DEF Complete, SendOf, QueueOf
  <2>2. new.item = send.at /\ new.name = key /\ new.body = Whole(key) /\ new \in Stored
    BY <1>2, <1>3, <2>1 DEF Stored
  <2>3. kept \in Share
    BY <1>2, <2>1
  <2>4. shares' = [shares EXCEPT ![send.to] = full] /\ UNCHANGED queue
    BY <1>7 DEF Complete
  <2> HIDE DEF new
  <2>5. full \in Share /\ full.wrapped = kept.wrapped /\ full.files = kept.files \cup {new}
    <3> HIDE DEF kept
    <3> QED  BY <2>2, <2>3 DEF Share
  <2> HIDE DEF full
  <2>6. /\ shares' \in Seq(Share) /\ DOMAIN shares' = DOMAIN shares /\ shares'[send.to] = full
        /\ \A n \in DOMAIN shares : n # send.to => shares'[n] = shares[n]
    BY <1>2, <2>1, <2>4, <2>5
  <2>7. /\ send' = [send EXCEPT !.pc = "answer"] /\ send'.pc = "answer" /\ send'.at = send.at
        /\ send'.isNewShare = send.isNewShare /\ send'.wrapped = send.wrapped
        /\ send'.to = send.to /\ send'.body = send.body
    BY <1>3, <1>7 DEF Complete
  <2>8. ItemSent(full, send.at) /\ (\A i : ItemSent(kept, i) => ItemSent(full, i))
    BY <2>2, <2>5 DEF ItemSent
  <2>9. ShareHolds(kept, key) => ShareHolds(full, key)
    BY <2>2, <2>5 DEF ShareHolds
  <2>10. shareId # 0 => shareId = send.to
    BY <1>1, <2>1 DEF SendOf
  <2>11. QueueOf(queue, key, shareId, shares')
    BY <1>1, <2>6, <2>8, <2>10 DEF QueueOf
  <2>12. ShareOf(key, shareId, shares', passwordProtected)
    BY <1>1, <2>5, <2>6, <2>9, <2>10 DEF ShareOf
  <2>13. SendOf(send', queue, key, shareId, shares', passwordProtected)
    BY <1>1, <2>1, <2>5, <2>6, <2>7, <2>8, <2>9 DEF SendOf
  <2>14. UploadTypes'
    <3>1. send' \in SendRun
      BY <1>3, <2>7 DEF SendRun
    <3> QED  BY <1>1, <1>4, <2>6, <3>1 DEF UploadTypes
  <2> QED  BY <1>4, <1>5, <2>4, <2>11, <2>12, <2>13, <2>14 DEF UploadPageInv
<1> QED  BY <1>6, <1>7

\* The page learns that a file is stored, and shows the link once all are.
LEMMA AnswersKeepPage ==
    ASSUME UploadPageInv, Completed \/ ShowLink
    PROVE  UploadPageInv'
<1>1. /\ UploadTypes
      /\ QueueOf(queue, key, shareId, shares)
      /\ ShareOf(key, shareId, shares, passwordProtected)
      /\ SendOf(send, queue, key, shareId, shares, passwordProtected)
      /\ LinkOf(shareUrl, send, key, shareId, passwordProtected)
  BY DEF UploadPageInv
<1>2. /\ key \in Nat /\ queue \in Seq(Item) /\ shares \in Seq(Share)
      /\ send \in SendRun
  BY <1>1 DEF UploadTypes, QueueOf
<1>3. CASE Completed
  <2> DEFINE x == queue[send.at]
             e == [x EXCEPT !.completed = TRUE]
             done == [queue EXCEPT ![send.at] = e]
  <2>1. /\ send.pc = "answer" /\ send.at \in DOMAIN queue /\ send.to \in DOMAIN shares /\ key # 0
        /\ ItemSent(shares[send.to], send.at) /\ (send.wrapped => send.isNewShare)
        /\ shareId # 0 => send.to = shareId /\ (send.wrapped => passwordProtected)
        /\ shareId = 0 => /\ ShareHolds(shares[send.to], key)
                          /\ (shares[send.to].wrapped # 0 <=> send.wrapped)
    BY <1>1, <1>3 DEF Completed, SendOf
  <2>2. send.to \in Nat /\ send.to # 0
    BY <1>2, <2>1
  <2>3. /\ shareId' = send.to /\ queue' = Prepare(done, key)
        /\ passwordProtected' = (passwordProtected \/ (send.isNewShare /\ send.wrapped))
        /\ UNCHANGED <<key, keysMade, usePassword, shareUrl, shares>>
    BY <1>3 DEF Completed
  <2>4. send' = IF Pending(done) = {} THEN [send EXCEPT !.pc = "link"]
                ELSE [send EXCEPT !.pc = "start", !.at = FirstPending(done)]
    BY <1>3 DEF Completed
  <2>5. x \in Item
    BY <1>2, <2>1
  <2>6. e \in Item /\ e.name = x.name /\ e.prepared = x.prepared
    <3> HIDE DEF x
    <3> QED  BY <2>5 DEF Item
  <2> HIDE DEF e
  <2>7. /\ done \in Seq(Item) /\ DOMAIN done = DOMAIN queue /\ done[send.at] = e
        /\ \A j \in DOMAIN queue : j # send.at => done[j] = queue[j]
    BY <1>2, <2>1, <2>6, ItemReplaced
  <2> HIDE DEF done
  <2>8. QueueOf(done, key, send.to, shares)
    <3>1. \A i \in DOMAIN done : /\ done[i].name = key /\ key # 0
                                 /\ done[i].prepared \in {NoStream, Whole(key)}
      BY <1>1, <2>1, <2>6, <2>7 DEF QueueOf
    <3>2. \A i \in DOMAIN done : done[i].completed => ItemSent(shares[send.to], i)
      BY <1>1, <2>1, <2>7 DEF QueueOf
    <3> QED  BY <2>2, <2>7, <3>1, <3>2 DEF QueueOf
  <2>9. QueueOf(queue', key, send.to, shares) /\ DOMAIN queue' = DOMAIN queue
    BY <1>2, <2>3, <2>7, <2>8, PreparedQueue
  <2>10. /\ passwordProtected' \in BOOLEAN
         /\ passwordProtected' <=> passwordProtected \/ send.wrapped
    BY <1>1, <2>1, <2>3, Zenon DEF UploadTypes
  <2>11. ShareOf(key, send.to, shares, passwordProtected')
    BY <1>1, <2>1, <2>2, <2>10 DEF ShareOf
  <2>12. ASSUME Pending(done) = {}
        PROVE  /\ SendOf(send', queue', key, send.to, shares, passwordProtected')
               /\ send' \in SendRun
    <3>1. send' = [send EXCEPT !.pc = "link"]
      BY <2>4, <2>12
    <3>2. send'.pc = "link"
      BY <1>2, <3>1
    <3>3. SendOf(send', queue', key, send.to, shares, passwordProtected')
      BY <2>1, <2>2, <3>2 DEF SendOf
    <3>4. send' \in SendRun
      BY <1>2, <3>1 DEF SendRun
    <3> QED  BY <3>3, <3>4
  <2>13. ASSUME Pending(done) # {}
        PROVE  /\ SendOf(send', queue', key, send.to, shares, passwordProtected')
               /\ send' \in SendRun
    <3>1. FirstPending(done) \in DOMAIN queue
      BY <2>7, <2>13, FirstPendingIs
    <3>2. FirstPending(done) \in Nat
      BY <1>2, <3>1
    <3>3. send' = [send EXCEPT !.pc = "start", !.at = FirstPending(done)]
      BY <2>4, <2>13
    <3>4. /\ send'.pc = "start" /\ send'.at = FirstPending(done)
          /\ send'.isNewShare = send.isNewShare /\ send'.wrapped = send.wrapped
      BY <1>2, <3>3
    <3>5. SendOf(send', queue', key, send.to, shares, passwordProtected')
      BY <2>1, <2>2, <2>9, <2>10, <3>1, <3>4 DEF SendOf
    <3>6. send' \in SendRun
      BY <1>2, <3>2, <3>3 DEF SendRun
    <3> QED  BY <3>5, <3>6
  <2>14. /\ SendOf(send', queue', key, send.to, shares, passwordProtected')
         /\ send' \in SendRun
    BY <2>12, <2>13
  <2>15. LinkOf(shareUrl, send', key, send.to, passwordProtected')
    BY <1>1, <2>1 DEF LinkOf
  <2>16. UploadTypes'
    BY <1>1, <2>2, <2>3, <2>10, <2>14 DEF UploadTypes
  <2> QED  BY <2>3, <2>9, <2>11, <2>14, <2>15, <2>16 DEF UploadPageInv
<1>4. CASE ShowLink
  <2>1. /\ send.pc = "link" /\ send' = NoSend
        /\ shareUrl' = [share |-> shareId, key |-> IF passwordProtected THEN 0 ELSE key]
        /\ UNCHANGED <<queue, key, keysMade, shareId, usePassword, passwordProtected, shares>>
    BY <1>4 DEF ShowLink
  <2>2. shareId # 0
    BY <1>1, <2>1 DEF SendOf
  <2>3. SendOf(send', queue, key, shareId, shares, passwordProtected)
    BY <2>1 DEF SendOf, NoSend
  <2>4. LinkOf(shareUrl', send', key, shareId, passwordProtected)
    BY <2>1, <2>2 DEF LinkOf, NoSend
  <2>5. UploadTypes'
    BY <1>1, <2>1 DEF UploadTypes, NoSend, NoStream, Body, SendRun
  <2> QED  BY <1>1, <2>1, <2>3, <2>4, <2>5 DEF UploadPageInv
<1> QED  BY <1>3, <1>4

\* The link a sender copies opens the share it names, all of it and whole, whatever failed, was
\* retried, dropped in or reset before (lib/upload/useUploadSession.tsx, lib/upload/uploadFile.ts),
\* for any numbers of files, keys and shares.
THEOREM TheLinkOpensAllFiles == UploadPageSpec => []LinkOpensAllFiles
<1>1. UploadPageInit => UploadPageInv
  <2> SUFFICES ASSUME UploadPageInit PROVE UploadPageInv
    OBVIOUS
  <2>1. UploadTypes
    <3>1. NoStream \in Body
      BY DEF NoStream, Body
    <3>2. NoSend \in SendRun
      BY <3>1 DEF NoSend, SendRun
    <3>3. shares \in Seq(Share)
      BY DEF UploadPageInit
    <3>4. key \in Nat /\ keysMade \in Nat /\ shareId \in Nat /\ send = NoSend
      BY DEF UploadPageInit
    <3>5. passwordProtected \in BOOLEAN /\ usePassword \in BOOLEAN
      BY DEF UploadPageInit
    <3> QED  BY <3>2, <3>3, <3>4, <3>5 DEF UploadTypes
  <2>2. QueueOf(queue, key, shareId, shares)
    BY DEF UploadPageInit, QueueOf
  <2>3. ShareOf(key, shareId, shares, passwordProtected)
    BY DEF UploadPageInit, ShareOf
  <2>4. SendOf(send, queue, key, shareId, shares, passwordProtected)
    BY DEF UploadPageInit, SendOf, NoSend
  <2>5. LinkOf(shareUrl, send, key, shareId, passwordProtected)
    BY DEF UploadPageInit, LinkOf
  <2> QED  BY <2>1, <2>2, <2>3, <2>4, <2>5 DEF UploadPageInv
<1>2. UploadPageInv /\ [UploadPageNext]_pageVars => UploadPageInv'
  <2> SUFFICES ASSUME UploadPageInv, [UploadPageNext]_pageVars PROVE UploadPageInv'
    OBVIOUS
  <2>1. CASE Select
    BY <2>1, FilesKeepPage DEF Select
  <2>2. CASE AddDropped /\ ~Uploading
    BY <2>2, FilesKeepPage DEF AddDropped
  <2>3. CASE DropFiles \/ (AddDropped /\ Uploading) \/ UNCHANGED pageVars
    <3>1. UNCHANGED <<queue, key, keysMade, shareId, usePassword, passwordProtected, shareUrl, send, shares>>
      BY <2>3 DEF DropFiles, AddDropped, pageVars
    <3> QED  BY <3>1 DEF UploadPageInv, UploadTypes
  <2> QED  BY <2>1, <2>2, <2>3, FormKeepsPage, ServerKeepsPage, AnswersKeepPage DEF UploadPageNext
<1>3. UploadPageInv => LinkOpensAllFiles
  <2> SUFFICES ASSUME UploadPageInv, shareUrl # NoLink PROVE LinkOpensAllFiles
    BY DEF LinkOpensAllFiles
  <2>1. shareId # 0 /\ shareUrl.share = shareId /\ shareUrl.key = IF passwordProtected THEN 0 ELSE key
    BY DEF UploadPageInv, LinkOf
  <2>2. /\ key # 0 /\ (passwordProtected <=> shares[shareId].wrapped # 0)
        /\ shares[shareId].wrapped \in {0, key}
        /\ \A f \in shares[shareId].files : f.name = key /\ f.body = Whole(key)
    BY <2>1 DEF UploadPageInv, ShareOf, ShareHolds
  <2>3. \A i \in DOMAIN queue : queue[i].completed => \E f \in shares[shareId].files : f.item = i
    BY DEF UploadPageInv, QueueOf, ItemSent
  <2> QED  BY <2>1, <2>2, <2>3 DEF LinkOpensAllFiles, Whole
<1> QED  BY <1>1, <1>2, <1>3, PTL DEF UploadPageSpec

-----------------------------------------------------------------------------
(***************************************************************************)
(* Saving.  A one-time file that a click still has to fetch has not been   *)
(* asked for, unless its answer is just being received or handed over; and *)
(* what a click for all files has not yet received is still to come.       *)
(***************************************************************************)
SaveTypes ==
    /\ job.pc \in {"idle", "pick", "ping", "folder", "fetch", "receive", "handoff"}
    /\ job.kind \in {"none", "one", "all", "preview"}
    /\ job.todo \in SUBSET All /\ job.held \in SUBSET All /\ job.gone \in BOOLEAN
    /\ job = [pc |-> job.pc, kind |-> job.kind, sink |-> job.sink, todo |-> job.todo,
              held |-> job.held, gone |-> job.gone]
    /\ requested \in [All -> Nat] /\ listed \in SUBSET All

\* The answer with the next file is there, and the file not yet ticked off.
Answered(j) == j.pc = "receive" \/ (j.pc = "handoff" /\ j.kind = "one")

\* The one-time files of the job j, of which n is the next, against the requests q.
AskedOnce(j, n, q) ==
    \A f \in OneTime : /\ q[f] <= 1
                       /\ f \in j.todo => q[f] = 0 \/ (Answered(j) /\ f = n)

\* A job for all files, listed as l, loses none without noticing.
NoneSkipped(j, l) == j.kind = "all" /\ ~j.gone => l \subseteq j.held \cup j.todo

SaveInv ==
    /\ SaveTypes
    /\ AskedOnce(job, NextFile, requested) /\ NoneSkipped(job, listed)
    /\ Answered(job) => job.todo # {}
    /\ downloaded \subseteq delivered

\* The next file is one of those still to fetch.
LEMMA NextIsToDo ==
    ASSUME SaveTypes, job.todo # {}
    PROVE  NextFile \in job.todo
<1>1. PICK T \in SUBSET All : T = job.todo
  BY DEF SaveTypes
<1>2. \A f \in All : Place(f) \in DOMAIN Files
  BY DEF All, Place
<1>3. DOMAIN Files = 1..Len(Files) /\ Len(Files) \in Nat
  BY SaveFilesAssumption
<1> DEFINE Places == {Place(f) : f \in T}
<1>4. Places \in SUBSET (1..Len(Files)) /\ Places \in SUBSET Int
  BY <1>2, <1>3
<1>5. IsFiniteSet(Places)
  <2>1. IsFiniteSet(1..Len(Files))
    BY <1>3, FS_Interval
  <2> HIDE DEF Places
  <2> QED  BY <1>4, <2>1, FS_Subset
<1>6. Places # {}
  BY <1>1
<1>7. PICK m \in Places : \A d \in Places : m <= d
  BY <1>4, <1>5, <1>6, LeastOfFinite
<1>8. PICK f \in T : m = Place(f)
  BY <1>7
<1>9. \A g \in T : Place(f) <= Place(g)
  BY <1>7, <1>8
<1>10. NextFile = CHOOSE h \in T : \A g \in T : Place(h) <= Place(g)
  BY <1>1 DEF NextFile
<1>11. NextFile \in T
  BY <1>8, <1>9, <1>10
<1> QED  BY <1>1, <1>11

\* A job that is about to fetch has asked for none of its one-time files.
LEMMA JobKeepsSaving ==
    ASSUME SaveInv, UNCHANGED <<requested, listed, delivered, downloaded>>, SaveTypes',
           job'.todo = job.todo, job'.held = job.held, job'.gone = job.gone, job'.kind = job.kind,
           \A f \in OneTime \cap job.todo : requested[f] = 0, ~Answered(job')
    PROVE  SaveInv'
BY DEF SaveInv, AskedOnce, NoneSkipped

\* A click begins with no request, and its files are those of the list.
LEMMA ClicksKeepSaving ==
    ASSUME SaveInv, \/ \E f \in All : DownloadFile(f) \/ OpenPreview(f)
                    \/ DownloadAll
    PROVE  SaveInv'
<1>1. PICK kind \in {"one", "all", "preview"}, files \in SUBSET All :
          Click(kind, files) /\ (kind = "all" => files = listed)
  BY DEF DownloadFile, OpenPreview, DownloadAll, SaveInv, SaveTypes
<1>2. /\ requested' = NoRequests /\ UNCHANGED <<listed, delivered, downloaded>>
      /\ job'.kind = kind /\ job'.todo = files /\ job'.held = {} /\ job'.gone = FALSE
      /\ job'.pc \in {"fetch", "pick", "ping"}
      /\ job' = [pc |-> job'.pc, kind |-> job'.kind, sink |-> job'.sink, todo |-> job'.todo,
                 held |-> job'.held, gone |-> job'.gone]
  BY <1>1 DEF Click, Go, NoJob
<1>3. SaveTypes'
  BY <1>1, <1>2 DEF SaveInv, SaveTypes, NoRequests
<1>4. \A f \in OneTime : requested'[f] = 0
  BY <1>2, SaveFilesAssumption DEF NoRequests, All
<1>5. AskedOnce(job, NextFile, requested)'
  BY <1>4 DEF AskedOnce
<1>6. NoneSkipped(job, listed)'
  BY <1>1, <1>2 DEF NoneSkipped
<1> QED  BY <1>2, <1>3, <1>5, <1>6 DEF SaveInv, Answered

\* A job ends without a file, or with fewer files listed.
LEMMA FailsKeepSaving ==
    ASSUME SaveInv, job' = NoJob, listed' \subseteq listed, UNCHANGED <<delivered, downloaded>>,
           requested' \in [All -> Nat], \A f \in OneTime : requested'[f] <= 1
    PROVE  SaveInv'
<1>1. SaveTypes'
  BY DEF SaveInv, SaveTypes, NoJob
<1> QED  BY <1>1 DEF SaveInv, AskedOnce, NoneSkipped, Answered, NoJob

\* The ways to the disk are tried before anything is fetched.
LEMMA WaysKeepSaving ==
    ASSUME SaveInv, PickerAnswers \/ FolderAnswers \/ PingWorker \/ RefuseTooLarge \/ ReceiveFails
    PROVE  SaveInv'
<1>1. UNCHANGED <<requested, stored>> /\ requested \in [All -> Nat]
      /\ \A f \in OneTime : requested[f] <= 1
  BY DEF SaveInv, SaveTypes, AskedOnce, PickerAnswers, FolderAnswers, PingWorker, RefuseTooLarge,
         ReceiveFails, NoFetch
<1>2. CASE job' = NoJob /\ listed' \subseteq listed /\ UNCHANGED <<delivered, downloaded>>
  BY <1>1, <1>2, FailsKeepSaving
<1>3. CASE RefuseTooLarge \/ ReceiveFails
  BY <1>2, <1>3 DEF RefuseTooLarge, ReceiveFails, Fail
<1>4. CASE job.pc \in {"pick", "folder", "ping"} /\ job' # NoJob
  <2>1. \A f \in OneTime \cap job.todo : requested[f] = 0
    BY <1>4 DEF SaveInv, AskedOnce, Answered
  <2>2. CASE PickerAnswers
    <3>1. /\ job'.pc \in {"fetch", "ping"} /\ UNCHANGED <<listed, delivered, downloaded>>
          /\ \/ job' = [job EXCEPT !.pc = "fetch", !.sink = "disk"]
             \/ job' = [job EXCEPT !.pc = "ping"]
      BY <1>4, <2>2 DEF PickerAnswers, Go, SaveInv, SaveTypes
    <3>2. /\ job'.todo = job.todo /\ job'.held = job.held /\ job'.gone = job.gone
          /\ job'.kind = job.kind /\ SaveTypes' /\ ~Answered(job')
      BY <1>1, <3>1 DEF SaveInv, SaveTypes, Answered
    <3> QED  BY <1>1, <2>1, <3>1, <3>2, JobKeepsSaving
  <2>3. CASE FolderAnswers
    <3>1. /\ job' = [job EXCEPT !.pc = "fetch", !.sink = "folder"]
          /\ UNCHANGED <<listed, delivered, downloaded>>
      BY <1>4, <2>3 DEF FolderAnswers, Go
    <3>2. /\ job'.todo = job.todo /\ job'.held = job.held /\ job'.gone = job.gone
          /\ job'.kind = job.kind /\ SaveTypes' /\ ~Answered(job')
      BY <1>1, <3>1 DEF SaveInv, SaveTypes, Answered
    <3> QED  BY <1>1, <2>1, <3>1, <3>2, JobKeepsSaving
  <2>4. CASE PingWorker
    <3>1. /\ UNCHANGED <<listed, delivered, downloaded>>
          /\ \/ job' = [job EXCEPT !.pc = "handoff", !.sink = "worker"] /\ job.kind = "all"
             \/ job' = [job EXCEPT !.pc = "fetch", !.sink = "worker"]
             \/ job' = [job EXCEPT !.pc = "fetch", !.sink = "memory"]
             \/ job' = [job EXCEPT !.pc = "folder"]
      BY <2>4 DEF PingWorker, Go, AfterWorker
    <3>2. /\ job'.todo = job.todo /\ job'.held = job.held /\ job'.gone = job.gone
          /\ job'.kind = job.kind /\ SaveTypes' /\ ~Answered(job')
      BY <1>1, <3>1 DEF SaveInv, SaveTypes, Answered
    <3> QED  BY <1>1, <2>1, <3>1, <3>2, JobKeepsSaving
  <2> QED  BY <1>3, <1>4, <2>2, <2>3, <2>4
           DEF RefuseTooLarge, ReceiveFails, Fail
<1>5. CASE job' = NoJob /\ (PickerAnswers \/ FolderAnswers \/ PingWorker)
  <2>1. UNCHANGED <<listed, delivered, downloaded>>
    BY <1>5 DEF PickerAnswers, FolderAnswers, PingWorker, Go
  <2> QED  BY <1>2, <1>5, <2>1
<1> QED  BY <1>3, <1>4, <1>5 DEF PickerAnswers, FolderAnswers, PingWorker

\* Each file is asked for when it is its turn, received, and ticked off.
LEMMA FetchesKeepSaving ==
    ASSUME SaveInv, FetchFile \/ FileGone \/ Receive
    PROVE  SaveInv'
<1>1. SaveTypes /\ AskedOnce(job, NextFile, requested) /\ NoneSkipped(job, listed)
  BY DEF SaveInv
<1>2. PICK next : next = NextFile
  OBVIOUS
<1>3. job.todo # {} => next \in job.todo /\ next \in All
  BY <1>1, <1>2, NextIsToDo DEF SaveTypes
<1>4. ASSUME job.pc = "fetch", job.todo # {}, requested' = [requested EXCEPT ![next] = @ + 1]
      PROVE  /\ requested' \in [All -> Nat]
             /\ \A f \in OneTime : requested'[f] <= 1
             /\ \A f \in OneTime \cap job.todo : f # next => requested'[f] = 0
  <2>1. requested \in [All -> Nat] /\ OneTime \subseteq All
    BY <1>1, SaveFilesAssumption DEF SaveTypes, All
  <2>2. \A f \in OneTime : requested[f] <= 1 /\ (f \in job.todo => requested[f] = 0)
    BY <1>1, <1>4 DEF AskedOnce, Answered
  <2>3. \A f \in All : requested'[f] = IF f = next THEN requested[f] + 1 ELSE requested[f]
    BY <1>4, <2>1
  <2>4. requested' \in [All -> Nat]
    BY <1>3, <1>4, <2>1
  <2> QED  BY <1>3, <1>4, <2>1, <2>2, <2>3, <2>4
<1>5. CASE FetchFile
  <2>1. /\ job.pc = "fetch" /\ job.todo # {} /\ UNCHANGED <<listed, delivered, downloaded>>
        /\ requested' = [requested EXCEPT ![next] = @ + 1]
        /\ job' = [job EXCEPT !.pc = IF job.kind = "one" /\ job.sink = "worker"
                                     THEN "handoff" ELSE "receive"]
    BY <1>2, <1>5 DEF FetchFile, Go
  <2>2. /\ Answered(job') /\ job'.todo = job.todo /\ job'.held = job.held /\ job'.gone = job.gone
        /\ job'.kind = job.kind /\ SaveTypes'
    BY <1>1, <1>4, <2>1 DEF SaveTypes, Answered
  <2>3. NextFile' = next
    BY <1>2, <2>2 DEF NextFile
  <2>4. AskedOnce(job', next, requested')
    BY <1>4, <2>1, <2>2 DEF AskedOnce
  <2> QED  BY <1>1, <2>1, <2>2, <2>3, <2>4 DEF SaveInv, NoneSkipped
<1>6. CASE FileGone
  <2>1. /\ job.pc = "fetch" /\ job.todo # {}
        /\ requested' = [requested EXCEPT ![next] = @ + 1]
        /\ UNCHANGED <<delivered, downloaded>> /\ listed' = listed \ {next}
        /\ \/ job' = NoJob
           \/ job' = [job EXCEPT !.todo = @ \ {next}, !.gone = TRUE]
    BY <1>2, <1>6 DEF FileGone, Fail
  <2>2. CASE job' = NoJob
    BY <1>4, <2>1, <2>2, FailsKeepSaving
  <2>3. CASE job' = [job EXCEPT !.todo = @ \ {next}, !.gone = TRUE]
    <3>1. job'.todo = job.todo \ {next} /\ job'.gone /\ SaveTypes'
      BY <1>1, <1>4, <2>1, <2>3 DEF SaveTypes
    <3>2. AskedOnce(job', NextFile', requested')
      BY <1>4, <2>1, <3>1 DEF AskedOnce
    <3>3. ~Answered(job')
      BY <1>1, <2>1, <2>3 DEF SaveTypes, Answered
    <3> QED  BY <2>1, <3>1, <3>2, <3>3 DEF SaveInv, NoneSkipped
  <2> QED  BY <2>1, <2>2, <2>3
<1>7. CASE Receive
  <2>1. /\ job.pc = "receive" /\ UNCHANGED <<listed, downloaded, requested>>
        /\ job' = [job EXCEPT !.pc = "fetch", !.todo = @ \ {next}, !.held = @ \cup {next}]
        /\ delivered \subseteq delivered'
    BY <1>2, <1>7 DEF Receive, NoFetch
  <2>2. job.todo # {}
    BY <2>1 DEF SaveInv, Answered
  <2>3. /\ job'.todo = job.todo \ {next} /\ job'.held = job.held \cup {next}
        /\ job'.gone = job.gone /\ job'.kind = job.kind /\ SaveTypes' /\ ~Answered(job')
    BY <1>1, <1>3, <2>1, <2>2 DEF SaveTypes, Answered
  <2>4. AskedOnce(job', NextFile', requested')
    BY <1>1, <1>2, <2>1, <2>3 DEF AskedOnce
  <2>5. NoneSkipped(job', listed')
    BY <1>1, <2>1, <2>3 DEF NoneSkipped
  <2> QED  BY <2>1, <2>3, <2>4, <2>5 DEF SaveInv
<1> QED  BY <1>5, <1>6, <1>7

\* A stream is taken by the worker, or refused; only what may be fetched again is.
LEMMA HandOffsKeepSaving ==
    ASSUME SaveInv, HandOff \/ HandOffFails
    PROVE  SaveInv'
<1>1. /\ SaveTypes /\ job.pc = "handoff" /\ UNCHANGED <<requested, stored>>
      /\ requested \in [All -> Nat] /\ \A f \in OneTime : requested[f] <= 1
  BY DEF SaveInv, SaveTypes, AskedOnce, HandOff, HandOffFails, NoFetch
<1>2. PICK next : next = NextFile
  OBVIOUS
<1>3. CASE \/ job' = [job EXCEPT !.pc = "fetch"] \/ job' = [job EXCEPT !.pc = "folder"]
           \/ job' = [job EXCEPT !.pc = "fetch", !.sink = "memory"]
  <2>1. /\ job'.todo = job.todo /\ job'.held = job.held /\ job'.gone = job.gone
        /\ job'.kind = job.kind /\ SaveTypes' /\ job' # NoJob /\ ~Answered(job')
        /\ UNCHANGED <<listed, delivered, downloaded>>
        /\ job.kind = "all" \/ MayRefetch(next)
    <3>1. job'.pc \in {"fetch", "folder"}
      BY <1>1, <1>3 DEF SaveTypes
    <3>2. job'.pc \in {"fetch", "folder"} /\ job' # NoJob
      BY <3>1 DEF NoJob
    <3>3. /\ UNCHANGED <<listed, delivered, downloaded>>
          /\ job.kind = "all" \/ MayRefetch(next)
      BY <1>2, <3>2 DEF HandOff, HandOffFails, Go, Fail
    <3> QED  BY <1>1, <1>3, <3>2, <3>3 DEF SaveTypes, Answered
  <2>2. \A f \in OneTime \cap job.todo : requested[f] = 0
    BY <1>1, <1>2, <2>1 DEF SaveInv, AskedOnce, Answered, MayRefetch
  <2> QED  BY <1>1, <2>1, <2>2, JobKeepsSaving
<1>4. CASE job' = NoJob /\ listed' = listed
  <2>1. SaveTypes'
    BY <1>1, <1>4 DEF SaveTypes, NoJob
  <2>2. downloaded' \subseteq delivered'
    <3>1. \/ UNCHANGED <<delivered, downloaded>>
          \/ delivered' = delivered \cup {next} /\ downloaded' = downloaded \cup {next}
      BY <1>2 DEF HandOff, HandOffFails, Go, Fail
    <3> QED  BY <3>1 DEF SaveInv
  <2> QED  BY <1>1, <1>4, <2>1, <2>2 DEF SaveInv, AskedOnce, NoneSkipped, Answered, NoJob
<1> QED  BY <1>3, <1>4 DEF HandOff, HandOffFails, Go, Fail, AfterWorker

\* A job for all files that missed none has received every file of the list when it ends.
LEMMA FinishKeepsSaving ==
    ASSUME SaveInv, Finish
    PROVE  SaveInv'
<1>1. /\ job' = NoJob /\ listed' \subseteq listed /\ requested' = requested
      /\ requested \in [All -> Nat] /\ \A f \in OneTime : requested[f] <= 1
  BY DEF SaveInv, SaveTypes, AskedOnce, Finish, Fail, NoFetch
<1>2. SaveTypes'
  BY <1>1 DEF SaveInv, SaveTypes, NoJob
<1>3. downloaded' \subseteq delivered'
  <2>1. job.todo = {} /\ NoneSkipped(job, listed) /\ downloaded \subseteq delivered
    BY DEF SaveInv, Finish
  <2>2. job.kind = "all" /\ ~job.gone => listed \subseteq job.held
    BY <2>1 DEF NoneSkipped
  <2> QED  BY <2>1, <2>2 DEF Finish, Fail
<1> QED  BY <1>1, <1>2, <1>3 DEF SaveInv, AskedOnce, NoneSkipped, Answered, NoJob

\* Whatever the browser offers, the worker does and other visitors take, a click asks for a
\* one-time file at most once, and what the page shows as downloaded was received or taken over
\* (saveFile.ts, downloadAll.ts, useDownloadActions.ts).
THEOREM ClicksAskOnce == SaveSpec => []OneRequestPerClick
<1>1. SaveInit => SaveInv
  <2> SUFFICES ASSUME SaveInit PROVE SaveInv
    OBVIOUS
  <2>1. \A f \in OneTime : requested[f] = 0
    BY SaveFilesAssumption DEF SaveInit, NoRequests, All
  <2>2. SaveTypes
    BY DEF SaveInit, SaveTypes, NoJob, NoRequests
  <2> QED  BY <2>1, <2>2 DEF SaveInit, SaveInv, AskedOnce, NoneSkipped, Answered, NoJob
<1>2. SaveInv /\ [SaveNext]_saveVars => SaveInv'
  <2> SUFFICES ASSUME SaveInv, [SaveNext]_saveVars PROVE SaveInv'
    OBVIOUS
  <2>1. CASE UNCHANGED saveVars \/ WorkerSwitches \/ \E f \in All : FileVanishes(f)
    <3>1. UNCHANGED <<listed, job, requested, delivered, downloaded>>
      BY <2>1 DEF saveVars, WorkerSwitches, FileVanishes
    <3> QED  BY <3>1 DEF SaveInv, SaveTypes, NextFile
  <2> QED  BY <2>1, ClicksKeepSaving, WaysKeepSaving, FetchesKeepSaving, HandOffsKeepSaving,
              FinishKeepsSaving DEF SaveNext
<1>3. SaveInv => OneRequestPerClick
  BY DEF SaveInv, AskedOnce, OneRequestPerClick
<1> QED  BY <1>1, <1>2, <1>3, PTL DEF SaveSpec

-----------------------------------------------------------------------------
(***************************************************************************)
(* The public forms.  An answer on its way tells what the server has done, *)
(* a code somebody was given opens the account or was used up, and a page  *)
(* is sending exactly while its handler runs, or it is being left.         *)
(***************************************************************************)
FormsTypes ==
    /\ form \in [Visitors -> FormKinds]
    /\ stage \in [Visitors -> {"form", "otp", "setup", "done"}]
    /\ submitting \in [Visitors -> BOOLEAN] /\ resolver \in [Visitors -> BOOLEAN]
    /\ run \in [Visitors -> {"none", "widget", "challenge", "posted", "resetting", "changing",
                             "device", "answered"}]
    /\ call \in [Visitors -> {"form", "otp", "passkey", "cancel"}]
    /\ typed \in [Visitors -> Nat] /\ codeShown \in [Visitors -> Nat]
    /\ answer \in [Visitors -> [kind : {"refused", "accepted", "otp"}, code : Nat]]
    /\ code \in Nat /\ minted \in Nat

\* A code somebody was given is the account's, or was used up.
GivenCode(c) == c # NoCode => c = code \/ c \in spent

ToldTheTruth(v) ==
    /\ form[v] \in Messages /\ stage[v] = "done" => v \in messages
    /\ form[v] = "security" /\ stage[v] = "done" => v \in changed
    /\ run[v] = "answered" /\ form[v] \in Messages /\ answer[v] # Refused => v \in messages
    /\ run[v] = "answered" /\ form[v] = "security" /\ answer[v] = Accepted
          /\ call[v] # "cancel" => v \in changed
    /\ GivenCode(codeShown[v]) /\ GivenCode(answer[v].code)

NeverStuck(v) ==
    /\ submitting[v] <=> run[v] # "none" \/ (form[v] = "login" /\ stage[v] = "done")
    /\ form[v] = "login" /\ stage[v] = "done" => run[v] = "none"
    /\ run[v] = "challenge" <=> resolver[v]
    /\ run[v] = "changing" => form[v] = "security"
    /\ run[v] = "resetting" => form[v] = "recover"

FormsInv == FormsTypes /\ \A v \in Visitors : ToldTheTruth(v) /\ NeverStuck(v)

\* A visitor submits a form, cancels a change or goes back to the password.
LEMMA SubmitsKeepForms ==
    ASSUME FormsInv, NEW v \in Visitors,
           \/ SubmitReport(v) \/ SubmitClaim(v) \/ SubmitContact(v) \/ SubmitSignup(v)
           \/ SubmitReauth(v) \/ PasskeyReauth(v) \/ SubmitOtp(v) \/ CancelChange(v)
           \/ SubmitRecover(v) \/ SubmitLogin(v) \/ PasskeyLogin(v) \/ BackToPassword(v)
    PROVE  FormsInv'
<1>1. ASSUME NEW request \in {"form", "otp", "passkey"}, NEW entry \in Nat, Begin(v, request, entry)
      PROVE  FormsInv'
  <2>1. FormsTypes'
    BY <1>1 DEF FormsInv, FormsTypes, Begin, NeedsToken, widgetSide, serverSide
  <2>2. \A u \in Visitors : NeverStuck(u)'
    BY <1>1 DEF FormsInv, FormsTypes, Begin, NeedsToken, widgetSide, NeverStuck
  <2>3. \A u \in Visitors : ToldTheTruth(u)'
    BY <1>1 DEF FormsInv, FormsTypes, Begin, NeedsToken, serverSide, ToldTheTruth, NeverStuck, GivenCode
  <2> QED  BY <2>1, <2>2, <2>3 DEF FormsInv
<1>2. CASE CancelChange(v)
  <2>1. FormsTypes'
    BY <1>2 DEF FormsInv, FormsTypes, CancelChange, widgetSide, serverSide
  <2>2. \A u \in Visitors : NeverStuck(u)'
    BY <1>2 DEF FormsInv, FormsTypes, CancelChange, widgetSide, NeverStuck
  <2>3. \A u \in Visitors : ToldTheTruth(u)'
    BY <1>2 DEF FormsInv, FormsTypes, CancelChange, serverSide, ToldTheTruth, NeverStuck, GivenCode,
                Messages
  <2> QED  BY <2>1, <2>2, <2>3 DEF FormsInv
<1>3. CASE BackToPassword(v)
  <2>1. FormsTypes'
    BY <1>3 DEF FormsInv, FormsTypes, BackToPassword, widgetSide, serverSide
  <2>2. \A u \in Visitors : NeverStuck(u)'
    BY <1>3 DEF FormsInv, FormsTypes, BackToPassword, widgetSide, NeverStuck
  <2>3. \A u \in Visitors : ToldTheTruth(u)'
    BY <1>3 DEF FormsInv, FormsTypes, BackToPassword, serverSide, ToldTheTruth, GivenCode
  <2> QED  BY <2>1, <2>2, <2>3 DEF FormsInv
<1>4. NoCode \in Nat /\ NoCode..minted \subseteq Nat
  BY DEF FormsInv, FormsTypes, NoCode
<1> QED  BY <1>1, <1>2, <1>3, <1>4
         DEF SubmitReport, SubmitClaim, SubmitContact, SubmitSignup, SubmitReauth, PasskeyReauth,
             SubmitOtp, SubmitRecover, SubmitLogin, PasskeyLogin

\* The widget's script, tokens and errors, and the handler's catch.
LEMMA WidgetKeepsForms ==
    ASSUME FormsInv, NEW v \in Visitors,
           ScriptLoads(v) \/ Execute(v) \/ NoWidget(v) \/ TokenArrives(v) \/ ChallengeFails(v) \/ Rejected(v)
    PROVE  FormsInv'
<1>1. CASE ScriptLoads(v)
  BY <1>1 DEF FormsInv, FormsTypes, ScriptLoads, pageSide, serverSide, NeverStuck, ToldTheTruth, GivenCode
<1>2. CASE Execute(v)
  <2>1. FormsTypes'
    BY <1>2 DEF FormsInv, FormsTypes, Execute, pageSide, serverSide
  <2>2. \A u \in Visitors : NeverStuck(u)'
    BY <1>2 DEF FormsInv, FormsTypes, Execute, pageSide, NeverStuck
  <2>3. \A u \in Visitors : ToldTheTruth(u)'
    BY <1>2 DEF FormsInv, FormsTypes, Execute, pageSide, serverSide, ToldTheTruth, GivenCode
  <2> QED  BY <2>1, <2>2, <2>3 DEF FormsInv
<1>3. CASE TokenArrives(v)
  <2>1. FormsTypes'
    BY <1>3 DEF FormsInv, FormsTypes, TokenArrives, pageSide, serverSide
  <2>2. \A u \in Visitors : NeverStuck(u)'
    BY <1>3 DEF FormsInv, FormsTypes, TokenArrives, pageSide, NeverStuck
  <2>3. \A u \in Visitors : ToldTheTruth(u)'
    BY <1>3 DEF FormsInv, FormsTypes, TokenArrives, pageSide, serverSide, ToldTheTruth, GivenCode
  <2> QED  BY <2>1, <2>2, <2>3 DEF FormsInv
<1>4. CASE NoWidget(v) \/ Rejected(v)
  <2>1. FormsTypes'
    BY <1>4 DEF FormsInv, FormsTypes, NoWidget, Rejected, ShowError, widgetSide, serverSide
  <2>2. \A u \in Visitors : NeverStuck(u)'
    BY <1>4 DEF FormsInv, FormsTypes, NoWidget, Rejected, ShowError, widgetSide, NeverStuck
  <2>3. \A u \in Visitors : ToldTheTruth(u)'
    BY <1>4 DEF FormsInv, FormsTypes, NoWidget, Rejected, ShowError, serverSide, ToldTheTruth, GivenCode
  <2> QED  BY <2>1, <2>2, <2>3 DEF FormsInv
<1>5. CASE ChallengeFails(v)
  <2>1. FormsTypes'
    BY <1>5 DEF FormsInv, FormsTypes, ChallengeFails, ShowError, serverSide
  <2>2. \A u \in Visitors : NeverStuck(u)'
    BY <1>5 DEF FormsInv, FormsTypes, ChallengeFails, ShowError, NeverStuck
  <2>3. \A u \in Visitors : ToldTheTruth(u)'
    BY <1>5 DEF FormsInv, FormsTypes, ChallengeFails, ShowError, serverSide, ToldTheTruth, GivenCode
  <2> QED  BY <2>1, <2>2, <2>3 DEF FormsInv
<1> QED  BY <1>1, <1>2, <1>3, <1>4, <1>5

\* A route responds with what it has done, and has undone nothing anybody was told.
LEMMA RespondKeepsForms ==
    ASSUME FormsInv, NEW v \in Visitors, run[v] \in {"posted", "resetting", "changing", "device"},
           NEW reply \in [kind : {"refused", "accepted", "otp"}, code : Nat], Respond(v, reply),
           code' \in Nat, minted' \in Nat, messages \subseteq messages', changed \subseteq changed',
           \A c \in Nat : GivenCode(c) => GivenCode(c)',
           GivenCode(reply.code)',
           form[v] \in Messages /\ reply # Refused => v \in messages',
           form[v] = "security" /\ reply = Accepted /\ call[v] # "cancel" => v \in changed'
    PROVE  FormsInv'
<1>1. FormsTypes'
  BY DEF FormsInv, FormsTypes, Respond, pageSide, widgetSide
<1>2. \A u \in Visitors : NeverStuck(u)'
  BY DEF FormsInv, FormsTypes, Respond, pageSide, widgetSide, NeverStuck
<1>3. \A u \in Visitors : ToldTheTruth(u)'
  <2> SUFFICES ASSUME NEW u \in Visitors PROVE ToldTheTruth(u)'
    OBVIOUS
  <2>1. /\ form' = form /\ stage' = stage /\ call' = call /\ codeShown' = codeShown
        /\ run'[v] = "answered" /\ answer'[v] = reply
        /\ u # v => run'[u] = run[u] /\ answer'[u] = answer[u]
    BY DEF FormsInv, FormsTypes, Respond, pageSide, widgetSide
  <2>2. codeShown[u] \in Nat /\ answer[u].code \in Nat /\ ToldTheTruth(u)
    BY DEF FormsInv, FormsTypes
  <2>3. GivenCode(codeShown[u])' /\ GivenCode(answer[u].code)'
    <3>1. \A c \in Nat : GivenCode(c) => (c # NoCode => c = code' \/ c \in spent')
      BY DEF GivenCode
    <3> QED  BY <2>1, <2>2, <3>1 DEF GivenCode, ToldTheTruth
  <2> QED  BY <2>1, <2>2, <2>3 DEF ToldTheTruth
<1> QED  BY <1>1, <1>2, <1>3 DEF FormsInv

\* A route, or the device, passes the request on.
LEMMA PassingKeepsForms ==
    ASSUME FormsInv, NEW v \in Visitors, run[v] \in {"posted", "device"},
           NEW r \in {"resetting", "changing", "device"}, run' = [run EXCEPT ![v] = r],
           r = "changing" => form[v] = "security", r = "resetting" => form[v] = "recover",
           UNCHANGED <<pageSide, call, widgetSide, answer, serverSide>>
    PROVE  FormsInv'
<1>1. FormsTypes'
  BY DEF FormsInv, FormsTypes, pageSide, widgetSide, serverSide
<1>2. \A u \in Visitors : NeverStuck(u)'
  BY DEF FormsInv, FormsTypes, pageSide, widgetSide, NeverStuck
<1>3. \A u \in Visitors : ToldTheTruth(u)'
  BY DEF FormsInv, FormsTypes, pageSide, serverSide, ToldTheTruth, GivenCode
<1> QED  BY <1>1, <1>2, <1>3 DEF FormsInv

\* The routes that keep the account's recovery code.
LEMMA RoutesKeepForms ==
    ASSUME FormsInv, NEW v \in Visitors,
           \/ TokenRefused(v) \/ RateLimited(v) \/ PostReport(v) \/ PostContact(v) \/ RecoverRead(v)
           \/ RecoverOvertaken(v) \/ PostLogin(v) \/ PostSecurity(v) \/ ExecuteAction(v) \/ DeviceAnswers(v)
    PROVE  FormsInv'
<1> DEFINE Replies == [kind : {"refused", "accepted", "otp"}, code : Nat]
<1>1. /\ Refused \in Replies /\ Refused.kind = "refused" /\ Refused.code = NoCode
      /\ Accepted \in Replies /\ Accepted.kind = "accepted" /\ Accepted.code = NoCode
      /\ AskOtp \in Replies /\ AskOtp.kind = "otp" /\ AskOtp.code = NoCode
  BY DEF Refused, Accepted, AskOtp, Reply, NoCode
<1>2. FormsTypes
  BY DEF FormsInv
<1>3. ASSUME UNCHANGED <<code, minted, spent>>
      PROVE  /\ code' \in Nat /\ minted' \in Nat /\ GivenCode(NoCode)'
             /\ \A c \in Nat : GivenCode(c) => GivenCode(c)'
  BY <1>2, <1>3 DEF FormsTypes, GivenCode
<1>4. ASSUME run[v] \in {"posted", "resetting", "changing", "device"},
             Respond(v, Refused), UNCHANGED serverSide
      PROVE  FormsInv'
  BY <1>1, <1>3, <1>4, RespondKeepsForms DEF serverSide
<1>5. ASSUME run[v] \in {"posted", "device"}, form[v] = "login", NEW reply \in {Refused, Accepted, AskOtp},
             Respond(v, reply), UNCHANGED serverSide
      PROVE  FormsInv'
  <2>1. reply \in Replies /\ reply.code = NoCode /\ form[v] \notin Messages /\ form[v] # "security"
    BY <1>1, <1>5 DEF Messages
  <2> QED  BY <1>3, <1>5, <2>1, RespondKeepsForms DEF serverSide
<1>6. CASE TokenRefused(v) \/ RateLimited(v) \/ RecoverOvertaken(v)
  BY <1>4, <1>6 DEF TokenRefused, RateLimited, RecoverOvertaken
<1>7. CASE PostReport(v) \/ PostContact(v)
  <2>1. run[v] = "posted" /\ form[v] \in Messages /\ form[v] # "security" /\ StoreMessage(v)
    BY <1>7 DEF PostReport, PostContact, Messages
  <2>2. CASE /\ Respond(v, Accepted) /\ messages' = messages \cup {v}
             /\ UNCHANGED <<changed, code, minted, spent>>
    BY <1>1, <1>3, <2>1, <2>2, RespondKeepsForms
  <2> QED  BY <1>4, <2>1, <2>2 DEF StoreMessage
<1>8. CASE RecoverRead(v)
  <2>1. CASE /\ run' = [run EXCEPT ![v] = "resetting"]
             /\ UNCHANGED <<pageSide, call, widgetSide, answer>>
    BY <1>8, <2>1, PassingKeepsForms DEF RecoverRead
  <2> QED  BY <1>4, <1>8, <2>1 DEF RecoverRead
<1>9. CASE PostLogin(v)
  <2>1. CASE /\ run' = [run EXCEPT ![v] = "device"]
             /\ UNCHANGED <<pageSide, call, widgetSide, answer>>
    BY <1>9, <2>1, PassingKeepsForms DEF PostLogin
  <2> QED  BY <1>5, <1>9, <2>1 DEF PostLogin
<1>10. CASE PostSecurity(v)
  <2>1. CASE /\ call[v] \in {"form", "passkey"}
             /\ run' = [run EXCEPT ![v] = IF call[v] = "form" THEN "changing" ELSE "device"]
             /\ UNCHANGED <<pageSide, call, widgetSide, answer, serverSide>>
    <3>1. run[v] = "posted" /\ form[v] = "security"
      BY <1>10 DEF PostSecurity
    <3>2. CASE call[v] = "form"
      BY <2>1, <3>1, <3>2, PassingKeepsForms
    <3>3. CASE call[v] # "form"
      BY <2>1, <3>1, <3>3, PassingKeepsForms
    <3> QED  BY <3>2, <3>3
  <2>2. CASE /\ call[v] = "otp" /\ changed' = changed \cup {v} /\ Respond(v, Accepted)
             /\ UNCHANGED <<messages, code, minted, spent>>
    BY <1>1, <1>3, <1>10, <2>2, RespondKeepsForms DEF PostSecurity, Messages
  <2>3. CASE call[v] = "cancel" /\ Respond(v, Accepted) /\ UNCHANGED serverSide
    BY <1>1, <1>3, <1>10, <2>3, RespondKeepsForms DEF PostSecurity, Messages, serverSide
  <2> QED  BY <1>4, <1>10, <2>1, <2>2, <2>3 DEF PostSecurity
<1>11. CASE ExecuteAction(v)
  <2>1. run[v] = "changing"
    BY <1>11 DEF ExecuteAction
  <2>2. form[v] = "security" /\ form[v] \notin Messages
    BY <2>1 DEF FormsInv, NeverStuck, Messages
  <2>3. CASE /\ Respond(v, Accepted) /\ changed' = changed \cup {v}
             /\ UNCHANGED <<messages, code, minted, spent>>
    BY <1>1, <1>3, <2>1, <2>3, <2>2, RespondKeepsForms
  <2>4. CASE Respond(v, AskOtp) /\ UNCHANGED serverSide
    BY <1>1, <1>3, <2>1, <2>2, <2>4, RespondKeepsForms DEF serverSide
  <2> QED  BY <1>4, <1>11, <2>1, <2>3, <2>4 DEF ExecuteAction
<1>12. CASE DeviceAnswers(v)
  <2>1. run[v] = "device" /\ UNCHANGED serverSide
    BY <1>12 DEF DeviceAnswers
  <2>2. CASE /\ form[v] = "security" /\ run' = [run EXCEPT ![v] = "changing"]
             /\ UNCHANGED <<pageSide, call, widgetSide, answer>>
    BY <2>1, <2>2, PassingKeepsForms
  <2>3. CASE ShowError(v) /\ UNCHANGED <<call, widgetSide, answer>>
    <3>1. FormsTypes'
      BY <2>1, <2>3 DEF FormsInv, FormsTypes, ShowError, widgetSide, serverSide
    <3>2. \A u \in Visitors : NeverStuck(u)'
      BY <2>1, <2>3 DEF FormsInv, FormsTypes, ShowError, widgetSide, NeverStuck
    <3>3. \A u \in Visitors : ToldTheTruth(u)'
      BY <2>1, <2>3 DEF FormsInv, FormsTypes, ShowError, serverSide, ToldTheTruth, GivenCode
    <3> QED  BY <3>1, <3>2, <3>3 DEF FormsInv
  <2> QED  BY <1>4, <1>5, <1>12, <2>1, <2>2, <2>3 DEF DeviceAnswers
<1> QED  BY <1>6, <1>7, <1>8, <1>9, <1>10, <1>11, <1>12

\* An account is opened, or recovered with the code its holder typed.
LEMMA CodesKeepForms ==
    ASSUME FormsInv, NEW v \in Visitors, PostSignup(v) \/ RecoverWrite(v)
    PROVE  FormsInv'
<1> DEFINE Replies == [kind : {"refused", "accepted", "otp"}, code : Nat]
<1>1. FormsTypes /\ minted \in Nat /\ minted + 1 \in Nat /\ code \in Nat
  BY DEF FormsInv, FormsTypes
<1>2. /\ Refused \in Replies /\ Refused.kind = "refused" /\ Refused.code = NoCode
      /\ NewCode \in Replies
  BY <1>1 DEF Refused, NewCode, Reply, NoCode
<1>3. run[v] \in {"posted", "resetting"} /\ form[v] \notin Messages /\ form[v] # "security"
  BY DEF PostSignup, RecoverWrite, FormsInv, NeverStuck, Messages
<1>4. minted' = minted + 1 /\ UNCHANGED <<messages, changed>>
  BY DEF PostSignup, RecoverWrite
<1>5. CASE Respond(v, Refused) /\ UNCHANGED <<code, spent>>
  <2>1. GivenCode(NoCode)' /\ \A c \in Nat : GivenCode(c) => GivenCode(c)'
    BY <1>5 DEF GivenCode
  <2> QED  BY <1>1, <1>2, <1>3, <1>4, <1>5, <2>1, RespondKeepsForms
<1>6. CASE /\ Respond(v, NewCode) /\ code' = NewCode.code /\ spent \subseteq spent'
           /\ code = NoCode \/ code \in spent'
  <2>1. PICK fresh \in Replies : fresh = NewCode
    BY <1>2
  <2>2. Respond(v, fresh) /\ code' = fresh.code /\ fresh.code \in Nat
    BY <1>6, <2>1
  <2>3. GivenCode(fresh.code)'
    BY <2>2 DEF GivenCode
  <2>4. \A c \in Nat : GivenCode(c) => GivenCode(c)'
    BY <1>6 DEF GivenCode
  <2> QED  BY <1>1, <1>3, <1>4, <2>2, <2>3, <2>4, RespondKeepsForms
<1>7. CASE PostSignup(v)
  BY <1>5, <1>6, <1>7 DEF PostSignup
<1>8. CASE RecoverWrite(v)
  <2>1. CASE ResetGuard(v)
    BY <1>6, <1>8, <2>1 DEF RecoverWrite, ResetGuard
  <2> QED  BY <1>5, <1>8, <2>1 DEF RecoverWrite
<1> QED  BY <1>7, <1>8

\* The answer is shown.
LEMMA AnswerKeepsForms ==
    ASSUME FormsInv, NEW v \in Visitors, AnswerArrives(v)
    PROVE  FormsInv'
<1>1. FormsTypes /\ ToldTheTruth(v) /\ NeverStuck(v)
  BY DEF FormsInv
<1>2. /\ run[v] = "answered" /\ answer[v] # Refused /\ run' = [run EXCEPT ![v] = "none"]
      /\ UNCHANGED <<form, typed, submits, call, script, resolver, challenges, answer,
                     messages, changed, code, minted, spent>>
  BY DEF AnswerArrives, Arrived, widgetSide, serverSide
<1>3. answer[v] \in [kind : {"refused", "accepted", "otp"}, code : Nat]
  BY <1>1 DEF FormsTypes
<1>4. ASSUME NEW s \in {"form", "otp", "setup", "done"}, NEW b \in BOOLEAN, NEW c \in Nat,
             stage' = [stage EXCEPT ![v] = s], submitting' = [submitting EXCEPT ![v] = b],
             codeShown' = [codeShown EXCEPT ![v] = c], GivenCode(c),
             form[v] \in Messages /\ s = "done" => v \in messages,
             form[v] = "security" /\ s = "done" => v \in changed,
             b <=> form[v] = "login" /\ s = "done"
      PROVE  FormsInv'
  <2>1. FormsTypes'
    BY <1>1, <1>2, <1>4 DEF FormsTypes
  <2>2. \A u \in Visitors : NeverStuck(u)'
    BY <1>1, <1>2, <1>4 DEF FormsInv, FormsTypes, NeverStuck
  <2>3. \A u \in Visitors : ToldTheTruth(u)'
    BY <1>1, <1>2, <1>4 DEF FormsInv, FormsTypes, ToldTheTruth, GivenCode
  <2> QED  BY <2>1, <2>2, <2>3 DEF FormsInv
<1>5. /\ stage = [stage EXCEPT ![v] = stage[v]] /\ codeShown = [codeShown EXCEPT ![v] = codeShown[v]]
      /\ submitting = [submitting EXCEPT ![v] = submitting[v]]
      /\ stage[v] \in {"form", "otp", "setup", "done"} /\ codeShown[v] \in Nat /\ GivenCode(codeShown[v])
  BY <1>1 DEF FormsTypes, ToldTheTruth
<1>6. form[v] = "login" => stage[v] # "done" /\ submitting[v] = TRUE
  BY <1>1, <1>2 DEF NeverStuck, FormsTypes
<1>7. CASE /\ form[v] \in Messages /\ UNCHANGED codeShown
           /\ stage' = [stage EXCEPT ![v] = "done"] /\ submitting' = [submitting EXCEPT ![v] = FALSE]
  BY <1>1, <1>2, <1>4, <1>5, <1>7 DEF ToldTheTruth, Messages
<1>8. CASE /\ form[v] \in {"signup", "recover"} /\ UNCHANGED stage
           /\ codeShown' = [codeShown EXCEPT ![v] = answer[v].code]
           /\ submitting' = [submitting EXCEPT ![v] = FALSE]
  BY <1>1, <1>3, <1>4, <1>5, <1>8 DEF ToldTheTruth, Messages
<1>9. CASE /\ form[v] = "login" /\ stage' = [stage EXCEPT ![v] = "otp"] /\ UNCHANGED codeShown
           /\ submitting' = [submitting EXCEPT ![v] = FALSE]
  BY <1>4, <1>5, <1>9 DEF Messages
<1>10. CASE /\ form[v] = "security" /\ stage' = [stage EXCEPT ![v] = "setup"] /\ UNCHANGED codeShown
            /\ submitting' = [submitting EXCEPT ![v] = FALSE]
  BY <1>4, <1>5, <1>10 DEF Messages
<1>11. CASE /\ form[v] = "security" /\ answer[v] = Accepted /\ UNCHANGED codeShown
            /\ stage' = [stage EXCEPT ![v] = IF call[v] = "cancel" THEN @ ELSE "done"]
            /\ submitting' = [submitting EXCEPT ![v] = FALSE]
  <2>1. form[v] = "security" /\ stage[v] = "done" => v \in changed
    BY <1>1 DEF ToldTheTruth
  <2>2. CASE call[v] = "cancel"
    BY <1>4, <1>5, <1>11, <2>1, <2>2 DEF Messages
  <2>3. CASE call[v] # "cancel"
    BY <1>1, <1>2, <1>4, <1>5, <1>11, <2>3 DEF Messages, ToldTheTruth
  <2> QED  BY <2>2, <2>3
<1>12. CASE /\ form[v] = "login" /\ stage' = [stage EXCEPT ![v] = "done"] /\ UNCHANGED <<submitting, codeShown>>
  BY <1>4, <1>5, <1>6, <1>12 DEF Messages
<1> QED  BY <1>7, <1>8, <1>9, <1>10, <1>11, <1>12 DEF AnswerArrives

\* Thanks mean the message is stored, a change that is announced was made, a recovery code on
\* the screen opens the account until it is used, and no form waits for what cannot come
\* (components/report, contact and account, lib/turnstile-client.tsx and the routes they call),
\* for any visitors, submitting any number of times.
THEOREM FormsAreHonest == FormsSpec => []FormsHonest
<1>1. FormsInit => FormsInv
  <2> SUFFICES ASSUME FormsInit PROVE FormsInv
    OBVIOUS
  <2>1. FormsTypes
    BY DEF FormsInit, FormsTypes, Refused, Reply, NoCode
  <2>2. \A v \in Visitors : ToldTheTruth(v) /\ NeverStuck(v)
    BY DEF FormsInit, ToldTheTruth, NeverStuck, GivenCode, Refused, Reply, NoCode
  <2> QED  BY <2>1, <2>2 DEF FormsInv
<1>2. FormsInv /\ [FormsNext]_formVars => FormsInv'
  <2> SUFFICES ASSUME FormsInv, [FormsNext]_formVars PROVE FormsInv'
    OBVIOUS
  <2>1. CASE UNCHANGED formVars
    BY <2>1 DEF formVars, pageSide, widgetSide, serverSide, FormsInv, FormsTypes, ToldTheTruth,
                NeverStuck, GivenCode
  <2>2. CASE FormsNext
    <3>1. PICK v \in Visitors :
            \/ SubmitReport(v) \/ SubmitClaim(v) \/ SubmitContact(v) \/ SubmitSignup(v)
            \/ SubmitReauth(v) \/ PasskeyReauth(v) \/ SubmitOtp(v) \/ CancelChange(v)
            \/ PostSecurity(v) \/ ExecuteAction(v)
            \/ SubmitRecover(v) \/ SubmitLogin(v) \/ PasskeyLogin(v) \/ BackToPassword(v)
            \/ ScriptLoads(v) \/ Execute(v) \/ NoWidget(v) \/ TokenArrives(v) \/ ChallengeFails(v)
            \/ TokenRefused(v) \/ RateLimited(v) \/ PostReport(v) \/ PostContact(v) \/ PostSignup(v)
            \/ RecoverRead(v) \/ RecoverWrite(v) \/ RecoverOvertaken(v) \/ PostLogin(v) \/ DeviceAnswers(v)
            \/ AnswerArrives(v) \/ Rejected(v)
      BY <2>2 DEF FormsNext
    <3> QED  BY <3>1, SubmitsKeepForms, WidgetKeepsForms, RoutesKeepForms, CodesKeepForms, AnswerKeepsForms
  <2> QED  BY <2>1, <2>2
<1>3. FormsInv => FormsHonest
  BY DEF FormsInv, ToldTheTruth, NeverStuck, GivenCode, FormsHonest
<1> QED  BY <1>1, <1>2, <1>3, PTL DEF FormsSpec

-----------------------------------------------------------------------------
(***************************************************************************)
(* The clean-up.  As long as no row of a phase failed, every row that is   *)
(* still due is in the batch or lies behind all of it, and after a short   *)
(* batch none lies behind; a phase that ended cleanly left nothing due.    *)
(***************************************************************************)
CleanupTypes ==
    /\ phase \in Phases \cup {"done"}
    /\ due \in [Phases -> SUBSET (1..Rows)]
    /\ cursor.after \in Nat /\ cursor.full \in BOOLEAN /\ cursor.todo \in SUBSET (1..Rows)
    /\ cursor = [after |-> cursor.after, batch |-> cursor.batch, full |-> cursor.full,
                 todo |-> cursor.todo]
    /\ result \in [Phases -> [scanned : BOOLEAN, failed : Nat, reachedBatchLimit : BOOLEAN]]

\* A phase that ended without backlog, given its rows D and its result r.
EndedClean(D, r) == r.scanned /\ r.failed = 0 /\ ~r.reachedBatchLimit => D = {}

\* The rows D of the running phase, with the batch T behind the row a, the last if not full.
NothingMissed(D, a, T, full) ==
    /\ \A r \in D : r \in T \/ (r > a /\ \A t \in T : r > t)
    /\ ~full => D \subseteq T

CleanupInv ==
    /\ CleanupTypes
    /\ \A p \in Phases : EndedClean(due[p], result[p])
    /\ phase \in Phases => ~Here.scanned
    /\ phase = "expiredShares" => ~result["staleUploads"].scanned
    /\ phase \in Phases /\ Here.failed = 0 =>
          NothingMissed(due[phase], cursor.after, cursor.todo, cursor.full)

\* The first rows of B in their order, at most L, as a query with a limit returns them.
UpTo(B, r) == {q \in B : q <= r}
FirstOf(B, L) == {r \in B : Cardinality(UpTo(B, r)) <= L}

\* Of some numbers of a finite set one is the greatest.
LEMMA GreatestOfFinite ==
    ASSUME NEW S \in SUBSET Int, IsFiniteSet(S), S # {}
    PROVE  \E m \in S : \A d \in S : d <= m
<1> DEFINE T == {0 - d : d \in S}
           f == [d \in S |-> 0 - d]
<1>1. f \in Surjection(S, T)
  BY DEF Surjection
<1>2. T \in SUBSET Int /\ T # {}
  <2>1. \A d \in S : 0 - d \in Int
    OBVIOUS
  <2>2. PICK d \in S : TRUE
    OBVIOUS
  <2>3. 0 - d \in T
    BY <2>2
  <2> QED  BY <2>1, <2>3
<1>3. IsFiniteSet(T)
  BY <1>1, FS_Surjection
<1>4. PICK m \in T : \A d \in T : m <= d
  BY <1>2, <1>3, LeastOfFinite
<1>5. PICK n \in S : m = 0 - n
  BY <1>4
<1>6. \A d \in S : d <= n
  BY <1>4, <1>5
<1> QED  BY <1>6

\* The first rows of a query: what is left out lies behind all of them, and something is left
\* out only when there are as many as the query may return.
LEMMA FirstRows ==
    ASSUME NEW B \in SUBSET Nat, IsFiniteSet(B), NEW L \in Nat, L # 0,
           NEW rows, rows = FirstOf(B, L)
    PROVE  /\ rows \subseteq B /\ (\A r \in B \ rows : \A t \in rows : r > t)
           /\ rows = B \/ Cardinality(rows) = L
           /\ rows = {} => B = {}
<1>1. rows \subseteq B /\ (\A r \in B : r \in rows <=> Cardinality(UpTo(B, r)) <= L)
  BY DEF FirstOf
<1>2. \A r \in B : IsFiniteSet(UpTo(B, r)) /\ Cardinality(UpTo(B, r)) \in Nat
  BY FS_Subset, FS_CardinalityType DEF UpTo
<1> USE DEF UpTo
<1>3. \A q \in B : q \in Nat /\ q \in Int
  OBVIOUS
<1>4. rows \in SUBSET B /\ B \in SUBSET Int /\ rows \in SUBSET Int
  BY <1>3, <1>1
<1>5. ASSUME NEW r \in B \ rows, NEW t \in rows PROVE r > t
  <2> SUFFICES ASSUME r <= t PROVE FALSE
    BY <1>1
  <2>1. r \in B /\ t \in B /\ r \in Nat /\ t \in Nat
    BY <1>1
  <2>2. UpTo(B, r) \subseteq UpTo(B, t)
    <3>1. \A q \in B : q \in Nat /\ (q <= r => q <= t)
      BY <2>1
    <3> QED  BY <3>1
  <2>3. Cardinality(UpTo(B, r)) <= Cardinality(UpTo(B, t))
    BY <1>2, <2>1, <2>2, FS_Subset
  <2> HIDE DEF UpTo
  <2> QED  BY <1>1, <1>2, <2>1, <2>3
<1>6. IsFiniteSet(rows) /\ Cardinality(rows) \in Nat
  BY <1>1, FS_Subset, FS_CardinalityType
<1>7. ASSUME rows # B PROVE Cardinality(rows) = L
  <2>1. PICK least \in B \ rows : \A r \in B \ rows : least <= r
    <3>1. B \ rows \in SUBSET B /\ B \ rows # {}
      BY <1>7, <1>4
    <3>2. B \ rows # {} /\ B \ rows \in SUBSET Int /\ B \ rows \in SUBSET B
      BY <1>4, <3>1
    <3>3. IsFiniteSet(B \ rows)
      BY <3>2, FS_Subset
    <3> QED  BY <3>2, <3>3, LeastOfFinite
  <2>2. UpTo(B, least) = rows \cup {least}
    <3>1. \A q \in B : q \in Nat
      OBVIOUS
    <3>2. least \in Nat /\ least \in B /\ least <= least /\ \A q \in rows : q \in B /\ q <= least
      BY <1>1, <1>5, <2>1, <3>1
    <3>3. \A q \in B : q <= least => q = least \/ q \in rows
      BY <2>1, <3>1, <3>2
    <3> QED  BY <3>2, <3>3
  <2>3. Cardinality(rows \cup {least}) = Cardinality(rows) + 1
    BY <1>6, <2>1, FS_AddElement
  <2>4. ~(Cardinality(rows) + 1 <= L)
    BY <1>1, <2>1, <2>2, <2>3
  <2>5. Cardinality(rows) >= L
    BY <1>6, <2>4
  <2>6. rows # {}
    <3>1. rows = {} => Cardinality(rows) = 0
      BY FS_EmptySet
    <3> QED  BY <1>6, <2>5, <3>1
  <2>7. PICK last \in rows : \A r \in rows : r <= last
    <3> QED  BY <1>6, <1>4, <2>6, GreatestOfFinite
  <2>8. rows \subseteq UpTo(B, last)
    BY <1>1, <2>7
  <2>9. Cardinality(rows) <= Cardinality(UpTo(B, last)) /\ Cardinality(UpTo(B, last)) <= L
    BY <1>1, <1>2, <2>7, <2>8, FS_Subset
  <2>10. Cardinality(UpTo(B, last)) \in Nat
    BY <1>1, <1>2, <2>7
  <2>11. \A a, b \in Nat : a >= L /\ a <= b /\ b <= L => a = L
    OBVIOUS
  <2> HIDE DEF UpTo
  <2> QED  BY <1>6, <2>5, <2>9, <2>10, <2>11
<1>8. rows = {} => B = {}
  BY <1>7, FS_EmptySet
<1> QED  BY <1>1, <1>5, <1>7, <1>8

\* A phase ends with a result that is clean only when nothing is due, and the next one starts.
LEMMA PhaseEnds ==
    ASSUME CleanupInv, phase \in Phases,
           NEW r \in [scanned : BOOLEAN, failed : Nat, reachedBatchLimit : BOOLEAN], EndPhase(r),
           due' \in [Phases -> SUBSET (1..Rows)], \A p \in Phases : due'[p] \subseteq due[p],
           EndedClean(due'[phase], r)
    PROVE  CleanupInv'
<1>1. /\ result' = [result EXCEPT ![phase] = r] /\ cursor' = NoCursor
      /\ phase' = IF phase = "expiredShares" THEN "staleUploads" ELSE "done"
  BY DEF EndPhase, NextPhase
<1>2. /\ result \in [Phases -> [scanned : BOOLEAN, failed : Nat, reachedBatchLimit : BOOLEAN]]
      /\ Rows \in Nat /\ \A i \in 1..Rows : i > 0
  BY CleanupBatchesAssumption DEF CleanupInv, CleanupTypes
<1>3. CleanupTypes'
  BY <1>1, <1>2 DEF CleanupTypes, NoCursor, Phases
<1>4. \A p \in Phases : EndedClean(due'[p], result'[p])
  <2> SUFFICES ASSUME NEW p \in Phases PROVE EndedClean(due'[p], result'[p])
    OBVIOUS
  <2>1. CASE p = phase
    BY <1>1, <1>2, <2>1
  <2>2. CASE p # phase
    <3>1. result'[p] = result[p] /\ due'[p] \subseteq due[p] /\ EndedClean(due[p], result[p])
      BY <1>1, <1>2, <2>2 DEF CleanupInv
    <3> QED  BY <3>1 DEF EndedClean
  <2> QED  BY <2>1, <2>2
<1>5. phase' = "staleUploads" => ~result'["staleUploads"].scanned
  BY <1>1, <1>2 DEF CleanupInv, Phases
<1>6. \A p \in Phases : NothingMissed(due'[p], 0, {}, TRUE)
  BY <1>2 DEF NothingMissed
<1> QED  BY <1>1, <1>3, <1>4, <1>5, <1>6 DEF CleanupInv, Here, NoCursor, Phases

\* A query returns the next batch, or nothing, or is not made any more.
LEMMA QueriesKeepCleanup ==
    ASSUME CleanupInv, FetchBatch \/ FetchOutOfWork \/ ScanFails \/ Leave
    PROVE  CleanupInv'
<1>1. CleanupTypes /\ phase \in Phases /\ UNCHANGED due /\ cursor.todo = {} /\ ~Here.scanned
  BY DEF CleanupInv, FetchBatch, FetchOutOfWork, ScanFails, Leave
<1>2. /\ Here \in [scanned : BOOLEAN, failed : Nat, reachedBatchLimit : BOOLEAN]
      /\ due \in [Phases -> SUBSET (1..Rows)] /\ due[phase] \in SUBSET (1..Rows)
      /\ cursor.after \in Nat /\ cursor.full \in BOOLEAN
      /\ Rows \in Nat /\ QueryLimit \in Nat /\ QueryLimit # 0
  BY <1>1, CleanupBatchesAssumption DEF CleanupTypes, Here
<1>3. ASSUME NEW full \in BOOLEAN
      PROVE  /\ Finished(full) \in [scanned : BOOLEAN, failed : Nat, reachedBatchLimit : BOOLEAN]
             /\ Finished(full).failed = Here.failed /\ Finished(full).reachedBatchLimit = full
  <2> DEFINE h == Here
  <2>1. h \in [scanned : BOOLEAN, failed : Nat, reachedBatchLimit : BOOLEAN] /\ h = Here
    BY <1>2
  <2> HIDE DEF h
  <2>2. Finished(full) = [h EXCEPT !.scanned = TRUE, !.reachedBatchLimit = full]
    BY <2>1 DEF Finished
  <2> QED  BY <1>3, <2>1, <2>2
<1>4. /\ OutOfWork \in [scanned : BOOLEAN, failed : Nat, reachedBatchLimit : BOOLEAN]
      /\ OutOfWork.reachedBatchLimit
  <2> DEFINE h == Here
  <2>1. h \in [scanned : BOOLEAN, failed : Nat, reachedBatchLimit : BOOLEAN] /\ h = Here
    BY <1>2
  <2> HIDE DEF h
  <2>2. OutOfWork = [h EXCEPT !.scanned = TRUE, !.reachedBatchLimit = TRUE]
    BY <2>1 DEF OutOfWork
  <2> QED  BY <2>1, <2>2
<1>5. CASE FetchOutOfWork
  BY <1>1, <1>2, <1>4, <1>5, PhaseEnds DEF FetchOutOfWork, EndedClean
<1>6. CASE ScanFails
  BY <1>1, <1>2, <1>6, PhaseEnds DEF ScanFails, EndedClean
<1>7. CASE Leave
  <2>1. EndPhase(Finished(cursor.full))
    BY <1>7 DEF Leave
  <2>2. EndedClean(due'[phase], Finished(cursor.full))
    BY <1>1, <1>2, <1>3 DEF EndedClean, CleanupInv, NothingMissed
  <2> QED  BY <1>1, <1>2, <1>3, <2>1, <2>2, PhaseEnds
<1>8. CASE FetchBatch
  <2> DEFINE behind == {r \in due[phase] : r > cursor.after}
             rows == {r \in behind : Cardinality({q \in behind : q <= r}) <= QueryLimit}
  <2>1. behind \in SUBSET Nat /\ IsFiniteSet(behind) /\ behind \subseteq 1..Rows
    <3>1. IsFiniteSet(1..Rows)
      BY <1>2, FS_Interval
    <3>2. behind \in SUBSET (1..Rows) /\ 1..Rows \subseteq Nat
      BY <1>2
    <3> QED  BY <3>1, <3>2, FS_Subset
  <2>2. IF rows = {} THEN EndPhase(Finished(FALSE))
        ELSE /\ cursor' = [cursor EXCEPT !.todo = rows, !.batch = @ + 1,
                                         !.full = Cardinality(rows) = QueryLimit]
             /\ UNCHANGED <<phase, result>>
    BY <1>8 DEF FetchBatch
  <2> HIDE DEF behind
  <2>3. PICK B \in SUBSET Nat : B = behind
    BY <2>1
  <2>4. PICK R : R = rows
    OBVIOUS
  <2>5. R = FirstOf(B, QueryLimit)
    BY <2>3, <2>4 DEF FirstOf, UpTo
  <2>6. /\ R \subseteq B /\ (\A r \in B \ R : \A t \in R : r > t)
        /\ R = B \/ Cardinality(R) = QueryLimit
        /\ R = {} => B = {}
    <3>1. IsFiniteSet(B) /\ QueryLimit \in Nat /\ QueryLimit # 0
      BY <1>2, <2>1, <2>3
    <3> HIDE DEF rows
    <3> QED  BY <2>5, <3>1, FirstRows
  <2> HIDE DEF rows
  <2>7. Here.failed = 0 => B = due[phase]
    BY <1>1, <2>3 DEF CleanupInv, NothingMissed, behind
  <2>8. CASE R = {}
    <3>1. EndPhase(Finished(FALSE))
      BY <2>2, <2>4, <2>8
    <3>2. EndedClean(due'[phase], Finished(FALSE))
      BY <1>1, <1>3, <2>6, <2>7, <2>8 DEF EndedClean
    <3> QED  BY <1>1, <1>2, <1>3, <3>1, <3>2, PhaseEnds
  <2>9. CASE R # {}
    <3>1. /\ cursor' = [cursor EXCEPT !.todo = R, !.batch = @ + 1,
                                      !.full = Cardinality(R) = QueryLimit]
          /\ UNCHANGED <<phase, result>>
      BY <2>2, <2>4, <2>9
    <3>2. (Cardinality(R) = QueryLimit) \in BOOLEAN
      OBVIOUS
    <3>3. /\ cursor'.todo = R /\ cursor'.after = cursor.after
          /\ cursor'.full = (Cardinality(R) = QueryLimit)
          /\ cursor' = [after |-> cursor'.after, batch |-> cursor'.batch, full |-> cursor'.full,
                        todo |-> cursor'.todo]
      BY <1>1, <3>1 DEF CleanupTypes
    <3>4. CleanupTypes'
      BY <1>1, <1>2, <2>1, <2>3, <2>6, <3>1, <3>2, <3>3 DEF CleanupTypes
    <3>5. Here.failed = 0 => NothingMissed(due[phase], cursor.after, R, Cardinality(R) = QueryLimit)
      BY <1>1, <2>3, <2>6, <2>7 DEF NothingMissed, behind
    <3> QED  BY <1>1, <3>1, <3>3, <3>4, <3>5 DEF CleanupInv, Here
  <2> QED  BY <2>8, <2>9
<1> QED  BY <1>5, <1>6, <1>7, <1>8

\* The row in hand is the first of the batch.
LEMMA RowIsFirst ==
    ASSUME CleanupInv, cursor.todo # {}
    PROVE  Row \in cursor.todo /\ Row \in 1..Rows /\ \A t \in cursor.todo : Row <= t
<1>1. cursor.todo \in SUBSET (1..Rows) /\ Rows \in Nat
  BY CleanupBatchesAssumption DEF CleanupInv, CleanupTypes
<1>2. IsFiniteSet(1..Rows) /\ 1..Rows \subseteq Int
  <2>1. 1 \in Int /\ Rows \in Int
    BY <1>1
  <2>2. IsFiniteSet(1..Rows)
    BY <2>1, FS_Interval
  <2> QED  BY <2>2
<1>3. PICK T \in SUBSET (1..Rows) : T = cursor.todo
  BY <1>1
<1>4. IsFiniteSet(T) /\ T \in SUBSET Int
  BY <1>2, FS_Subset
<1>5. \E m \in T : \A d \in T : m <= d
  BY <1>3, <1>4, LeastOfFinite
<1>6. Row = CHOOSE m \in T : \A d \in T : m <= d
  BY <1>3 DEF Row, Min
<1>7. Row \in T /\ \A d \in T : Row <= d
  BY <1>5, <1>6
<1> QED  BY <1>3, <1>7

\* A row is handled, and goes or stays as a failure, or the work runs out at it.
LEMMA RowsKeepCleanup ==
    ASSUME CleanupInv, Delete \/ DeleteFails \/ DeleteOutOfWork
    PROVE  CleanupInv'
<1>1. CleanupTypes /\ phase \in Phases /\ cursor.todo # {} /\ ~Here.scanned
  BY DEF CleanupInv, Delete, DeleteFails, DeleteOutOfWork
<1>2. Row \in cursor.todo /\ Row \in 1..Rows /\ \A t \in cursor.todo : Row <= t
  BY <1>1, RowIsFirst
<1>3. /\ Here \in [scanned : BOOLEAN, failed : Nat, reachedBatchLimit : BOOLEAN]
      /\ result \in [Phases -> [scanned : BOOLEAN, failed : Nat, reachedBatchLimit : BOOLEAN]]
      /\ due \in [Phases -> SUBSET (1..Rows)] /\ due[phase] \in SUBSET (1..Rows)
      /\ cursor.after \in Nat /\ cursor.full \in BOOLEAN /\ cursor.todo \in SUBSET (1..Rows)
      /\ 1..Rows \subseteq Nat
  BY <1>1, CleanupBatchesAssumption DEF CleanupTypes, Here
<1>4. /\ due' \in [Phases -> SUBSET (1..Rows)]
      /\ \A p \in Phases : due'[p] \subseteq due[p]
  <2>1. Gone \/ UNCHANGED due
    BY DEF Delete, DeleteFails, DeleteOutOfWork
  <2>2. CASE Gone
    BY <1>1, <1>3, <2>2 DEF Gone
  <2>3. CASE UNCHANGED due
    BY <1>3, <2>3
  <2> QED  BY <2>1, <2>2, <2>3
<1>5. CASE DeleteOutOfWork
  <2> DEFINE h == Here
  <2>1. h \in [scanned : BOOLEAN, failed : Nat, reachedBatchLimit : BOOLEAN] /\ h = Here
    BY <1>3
  <2> HIDE DEF h
  <2>2. OutOfWork = [h EXCEPT !.scanned = TRUE, !.reachedBatchLimit = TRUE]
    BY <2>1 DEF OutOfWork
  <2>3. /\ OutOfWork \in [scanned : BOOLEAN, failed : Nat, reachedBatchLimit : BOOLEAN]
        /\ OutOfWork.reachedBatchLimit
    BY <2>1, <2>2
  <2>4. EndedClean(due'[phase], OutOfWork)
    BY <2>3 DEF EndedClean
  <2> QED  BY <1>1, <1>4, <1>5, <2>3, <2>4, PhaseEnds DEF DeleteOutOfWork
<1>6. CASE Delete \/ DeleteFails
  <2>1. cursor' = Passed /\ UNCHANGED phase
    BY <1>6 DEF Delete, DeleteFails
  <2>2. PICK row \in 1..Rows : row = Row
    BY <1>2
  <2>3. /\ cursor'.after = row /\ cursor'.full = cursor.full
        /\ cursor'.todo = cursor.todo \ {row}
        /\ cursor' = [after |-> cursor'.after, batch |-> cursor'.batch, full |-> cursor'.full,
                      todo |-> cursor'.todo]
    BY <1>1, <2>1, <2>2 DEF Passed, CleanupTypes
  <2>4. /\ result' \in [Phases -> [scanned : BOOLEAN, failed : Nat, reachedBatchLimit : BOOLEAN]]
        /\ \A p \in Phases : result'[p].scanned = result[p].scanned
        /\ \A p \in Phases : p # phase => result'[p] = result[p]
        /\ result'[phase] = result[phase] \/ result'[phase].failed # 0
    <3>1. CASE Delete
      BY <1>3, <3>1 DEF Delete
    <3>2. CASE DeleteFails
      <4>1. result' = [result EXCEPT ![phase].failed = @ + 1]
        BY <3>2 DEF DeleteFails
      <4>2. PICK q \in Phases : q = phase
        BY <1>1
      <4>3. /\ result'[q] = [result[q] EXCEPT !.failed = @ + 1]
            /\ \A p \in Phases : p # q => result'[p] = result[p]
            /\ result' = [p \in Phases |-> result'[p]]
        BY <1>3, <4>1, <4>2
      <4>4. \A k \in Nat : k + 1 \in Nat /\ k + 1 # 0
        OBVIOUS
      <4>5. /\ result'[q] \in [scanned : BOOLEAN, failed : Nat, reachedBatchLimit : BOOLEAN]
            /\ result'[q].scanned = result[q].scanned /\ result'[q].failed # 0
        BY <1>3, <4>3, <4>4
      <4> QED  BY <1>3, <4>2, <4>3, <4>5
    <3> QED  BY <1>6, <3>1, <3>2
  <2>5. CleanupTypes'
    BY <1>1, <1>3, <1>4, <2>1, <2>3, <2>4 DEF CleanupTypes
  <2>6. ASSUME NEW p \in Phases PROVE EndedClean(due'[p], result'[p])
    <3>1. CASE p = phase
      BY <1>1, <2>4, <3>1 DEF EndedClean, Here
    <3>2. CASE p # phase
      BY <1>4, <2>4, <3>2 DEF EndedClean, CleanupInv
    <3> QED  BY <3>1, <3>2
  <2>7. (~Here.scanned)'
    BY <1>1, <2>1, <2>4 DEF Here
  <2>8. phase' = "expiredShares" => ~result'["staleUploads"].scanned
    BY <2>1, <2>4 DEF CleanupInv, Phases
  <2>9. ASSUME Here'.failed = 0
        PROVE  NothingMissed(due[phase] \ {row}, row, cursor.todo \ {row}, cursor.full)
               /\ due'[phase] = due[phase] \ {row}
    <3>1. Here.failed = 0 /\ Delete
      <4>1. result'[phase] = result[phase]
        BY <2>1, <2>4, <2>9 DEF Here
      <4>2. ~DeleteFails
        <5>1. SUFFICES ASSUME DeleteFails PROVE FALSE
          OBVIOUS
        <5>2. result'[phase].failed = result[phase].failed + 1
          BY <1>1, <1>3, <5>1 DEF DeleteFails
        <5>3. result[phase].failed \in Nat
          BY <1>3 DEF Here
        <5> QED  BY <4>1, <5>2, <5>3
      <4> QED  BY <1>6, <2>1, <2>9, <4>1, <4>2 DEF Here
    <3>2. NothingMissed(due[phase], cursor.after, cursor.todo, cursor.full)
      BY <1>1, <3>1 DEF CleanupInv
    <3>3. due'[phase] = due[phase] \ {row}
      BY <1>1, <1>3, <2>2, <3>1 DEF Delete, Gone
    <3>4. \A t \in cursor.todo : t \in Nat /\ row <= t
      BY <1>2, <1>3, <2>2
    <3>5. row \in Nat /\ row \in cursor.todo /\ \A r \in due[phase] : r \in Nat
      BY <1>2, <1>3, <2>2
    <3>6. \A r \in due[phase] \ {row} : r \in cursor.todo => r > row
      BY <3>4, <3>5
    <3> QED  BY <3>2, <3>3, <3>4, <3>5, <3>6 DEF NothingMissed
  <2>10. Here'.failed = 0 => NothingMissed(due'[phase], cursor'.after, cursor'.todo, cursor'.full)
    BY <2>3, <2>9
  <2> QED  BY <2>1, <2>5, <2>6, <2>7, <2>8, <2>10 DEF CleanupInv
<1> QED  BY <1>5, <1>6

\* Other requests only make fewer rows due.
LEMMA OthersKeepCleanup ==
    ASSUME CleanupInv, OtherRequest
    PROVE  CleanupInv'
<1>1. PICK p \in Phases : \E r \in due[p] : due' = [due EXCEPT ![p] = @ \ {r}]
  BY DEF OtherRequest
<1>2. UNCHANGED <<phase, cursor, result>> /\ due \in [Phases -> SUBSET (1..Rows)]
  BY DEF OtherRequest, CleanupInv, CleanupTypes
<1>3. due' \in [Phases -> SUBSET (1..Rows)] /\ \A q \in Phases : due'[q] \subseteq due[q]
  BY <1>1, <1>2
<1>4. CleanupTypes'
  BY <1>2, <1>3 DEF CleanupInv, CleanupTypes
<1>5. \A q \in Phases : EndedClean(due'[q], result'[q])
  BY <1>2, <1>3 DEF CleanupInv, EndedClean
<1>6. phase \in Phases /\ Here.failed = 0 =>
        NothingMissed(due'[phase], cursor.after, cursor.todo, cursor.full)
  BY <1>3 DEF CleanupInv, NothingMissed
<1> QED  BY <1>2, <1>4, <1>5, <1>6 DEF CleanupInv, Here

\* A clean-up that reports no backlog has left no row behind that was due at its cutoff,
\* for any numbers of rows, batches and operations, and whatever failed or went meanwhile
\* (hasBacklog in lib/cleanup.ts).
THEOREM SummaryIsHonest == CleanupSpec => []HonestSummary
<1>1. CleanupInit => CleanupInv
  <2> SUFFICES ASSUME CleanupInit PROVE CleanupInv
    OBVIOUS
  <2>1. PICK n \in [Phases -> 0..Rows] : due = [p \in Phases |-> 1..n[p]]
    BY DEF CleanupInit
  <2>2. \A p \in Phases : due[p] \in SUBSET (1..Rows) /\ \A r \in due[p] : r > 0
    <3>1. Rows \in Nat
      BY CleanupBatchesAssumption
    <3>2. \A p \in Phases : n[p] \in Nat /\ n[p] <= Rows /\ due[p] = 1..n[p]
      BY <2>1, <3>1
    <3> QED  BY <3>1, <3>2
  <2>3. due \in [Phases -> SUBSET (1..Rows)]
    BY <2>1, <2>2
  <2>4. /\ phase = "expiredShares" /\ cursor = NoCursor
        /\ result = [p \in Phases |-> NoResult]
    BY DEF CleanupInit
  <2>5. CleanupTypes
    BY <2>3, <2>4 DEF CleanupTypes, NoCursor, NoResult, Phases
  <2>6. \A p \in Phases : ~result[p].scanned
    BY <2>4 DEF NoResult
  <2> QED  BY <2>2, <2>4, <2>5, <2>6
           DEF CleanupInv, EndedClean, NothingMissed, Here, NoCursor, Phases
<1>2. CleanupInv /\ [CleanupNext]_cleanupVars => CleanupInv'
  <2> SUFFICES ASSUME CleanupInv, [CleanupNext]_cleanupVars PROVE CleanupInv'
    OBVIOUS
  <2>1. CASE UNCHANGED cleanupVars
    BY <2>1 DEF cleanupVars, CleanupInv, CleanupTypes, Here
  <2> QED  BY <2>1, QueriesKeepCleanup, RowsKeepCleanup, OthersKeepCleanup DEF CleanupNext
<1>3. CleanupInv => HonestSummary
  <2> SUFFICES ASSUME CleanupInv, ~HasBacklog, NEW p \in Phases PROVE due[p] = {}
    BY DEF HonestSummary
  <2>1. result[p].scanned /\ ~(result[p].failed > 0) /\ ~result[p].reachedBatchLimit
    BY DEF HasBacklog
  <2>2. result[p].failed \in Nat
    BY DEF CleanupInv, CleanupTypes
  <2>3. result[p].failed = 0
    BY <2>1, <2>2
  <2> QED  BY <2>1, <2>3 DEF CleanupInv, EndedClean
<1> QED  BY <1>1, <1>2, <1>3, PTL DEF CleanupSpec
=============================================================================
