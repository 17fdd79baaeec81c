------------------------ MODULE ChunkUploaderProofs ------------------------
(***************************************************************************)
(* The upload's invariant holds for any number of workers, parts, attempts *)
(* and faults, and any batch size.  Every step of a worker either keeps    *)
(* its part, takes the next one or reports the one it has; every step of   *)
(* the batcher answers waiters or moves them from the queue to a request.  *)
(***************************************************************************)
EXTENDS ChunkUploader, FiniteSetTheorems, TLAPS

-----------------------------------------------------------------------------
(* Queues. *)

Distinct(q) == \A j, k \in DOMAIN q : q[j] = q[k] => j = k

(* A batch and the rest of the queue are the queue's elements, each once. *)
LEMMA SplitQueue ==
  ASSUME NEW q \in Seq(Workers)
  PROVE  /\ FirstBatch(q) \in Seq(Workers) /\ Rest(q) \in Seq(Workers)
         /\ Elements(FirstBatch(q)) \cup Elements(Rest(q)) = Elements(q)
         /\ Distinct(q) => /\ Elements(FirstBatch(q)) \cap Elements(Rest(q)) = {}
                           /\ Distinct(Rest(q))
<1> DEFINE n == IF Len(q) < BatchSize THEN Len(q) ELSE BatchSize
<1>1. n \in 0..Len(q) BY SizesAssumption
<1>2. /\ FirstBatch(q) \in Seq(Workers) /\ Len(FirstBatch(q)) = n
      /\ \A k \in 1..n : FirstBatch(q)[k] = q[k]
  BY <1>1, SizesAssumption DEF FirstBatch
<1>3. /\ Rest(q) \in Seq(Workers) /\ Len(Rest(q)) = Len(q) - n
      /\ \A k \in 1..(Len(q) - n) : Rest(q)[k] = q[n + k]
  <2>1. Rest(q) = SubSeq(q, n + 1, Len(q)) BY <1>2 DEF Rest
  <2> HIDE DEF n
  <2> QED BY <2>1, <1>1
<1> HIDE DEF n
<1>4. \A k \in 1..Len(q) : \/ k \in 1..n /\ q[k] = FirstBatch(q)[k]
                           \/ k - n \in 1..(Len(q) - n) /\ q[k] = Rest(q)[k - n]
  BY <1>1, <1>2, <1>3
<1>5. Elements(FirstBatch(q)) \cup Elements(Rest(q)) = Elements(q)
  <2>1. Elements(FirstBatch(q)) \subseteq Elements(q) BY <1>1, <1>2 DEF Elements
  <2>2. Elements(Rest(q)) \subseteq Elements(q) BY <1>1, <1>3 DEF Elements
  <2>3. Elements(q) \subseteq Elements(FirstBatch(q)) \cup Elements(Rest(q))
    BY <1>4, <1>1, <1>2, <1>3 DEF Elements
  <2> QED BY <2>1, <2>2, <2>3
<1>6. ASSUME Distinct(q)
      PROVE  Elements(FirstBatch(q)) \cap Elements(Rest(q)) = {} /\ Distinct(Rest(q))
  <2>1. Distinct(Rest(q))
    <3> SUFFICES ASSUME NEW j \in 1..(Len(q) - n), NEW k \in 1..(Len(q) - n),
                        Rest(q)[j] = Rest(q)[k]
                 PROVE  j = k
      BY <1>3 DEF Distinct
    <3>1. n + j \in DOMAIN q /\ n + k \in DOMAIN q BY <1>1
    <3>2. q[n + j] = q[n + k] BY <1>3
    <3>3. n + j = n + k BY <3>1, <3>2, <1>6 DEF Distinct
    <3> QED BY <3>3, <1>1
  <2>2. ASSUME NEW j \in 1..n, NEW k \in 1..(Len(q) - n), FirstBatch(q)[j] = Rest(q)[k]
        PROVE  FALSE
    <3>1. j \in DOMAIN q /\ n + k \in DOMAIN q BY <1>1
    <3>2. q[j] = q[n + k] BY <1>2, <1>3, <2>2
    <3>3. j = n + k BY <3>1, <3>2, <1>6 DEF Distinct
    <3> QED BY <3>3, <1>1
  <2>3. DOMAIN FirstBatch(q) = 1..n /\ DOMAIN Rest(q) = 1..(Len(q) - n)
    BY <1>1, <1>2, <1>3
  <2>4. Elements(FirstBatch(q)) \cap Elements(Rest(q)) = {} BY <2>2, <2>3, Zenon DEF Elements
  <2> QED BY <2>1, <2>4
<1> QED BY <1>2, <1>3, <1>5, <1>6

(* What Append does to them. *)
LEMMA AppendQueue ==
  ASSUME NEW q \in Seq(Workers), NEW w \in Workers
  PROVE  /\ Append(q, w) \in Seq(Workers)
         /\ Elements(Append(q, w)) = Elements(q) \cup {w}
         /\ Distinct(q) /\ w \notin Elements(q) => Distinct(Append(q, w))
<1>1. /\ Append(q, w) \in Seq(Workers) /\ Len(Append(q, w)) = Len(q) + 1
      /\ \A k \in 1..Len(q) : Append(q, w)[k] = q[k]
      /\ Append(q, w)[Len(q) + 1] = w
  OBVIOUS
<1>2. Elements(Append(q, w)) = Elements(q) \cup {w} BY <1>1 DEF Elements
<1>3. Distinct(q) /\ w \notin Elements(q) => Distinct(Append(q, w))
  BY <1>1 DEF Elements, Distinct
<1> QED BY <1>1, <1>2, <1>3

LEMMA ElementsType == ASSUME NEW q \in Seq(Workers) PROVE Elements(q) \subseteq Workers
BY DEF Elements

LEMMA EmptyQueue == Elements(<<>>) = {} /\ Distinct(<<>>) /\ <<>> \in Seq(Workers)
BY DEF Elements, Distinct

-----------------------------------------------------------------------------
(* The batcher. *)

BatcherTypes == /\ queue \in Seq(Workers) /\ batch \subseteq Workers
                /\ timer \in BOOLEAN /\ flush \in {"off", "sending", "settled"}

BatcherInv == BatcherTypes /\ WaitersHeldOnce /\ WaiterServed

LEMMA BatcherOfInv == UploadInv => BatcherInv /\ pc \in [Workers -> PcStates]
BY DEF UploadInv, TypeOK, BatcherInv, BatcherTypes

(* A worker that neither waits before the step nor after it. *)
LEMMA BatcherKept ==
  ASSUME BatcherInv, pc \in [Workers -> PcStates], UNCHANGED batcherVars,
         NEW w \in Workers, pc[w] # "waiting", NEW label, label # "waiting",
         pc' = [pc EXCEPT ![w] = label]
  PROVE  BatcherInv'
<1>1. \A v \in Workers : pc'[v] = "waiting" <=> pc[v] = "waiting" OBVIOUS
<1>2. Elements(queue) \subseteq Workers BY ElementsType DEF BatcherInv, BatcherTypes
<1>3. BatcherTypes' BY DEF BatcherInv, BatcherTypes, batcherVars
<1>4. WaitersHeldOnce'
  BY <1>1, <1>2 DEF BatcherInv, BatcherTypes, WaitersHeldOnce, batcherVars, Elements
<1>5. WaiterServed' BY <1>1 DEF BatcherInv, WaiterServed, batcherVars, Elements
<1> QED BY <1>3, <1>4, <1>5 DEF BatcherInv

(* A worker begins to wait. *)
LEMMA EnqueueStep ==
  ASSUME BatcherInv, pc \in [Workers -> PcStates], NEW w \in Workers, pc[w] # "waiting",
         Enqueue(w), pc' = [pc EXCEPT ![w] = "waiting"]
  PROVE  BatcherInv'
<1> DEFINE q == Append(queue, w)
<1>1. /\ Elements(queue) \subseteq Workers /\ w \notin Elements(queue) /\ w \notin batch
      /\ Distinct(queue) /\ queue \in Seq(Workers)
  BY ElementsType DEF BatcherInv, BatcherTypes, WaitersHeldOnce, Distinct
<1>2. q \in Seq(Workers) /\ Elements(q) = Elements(queue) \cup {w} /\ Distinct(q)
  BY <1>1, AppendQueue
<1>3. \A v \in Workers : pc'[v] = "waiting" <=> pc[v] = "waiting" \/ v = w OBVIOUS
<1>4. CASE Len(q) >= BatchSize /\ flush = "off"
  <2>1. Send(q) BY <1>4 DEF Enqueue
  <2> HIDE DEF q
  <2>2. /\ queue' \in Seq(Workers) /\ batch' \cup Elements(queue') = Elements(q)
        /\ batch' \cap Elements(queue') = {} /\ Distinct(queue')
    <3>1. queue' = Rest(q) /\ batch' = Elements(FirstBatch(q)) BY <2>1 DEF Send
    <3> QED BY <3>1, <1>2, SplitQueue
  <2>3. flush' = "sending" /\ timer' = FALSE BY <2>1 DEF Send
  <2>4. batch = {} BY <1>4 DEF BatcherInv, WaitersHeldOnce
  <2>5. \A v \in Workers : pc'[v] = "waiting" => v \in Elements(q)
    BY <1>2, <1>3, <1>4, <2>4 DEF BatcherInv, WaiterServed
  <2>6. \A v \in Elements(q) : pc'[v] = "waiting"
    BY <1>1, <1>2, <1>3 DEF BatcherInv, WaitersHeldOnce
  <2>7. BatcherTypes' BY <2>2, <2>3, <1>1, <1>2 DEF BatcherTypes
  <2>8. WaitersHeldOnce' BY <2>2, <2>3, <2>6 DEF WaitersHeldOnce, Distinct
  <2>9. WaiterServed' BY <2>2, <2>3, <2>5 DEF WaiterServed
  <2> QED BY <2>7, <2>8, <2>9 DEF BatcherInv
<1>5. CASE ~(Len(q) >= BatchSize /\ flush = "off")
  <2>1. queue' = q /\ timer' = (timer \/ flush = "off") /\ batch' = batch /\ flush' = flush
    BY <1>5 DEF Enqueue
  <2> HIDE DEF q
  <2>2. Elements(queue') = Elements(queue) \cup {w} BY <1>2, <2>1 DEF Elements
  <2>3. BatcherTypes' BY <1>2, <2>1 DEF BatcherInv, BatcherTypes
  <2>4. WaitersHeldOnce'
    <3>1. (timer => flush = "off")' BY <2>1 DEF BatcherInv, WaitersHeldOnce
    <3>2. (flush # "sending" => batch = {})' BY <2>1 DEF BatcherInv, WaitersHeldOnce
    <3>3. \A v \in batch' \cup Elements(queue') : pc'[v] = "waiting"
      BY <1>1, <1>3, <2>1, <2>2 DEF BatcherInv, BatcherTypes, WaitersHeldOnce
    <3>4. batch' \cap Elements(queue') = {}
      BY <1>1, <2>1, <2>2 DEF BatcherInv, WaitersHeldOnce
    <3>5. Distinct(queue') BY <1>2, <2>1
    <3> QED BY <3>1, <3>2, <3>3, <3>4, <3>5 DEF WaitersHeldOnce, Distinct
  <2>5. WaiterServed'
    <3> SUFFICES ASSUME NEW v \in Workers, pc'[v] = "waiting"
                 PROVE  \/ v \in batch' /\ flush' = "sending"
                        \/ v \in Elements(queue') /\ (timer' \/ flush' # "off")
      BY DEF WaiterServed
    <3>1. CASE v = w BY <3>1, <2>1, <2>2
    <3>2. CASE v # w BY <3>2, <1>3, <2>1, <2>2 DEF BatcherInv, WaiterServed
    <3> QED BY <3>1, <3>2
  <2> QED BY <2>3, <2>4, <2>5 DEF BatcherInv
<1> QED BY <1>4, <1>5

(* Waiters are answered: they, and only they, leave the queue or the batch. *)
LEMMA ContinueStep ==
  ASSUME BatcherInv, pc \in [Workers -> PcStates], NEW label \in {"url", "urlError"},
         Continue(queue, batch, label)
  PROVE  /\ BatcherInv' /\ pc' \in [Workers -> PcStates]
         /\ \A v \in Workers : \/ pc'[v] = pc[v]
                               \/ pc[v] = "waiting" /\ pc'[v] \in {"url", "urlError"}
<1>1. /\ queue \in Seq(Workers) /\ Elements(queue) \subseteq Workers /\ Distinct(queue)
      /\ batch \subseteq Workers /\ batch \cap Elements(queue) = {}
      /\ \A v \in batch \cup Elements(queue) : pc[v] = "waiting"
      /\ \A v \in Workers : pc[v] = "waiting" => v \in batch \cup Elements(queue)
  BY ElementsType DEF BatcherInv, BatcherTypes, WaitersHeldOnce, WaiterServed, Distinct
<1>2. CASE queue # <<>> /\ ~failed
  <2>1. /\ Send(queue)
        /\ pc' = [w \in Workers |-> IF w \in batch THEN label ELSE pc[w]]
    BY <1>2 DEF Continue
  <2>2. /\ queue' \in Seq(Workers) /\ batch' \cup Elements(queue') = Elements(queue)
        /\ batch' \cap Elements(queue') = {} /\ Distinct(queue')
    <3>1. queue' = Rest(queue) /\ batch' = Elements(FirstBatch(queue)) BY <2>1 DEF Send
    <3> QED BY <3>1, <1>1, SplitQueue
  <2>3. flush' = "sending" /\ timer' = FALSE BY <2>1 DEF Send
  <2>4. \A v \in Workers : pc'[v] = "waiting" <=> v \in Elements(queue) BY <1>1, <2>1
  <2>5. BatcherTypes' BY <2>2, <2>3, <1>1 DEF BatcherTypes
  <2>6. WaitersHeldOnce' BY <2>2, <2>3, <2>4, <1>1 DEF WaitersHeldOnce, Distinct
  <2>7. WaiterServed' BY <2>2, <2>3, <2>4 DEF WaiterServed
  <2>8. pc' \in [Workers -> PcStates] BY <2>1 DEF PcStates
  <2> QED BY <2>1, <2>5, <2>6, <2>7, <2>8, <1>1 DEF BatcherInv
<1>3. CASE ~(queue # <<>> /\ ~failed)
  <2>1. /\ flush' = "settled" /\ timer' = FALSE /\ batch' = {} /\ queue' = <<>>
        /\ pc' = [w \in Workers |-> IF w \in batch THEN label
                                    ELSE IF w \in Elements(queue) THEN "urlError" ELSE pc[w]]
    BY <1>3 DEF Continue
  <2>2. \A v \in Workers : pc'[v] # "waiting" BY <1>1, <2>1
  <2>3. Elements(queue') = {} /\ Distinct(queue') /\ queue' \in Seq(Workers)
    BY <2>1, EmptyQueue DEF Elements
  <2>4. BatcherTypes' BY <2>1, <2>3 DEF BatcherTypes
  <2>5. WaitersHeldOnce' BY <2>1, <2>3 DEF WaitersHeldOnce, Distinct
  <2>6. WaiterServed' BY <2>2 DEF WaiterServed
  <2>7. pc' \in [Workers -> PcStates] BY <2>1 DEF PcStates
  <2> QED BY <2>1, <2>4, <2>5, <2>6, <2>7, <1>1 DEF BatcherInv
<1> QED BY <1>2, <1>3

-----------------------------------------------------------------------------
(* The parts. *)

PartsInv == Holding /\ Reported /\ NothingDropped /\ Ending

(* A worker keeps its part, or has none and stops where that drops nothing. *)
LEMMA WorkerMoves ==
  ASSUME TypeOK, PartsInv, NEW w \in Workers, pc[w] # "stopped", NEW label \in PcStates,
         pc' = [pc EXCEPT ![w] = label],
         UNCHANGED <<part, produced, progress, main>>,
         stored \subseteq stored', recorded \subseteq recorded',
         label \in Sending => pc[w] \in Sending,
         label \in {"ack", "ackRest"} => part[w] \in stored',
         \/ failed'
         \/ failed' = failed /\ label # "stopped" /\ (pc[w] \in Sending => label \in Sending)
         \/ failed' = failed /\ label = "stopped" /\ pc[w] \notin Sending /\ produced = PartCount
  PROVE  PartsInv'
<1> USE DEF Sending
<1>1. Holding'
  <2>1. \A v \in Workers : pc'[v] \in Sending => pc[v] \in Sending BY DEF TypeOK
  <2>2. \A v \in Workers : pc'[v] \in {"ack", "ackRest"} => part[v] \in stored'
    BY DEF TypeOK, PartsInv, Holding
  <2> QED BY <2>1, <2>2 DEF TypeOK, PartsInv, Holding
<1>2. Reported' BY DEF PartsInv, Reported
<1>3. NothingDropped'
  <2> SUFFICES ASSUME ~failed'
               PROVE  /\ \A p \in 1..produced : progress[p] = 1 \/
                           \E v \in Workers : pc'[v] \in Sending /\ part[v] = p
                      /\ \A v \in Workers : pc'[v] = "stopped" => produced = PartCount
    BY DEF NothingDropped
  <2>1. \A v \in Workers : pc[v] \in Sending => pc'[v] \in Sending BY DEF TypeOK
  <2>2. \A v \in Workers : pc'[v] = "stopped" => pc[v] = "stopped" \/ produced = PartCount
    BY DEF TypeOK
  <2> QED BY <2>1, <2>2 DEF PartsInv, NothingDropped
<1>4. Ending' BY DEF PartsInv, Ending, TypeOK
<1> QED BY <1>1, <1>2, <1>3, <1>4 DEF PartsInv

(* A part is yielded. *)
LEMMA PartTaken ==
  ASSUME TypeOK, PartsInv, NEW w \in Workers, Take(w)
  PROVE  PartsInv'
<1> USE DEF Sending, PcStates
<1>1. /\ pc[w] = "reading" /\ ~failed /\ produced < PartCount /\ produced' = produced + 1
      /\ part' = [part EXCEPT ![w] = produced + 1]
      /\ UNCHANGED <<failed, main, progress, stored, recorded>>
  BY DEF Take, Kept, endVars, serverVars
<1>2. PICK label \in {"proxy", "waiting"} : pc' = [pc EXCEPT ![w] = label]
  BY DEF Take, Goto
<1>3. /\ produced \in Nat /\ PartCount \in Nat /\ produced + 1 \in Parts
      /\ 1..produced' = (1..produced) \cup {produced + 1}
  BY <1>1, SizesAssumption DEF TypeOK, Parts
<1>4. progress[produced + 1] = 0 BY <1>3 DEF PartsInv, Reported
<1>5. \A v \in Workers \ {w} : pc'[v] = pc[v] /\ part'[v] = part[v] BY <1>1, <1>2 DEF TypeOK
<1>6. pc'[w] \in {"proxy", "waiting"} /\ part'[w] = produced + 1 BY <1>1, <1>2 DEF TypeOK
<1>7. \A v \in Workers \ {w} : pc'[v] \in Sending => part'[v] # produced + 1
  BY <1>3, <1>5 DEF PartsInv, Holding
<1>8. Holding'
  <2>1. ASSUME NEW v \in Workers, pc'[v] \in Sending
        PROVE  part'[v] \in 1..produced' /\ progress[part'[v]] = 0
    BY <2>1, <1>3, <1>4, <1>5, <1>6 DEF PartsInv, Holding
  <2>2. ASSUME NEW v \in Workers, NEW u \in Workers, pc'[v] \in Sending, pc'[u] \in Sending,
               part'[v] = part'[u]
        PROVE  v = u
    BY <2>2, <1>5, <1>6, <1>7 DEF PartsInv, Holding
  <2>3. ASSUME NEW v \in Workers, pc'[v] \in {"ack", "ackRest"} PROVE part'[v] \in stored'
    BY <2>3, <1>1, <1>5, <1>6 DEF PartsInv, Holding
  <2> QED BY <2>1, <2>2, <2>3, <1>1 DEF Holding
<1>9. Reported' BY <1>1, <1>3 DEF PartsInv, Reported
<1>10. NothingDropped'
  <2>1. ASSUME NEW p \in 1..produced'
        PROVE  progress[p] = 1 \/ \E v \in Workers : pc'[v] \in Sending /\ part'[v] = p
    <3>1. CASE p = produced + 1 BY <3>1, <1>6
    <3>2. CASE p \in 1..produced /\ progress[p] # 1
      <4>1. PICK v \in Workers : pc[v] \in Sending /\ part[v] = p
        BY <3>2, <1>1 DEF PartsInv, NothingDropped
      <4>2. v # w BY <4>1, <1>1
      <4> QED BY <4>1, <4>2, <1>5
    <3> QED BY <3>1, <3>2, <1>3
  <2>2. ASSUME NEW v \in Workers, pc'[v] = "stopped" PROVE FALSE
    <3>1. v # w /\ pc[v] = "stopped" BY <2>2, <1>5, <1>6
    <3> QED BY <3>1, <1>1, <1>3 DEF PartsInv, NothingDropped
  <2> QED BY <2>1, <2>2, <1>1 DEF NothingDropped
<1>11. Ending' BY <1>1, <1>2 DEF PartsInv, Ending
<1> QED BY <1>8, <1>9, <1>10, <1>11 DEF PartsInv

(* A part that is stored and recorded is reported. *)
LEMMA PartReported ==
  ASSUME TypeOK, PartsInv, NEW w \in Workers, pc[w] \in {"ack", "proxy"}, ~failed, Report(w),
         UNCHANGED <<produced, failed, main>>,
         stored \subseteq stored', recorded \subseteq recorded',
         part[w] \in stored', part[w] \in recorded'
  PROVE  PartsInv'
<1> USE DEF Sending, PcStates
<1>1. /\ progress' = [progress EXCEPT ![part[w]] = progress[part[w]] + 1]
      /\ part' = [part EXCEPT ![w] = 0] /\ pc' = [pc EXCEPT ![w] = "idle"]
  BY DEF Report, Goto
<1>2. part[w] \in 1..produced /\ part[w] \in Parts /\ progress[part[w]] = 0
  <2>1. part[w] \in 1..produced /\ progress[part[w]] = 0 BY DEF PartsInv, Holding
  <2> QED BY <2>1, SizesAssumption DEF TypeOK, Parts
<1>3. /\ progress'[part[w]] = 1
      /\ \A p \in Parts \ {part[w]} : progress'[p] = progress[p]
  BY <1>1, <1>2 DEF TypeOK
<1>4. pc'[w] = "idle" /\ \A v \in Workers \ {w} : pc'[v] = pc[v] /\ part'[v] = part[v]
  BY <1>1 DEF TypeOK
<1>5. Holding'
  <2>1. ASSUME NEW v \in Workers, pc'[v] \in Sending
        PROVE  part'[v] \in 1..produced' /\ progress'[part'[v]] = 0
    <3>1. v # w BY <2>1, <1>4
    <3>2. /\ pc[v] \in Sending /\ part'[v] = part[v] /\ part[v] \in 1..produced
          /\ progress[part[v]] = 0 /\ part[v] # part[w]
      BY <2>1, <3>1, <1>4 DEF PartsInv, Holding
    <3>3. part[v] \in Parts BY <3>2, SizesAssumption DEF TypeOK, Parts
    <3> QED BY <3>2, <3>3, <1>3
  <2>2. ASSUME NEW v \in Workers, NEW u \in Workers, pc'[v] \in Sending, pc'[u] \in Sending,
               part'[v] = part'[u]
        PROVE  v = u
    BY <2>2, <1>4 DEF PartsInv, Holding
  <2>3. ASSUME NEW v \in Workers, pc'[v] \in {"ack", "ackRest"} PROVE part'[v] \in stored'
    BY <2>3, <1>4 DEF PartsInv, Holding
  <2> QED BY <2>1, <2>2, <2>3 DEF Holding
<1>6. Reported' BY <1>2, <1>3 DEF PartsInv, Reported
<1>7. NothingDropped'
  <2>1. ASSUME NEW p \in 1..produced
        PROVE  progress'[p] = 1 \/ \E v \in Workers : pc'[v] \in Sending /\ part'[v] = p
    <3>0. p \in Parts BY SizesAssumption DEF TypeOK, Parts
    <3>1. CASE p = part[w] BY <3>1, <1>3
    <3>2. CASE p # part[w] /\ progress[p] = 1 BY <3>0, <3>2, <1>3
    <3>3. CASE p # part[w] /\ progress[p] # 1
      <4>1. PICK v \in Workers : pc[v] \in Sending /\ part[v] = p
        BY <3>3 DEF PartsInv, NothingDropped
      <4>2. v # w BY <4>1, <3>3
      <4> QED BY <4>1, <4>2, <1>4
    <3> QED BY <3>1, <3>2, <3>3
  <2>2. ASSUME NEW v \in Workers, pc'[v] = "stopped" PROVE produced = PartCount
    <3>1. v # w /\ pc[v] = "stopped" BY <2>2, <1>4
    <3> QED BY <3>1 DEF PartsInv, NothingDropped
  <2> QED BY <2>1, <2>2 DEF NothingDropped
<1>8. Ending' BY <1>1 DEF PartsInv, Ending
<1> QED BY <1>5, <1>6, <1>7, <1>8 DEF PartsInv

(* Waiting workers are answered; nothing changes for their parts. *)
LEMMA PartsUndisturbed ==
  ASSUME TypeOK, PartsInv, UNCHANGED <<part, produced, progress, stored, recorded, endVars>>,
         \A v \in Workers : \/ pc'[v] = pc[v]
                            \/ pc[v] = "waiting" /\ pc'[v] \in {"url", "urlError"}
  PROVE  PartsInv'
<1>1. \A v \in Workers : /\ pc'[v] \in Sending <=> pc[v] \in Sending
                         /\ pc'[v] = "stopped" <=> pc[v] = "stopped"
                         /\ pc'[v] \in {"ack", "ackRest"} <=> pc[v] \in {"ack", "ackRest"}
  BY DEF Sending, PcStates
<1>2. Holding' BY <1>1 DEF PartsInv, Holding
<1>3. Reported' BY DEF PartsInv, Reported
<1>4. NothingDropped' BY <1>1 DEF PartsInv, NothingDropped, endVars
<1>5. Ending' BY <1>1 DEF PartsInv, Ending, endVars
<1> QED BY <1>2, <1>3, <1>4, <1>5 DEF PartsInv

-----------------------------------------------------------------------------
(* The steps of a worker. *)

WorkerInv ==
  /\ mode \in {"direct", "proxy"} /\ produced \in 0..PartCount
  /\ pc \in [Workers -> PcStates] /\ part \in [Workers -> 0..PartCount]
  /\ attempt \in [Workers -> 0..MaxAttempts] /\ directUnavailable \in BOOLEAN
  /\ failed \in BOOLEAN /\ main \in {"racing", "closing", "ok", "failed"}
  /\ stored \subseteq Parts /\ recorded \subseteq Parts
  /\ progress \in [Parts -> Nat] /\ faults \in Nat
  /\ RestsToRetry

LEMMA InvSplits == UploadInv <=> WorkerInv /\ BatcherInv /\ PartsInv
BY DEF UploadInv, TypeOK, WorkerInv, BatcherInv, BatcherTypes, PartsInv

LEMMA HeldPart ==
  ASSUME UploadInv, NEW w \in Workers, pc[w] \in Sending
  PROVE  part[w] \in Parts
<1>1. part[w] \in 1..produced BY DEF UploadInv, Holding
<1> QED BY <1>1, SizesAssumption DEF UploadInv, TypeOK, Parts

(* A worker goes on with its part, or without one, and does not wait. *)
Moves(w, label) ==
  /\ pc[w] \notin {"waiting", "stopped"} /\ label \in PcStates \ {"waiting"}
  /\ pc' = [pc EXCEPT ![w] = label]
  /\ UNCHANGED <<mode, part, produced, progress, main, batcherVars>>
  /\ attempt' \in [Workers -> 0..MaxAttempts] /\ directUnavailable' \in BOOLEAN
  /\ \A v \in Workers \ {w} : attempt'[v] = attempt[v]
  /\ label \in {"putRest", "ackRest", "proxyRest"} => attempt'[w] < MaxAttempts
  /\ stored \subseteq stored' /\ stored' \subseteq Parts
  /\ recorded \subseteq recorded' /\ recorded' \subseteq Parts
  /\ failed' \in BOOLEAN /\ faults' \in Nat
  /\ label \in Sending => pc[w] \in Sending
  /\ label \in {"ack", "ackRest"} => part[w] \in stored'
  /\ \/ failed'
     \/ failed' = failed /\ label # "stopped" /\ (pc[w] \in Sending => label \in Sending)
     \/ failed' = failed /\ label = "stopped" /\ pc[w] \notin Sending /\ produced = PartCount

LEMMA MoveKeepsInv ==
  ASSUME UploadInv, NEW w \in Workers, NEW label, Moves(w, label)
  PROVE  UploadInv'
<1>1. TypeOK /\ WorkerInv /\ BatcherInv /\ PartsInv BY InvSplits DEF UploadInv
<1>2. WorkerInv'
  <2>1. RestsToRetry' BY <1>1 DEF Moves, WorkerInv, RestsToRetry
  <2> QED BY <1>1, <2>1 DEF Moves, WorkerInv
<1>3. BatcherInv'
  <2>1. UNCHANGED batcherVars /\ pc \in [Workers -> PcStates] /\ pc[w] # "waiting"
        /\ label # "waiting" /\ pc' = [pc EXCEPT ![w] = label]
    BY <1>1 DEF Moves, WorkerInv
  <2> QED BY <1>1, <2>1, BatcherKept
<1>4. PartsInv'
  <2>1. /\ pc[w] # "stopped" /\ label \in PcStates /\ pc' = [pc EXCEPT ![w] = label]
        /\ UNCHANGED <<part, produced, progress, main>>
        /\ stored \subseteq stored' /\ recorded \subseteq recorded'
        /\ label \in Sending => pc[w] \in Sending
        /\ label \in {"ack", "ackRest"} => part[w] \in stored'
        /\ \/ failed'
           \/ failed' = failed /\ label # "stopped" /\ (pc[w] \in Sending => label \in Sending)
           \/ /\ failed' = failed /\ label = "stopped"
              /\ pc[w] \notin Sending /\ produced = PartCount
    BY DEF Moves
  <2> QED BY <1>1, <2>1, WorkerMoves
<1> QED BY <1>2, <1>3, <1>4
       DEF UploadInv, TypeOK, WorkerInv, BatcherInv, BatcherTypes, PartsInv

(* A worker that asks for a URL again. *)
LEMMA RetryPutKeepsInv ==
  ASSUME UploadInv, NEW w \in Workers, RetryPut(w)
  PROVE  UploadInv'
<1>1. TypeOK /\ WorkerInv /\ BatcherInv /\ PartsInv BY InvSplits DEF UploadInv
<1>2. /\ pc[w] = "putRest" /\ Enqueue(w) /\ pc' = [pc EXCEPT ![w] = "waiting"]
      /\ UNCHANGED <<mode, produced, part, directUnavailable, failed, main, progress,
                     stored, recorded, faults>>
  BY DEF RetryPut, Goto, Kept, endVars, serverVars
<1>3. attempt' \in [Workers -> 0..MaxAttempts]
  <2>1. attempt[w] < MaxAttempts BY <1>2 DEF UploadInv, RestsToRetry
  <2> QED BY <2>1, <1>1, SizesAssumption DEF RetryPut, TypeOK
<1>4. WorkerInv'
  <2>1. RestsToRetry' BY <1>1, <1>2 DEF RetryPut, WorkerInv, RestsToRetry
  <2> QED BY <1>1, <1>2, <1>3, <2>1 DEF WorkerInv, PcStates
<1>5. BatcherInv' BY <1>1, <1>2, EnqueueStep DEF WorkerInv
<1>6. PartsInv' BY <1>1, <1>2, WorkerMoves DEF PcStates, Sending
<1> QED BY <1>4, <1>5, <1>6
       DEF UploadInv, TypeOK, WorkerInv, BatcherInv, BatcherTypes, PartsInv

LEMMA TakeKeepsInv ==
  ASSUME UploadInv, NEW w \in Workers, Take(w)
  PROVE  UploadInv'
<1>1. TypeOK /\ WorkerInv /\ BatcherInv /\ PartsInv BY InvSplits DEF UploadInv
<1>2. /\ pc[w] = "reading" /\ produced' = produced + 1 /\ produced < PartCount
      /\ part' = [part EXCEPT ![w] = produced + 1] /\ attempt' = [attempt EXCEPT ![w] = 1]
      /\ UNCHANGED <<mode, directUnavailable, failed, main, progress, stored, recorded, faults>>
  BY DEF Take, Kept, endVars, serverVars
<1>3. \/ pc' = [pc EXCEPT ![w] = "proxy"] /\ UNCHANGED batcherVars
      \/ pc' = [pc EXCEPT ![w] = "waiting"] /\ Enqueue(w)
  BY DEF Take, Goto
<1>4. WorkerInv'
  <2>1. /\ produced' \in 0..PartCount /\ part' \in [Workers -> 0..PartCount]
        /\ attempt' \in [Workers -> 0..MaxAttempts]
    BY <1>1, <1>2, SizesAssumption DEF WorkerInv
  <2>2. pc' \in [Workers -> PcStates] BY <1>1, <1>3 DEF WorkerInv, PcStates
  <2>3. RestsToRetry' BY <1>1, <1>2, <1>3 DEF WorkerInv, RestsToRetry
  <2> QED BY <1>1, <1>2, <2>1, <2>2, <2>3 DEF WorkerInv
<1>5. BatcherInv' BY <1>1, <1>2, <1>3, BatcherKept, EnqueueStep DEF WorkerInv
<1>6. PartsInv' BY <1>1, PartTaken
<1> QED BY <1>4, <1>5, <1>6
       DEF UploadInv, TypeOK, WorkerInv, BatcherInv, BatcherTypes, PartsInv

(* Acknowledged and ProxyAnswered. *)
LEMMA ReportKeepsInv ==
  ASSUME UploadInv, NEW w \in Workers, pc[w] \in {"ack", "proxy"}, ~failed, Report(w),
         UNCHANGED <<mode, produced, attempt, directUnavailable, batcherVars, endVars, faults>>,
         stored \subseteq stored', stored' \subseteq Parts, part[w] \in stored',
         recorded \subseteq recorded', recorded' \subseteq Parts, part[w] \in recorded'
  PROVE  UploadInv'
<1>1. TypeOK /\ WorkerInv /\ BatcherInv /\ PartsInv BY InvSplits DEF UploadInv
<1>2. /\ pc' = [pc EXCEPT ![w] = "idle"] /\ part' = [part EXCEPT ![w] = 0]
      /\ progress' = [progress EXCEPT ![part[w]] = progress[part[w]] + 1]
  BY DEF Report, Goto
<1>3. WorkerInv'
  <2>1. /\ part' \in [Workers -> 0..PartCount] /\ progress' \in [Parts -> Nat]
        /\ pc' \in [Workers -> PcStates]
    BY <1>1, <1>2, SizesAssumption DEF WorkerInv, PcStates
  <2>2. RestsToRetry' BY <1>1, <1>2 DEF WorkerInv, RestsToRetry
  <2> QED BY <1>1, <2>1, <2>2 DEF WorkerInv, endVars
<1>4. BatcherInv' BY <1>1, <1>2, BatcherKept DEF WorkerInv
<1>5. PartsInv'
  <2>1. UNCHANGED <<produced, failed, main>> BY DEF endVars
  <2> QED BY <1>1, <2>1, PartReported
<1> QED BY <1>3, <1>4, <1>5
       DEF UploadInv, TypeOK, WorkerInv, BatcherInv, BatcherTypes, PartsInv

(* The steps of uploadPart that keep the part. *)
LEMMA UploadPartKeepsInv ==
  ASSUME UploadInv, NEW w \in Workers, UploadPart(w)
  PROVE  UploadInv'
<1> USE DEF Locally, Kept, endVars, serverVars, Goto, PcStates, Sending
<1>1. /\ WorkerInv /\ (pc[w] \in Sending => part[w] \in Parts)
      /\ (pc[w] \in {"ack", "ackRest"} => part[w] \in stored)
      /\ (pc[w] \in {"putRest", "ackRest", "proxyRest"} => attempt[w] < MaxAttempts)
  BY InvSplits, HeldPart DEF UploadInv, Holding, RestsToRetry
<1>2. 1 \in 0..MaxAttempts /\ MaxAttempts \in Nat BY SizesAssumption
<1>3. \A n \in 0..MaxAttempts : n < MaxAttempts => n + 1 \in 0..MaxAttempts BY <1>2
<1>4. CASE UrlFailed(w)
  <2>1. CASE attempt[w] < MaxAttempts
    <3>1. Moves(w, "putRest")
      BY <1>1, <1>4, <2>1 DEF UrlFailed, RestOrFallBack, Moves, WorkerInv
    <3> QED BY <3>1, MoveKeepsInv
  <2>2. CASE ~(attempt[w] < MaxAttempts)
    <3>1. Moves(w, "proxy")
      BY <1>1, <1>2, <1>4, <2>2 DEF UrlFailed, RestOrFallBack, FallBack, Moves, WorkerInv
    <3> QED BY <3>1, MoveKeepsInv
  <2> QED BY <2>1, <2>2
<1>5. CASE Put(w)
  <2>1. Moves(w, "put") BY <1>1, <1>5 DEF Put, Moves, WorkerInv
  <2> QED BY <2>1, MoveKeepsInv
<1>6. CASE PutStored(w)
  <2>1. Moves(w, "ack") BY <1>1, <1>2, <1>6 DEF PutStored, Moves, WorkerInv
  <2> QED BY <2>1, MoveKeepsInv
<1>7. CASE PutFails(w)
  <2>1. /\ pc[w] = "put" /\ ~failed /\ faults' \in Nat
        /\ stored \subseteq stored' /\ stored' \subseteq Parts
        /\ UNCHANGED <<mode, produced, part, batcherVars, endVars, progress, recorded>>
    BY <1>1, <1>7 DEF PutFails, Fault, WorkerInv
  <2>2. CASE FallBack(w)
    <3>1. Moves(w, "proxy") BY <1>1, <1>2, <2>1, <2>2 DEF FallBack, Moves, WorkerInv
    <3> QED BY <3>1, MoveKeepsInv
  <2>3. CASE /\ attempt[w] < MaxAttempts /\ Goto(w, "putRest")
             /\ UNCHANGED attempt /\ UNCHANGED directUnavailable
    <3>1. Moves(w, "putRest") BY <1>1, <2>1, <2>3 DEF Moves, WorkerInv
    <3> QED BY <3>1, MoveKeepsInv
  <2> QED BY <1>7, <2>2, <2>3 DEF PutFails, RestOrFallBack
<1>8. CASE RetryPut(w) BY <1>8, RetryPutKeepsInv
<1>9. CASE Acknowledged(w)
  <2>1. /\ pc[w] \in {"ack", "proxy"} /\ ~failed /\ Report(w)
        /\ UNCHANGED <<mode, produced, attempt, directUnavailable, batcherVars, endVars, faults>>
        /\ stored' = stored /\ recorded' = recorded \cup {part[w]}
        /\ stored \subseteq Parts /\ recorded \subseteq Parts
        /\ part[w] \in stored /\ part[w] \in Parts
    BY <1>1, <1>9 DEF Acknowledged, WorkerInv
  <2> HIDE DEF Goto, endVars
  <2> QED BY <2>1, ReportKeepsInv
<1>10. CASE AckFails(w)
  <2>1. /\ pc[w] = "ack" /\ ~failed /\ faults' \in Nat
        /\ recorded \subseteq recorded' /\ recorded' \subseteq Parts
        /\ UNCHANGED <<mode, produced, part, batcherVars, endVars, progress, stored>>
    BY <1>1, <1>10 DEF AckFails, Fault, WorkerInv
  <2>2. CASE attempt[w] < MaxAttempts
    <3>1. Moves(w, "ackRest")
      BY <1>1, <1>10, <2>1, <2>2 DEF AckFails, RestOrFallBack, Moves, WorkerInv
    <3> QED BY <3>1, MoveKeepsInv
  <2>3. CASE ~(attempt[w] < MaxAttempts)
    <3>1. Moves(w, "proxy")
      BY <1>1, <1>2, <1>10, <2>1, <2>3 DEF AckFails, RestOrFallBack, FallBack, Moves, WorkerInv
    <3> QED BY <3>1, MoveKeepsInv
  <2> QED BY <2>2, <2>3
<1>11. CASE RetryAck(w)
  <2>1. Moves(w, "ack") BY <1>1, <1>3, <1>11 DEF RetryAck, Moves, WorkerInv
  <2> QED BY <2>1, MoveKeepsInv
<1>12. CASE ProxyAnswered(w)
  <2>1. /\ pc[w] \in {"ack", "proxy"} /\ ~failed /\ Report(w)
        /\ UNCHANGED <<mode, produced, attempt, directUnavailable, batcherVars, endVars, faults>>
        /\ stored' = stored \cup {part[w]} /\ recorded' = recorded \cup {part[w]}
        /\ stored \subseteq Parts /\ recorded \subseteq Parts /\ part[w] \in Parts
    BY <1>1, <1>12 DEF ProxyAnswered, WorkerInv
  <2> HIDE DEF Goto, endVars
  <2> QED BY <2>1, ReportKeepsInv
<1>13. CASE ProxyFails(w)
  <2>1. /\ pc[w] = "proxy" /\ ~failed /\ faults' \in Nat
        /\ stored \subseteq stored' /\ stored' \subseteq Parts
        /\ recorded \subseteq recorded' /\ recorded' \subseteq Parts
        /\ UNCHANGED <<mode, produced, part, attempt, directUnavailable, batcherVars, main,
                       progress>>
    BY <1>1, <1>13 DEF ProxyFails, Fault, Stop, WorkerInv
  <2>2. CASE attempt[w] < MaxAttempts /\ Goto(w, "proxyRest") /\ UNCHANGED endVars
    <3>1. Moves(w, "proxyRest") BY <1>1, <2>1, <2>2 DEF Moves, WorkerInv
    <3> QED BY <3>1, MoveKeepsInv
  <2>3. CASE Stop(w)
    <3>1. Moves(w, "stopped") BY <1>1, <2>1, <2>3 DEF Stop, Moves, WorkerInv
    <3> QED BY <3>1, MoveKeepsInv
  <2> QED BY <1>13, <2>2, <2>3 DEF ProxyFails
<1>14. CASE RetryProxy(w)
  <2>1. Moves(w, "proxy") BY <1>1, <1>3, <1>14 DEF RetryProxy, Moves, WorkerInv
  <2> QED BY <2>1, MoveKeepsInv
<1> QED BY <1>4, <1>5, <1>6, <1>7, <1>8, <1>9, <1>10, <1>11, <1>12, <1>13, <1>14
       DEF UploadPart

LEMMA WorkKeepsInv ==
  ASSUME UploadInv, NEW w \in Workers, Source(w) \/ Work(w)
  PROVE  UploadInv'
<1> USE DEF Locally, Kept, endVars, serverVars, Goto, PcStates, Sending
<1>1. WorkerInv /\ (pc[w] \in Sending => part[w] \in Parts) BY InvSplits, HeldPart
<1>2. CASE Take(w) BY <1>2, TakeKeepsInv
<1>3. CASE ReadDone(w)
  <2>1. Moves(w, "stopped") BY <1>1, <1>3 DEF ReadDone, Moves, WorkerInv
  <2> QED BY <2>1, MoveKeepsInv
<1>4. CASE ReadFails(w)
  <2>1. Moves(w, "stopped") BY <1>1, <1>4 DEF ReadFails, Fault, Stop, Moves, WorkerInv
  <2> QED BY <2>1, MoveKeepsInv
<1>5. CASE Ask(w)
  <2>1. Moves(w, "reading") BY <1>1, <1>5 DEF Ask, Moves, WorkerInv
  <2> QED BY <2>1, MoveKeepsInv
<1>6. CASE Halt(w)
  <2>1. /\ stored \subseteq stored' /\ stored' \subseteq Parts
        /\ recorded \subseteq recorded' /\ recorded' \subseteq Parts
    BY <1>1, <1>6 DEF Halt, WorkerInv
  <2>2. Moves(w, "stopped") BY <1>1, <1>6, <2>1 DEF Halt, Moves, WorkerInv
  <2> QED BY <2>2, MoveKeepsInv
<1>7. CASE UploadPart(w) BY <1>7, UploadPartKeepsInv
<1> QED BY <1>2, <1>3, <1>4, <1>5, <1>6, <1>7 DEF Source, Work

-----------------------------------------------------------------------------
(* The steps of the batcher and of the call. *)

LEMMA BatcherKeepsInv ==
  ASSUME UploadInv, Batcher
  PROVE  UploadInv'
<1>1. TypeOK /\ WorkerInv /\ BatcherInv /\ PartsInv BY InvSplits DEF UploadInv
<1>2. ASSUME NEW label \in {"url", "urlError"}, Continue(queue, batch, label),
             UNCHANGED <<mode, produced, part, attempt, directUnavailable, endVars,
                         serverVars, progress>>,
             faults' \in Nat
      PROVE  UploadInv'
  <2>1. /\ BatcherInv' /\ pc' \in [Workers -> PcStates]
        /\ \A v \in Workers : \/ pc'[v] = pc[v]
                              \/ pc[v] = "waiting" /\ pc'[v] \in {"url", "urlError"}
    BY <1>1, <1>2, ContinueStep DEF WorkerInv
  <2>2. PartsInv' BY <1>1, <1>2, <2>1, PartsUndisturbed DEF serverVars
  <2>3. RestsToRetry' BY <1>1, <1>2, <2>1 DEF WorkerInv, RestsToRetry
  <2>4. WorkerInv' BY <1>1, <1>2, <2>1, <2>3 DEF WorkerInv, endVars, serverVars
  <2> QED BY <2>1, <2>2, <2>4
         DEF UploadInv, TypeOK, WorkerInv, BatcherInv, BatcherTypes, PartsInv
<1>3. CASE TimerFires
  <2>1. batch = {} BY <1>1, <1>3 DEF TimerFires, BatcherInv, WaitersHeldOnce
  <2>2. Continue(queue, batch, "url") BY <1>3, <2>1 DEF TimerFires
  <2>3. faults' \in Nat BY <1>1, <1>3 DEF TimerFires, WorkerInv
  <2> QED BY <1>2, <1>3, <2>2, <2>3 DEF TimerFires
<1>4. CASE UrlsAnswered
  <2>1. faults' \in Nat BY <1>1, <1>4 DEF UrlsAnswered, WorkerInv
  <2> QED BY <1>2, <1>4, <2>1 DEF UrlsAnswered
<1>5. CASE UrlsFail
  <2>1. faults' \in Nat BY <1>1, <1>5 DEF UrlsFail, Fault, WorkerInv
  <2> QED BY <1>2, <1>5, <2>1 DEF UrlsFail
<1>6. CASE FlushSettled
  <2>1. /\ flush = "settled" /\ flush' = "off" /\ timer' = (queue # <<>>)
        /\ UNCHANGED <<mode, workerVars, queue, batch, endVars, serverVars, progress, faults>>
    BY <1>6 DEF FlushSettled
  <2>2. BatcherTypes' BY <1>1, <2>1 DEF BatcherInv, BatcherTypes
  <2>3. WaitersHeldOnce'
    BY <1>1, <2>1 DEF BatcherInv, WaitersHeldOnce, Elements, workerVars
  <2>4. WaiterServed'
    <3>1. \A v \in Elements(queue) : queue # <<>> BY EmptyQueue
    <3> QED BY <1>1, <2>1, <3>1 DEF BatcherInv, WaiterServed, Elements, workerVars
  <2>5. PartsInv' BY <1>1, <2>1, PartsUndisturbed DEF workerVars, serverVars
  <2>6. RestsToRetry' BY <1>1, <2>1 DEF WorkerInv, RestsToRetry, workerVars
  <2>7. WorkerInv' BY <1>1, <2>1, <2>6 DEF WorkerInv, workerVars, endVars, serverVars
  <2> QED BY <2>2, <2>3, <2>4, <2>5, <2>7
         DEF UploadInv, TypeOK, WorkerInv, BatcherInv, BatcherTypes, PartsInv
<1> QED BY <1>3, <1>4, <1>5, <1>6 DEF Batcher

LEMMA MainKeepsInv ==
  ASSUME UploadInv, Main \/ UNCHANGED vars
  PROVE  UploadInv'
<1>1. TypeOK /\ WorkerInv /\ BatcherInv /\ PartsInv BY InvSplits DEF UploadInv
<1>2. /\ UNCHANGED <<mode, workerVars, batcherVars, serverVars, progress>>
      /\ failed' \in BOOLEAN /\ faults' \in Nat
      /\ main' \in {"racing", "closing", "ok", "failed"}
      /\ failed => failed'
  <2>0. failed \in BOOLEAN /\ faults \in Nat /\ main \in {"racing", "closing", "ok", "failed"}
    BY <1>1 DEF WorkerInv
  <2>1. CASE RaceWon BY <2>0, <2>1 DEF RaceWon
  <2>2. CASE Closed
    <3>1. UNCHANGED <<mode, workerVars, batcherVars, serverVars, progress>>
      BY <2>2 DEF Closed
    <3>2. failed' \in BOOLEAN /\ (failed => failed')
      <4>1. failed' = failed \/ failed' = TRUE BY <2>2, Zenon DEF Closed
      <4> QED BY <4>1, <2>0
    <3>3. faults' \in Nat /\ main' \in {"racing", "closing", "ok", "failed"}
      BY <2>0, <2>2 DEF Closed, Fault
    <3> QED BY <3>1, <3>2, <3>3
  <2>3. CASE UNCHANGED vars BY <2>0, <2>3 DEF vars, endVars
  <2> QED BY <2>1, <2>2, <2>3 DEF Main
<1>3. RestsToRetry' BY <1>1, <1>2 DEF WorkerInv, RestsToRetry, workerVars
<1>4. WorkerInv' BY <1>1, <1>2, <1>3 DEF WorkerInv, workerVars, serverVars
<1>5. BatcherTypes' /\ WaitersHeldOnce' /\ WaiterServed'
  BY <1>1, <1>2 DEF BatcherInv, BatcherTypes, WaitersHeldOnce, WaiterServed, Elements,
                    batcherVars, workerVars
<1>6. Holding' /\ Reported' /\ NothingDropped'
  BY <1>1, <1>2 DEF PartsInv, Holding, Reported, NothingDropped, workerVars, serverVars
<1>7. Ending'
  <2>1. CASE RaceWon BY <1>1, <1>2, <2>1 DEF RaceWon, PartsInv, Ending, Reading, workerVars
  <2>2. CASE Closed BY <1>1, <1>2, <2>2 DEF Closed, PartsInv, Ending, workerVars
  <2>3. CASE UNCHANGED vars
    BY <1>1, <2>3 DEF vars, PartsInv, Ending, workerVars, endVars
  <2> QED BY <2>1, <2>2, <2>3 DEF Main
<1> QED BY <1>4, <1>5, <1>6, <1>7
       DEF UploadInv, TypeOK, WorkerInv, BatcherTypes

LEMMA InitEstablishesInv == Init => UploadInv
<1> SUFFICES ASSUME Init PROVE UploadInv
  OBVIOUS
<1>1. TypeOK
  <2>1. 0 \in 0..PartCount /\ 0 \in 0..MaxAttempts BY SizesAssumption
  <2>2. /\ part \in [Workers -> 0..PartCount] /\ attempt \in [Workers -> 0..MaxAttempts]
        /\ progress \in [Parts -> Nat] /\ pc \in [Workers -> PcStates]
    BY <2>1 DEF Init, PcStates
  <2> QED BY <2>1, <2>2, EmptyQueue DEF Init, TypeOK
<1>2. PartsInv
  BY SizesAssumption
  DEF Init, PartsInv, Holding, Reported, NothingDropped, Ending, Sending, Parts
<1>3. RestsToRetry BY DEF Init, RestsToRetry
<1>4. WaitersHeldOnce /\ WaiterServed
  BY EmptyQueue DEF Init, WaitersHeldOnce, WaiterServed, Distinct
<1> QED BY <1>1, <1>2, <1>3, <1>4 DEF UploadInv, PartsInv

(* UploadInv holds in every reachable state. *)
THEOREM UploadInvariant == Spec => []UploadInv
<1>1. UploadInv /\ [Next]_vars => UploadInv'
  BY WorkKeepsInv, BatcherKeepsInv, MainKeepsInv DEF Next
<1> QED BY InitEstablishesInv, <1>1, PTL DEF Spec

-----------------------------------------------------------------------------
(* What follows from it. *)

(* Every variable has its type; attempts stay within their limit. *)
THEOREM UploadTypes == Spec => []TypeOK
<1>1. UploadInv => TypeOK BY DEF UploadInv
<1> QED BY UploadInvariant, <1>1, PTL

(* uploadChunksFromStream resolves only when every part is stored and       *)
(* recorded.                                                                *)
THEOREM SuccessIsComplete == Spec => []SuccessMeansRecorded
<1>1. ASSUME UploadInv, main = "ok" PROVE stored = Parts /\ recorded = Parts
  <2>1. ~failed /\ \A w \in Workers : pc[w] = "stopped" BY <1>1 DEF UploadInv, Ending
  <2>2. PICK w \in Workers : TRUE BY WorkersAssumption
  <2>3. produced = PartCount BY <1>1, <2>1, <2>2 DEF UploadInv, NothingDropped
  <2>4. \A p \in Parts : progress[p] = 1
    BY <1>1, <2>1, <2>3 DEF UploadInv, NothingDropped, Parts, Sending
  <2> QED BY <1>1, <2>4 DEF UploadInv, Reported, TypeOK
<1>2. UploadInv => SuccessMeansRecorded BY <1>1 DEF SuccessMeansRecorded
<1> QED BY UploadInvariant, <1>2, PTL

(* The progress counts each part once, and only when it is recorded. *)
THEOREM ProgressIsHonest == Spec => []ProgressHonest
<1>1. ASSUME UploadInv, main = "ok" PROVE \A p \in Parts : progress[p] = 1
  <2>1. ~failed /\ \A w \in Workers : pc[w] = "stopped" BY <1>1 DEF UploadInv, Ending
  <2>2. PICK w \in Workers : TRUE BY WorkersAssumption
  <2>3. produced = PartCount BY <1>1, <2>1, <2>2 DEF UploadInv, NothingDropped
  <2> QED BY <1>1, <2>1, <2>3 DEF UploadInv, NothingDropped, Parts, Sending
<1>2. UploadInv => ProgressHonest BY <1>1 DEF ProgressHonest, UploadInv, Reported
<1> QED BY UploadInvariant, <1>2, PTL

(* The batcher never forgets a waiter. *)
THEOREM WaitersServed == Spec => []WaiterServed
<1>1. UploadInv => WaiterServed BY DEF UploadInv
<1> QED BY UploadInvariant, <1>1, PTL

(* After the first error there is neither a request nor progress. *)
THEOREM NothingAfterError == Spec => SilentAfterError
<1> DEFINE Silent == failed =>
      /\ \A w \in Workers : pc'[w] \in {"put", "ack", "proxy"} => pc'[w] = pc[w]
      /\ batch' \subseteq batch
      /\ progress' = progress
<1>1. ASSUME UploadInv, [Next]_vars, failed PROVE Silent
  <2>1. pc \in [Workers -> PcStates] BY <1>1 DEF UploadInv, TypeOK
  <2>2. ASSUME NEW w \in Workers, pc' = [pc EXCEPT ![w] = "stopped"], batch' = batch,
               progress' = progress
        PROVE  Silent
    BY <2>1, <2>2
  <2>3. ASSUME NEW w \in Workers, Source(w) \/ Work(w) PROVE Silent
    <3>1. ~UploadPart(w)
      BY <1>1 DEF UploadPart, UrlFailed, Put, PutStored, PutFails, RetryPut, Acknowledged,
                  AckFails, RetryAck, ProxyAnswered, ProxyFails, RetryProxy
    <3>2. ReadDone(w) \/ ReadFails(w) \/ Halt(w)
      BY <1>1, <2>3, <3>1 DEF Source, Work, Take, Ask
    <3>3. pc' = [pc EXCEPT ![w] = "stopped"] /\ batch' = batch /\ progress' = progress
      BY <3>2 DEF ReadDone, ReadFails, Halt, Stop, Goto, Locally, batcherVars
    <3> QED BY <2>2, <3>3
  <2>4. CASE Batcher
    <3>1. ASSUME NEW settled, NEW label \in {"url", "urlError"}, Continue(queue, settled, label),
                 progress' = progress
          PROVE  Silent
      BY <1>1, <3>1 DEF Continue
    <3>2. CASE FlushSettled BY <3>2 DEF FlushSettled, workerVars
    <3> QED BY <2>4, <3>1, <3>2 DEF Batcher, TimerFires, UrlsAnswered, UrlsFail
  <2>5. CASE Main BY <2>5 DEF Main, RaceWon, Closed, workerVars, batcherVars
  <2>6. CASE UNCHANGED vars BY <2>6 DEF vars, workerVars, batcherVars
  <2> QED BY <1>1, <2>3, <2>4, <2>5, <2>6 DEF Next
<1>2. UploadInv /\ [Next]_vars => [Silent]_vars BY <1>1
<1> QED BY UploadInvariant, <1>2, PTL DEF Spec, SilentAfterError

=============================================================================
