--------------------------- MODULE CleanupBatches ---------------------------
(***************************************************************************)
(* One scheduled clean-up (runScheduledCleanup and runCleanupBatches of    *)
(* lib/cleanup.ts, lib/storage/cleanupBudget.ts): expired shares, then     *)
(* stale uploads, each read in bounded batches behind a cursor, under one  *)
(* work budget.  What deleting a row does is ShareStorage; here a row is   *)
(* its place in the order of the query.                                    *)
(***************************************************************************)
EXTENDS Naturals, FiniteSets, FiniteSetsExt

CONSTANTS Rows,        \* at most this many rows are due in either phase
          QueryLimit, MaxBatches, WorkLimit

ASSUME CleanupBatchesAssumption ==
    /\ Rows \in Nat /\ WorkLimit \in Nat
    /\ QueryLimit \in Nat \ {0} /\ MaxBatches \in Nat \ {0}

Phases == {"expiredShares", "staleUploads"}

VARIABLES due,      \* rows at or before the cutoff of the phase, still in the table
          phase,
          cursor,   \* [after, batch, full, todo] of the running phase
          work,     \* operations left (budgetCleanup)
          result    \* CleanupResult of each phase

cleanupVars == <<due, phase, cursor, work, result>>

NoCursor == [after |-> 0, batch |-> 0, full |-> TRUE, todo |-> {}]
NoResult == [scanned |-> FALSE, failed |-> 0, reachedBatchLimit |-> FALSE]

CleanupInit ==
    /\ \E n \in [Phases -> 0..Rows] : due = [p \in Phases |-> 1..n[p]]
    /\ phase = "expiredShares" /\ cursor = NoCursor /\ work = WorkLimit
    /\ result = [p \in Phases |-> NoResult]

NextPhase == IF phase = "expiredShares" THEN "staleUploads" ELSE "done"

\* The phase ends with this result; the other one runs whatever happened.
EndPhase(r) ==
    /\ result' = [result EXCEPT ![phase] = r]
    /\ phase' = NextPhase /\ cursor' = NoCursor

Here == result[phase]

\* Mutant: the batches used up are not reported.
FinishedQuietly(full) == [Here EXCEPT !.scanned = TRUE]

\* A batch has been handled and no further one is read: the last one was short, or the
\* batches are used up and rows may be left.
Finished(full) == [Here EXCEPT !.scanned = TRUE, !.reachedBatchLimit = full]

OutOfWork == [Here EXCEPT !.scanned = TRUE, !.reachedBatchLimit = TRUE]

\* fetchBatch: the first rows behind the cursor.
FetchBatch ==
    /\ phase \in Phases /\ cursor.todo = {} /\ cursor.full /\ cursor.batch < MaxBatches
    /\ work > 0 /\ work' = work - 1 /\ UNCHANGED due
    /\ LET behind == {r \in due[phase] : r > cursor.after}
           rows == {r \in behind : Cardinality({q \in behind : q <= r}) <= QueryLimit}
       IN IF rows = {}
          THEN EndPhase(Finished(FALSE))
          ELSE /\ cursor' = [cursor EXCEPT !.todo = rows, !.batch = @ + 1,
                                           !.full = Cardinality(rows) = QueryLimit]
               /\ UNCHANGED <<phase, result>>

FetchOutOfWork ==
    /\ phase \in Phases /\ cursor.todo = {} /\ cursor.full /\ cursor.batch < MaxBatches
    /\ work = 0 /\ EndPhase(OutOfWork) /\ UNCHANGED <<due, work>>

\* A query fails: the phase ends without a result (null in the summary).
ScanFails ==
    /\ phase \in Phases /\ cursor.todo = {} /\ work > 0
    /\ cursor.full /\ cursor.batch < MaxBatches
    /\ work' = work - 1 /\ EndPhase(Here) /\ UNCHANGED due

\* Rows leave the batch in the query's order.  Handling one takes a few operations; it
\* succeeds only when the row is gone.
Row == Min(cursor.todo)
Passed == [cursor EXCEPT !.after = Row, !.todo = @ \ {Row}]
Gone == due' = [due EXCEPT ![phase] = @ \ {Row}]

Delete ==
    /\ phase \in Phases /\ cursor.todo # {} /\ work > 0
    /\ \E cost \in 1..2 : cost <= work /\ work' = work - cost
    /\ Gone /\ cursor' = Passed /\ UNCHANGED <<phase, result>>

\* The row is kept for the next run, or went and only its last check failed.
DeleteFails ==
    /\ phase \in Phases /\ cursor.todo # {} /\ work > 0 /\ work' = work - 1
    /\ Gone \/ UNCHANGED due
    /\ cursor' = Passed /\ result' = [result EXCEPT ![phase].failed = @ + 1]
    /\ UNCHANGED phase

DeleteOutOfWork ==
    /\ phase \in Phases /\ cursor.todo # {} /\ work <= 1 /\ work' = 0
    /\ Gone \/ UNCHANGED due
    /\ EndPhase(OutOfWork)

\* The loop over batches ends.
Leave ==
    /\ phase \in Phases /\ cursor.todo = {} /\ cursor.batch > 0
    /\ ~cursor.full \/ cursor.batch = MaxBatches
    /\ EndPhase(Finished(cursor.full)) /\ UNCHANGED <<due, work>>

\* Another request deletes the row, or completes the upload, meanwhile.
OtherRequest ==
    /\ phase \in Phases
    /\ \E p \in Phases : \E r \in due[p] : due' = [due EXCEPT ![p] = @ \ {r}]
    /\ UNCHANGED <<phase, cursor, work, result>>

CleanupNext ==
    \/ FetchBatch \/ FetchOutOfWork \/ ScanFails \/ Leave
    \/ Delete \/ DeleteFails \/ DeleteOutOfWork \/ OtherRequest

CleanupSpec == CleanupInit /\ [][CleanupNext]_cleanupVars

HasBacklog ==
    \E p \in Phases :
        ~result[p].scanned \/ result[p].failed > 0 \/ result[p].reachedBatchLimit

\* A run that logs no backlog left nothing behind: whatever failed, ran out of budget or
\* disappeared meanwhile, every row that was due at its cutoff is gone.
HonestSummary == phase = "done" /\ ~HasBacklog => \A p \in Phases : due[p] = {}
=============================================================================
