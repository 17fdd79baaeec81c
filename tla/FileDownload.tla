---------------------------- MODULE FileDownload ----------------------------
(***************************************************************************)
(* Downloads of one file with a download limit (GET /api/file/[fileId]     *)
(* where max_downloads is not NULL; lib/retention.ts sets it to 1 for the  *)
(* retention "once" and to NULL otherwise).  The handler reserves a        *)
(* download by counting it, streams the object through a counter, and then *)
(* either deletes the file or takes the count back.  The share's deletion, *)
(* suspension and expiry run beside it.                                    *)
(*                                                                         *)
(* The object is Size chunks.  sent[d] counts what has passed through the  *)
(* counting TransformStream, got[d] what the client has received; a chunk  *)
(* in between is lost when the client leaves.                              *)
(***************************************************************************)
EXTENDS Naturals, FiniteSets

CONSTANTS
  Downloads,   \* executions of the GET handler
  Limit,       \* max_downloads
  Size,        \* chunks of the object
  MaxFaults    \* bound: failed calls and killed handlers

ASSUME LimitAssumption == Limit \in Nat \ {0}
ASSUME SizeAssumption == Size \in Nat \ {0}
ASSUME DownloadsAssumption == IsFiniteSet(Downloads)
ASSUME FaultsAssumption == MaxFaults \in Nat

VARIABLES
  row,      \* D1: the files row is there
  count,    \* D1: download_count
  object,   \* R2: the object is there
  open,     \* the share is neither suspended nor expired
  closing,  \* the share's deletion: "no", "object" or "row" is done
  pc,       \* where each download stands
  turn,     \* the download_count its reservation returned
  sent,     \* chunks that passed the counter
  got,      \* chunks the client has received
  left,     \* downloads whose client has disconnected
  faults

storeVars  == <<row, count, object>>
shareVars  == <<open, closing>>
streamVars == <<sent, got, left>>
vars == <<storeVars, shareVars, pc, turn, streamVars, faults>>

Fault == faults < MaxFaults /\ faults' = faults + 1
Goto(d, label) == pc' = [pc EXCEPT ![d] = label]

Init ==
  /\ row = TRUE /\ count = 0 /\ object = TRUE
  /\ open = TRUE /\ closing = "no"
  /\ pc = [d \in Downloads |-> "new"]
  /\ turn = [d \in Downloads |-> 0]
  /\ sent = [d \in Downloads |-> 0]
  /\ got = [d \in Downloads |-> 0]
  /\ left = {} /\ faults = 0

(* SELECT the file, SELECT the share, checkShareAccessible. *)
Find(d) ==
  /\ pc[d] = "new" /\ row /\ open
  /\ Goto(d, "found")
  /\ UNCHANGED <<storeVars, shareVars, turn, streamVars, faults>>

(* Bug: the limit is checked on the count that was read with the file. *)
ReserveUnchecked(d) ==
  /\ pc[d] = "found"
  /\ IF row
     THEN /\ count' = count + 1
          /\ turn' = [turn EXCEPT ![d] = count + 1]
          /\ Goto(d, "reserved")
     ELSE Goto(d, "refused") /\ UNCHANGED <<count, turn>>
  /\ UNCHANGED <<row, object, shareVars, streamVars, faults>>

(* UPDATE files SET download_count = download_count + 1 WHERE ... RETURNING. *)
Reserve(d) ==
  /\ pc[d] = "found"
  /\ IF row /\ count < Limit
     THEN /\ count' = count + 1
          /\ turn' = [turn EXCEPT ![d] = count + 1]
          /\ Goto(d, "reserved")
     ELSE Goto(d, "refused") /\ UNCHANGED <<count, turn>>
  /\ UNCHANGED <<row, object, shareVars, streamVars, faults>>

(* Bug: a rejected get ends the request without restoring the count. *)
OpenObjectForgetful(d) ==
  /\ pc[d] = "reserved"
  /\ \/ object /\ Goto(d, "streaming") /\ UNCHANGED faults
     \/ ~object /\ Goto(d, "restore") /\ UNCHANGED faults
     \/ Fault /\ Goto(d, "done")
  /\ UNCHANGED <<storeVars, shareVars, turn, streamVars>>

(* FILES_BUCKET.get: a body, null, or an error. *)
OpenObject(d) ==
  /\ pc[d] = "reserved"
  /\ \/ object /\ Goto(d, "streaming") /\ UNCHANGED faults
     \/ ~object /\ Goto(d, "restore") /\ UNCHANGED faults
     \/ Fault /\ Goto(d, "restore")
  /\ UNCHANGED <<storeVars, shareVars, turn, streamVars>>

Send(d) ==
  /\ pc[d] = "streaming" /\ d \notin left /\ sent[d] < Size
  /\ sent' = [sent EXCEPT ![d] = @ + 1]
  /\ UNCHANGED <<storeVars, shareVars, pc, turn, got, left, faults>>

Receive(d) ==
  /\ d \notin left /\ got[d] < sent[d]
  /\ got' = [got EXCEPT ![d] = @ + 1]
  /\ UNCHANGED <<storeVars, shareVars, pc, turn, sent, left, faults>>

(* The client closes the connection or the network drops it. *)
Disconnect(d) ==
  /\ pc[d] \in {"reserved", "streaming"} /\ d \notin left
  /\ left' = left \cup {d}
  /\ UNCHANGED <<storeVars, shareVars, pc, turn, sent, got, faults>>

(* onFullyDelivered: the last download deletes the file. *)
Delivered(d) == Goto(d, IF turn[d] >= Limit THEN "erase" ELSE "done")

(* pipeTo resolves. *)
Finish(d) ==
  /\ pc[d] = "streaming" /\ sent[d] = Size
  /\ Delivered(d)
  /\ UNCHANGED <<storeVars, shareVars, turn, streamVars, faults>>

(* Bug: every rejection of pipeTo is taken for an interruption. *)
InterruptAlwaysRestores(d) ==
  /\ pc[d] = "streaming"
  /\ (d \in left /\ UNCHANGED faults) \/ Fault
  /\ Goto(d, "restore")
  /\ UNCHANGED <<storeVars, shareVars, turn, streamVars>>

(* Bug: every rejection of pipeTo is taken for a client that has it all. *)
InterruptNeverRestores(d) ==
  /\ pc[d] = "streaming"
  /\ (d \in left /\ UNCHANGED faults) \/ Fault
  /\ Delivered(d)
  /\ UNCHANGED <<storeVars, shareVars, turn, streamVars>>

(* pipeTo rejects, the client having left or R2 having failed; it may do so *)
(* though the last byte has passed.                                         *)
Interrupt(d) ==
  /\ pc[d] = "streaming"
  /\ (d \in left /\ UNCHANGED faults) \/ Fault
  /\ IF sent[d] >= Size THEN Delivered(d) ELSE Goto(d, "restore")
  /\ UNCHANGED <<storeVars, shareVars, turn, streamVars>>

(* restoreDownloadCount: UPDATE ... WHERE id = ? AND download_count > 0. *)
Restore(d) ==
  /\ pc[d] = "restore"
  /\ count' = IF row /\ count > 0 THEN count - 1 ELSE count
  /\ Goto(d, "done")
  /\ UNCHANGED <<row, object, shareVars, turn, streamVars, faults>>

(* deleteOneTimeFile: the object, then the row. *)
EraseObject(d) ==
  /\ pc[d] = "erase"
  /\ object' = FALSE
  /\ Goto(d, "eraseRow")
  /\ UNCHANGED <<row, count, shareVars, turn, streamVars, faults>>

EraseRow(d) ==
  /\ pc[d] = "eraseRow"
  /\ row' = FALSE
  /\ Goto(d, "done")
  /\ UNCHANGED <<count, object, shareVars, turn, streamVars, faults>>

(* A call fails, the failed restore is swallowed, or the Worker is killed: *)
(* the download does nothing more.                                         *)
Crash(d) ==
  /\ pc[d] \in {"reserved", "streaming", "restore", "erase", "eraseRow"} /\ Fault
  /\ Goto(d, "dead")
  /\ left' = left \cup {d}
  /\ UNCHANGED <<storeVars, shareVars, turn, sent, got>>

(* Suspension, the end of a suspension and expiry. *)
ToggleAccess ==
  /\ open' = ~open
  /\ UNCHANGED <<storeVars, closing, pc, turn, streamVars, faults>>

(* deleteShare: R2.delete, then the D1 batch. *)
DeleteShareObject ==
  /\ closing = "no" /\ row
  /\ closing' = "object" /\ object' = FALSE
  /\ UNCHANGED <<row, count, open, pc, turn, streamVars, faults>>

DeleteShareRow ==
  /\ closing = "object"
  /\ closing' = "row" /\ row' = FALSE
  /\ UNCHANGED <<count, object, open, pc, turn, streamVars, faults>>

Handle(d) ==
  \/ Reserve(d) \/ OpenObject(d) \/ Finish(d) \/ Restore(d) \/ EraseObject(d) \/ EraseRow(d)

Transfer(d) == Send(d) \/ Interrupt(d)

Next ==
  \/ \E d \in Downloads : \/ Find(d) \/ Handle(d) \/ Transfer(d) \/ Receive(d)
                          \/ Disconnect(d) \/ Crash(d)
  \/ ToggleAccess \/ DeleteShareObject \/ DeleteShareRow

Spec == Init /\ [][Next]_vars

(* A handler runs to its end unless it is killed, and a stream makes        *)
(* progress until the whole object has passed or the connection breaks.     *)
Fairness == \A d \in Downloads : WF_vars(Handle(d)) /\ WF_vars(Transfer(d))

FairSpec == Spec /\ Fairness

-----------------------------------------------------------------------------
(* Properties. *)

PcStates == {"new", "found", "refused", "reserved", "streaming", "restore", "erase",
             "eraseRow", "done", "dead"}

(* Every variable has its type; the count stays between 0 and the limit. *)
TypeOK ==
  /\ row \in BOOLEAN /\ object \in BOOLEAN /\ open \in BOOLEAN
  /\ count \in 0..Limit
  /\ closing \in {"no", "object", "row"}
  /\ pc \in [Downloads -> PcStates]
  /\ turn \in [Downloads -> 0..Limit]
  /\ sent \in [Downloads -> 0..Size]
  /\ got \in [Downloads -> 0..Size]
  /\ left \subseteq Downloads
  /\ faults \in Nat

(* Downloads that hold a ticket, have used one up, or have lost one. *)
Used == {d \in Downloads : pc[d] \in {"streaming", "erase", "eraseRow", "done", "dead"}
                           /\ sent[d] = Size}
Held == {d \in Downloads : pc[d] \in {"reserved", "streaming", "restore"}} \ Used
Lost == {d \in Downloads : pc[d] = "dead"} \ Used

Out == Held \cup Used \cup Lost

(* No more clients than the limit get the whole file, however their         *)
(* reservations, interruptions and restores interleave.                     *)
CopiesWithinLimit == Cardinality({d \in Downloads : got[d] = Size}) <= Limit

(* While the row is there its count is exactly the tickets that are out. *)
CountIsTickets == row => count = Cardinality(Out)

(* A file is deleted by a download only when the limit is really spent: as  *)
(* many downloads as the limit were sent the whole of it.                   *)
ErasedOnlySpent ==
  [][object /\ ~object' /\ closing' # "object" => Cardinality(Used) = Limit]_vars

(* A file is not stuck at its limit: the reservations that exhaust it end   *)
(* in its deletion or in a restored count, also when R2's get rejects or a  *)
(* stream fails, unless a Worker is killed or the restore or the deletion   *)
(* itself fails, which leaves its download dead.                            *)
NotStuckAtLimit ==
  row /\ count = Limit ~> ~row \/ count < Limit \/ \E d \in Downloads : pc[d] = "dead"

(* The reservation protocol implements the ticket pool. *)
Tickets == INSTANCE DownloadTickets WITH free <- Limit - Cardinality(Out),
                                         held <- Held, used <- Used, lost <- Lost
TicketSpec == Tickets!Spec

(* The inductive invariant: besides the two counts, where a stream stands  *)
(* says what has passed.                                                   *)
StreamProgress ==
  \A d \in Downloads :
    /\ got[d] <= sent[d]
    /\ pc[d] \in {"new", "found", "refused", "reserved"} => sent[d] = 0
    /\ pc[d] = "restore" => sent[d] < Size
    /\ pc[d] \in {"erase", "eraseRow"} => sent[d] = Size

TicketInv == TypeOK /\ StreamProgress /\ CountIsTickets /\ Cardinality(Out) <= Limit

(* docs/architecture.md and the handler's comment: what follows a download  *)
(* depends on the bytes that actually reached the client, and a download    *)
(* whose client left before all of them reached it gives its count back     *)
(* instead of deleting the file.                                            *)
InterruptedNotErased ==
  [][\A d \in Downloads : pc[d] = "erase" /\ pc'[d] = "eraseRow" =>
       ~(d \in left /\ got[d] < Size)]_vars

=============================================================================
