------------------------- MODULE FileDownloadProofs -------------------------
(***************************************************************************)
(* FileDownload keeps its count, its limit and the ticket pool, for any    *)
(* set of downloads, any limit, any size of the object and any number of   *)
(* faults.                                                                 *)
(***************************************************************************)
EXTENDS FileDownload, FiniteSetTheorems, TLAPS

USE DEF vars, storeVars, shareVars, streamVars

(* The sets of tickets are finite, so their elements can be counted. *)
LEMMA OutFinite == IsFiniteSet(Out) /\ Cardinality(Out) \in Nat
<1>1. Out \in SUBSET Downloads
  BY DEF Out, Held, Used, Lost
<1>2. IsFiniteSet(Out)
  BY <1>1, DownloadsAssumption, FS_Subset
<1> QED
  BY <1>2, FS_CardinalityType

-----------------------------------------------------------------------------
(* What each step does to the tickets and to the count. *)

Keep == Held' = Held /\ Used' = Used /\ Lost' = Lost
Take(d) == d \notin Out /\ Held' = Held \cup {d} /\ Used' = Used /\ Lost' = Lost
GiveBack(d) == d \in Held /\ Held' = Held \ {d} /\ Used' = Used /\ Lost' = Lost
Use(d) == d \in Held /\ Held' = Held \ {d} /\ Used' = Used \cup {d} /\ Lost' = Lost
Lose(d) == d \in Held /\ Held' = Held \ {d} /\ Used' = Used /\ Lost' = Lost \cup {d}

(* A granted reservation takes a ticket. *)
LEMMA ReserveTakes ==
  ASSUME TypeOK, StreamProgress, NEW d \in Downloads, Reserve(d)
  PROVE  \/ row /\ count < Limit /\ count' = count + 1 /\ Take(d)
         \/ count' = count /\ Keep
<1> USE SizeAssumption DEF TypeOK, StreamProgress, Reserve, Goto
<1>1. CASE row /\ count < Limit
  <2>1. d \notin Out
    BY DEF Out, Held, Used, Lost
  <2>2. Held' = Held \cup {d} /\ Used' = Used /\ Lost' = Lost
    BY <1>1 DEF Held, Used, Lost
  <2> QED
    BY <1>1, <2>1, <2>2 DEF Take
<1>2. CASE ~(row /\ count < Limit)
  BY <1>2 DEF Keep, Held, Used, Lost
<1> QED
  BY <1>1, <1>2

(* A restored download gives its ticket back, and nothing else does. *)
LEMMA RestoreGivesBack ==
  ASSUME TypeOK, StreamProgress, NEW d \in Downloads, Restore(d)
  PROVE  /\ GiveBack(d)
         /\ count' = IF row /\ count > 0 THEN count - 1 ELSE count
<1>1. d \in Held /\ d \notin Used /\ d \notin Lost
  BY SizeAssumption DEF TypeOK, StreamProgress, Restore, Held, Used, Lost
<1>2. Held' = Held \ {d} /\ Used' = Used /\ Lost' = Lost
  BY <1>1, SizeAssumption DEF TypeOK, StreamProgress, Restore, Goto, Held, Used, Lost
<1> QED
  BY <1>1, <1>2 DEF GiveBack, Restore

(* The last chunk uses the ticket up. *)
LEMMA SendUses ==
  ASSUME TypeOK, StreamProgress, NEW d \in Downloads, Send(d)
  PROVE  count' = count /\ (Use(d) \/ Keep)
<1> USE SizeAssumption DEF TypeOK, StreamProgress, Send
<1>1. d \in Held
  BY DEF Held, Used
<1>2. CASE sent[d] + 1 = Size
  BY <1>1, <1>2 DEF Use, Held, Used, Lost
<1>3. CASE sent[d] + 1 # Size
  BY <1>1, <1>3 DEF Keep, Held, Used, Lost
<1> QED
  BY <1>2, <1>3

(* A download that dies loses the ticket it holds. *)
LEMMA CrashLoses ==
  ASSUME TypeOK, StreamProgress, NEW d \in Downloads, Crash(d)
  PROVE  count' = count /\ (Lose(d) \/ Keep)
<1> USE SizeAssumption DEF TypeOK, StreamProgress, Crash, Goto
<1>1. CASE sent[d] = Size
  BY <1>1 DEF Keep, Held, Used, Lost
<1>2. CASE sent[d] # Size
  <2>1. d \in Held
    BY <1>2 DEF Held, Used
  <2>2. Held' = Held \ {d} /\ Used' = Used /\ Lost' = Lost \cup {d}
    BY <1>2 DEF Held, Used, Lost
  <2> QED
    BY <2>1, <2>2 DEF Lose
<1> QED
  BY <1>1, <1>2

(* The other steps of a download leave the tickets and the count alone. *)
LEMMA OtherKeeps ==
  ASSUME TypeOK, StreamProgress, NEW d \in Downloads,
         \/ Find(d) \/ OpenObject(d) \/ Finish(d) \/ Interrupt(d) \/ EraseObject(d)
         \/ EraseRow(d) \/ Receive(d) \/ Disconnect(d)
  PROVE  count' = count /\ Keep
<1> USE SizeAssumption DEF TypeOK, StreamProgress, Goto, Delivered, Keep, Held, Used, Lost
<1>1. CASE Find(d) \/ Receive(d) \/ Disconnect(d)
  BY <1>1 DEF Find, Receive, Disconnect
<1>2. CASE OpenObject(d)
  BY <1>2 DEF OpenObject
<1>3. CASE Finish(d) \/ Interrupt(d)
  BY <1>3 DEF Finish, Interrupt
<1>4. CASE EraseObject(d) \/ EraseRow(d)
  BY <1>4 DEF EraseObject, EraseRow
<1> QED
  BY <1>1, <1>2, <1>3, <1>4

(* Every step, as the ticket pool sees it. *)
StepOnTickets ==
  \/ \E d \in Downloads : row /\ count < Limit /\ count' = count + 1 /\ Take(d)
  \/ \E d \in Downloads : GiveBack(d) /\ count' = IF row /\ count > 0 THEN count - 1 ELSE count
  \/ \E d \in Downloads : count' = count /\ (Use(d) \/ Lose(d))
  \/ count' = count /\ Keep

(* Every step of the program is one of those, and a row that is gone stays gone. *)
LEMMA NextOnTickets ==
  ASSUME TypeOK, StreamProgress, [Next]_vars
  PROVE  StepOnTickets /\ (row' => row)
<1>1. row' => row
  BY DEF Next, Handle, Transfer, Find, Reserve, OpenObject, Send, Receive, Disconnect, Finish,
     Interrupt, Restore, EraseObject, EraseRow, Crash, ToggleAccess, DeleteShareObject,
     DeleteShareRow
<1>2. CASE ToggleAccess \/ DeleteShareObject \/ DeleteShareRow \/ UNCHANGED vars
  <2>1. Keep /\ count' = count
    BY <1>2 DEF ToggleAccess, DeleteShareObject, DeleteShareRow, Keep, Held, Used, Lost
  <2> QED
    BY <1>1, <2>1 DEF StepOnTickets
<1>3. ASSUME NEW d \in Downloads,
             \/ Find(d) \/ Handle(d) \/ Transfer(d) \/ Receive(d) \/ Disconnect(d) \/ Crash(d)
      PROVE  StepOnTickets
  <2>1. CASE Reserve(d)
    BY <2>1, ReserveTakes DEF StepOnTickets
  <2>2. CASE Restore(d)
    BY <2>2, RestoreGivesBack DEF StepOnTickets
  <2>3. CASE Send(d) \/ Crash(d)
    BY <2>3, SendUses, CrashLoses DEF StepOnTickets
  <2>4. CASE \/ Find(d) \/ OpenObject(d) \/ Finish(d) \/ Interrupt(d) \/ EraseObject(d)
             \/ EraseRow(d) \/ Receive(d) \/ Disconnect(d)
    BY <2>4, OtherKeeps DEF StepOnTickets
  <2> QED
    BY <1>3, <2>1, <2>2, <2>3, <2>4 DEF Handle, Transfer
<1> QED
  BY <1>1, <1>2, <1>3 DEF Next

-----------------------------------------------------------------------------
(* The invariant. *)

(* No ticket is out at first. *)
LEMMA TicketInit == Init => TicketInv
<1> SUFFICES ASSUME Init PROVE TicketInv
  OBVIOUS
<1>1. TypeOK /\ StreamProgress
  BY LimitAssumption, SizeAssumption DEF Init, TypeOK, StreamProgress, PcStates
<1>2. Out = {}
  BY SizeAssumption DEF Init, Out, Held, Used, Lost
<1>3. Cardinality(Out) = 0
  BY <1>2, FS_EmptySet
<1> QED
  BY <1>1, <1>3, LimitAssumption DEF TicketInv, CountIsTickets, Init

(* How many tickets are out after each kind of step. *)
LEMMA OutAfter ==
  ASSUME NEW d \in Downloads
  PROVE  /\ Take(d) => Cardinality(Out)' = Cardinality(Out) + 1
         /\ GiveBack(d) => Cardinality(Out)' = Cardinality(Out) - 1 /\ Cardinality(Out) > 0
         /\ Use(d) \/ Lose(d) \/ Keep => Cardinality(Out)' = Cardinality(Out)
<1>1. Cardinality(Out) \in Nat /\ IsFiniteSet(Out)
  BY OutFinite
<1>2. ASSUME Take(d) PROVE Cardinality(Out)' = Cardinality(Out) + 1
  <2>1. Out' = Out \cup {d} /\ d \notin Out
    BY <1>2 DEF Take, Out
  <2> QED
    BY <1>1, <2>1, FS_AddElement
<1>3. ASSUME GiveBack(d)
      PROVE  Cardinality(Out)' = Cardinality(Out) - 1 /\ Cardinality(Out) > 0
  <2>1. Out' = Out \ {d} /\ d \in Out
    BY <1>3 DEF GiveBack, Out, Held, Used, Lost
  <2>2. Cardinality(Out)' = Cardinality(Out) - 1
    BY <1>1, <2>1, FS_RemoveElement
  <2>3. Cardinality(Out) # 0
    BY <1>1, <2>1, FS_EmptySet
  <2> QED
    BY <1>1, <2>2, <2>3
<1>4. ASSUME Use(d) \/ Lose(d) \/ Keep PROVE Cardinality(Out)' = Cardinality(Out)
  <2>1. Out' = Out
    BY <1>4 DEF Use, Lose, Keep, Out
  <2> QED
    BY <2>1
<1> QED
  BY <1>2, <1>3, <1>4

(* The count follows the tickets, and stays within the limit. *)
LEMMA CountsKept ==
  ASSUME TicketInv, StepOnTickets, row' => row
  PROVE  CountIsTickets' /\ Cardinality(Out)' <= Limit /\ count' \in 0..Limit
<1> USE LimitAssumption, OutFinite DEF TicketInv, TypeOK, CountIsTickets
<1>1. ASSUME NEW d \in Downloads, row, count < Limit, count' = count + 1, Take(d)
      PROVE  CountIsTickets' /\ Cardinality(Out)' <= Limit /\ count' \in 0..Limit
  BY <1>1, OutAfter
<1>2. ASSUME NEW d \in Downloads, GiveBack(d),
             count' = IF row /\ count > 0 THEN count - 1 ELSE count
      PROVE  CountIsTickets' /\ Cardinality(Out)' <= Limit /\ count' \in 0..Limit
  BY <1>2, OutAfter
<1>3. ASSUME NEW d \in Downloads, count' = count, Use(d) \/ Lose(d) \/ Keep
      PROVE  CountIsTickets' /\ Cardinality(Out)' <= Limit /\ count' \in 0..Limit
  BY <1>3, OutAfter
<1>4. ASSUME count' = count, Keep
      PROVE  CountIsTickets' /\ Cardinality(Out)' <= Limit /\ count' \in 0..Limit
  BY <1>4 DEF Keep, Out
<1> QED
  BY <1>1, <1>2, <1>3, <1>4 DEF StepOnTickets

(* The place of a handler goes on telling what has passed its stream. *)
LEMMA StreamsKept ==
  ASSUME TypeOK, StreamProgress, count' \in 0..Limit, [Next]_vars
  PROVE  TypeOK' /\ StreamProgress'
<1> USE SizeAssumption, LimitAssumption DEF TypeOK, StreamProgress, PcStates, Goto
<1>1. CASE ToggleAccess \/ DeleteShareObject \/ DeleteShareRow \/ UNCHANGED vars
  BY <1>1 DEF ToggleAccess, DeleteShareObject, DeleteShareRow
<1>2. ASSUME NEW d \in Downloads,
             \/ Find(d) \/ Handle(d) \/ Transfer(d) \/ Receive(d) \/ Disconnect(d) \/ Crash(d)
      PROVE  TypeOK' /\ StreamProgress'
  <2>1. CASE Find(d) \/ Reserve(d)
    BY <2>1 DEF Find, Reserve
  <2>2. CASE OpenObject(d)
    BY <2>2 DEF OpenObject, Fault
  <2>3. CASE Send(d) \/ Receive(d) \/ Disconnect(d)
    BY <2>3 DEF Send, Receive, Disconnect
  <2>4. CASE Finish(d)
    BY <2>4 DEF Finish, Delivered
  <2>5. CASE Interrupt(d)
    BY <2>5 DEF Interrupt, Delivered, Fault
  <2>6. CASE Restore(d) \/ EraseObject(d) \/ EraseRow(d)
    BY <2>6 DEF Restore, EraseObject, EraseRow
  <2>7. CASE Crash(d)
    BY <2>7 DEF Crash, Fault
  <2> QED
    BY <1>2, <2>1, <2>2, <2>3, <2>4, <2>5, <2>6, <2>7 DEF Handle, Transfer
<1> QED
  BY <1>1, <1>2 DEF Next

(* Every step keeps the invariant. *)
LEMMA TicketNext == TicketInv /\ [Next]_vars => TicketInv'
<1> SUFFICES ASSUME TicketInv, [Next]_vars PROVE TicketInv'
  OBVIOUS
<1>1. StepOnTickets /\ (row' => row)
  BY NextOnTickets DEF TicketInv
<1>2. CountIsTickets' /\ Cardinality(Out)' <= Limit /\ count' \in 0..Limit
  BY <1>1, CountsKept
<1>3. TypeOK' /\ StreamProgress'
  BY <1>2, StreamsKept DEF TicketInv
<1> QED
  BY <1>2, <1>3 DEF TicketInv

(* Every reachable state satisfies the inductive invariant. *)
THEOREM TicketInvariant == Spec => []TicketInv
BY TicketInit, TicketNext, PTL DEF Spec

(* The types, and with them that the count never passes the limit. *)
THEOREM DownloadTypes == Spec => []TypeOK
<1>1. TicketInv => TypeOK
  BY DEF TicketInv
<1> QED
  BY <1>1, TicketInvariant, PTL

(* The count of a file's row is the number of tickets that are out: a       *)
(* reservation is never restored twice, or restored after it was used.      *)
THEOREM CountExact == Spec => []CountIsTickets
<1>1. TicketInv => CountIsTickets
  BY DEF TicketInv
<1> QED
  BY <1>1, TicketInvariant, PTL

(* No more clients than the limit receive the whole file. *)
THEOREM LimitKept == Spec => []CopiesWithinLimit
<1>1. TicketInv => CopiesWithinLimit
  <2> SUFFICES ASSUME TicketInv PROVE CopiesWithinLimit
    OBVIOUS
  <2> DEFINE Copies == {d \in Downloads : got[d] = Size}
  <2>1. ASSUME NEW d \in Downloads, got[d] = Size PROVE d \in Out
    <3>1. sent[d] = Size
      BY <2>1, SizeAssumption DEF TicketInv, TypeOK, StreamProgress
    <3>2. pc[d] \notin {"new", "found", "refused", "reserved", "restore"}
      BY <3>1, SizeAssumption DEF TicketInv, StreamProgress
    <3>3. pc[d] \in {"streaming", "erase", "eraseRow", "done", "dead"}
      BY <3>2 DEF TicketInv, TypeOK, PcStates
    <3> QED
      BY <3>1, <3>3 DEF Out, Used
  <2>2. Copies \in SUBSET Out
    BY <2>1
  <2>3. Cardinality(Copies) <= Cardinality(Out) /\ IsFiniteSet(Copies)
    BY <2>2, OutFinite, FS_Subset
  <2>4. Cardinality(Copies) \in Nat
    BY <2>3, FS_CardinalityType
  <2> QED
    BY <2>3, <2>4, OutFinite, LimitAssumption DEF TicketInv, CopiesWithinLimit
<1> QED
  BY <1>1, TicketInvariant, PTL

(* With the limit the program sets for a one-time file, a download deletes  *)
(* the file only when a whole copy has been sent (the deletion that follows *)
(* onFullyDelivered in routes/file/[fileId]/route.ts).                      *)
THEOREM SpentBeforeErased ==
  ASSUME Limit = 1
  PROVE  Spec => ErasedOnlySpent
<1>1. TicketInv /\ [Next]_vars
        => (object /\ ~object' /\ closing' # "object" => Cardinality(Used) = Limit)
  <2> SUFFICES ASSUME TicketInv, [Next]_vars, object, ~object', closing' # "object"
               PROVE  Cardinality(Used) = Limit
    OBVIOUS
  <2>1. PICK d \in Downloads : pc[d] = "erase"
    BY DEF Next, Handle, Transfer, Find, Reserve, OpenObject, Send, Receive, Disconnect, Finish,
       Interrupt, Restore, EraseObject, EraseRow, Crash, ToggleAccess, DeleteShareObject,
       DeleteShareRow
  <2>2. d \in Used
    BY <2>1 DEF TicketInv, StreamProgress, Used
  <2>3. Used \in SUBSET Out
    BY DEF Out
  <2>4. IsFiniteSet(Used) /\ Cardinality(Used) <= Cardinality(Out) /\ Cardinality(Used) \in Nat
    BY <2>3, OutFinite, FS_Subset, FS_CardinalityType
  <2>5. Cardinality(Used) # 0
    BY <2>2, <2>4, FS_EmptySet
  <2> QED
    BY <2>4, <2>5, OutFinite DEF TicketInv
<1>2. TicketInv /\ [Next]_vars
        => [object /\ ~object' /\ closing' # "object" => Cardinality(Used) = Limit]_vars
  BY <1>1
<1> QED
  BY <1>2, TicketInvariant, PTL DEF Spec, ErasedOnlySpent

(* The handlers implement the ticket pool: each reservation is a ticket     *)
(* taken within the limit, and each ticket is given back, used or lost once. *)
THEOREM DownloadImplementsTickets == Spec => TicketSpec
<1>1. Init => Tickets!Init
  <2> SUFFICES ASSUME Init PROVE Tickets!Init
    OBVIOUS
  <2>1. Held = {} /\ Used = {} /\ Lost = {}
    BY SizeAssumption DEF Init, Held, Used, Lost
  <2>2. Cardinality(Out) = 0
    BY <2>1, FS_EmptySet DEF Out
  <2> QED
    BY <2>1, <2>2, LimitAssumption DEF Tickets!Init
<1>2. TicketInv /\ [Next]_vars => [Tickets!Next]_(Tickets!vars)
  <2> SUFFICES ASSUME TicketInv, [Next]_vars PROVE [Tickets!Next]_(Tickets!vars)
    OBVIOUS
  <2>1. StepOnTickets
    BY NextOnTickets DEF TicketInv
  <2>2. ASSUME NEW d \in Downloads, row, count < Limit, Take(d) PROVE Tickets!Take(d)
    <3>1. d \notin Held \cup Used \cup Lost
      BY <2>2 DEF Take, Out
    <3>2. Limit - Cardinality(Out) > 0
      BY <2>2, OutFinite, LimitAssumption DEF TicketInv, CountIsTickets
    <3>3. (Limit - Cardinality(Out))' = Limit - Cardinality(Out) - 1
      BY <2>2, OutAfter, OutFinite, LimitAssumption
    <3> QED
      BY <2>2, <3>1, <3>2, <3>3 DEF Tickets!Take, Take
  <2>3. ASSUME NEW d \in Downloads, GiveBack(d) PROVE Tickets!GiveBack(d)
    BY <2>3, OutAfter, OutFinite, LimitAssumption DEF Tickets!GiveBack, GiveBack
  <2>4. ASSUME NEW d \in Downloads, Use(d) \/ Lose(d) PROVE Tickets!Use(d) \/ Tickets!Lose(d)
    BY <2>4, OutAfter DEF Tickets!Use, Tickets!Lose, Use, Lose
  <2>5. ASSUME Keep PROVE UNCHANGED Tickets!vars
    BY <2>5 DEF Keep, Out, Tickets!vars
  <2> QED
    BY <2>1, <2>2, <2>3, <2>4, <2>5 DEF StepOnTickets, Tickets!Next
<1> QED
  BY <1>1, <1>2, TicketInvariant, PTL DEF Spec, TicketSpec, Tickets!Spec

=============================================================================
