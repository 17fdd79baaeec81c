--------------------------- MODULE AnalyticsProofs ---------------------------
(***************************************************************************)
(* Proofs about the analytics, for any events, days and sessions: what the *)
(* daily job settles is what was accepted, and the reports agree.          *)
(***************************************************************************)
EXTENDS Analytics, AnalyticsReports, FiniteSetTheorems, WellFoundedInduction, TLAPS

(***************************************************************************)
(* Sums over a set: the code adds numbers up, the properties count sets.   *)
(* Among the parts of the index set a smallest one at which two solutions  *)
(* of the equation of a sum differ would have a smaller one.               *)
(***************************************************************************)
\* One of a set.
One(s) == CHOOSE x \in s : TRUE

\* What the sets of a family hold together, and how much for each part of the index set.
Whole(F, s) == UNION {F[x] : x \in s}
Together(S, F) == [s \in SUBSET S |-> Cardinality(Whole(F, s))]

\* The equation of a sum of the numbers f[x] over the parts of S (MapThenFoldSet).
Sums(u, f, S) == u = [s \in SUBSET S |-> IF s = {} THEN 0 ELSE f[One(s)] + u[s \ {One(s)}]]

\* A family of finite sets that do not meet.
Apart(S, F) == /\ \A x \in S : IsFiniteSet(F[x])
               /\ \A x, y \in S : x # y => F[x] \cap F[y] = {}

\* The union of finitely many finite sets of a family is finite.
LEMMA FamilyFinite ==
    ASSUME NEW S, IsFiniteSet(S), NEW F, \A x \in S : IsFiniteSet(F[x]), NEW s \in SUBSET S
    PROVE  IsFiniteSet(Whole(F, s))
<1> DEFINE g == [x \in s |-> F[x]]
           T == {F[x] : x \in s}
<1>1. IsFiniteSet(s)
  BY FS_Subset
<1>2. g \in Surjection(s, T)
  BY DEF Surjection
<1>3. IsFiniteSet(T)
  <2> HIDE DEF g, T
  <2> QED  BY <1>1, <1>2, FS_Surjection
<1>4. \A U \in T : IsFiniteSet(U)
  OBVIOUS
<1> HIDE DEF T
<1> QED  BY <1>3, <1>4, FS_UNION DEF T, Whole

\* The size of the union of disjoint sets obeys the equation of a sum over the index set.
LEMMA TogetherRecurs ==
    ASSUME NEW S, IsFiniteSet(S), NEW F, Apart(S, F), NEW c, \A x \in S : c[x] = Cardinality(F[x])
    PROVE  Sums(Together(S, F), c, S)
<1> SUFFICES ASSUME NEW s \in SUBSET S
             PROVE  Together(S, F)[s] =
                    IF s = {} THEN 0 ELSE c[One(s)] + Together(S, F)[s \ {One(s)}]
  BY DEF Together, Sums
<1>1. CASE s = {}
  <2>1. Whole(F, s) = {}
    BY <1>1 DEF Whole
  <2> QED  BY <1>1, <2>1, FS_EmptySet DEF Together
<1>2. CASE s # {}
  <2>1. PICK o \in s : o = One(s)
    BY <1>2 DEF One
  <2> DEFINE A == Whole(F, s \ {o})
  <2>2. Whole(F, s) = F[o] \cup A
    BY <2>1 DEF Whole
  <2>3. F[o] \cap A = {}
    BY <2>1 DEF Apart, Whole
  <2>4. IsFiniteSet(A) /\ IsFiniteSet(F[o])
    <3>1. s \ {o} \in SUBSET S
      OBVIOUS
    <3>2. (\A x \in S : IsFiniteSet(F[x])) /\ o \in S
      BY <2>1 DEF Apart
    <3> QED  BY <3>1, <3>2, FamilyFinite
  <2> HIDE DEF A
  <2>5. Cardinality(F[o] \cup A) = Cardinality(F[o]) + Cardinality(A)
    <3>1. Cardinality(F[o] \cup A) = Cardinality(F[o]) + Cardinality(A) - Cardinality(F[o] \cap A)
      BY <2>4, FS_Union
    <3>2. Cardinality(F[o] \cap A) = 0
      BY <2>3, FS_EmptySet
    <3>3. Cardinality(F[o]) \in Nat /\ Cardinality(A) \in Nat
      BY <2>4, FS_CardinalityType
    <3> QED  BY <3>1, <3>2, <3>3
  <2>6. Together(S, F)[s \ {o}] = Cardinality(A)
    BY DEF Together, A
  <2>7. Together(S, F)[s] = Cardinality(F[o] \cup A)
    BY <2>2 DEF Together
  <2> QED  BY <1>2, <2>1, <2>5, <2>6, <2>7
<1> QED  BY <1>1, <1>2

\* There is only one solution of the equation of a sum.
LEMMA SumUnique ==
    ASSUME NEW S, IsFiniteSet(S), NEW f, NEW u, NEW v, Sums(u, f, S), Sums(v, f, S)
    PROVE  u[S] = v[S]
<1> DEFINE Bad == {T \in FiniteSubsetsOf(S) : u[T] # v[T]}
<1>1. ASSUME Bad # {} PROVE FALSE
  <2>1. PICK T \in Bad : \A U \in Bad : <<U, T>> \notin StrictSubsetOrdering(S)
    <3>1. Bad \subseteq FiniteSubsetsOf(S)
      OBVIOUS
    <3> HIDE DEF Bad
    <3> QED  BY <1>1, <3>1, FS_StrictSubsetOrderingWellFounded, WFMin
  <2>2. T \in SUBSET S /\ IsFiniteSet(T) /\ u[T] # v[T]
    BY <2>1 DEF FiniteSubsetsOf
  <2>3. T # {}
    BY <2>2 DEF Sums
  <2>4. PICK o \in T : o = One(T)
    BY <2>3 DEF One
  <2> DEFINE U == T \ {o}
  <2>5. U \in FiniteSubsetsOf(S) /\ <<U, T>> \in StrictSubsetOrdering(S)
    BY <2>2, <2>4, FS_RemoveElement DEF FiniteSubsetsOf, StrictSubsetOrdering
  <2>6. u[U] = v[U]
    BY <2>1, <2>5
  <2>7. u[T] = f[o] + u[U] /\ v[T] = f[o] + v[U]
    BY <2>2, <2>3, <2>4 DEF Sums
  <2> QED  BY <2>2, <2>6, <2>7
<1>2. S \in FiniteSubsetsOf(S)
  BY DEF FiniteSubsetsOf
<1> QED  BY <1>1, <1>2

\* An element of a part of S, when there is one.
LEMMA OneIs ==
    ASSUME NEW S, NEW s \in SUBSET S, s # {} PROVE One(s) \in S
BY DEF One

\* Of some numbers of a finite set the least one is found (Min chooses it).
LEMMA LeastNumber ==
    ASSUME NEW S \in SUBSET Int, IsFiniteSet(S), S # {}
    PROVE  Min(S) \in S /\ \A x \in S : Min(S) <= x
<1> DEFINE Bad == {T \in FiniteSubsetsOf(S) : T # {} /\ ~\E m \in T : \A x \in T : m <= x}
<1>1. ASSUME Bad # {} PROVE FALSE
  <2>1. PICK T \in Bad : \A U \in Bad : <<U, T>> \notin StrictSubsetOrdering(S)
    <3>1. Bad \subseteq FiniteSubsetsOf(S)
      OBVIOUS
    <3> HIDE DEF Bad
    <3> QED  BY <1>1, <3>1, FS_StrictSubsetOrderingWellFounded, WFMin
  <2>2. T \in SUBSET Int /\ IsFiniteSet(T) /\ T \in SUBSET S /\ T # {}
        /\ ~\E m \in T : \A x \in T : m <= x
    BY <2>1 DEF FiniteSubsetsOf
  <2>3. PICK o \in T : TRUE
    BY <2>2
  <2> DEFINE U == T \ {o}
  <2>4. U \in FiniteSubsetsOf(S) /\ <<U, T>> \in StrictSubsetOrdering(S)
    BY <2>2, <2>3, FS_RemoveElement DEF FiniteSubsetsOf, StrictSubsetOrdering
  <2>5. U = {} \/ \E m \in U : \A x \in U : m <= x
    BY <2>1, <2>4
  <2>6. CASE U = {}
    BY <2>2, <2>3, <2>6
  <2>7. CASE U # {}
    <3>1. PICK m \in U : \A x \in U : m <= x
      BY <2>5, <2>7
    <3>2. m \in Int /\ o \in Int /\ m \in T
      BY <2>2, <2>3, <3>1
    <3>3. CASE m <= o
      BY <2>2, <3>1, <3>2, <3>3
    <3>4. CASE o < m
      <4>1. ASSUME NEW x \in T PROVE o <= x
        <5>1. x \in Int /\ (x = o \/ m <= x)
          BY <2>2, <3>1, <4>1
        <5> QED  BY <3>2, <3>4, <5>1
      <4> QED  BY <2>2, <4>1
    <3> QED  BY <3>2, <3>3, <3>4
  <2> QED  BY <2>6, <2>7
<1>2. S \in FiniteSubsetsOf(S)
  BY DEF FiniteSubsetsOf
<1>3. \E m \in S : \A x \in S : m <= x
  BY <1>1, <1>2
<1> QED  BY <1>3 DEF Min

(***************************************************************************)
(* Analytics: the browsers, the table of events and the daily job.         *)
(***************************************************************************)
\* The events that happened, and the time at which the daily job may be at work.
Tracked == {e \in Events : stamp[e] # Never}
AtWork == dailyJob \in {"due", "preceding", "yesterday"}

MetricsTypes ==
    /\ now \in 0..LastTick
    /\ stamp \in [Events -> Int] /\ \A e \in Events : stamp[e] = Never \/ stamp[e] \in 0..now
    /\ waiting \subseteq Tracked
    /\ flights \subseteq [events : SUBSET Tracked, way : {"beacon", "fetch"}]
    /\ table \in [Events -> {0, 1}]
    /\ accepted \subseteq Tracked /\ \A e \in Events : table[e] = 1 => e \in accepted
    /\ rows \in [Days -> [downloads : Nat, transfers : Nat]] /\ final \subseteq Days
    /\ dailyJob \in {"later", "due", "preceding", "yesterday", "done"}
    /\ AtWork => now % TicksPerDay = 1

\* A day is settled two days after it, and once.
FinalPast == \A d \in final : IF dailyJob = "due" THEN 2 * d + 5 < now ELSE 2 * d + 5 <= now

\* What was accepted and is no longer in the table was too old when the job last ran.
RemovedOld ==
    \A e \in accepted : table[e] = 0 =>
        stamp[e] + Retention < (IF dailyJob = "done" THEN now ELSE now - 1)

\* The events of one transfer lie within the life of its share.
TransferLives ==
    \A x, e \in Tracked : x.transfer = e.transfer => stamp[x] - stamp[e] <= ShareLife

\* A settled day's downloads are the accepted ones of that day.
AcceptedOn(day) == {e \in accepted : e.kind = "download_success" /\ Day(stamp[e]) = day}
DownloadsSettled == \A d \in final : rows[d].downloads = Cardinality(AcceptedOn(d))

\* The transfers counted on the settled days: each has an upload and a download on its day, and
\* none is counted on two.
CountedIn(F) ==
    /\ \A d \in final : Cardinality(F[d]) = rows[d].transfers
    /\ \A c, d \in final : c # d => F[c] \cap F[d] = {}
    /\ \A d \in final : \A t \in F[d] :
          /\ \E u \in accepted : u.kind = "upload_success" /\ u.transfer = t
          /\ \E e \in AcceptedOn(d) : e.transfer = t
TransfersSettled == \E F \in [Days -> SUBSET Transfers] : CountedIn(F)

\* MetricsSettled is not inductive: what keeps a settled row right is that nothing of a settled day
\* arrives any more (FinalPast), that the table still held its events when it was settled
\* (RemovedOld), and that a transfer is too short to reach a second settled day after its first
\* events were deleted (TransferLives).
MetricsInv == /\ MetricsTypes /\ FinalPast /\ RemovedOld /\ TransferLives
              /\ DownloadsSettled /\ TransfersSettled

\* A day is its two ticks.
LEMMA DayIs ==
    ASSUME NEW n \in Int
    PROVE  Day(n) \in Int /\ 2 * Day(n) <= n /\ n <= 2 * Day(n) + 1 /\ (n % TicksPerDay = 1 => n = 2 * Day(n) + 1)
BY DEF Day, TicksPerDay

\* What the assumption on the constants and the types give every lemma below.
LEMMA EventFacts ==
    ASSUME MetricsTypes
    PROVE  /\ IsFiniteSet(Events) /\ LastTick \in Nat /\ now \in Nat /\ ShareLife \in Nat /\ Retention \in Nat
           /\ Retention >= ShareLife + 4
           /\ \A e \in Tracked : stamp[e] \in Nat /\ stamp[e] <= now
           /\ \A e \in accepted : e \in Events /\ stamp[e] \in Nat /\ stamp[e] <= now
           /\ \A d \in Days : d \in Nat
BY AnalyticsAssumption DEF MetricsTypes, Tracked, Never, TicksPerDay, Days

\* countEventName: the copies of an event in the table add up to the events that are there.
LEMMA CountsEvents ==
    ASSUME MetricsTypes, NEW kind, NEW day
    PROVE  CountEvents(kind, day) = Cardinality({e \in Kept(kind) : Day(stamp[e]) = day})
<1> DEFINE S == {e \in Kept(kind) : Day(stamp[e]) = day}
           F == [e \in S |-> {e}]
           w == Together(S, F)
           c == [e \in S |-> 1]
<1>1. IsFiniteSet(S)
  <2>1. S \in SUBSET Events
    BY DEF Kept
  <2> HIDE DEF S
  <2> QED  BY <2>1, EventFacts, FS_Subset
<1>2. \A e \in S : table[e] = 1
  BY DEF MetricsTypes, Kept
<1> HIDE DEF S
<1>3. \A s \in SUBSET S : s # {} => One(s) \in S
  BY OneIs
<1>4. Apart(S, F) /\ \A e \in S : c[e] = Cardinality(F[e])
  BY FS_Singleton DEF Apart
<1>5. Whole(F, S) = S
  BY DEF Whole
<1> HIDE DEF F
<1>6. Sums(w, c, S)
  <2> HIDE DEF c
  <2> QED  BY <1>1, <1>4, TogetherRecurs
<1> HIDE DEF w
<1>7. w = [s \in SUBSET S |-> IF s = {} THEN 0 ELSE table[One(s)] + w[s \ {One(s)}]]
  BY <1>2, <1>3, <1>6 DEF Sums
<1>8. PICK iter : /\ iter = [s \in SUBSET S |-> IF s = {} THEN 0 ELSE table[One(s)] + iter[s \ {One(s)}]]
                  /\ CountEvents(kind, day) = iter[S]
  BY <1>7 DEF CountEvents, MapThenSumSet, MapThenFoldSet, One, S
<1>9. Sums(iter, c, S)
  BY <1>2, <1>3, <1>8 DEF Sums
<1>10. iter[S] = w[S]
  <2> HIDE DEF c
  <2> QED  BY <1>1, <1>6, <1>9, SumUnique
<1> QED  BY <1>5, <1>8, <1>10 DEF w, Together, S

\* A step that changes neither the events of settled days nor their rows.
LEMMA SettledStays ==
    ASSUME MetricsInv, final' = final, \A d \in final : rows'[d] = rows[d],
           accepted \subseteq accepted', \A e \in accepted : stamp'[e] = stamp[e],
           \A e \in accepted' \ accepted : \A d \in final : Day(stamp'[e]) # d
    PROVE  DownloadsSettled' /\ TransfersSettled'
<1>1. \A d \in final : AcceptedOn(d)' = AcceptedOn(d)
  BY DEF AcceptedOn
<1>2. DownloadsSettled'
  BY <1>1 DEF MetricsInv, DownloadsSettled
<1>3. PICK F \in [Days -> SUBSET Transfers] : CountedIn(F)
  BY DEF MetricsInv, TransfersSettled
<1>4. CountedIn(F)'
  <2>1. \A d \in final' : Cardinality(F[d]) = rows'[d].transfers
    BY <1>3 DEF CountedIn
  <2>2. \A c, d \in final' : c # d => F[c] \cap F[d] = {}
    BY <1>3 DEF CountedIn
  <2>3. ASSUME NEW d \in final', NEW t \in F[d]
        PROVE  /\ \E u \in accepted' : u.kind = "upload_success" /\ u.transfer = t
               /\ \E e \in AcceptedOn(d)' : e.transfer = t
    BY <1>1, <1>3, <2>3 DEF CountedIn
  <2> QED  BY <2>1, <2>2, <2>3 DEF CountedIn
<1> QED  BY <1>2, <1>3, <1>4 DEF TransfersSettled, Transfers

\* Events come and go in the browsers.
LEMMA BrowserKeeps ==
    ASSUME MetricsInv, UNCHANGED <<now, stamp, table, accepted, rows, final, dailyJob>>,
           waiting' \subseteq Tracked, flights' \subseteq [events : SUBSET Tracked, way : {"beacon", "fetch"}]
    PROVE  MetricsInv'
<1>1. MetricsTypes' /\ FinalPast' /\ RemovedOld' /\ TransferLives'
  BY DEF MetricsInv, MetricsTypes, FinalPast, RemovedOld, TransferLives, Tracked, AtWork
<1>2. DownloadsSettled' /\ TransfersSettled'
  BY SettledStays
<1> QED  BY <1>1, <1>2 DEF MetricsInv

\* A new event happens now, later than every settled day.
LEMMA TrackKeeps == ASSUME MetricsInv, NEW e \in Events, Track(e) PROVE MetricsInv'
<1> USE DEF ServerAlone
<1>1. /\ stamp[e] = Never /\ Lives(e.transfer) /\ stamp' = [stamp EXCEPT ![e] = now]
      /\ waiting' = waiting \cup {e} /\ UNCHANGED <<now, flights>> /\ ServerAlone
  BY DEF Track
<1>2. MetricsTypes /\ now \in Nat /\ ShareLife \in Nat
  BY EventFacts DEF MetricsInv
<1>3. /\ Tracked' = Tracked \cup {e} /\ e \notin Tracked /\ stamp'[e] = now
      /\ \A x \in Events : x # e => stamp'[x] = stamp[x]
  BY <1>1, <1>2 DEF Tracked, MetricsTypes, Never
<1>4. e \notin accepted
  BY <1>2, <1>3 DEF MetricsTypes
<1>5. MetricsTypes'
  <2>1. waiting' \subseteq Tracked' /\ accepted' \subseteq Tracked'
    BY <1>1, <1>2, <1>3 DEF MetricsTypes
  <2>2. flights' \subseteq [events : SUBSET Tracked', way : {"beacon", "fetch"}]
    BY <1>1, <1>2, <1>3 DEF MetricsTypes
  <2>3. /\ stamp' \in [Events -> Int]
        /\ \A x \in Events : stamp'[x] = Never \/ stamp'[x] \in 0..now'
    BY <1>1, <1>2, <1>3 DEF MetricsTypes
  <2> QED  BY <1>1, <1>2, <2>1, <2>2, <2>3 DEF MetricsTypes, AtWork
<1>6. FinalPast' /\ RemovedOld'
  BY <1>1, <1>2, <1>3, <1>4 DEF MetricsInv, FinalPast, RemovedOld, MetricsTypes, Tracked
<1>7. TransferLives'
  <2> SUFFICES ASSUME NEW x \in Tracked', NEW y \in Tracked', x.transfer = y.transfer
               PROVE  stamp'[x] - stamp'[y] <= ShareLife
    BY DEF TransferLives
  <2>1. CASE x # e /\ y # e
    BY <1>3, <2>1 DEF MetricsInv, TransferLives, Tracked
  <2>2. CASE x = e /\ y # e
    BY <1>1, <1>3, <2>2 DEF Lives, Tracked
  <2>3. CASE x # e /\ y = e
    <3>1. stamp'[x] \in Nat /\ stamp'[x] <= now
      BY <1>2, <1>3, <2>3, EventFacts DEF Tracked
    <3> QED  BY <1>2, <1>3, <2>3, <3>1
  <2>4. CASE x = e /\ y = e
    BY <1>2, <1>3, <2>4
  <2> QED  BY <2>1, <2>2, <2>3, <2>4
<1>8. DownloadsSettled' /\ TransfersSettled'
  <2>1. \A x \in accepted : stamp'[x] = stamp[x]
    BY <1>2, <1>3, <1>4 DEF MetricsTypes, Tracked
  <2> QED  BY <1>1, <2>1, SettledStays
<1> QED  BY <1>5, <1>6, <1>7, <1>8 DEF MetricsInv

\* What arrives is at most a day old, and no such day is settled or cleared.
LEMMA ArriveKeeps == ASSUME MetricsInv, NEW f \in flights, Arrive(f) PROVE MetricsInv'
<1>1. MetricsTypes /\ now \in Nat /\ Retention \in Nat /\ Retention >= 4 /\ ShareLife \in Nat
  BY EventFacts DEF MetricsInv
<1>2. f.events \subseteq Tracked
  BY <1>1 DEF MetricsTypes
<1>3. /\ waiting' \subseteq Tracked /\ flights' \subseteq flights
      /\ UNCHANGED <<now, stamp, rows, final, dailyJob>>
  BY <1>1, <1>2 DEF Arrive, MetricsTypes
<1> DEFINE fits == \A e \in f.events : Acceptable(e)
<1>4. CASE ~fits
  <2>1. UNCHANGED <<table, accepted>>
    BY <1>4 DEF Arrive
  <2> QED  BY <1>1, <1>3, <2>1, BrowserKeeps DEF MetricsTypes
<1>5. CASE fits
  <2>1. /\ accepted' = accepted \cup f.events
        /\ table' = [e \in Events |-> IF e \in f.events THEN Insert(e) ELSE table[e]]
    BY <1>5 DEF Arrive
  <2>2. /\ table' \in [Events -> {0, 1}]
        /\ \A e \in Events : e \in f.events => table'[e] = 1
        /\ \A e \in Events : e \notin f.events => table'[e] = table[e]
    BY <1>1, <2>1 DEF Insert, MetricsTypes
  <2>3. MetricsTypes'
    <3>1. Tracked' = Tracked
      BY <1>3 DEF Tracked
    <3>2. /\ waiting' \subseteq Tracked' /\ accepted' \subseteq Tracked'
          /\ \A e \in Events : table'[e] = 1 => e \in accepted'
      BY <1>1, <1>2, <1>3, <2>1, <2>2, <3>1 DEF MetricsTypes
    <3> QED  BY <1>1, <1>3, <2>2, <3>1, <3>2 DEF MetricsTypes, AtWork
  <2>4. RemovedOld'
    BY <1>1, <1>2, <1>3, <2>1, <2>2 DEF MetricsInv, RemovedOld, MetricsTypes, Tracked
  <2>5. FinalPast' /\ TransferLives'
    BY <1>3 DEF MetricsInv, FinalPast, TransferLives, Tracked
  <2>6. ASSUME NEW e \in accepted', e \notin accepted, NEW d \in final PROVE Day(stamp'[e]) # d
    <3>1. e \in f.events /\ stamp[e] \in Nat /\ now - stamp[e] <= 2
      BY <1>1, <1>2, <1>5, <2>1, <2>6, EventFacts DEF Acceptable, MaxSkew, TicksPerDay
    <3>2. d \in Nat /\ 2 * d + 5 <= now
      BY <1>1, EventFacts DEF MetricsInv, FinalPast, MetricsTypes
    <3>3. Day(stamp[e]) \in Int /\ stamp[e] <= 2 * Day(stamp[e]) + 1
      <4>1. stamp[e] \in Int
        BY <3>1
      <4> QED  BY <4>1, DayIs
    <3> QED  BY <1>1, <1>3, <3>1, <3>2, <3>3
  <2>7. DownloadsSettled' /\ TransfersSettled'
    BY <1>3, <2>1, <2>6, SettledStays
  <2> QED  BY <2>3, <2>4, <2>5, <2>7 DEF MetricsInv
<1> QED  BY <1>4, <1>5

\* The transfers whose first download that the table still holds lies on the day.
TransfersOn(day) ==
    {t \in Transfers :
        /\ \E e \in Kept("upload_success") : e.transfer = t
        /\ \E e \in Kept("download_success") : e.transfer = t
        /\ Day(FirstDownload(t)) = day}

\* countSuccessfulTransfers: a transfer counted on a day has its first download there.
LEMMA CountedTransfers ==
    ASSUME MetricsTypes, NEW day \in Int
    PROVE  /\ TransfersOn(day) \in SUBSET Transfers /\ IsFiniteSet(Transfers)
           /\ Cardinality(TransfersOn(day)) = CountTransfers(day) /\ CountTransfers(day) \in Nat
           /\ \A t \in TransfersOn(day) :
                /\ \E u \in accepted : u.kind = "upload_success" /\ u.transfer = t
                /\ \E e \in Kept("download_success") : e.transfer = t /\ Day(stamp[e]) = day
                /\ \A e \in Kept("download_success") : e.transfer = t => Day(stamp[e]) >= day
<1>1. IsFiniteSet(Transfers)
  <2> DEFINE g == [e \in Events |-> e.transfer]
  <2>1. g \in Surjection(Events, Transfers)
    BY DEF Surjection, Transfers
  <2> HIDE DEF g
  <2> QED  BY <2>1, EventFacts, FS_Surjection
<1>2. TransfersOn(day) \in SUBSET Transfers /\ CountTransfers(day) = Cardinality(TransfersOn(day))
  BY DEF TransfersOn, CountTransfers
<1>3. CountTransfers(day) \in Nat
  BY <1>1, <1>2, FS_Subset, FS_CardinalityType
<1>4. \A e \in Events : table[e] > 0 => e \in accepted
  BY DEF MetricsTypes
<1>5. ASSUME NEW t \in TransfersOn(day)
      PROVE  /\ \E u \in accepted : u.kind = "upload_success" /\ u.transfer = t
             /\ \E e \in Kept("download_success") : e.transfer = t /\ Day(stamp[e]) = day
             /\ \A e \in Kept("download_success") : e.transfer = t => Day(stamp[e]) >= day
  <2>1. \E u \in accepted : u.kind = "upload_success" /\ u.transfer = t
    BY <1>4 DEF TransfersOn, Kept
  <2> DEFINE D == {d \in Kept("download_success") : d.transfer = t}
             S == {stamp[e] : e \in D}
  <2>2. D \in SUBSET Events /\ D # {} /\ Day(Min(S)) = day /\ \A e \in D : stamp[e] \in Int
    BY <1>4, EventFacts DEF TransfersOn, Kept, FirstDownload
  <2>3. S \in SUBSET Int /\ S # {} /\ IsFiniteSet(S)
    <3> DEFINE g == [e \in D |-> stamp[e]]
    <3>1. g \in Surjection(D, S)
      BY DEF Surjection
    <3>2. IsFiniteSet(D)
      BY <2>2, EventFacts, FS_Subset
    <3>3. S \in SUBSET Int /\ S # {}
      BY <2>2
    <3> HIDE DEF g, S, D
    <3> QED  BY <3>1, <3>2, <3>3, FS_Surjection
  <2>4. Min(S) \in S /\ \A x \in S : Min(S) <= x
    <3> HIDE DEF S
    <3> QED  BY <2>3, LeastNumber
  <2>5. PICK m \in D : stamp[m] = Min(S)
    BY <2>4
  <2>6. ASSUME NEW e \in D PROVE Day(stamp[e]) >= day
    <3>1. stamp[m] <= stamp[e] /\ stamp[m] \in Int /\ stamp[e] \in Int /\ Day(stamp[m]) = day
      BY <2>2, <2>4, <2>5
    <3> HIDE DEF D, S
    <3>2. 2 * day <= stamp[m] /\ Day(stamp[e]) \in Int /\ stamp[e] <= 2 * Day(stamp[e]) + 1
      BY <3>1, DayIs
    <3> QED  BY <3>1, <3>2
  <2> QED  BY <2>1, <2>2, <2>5, <2>6
<1> QED  BY <1>1, <1>2, <1>3, <1>5

\* Of the settled days only the row of the day itself changes, and only when it is not settled.
LEMMA RecomputeKeepsTypes ==
    ASSUME MetricsTypes, NEW day \in Int, ComputeDailyMetrics(day)
    PROVE  /\ rows' \in [Days -> [downloads : Nat, transfers : Nat]]
           /\ \A d \in Days : d # day => rows'[d] = rows[d]
           /\ day \in Days => /\ rows'[day].downloads = CountEvents("download_success", day)
                              /\ rows'[day].transfers = CountTransfers(day)
<1>1. CountEvents("download_success", day) \in Nat
  <2>1. {e \in Kept("download_success") : Day(stamp[e]) = day} \in SUBSET Events
    BY DEF Kept
  <2> QED  BY <2>1, CountsEvents, EventFacts, FS_Subset, FS_CardinalityType
<1>2. CountTransfers(day) \in Nat
  BY CountedTransfers
<1> QED  BY <1>1, <1>2 DEF ComputeDailyMetrics, MetricsTypes

\* The first half of the daily job settles the day before yesterday: the table still holds all that
\* was accepted of it, and no transfer counted there was counted before.
LEMMA RecomputePrecedingKeeps == ASSUME MetricsInv, RecomputePrecedingDay PROVE MetricsInv'
<1>1. /\ MetricsTypes /\ now \in Nat /\ Retention \in Nat /\ ShareLife \in Nat /\ Retention >= ShareLife + 4
      /\ IsFiniteSet(Events)
  BY EventFacts DEF MetricsInv
<1>2. /\ dailyJob = "due" /\ dailyJob' = "preceding" /\ ComputeDailyMetrics(Day(now) - 2)
      /\ final' = final \cup ({Day(now) - 2} \cap Days)
      /\ UNCHANGED <<now, stamp, waiting, flights, accepted, table>>
  BY DEF RecomputePrecedingDay, JobStep
<1>3. PICK day \in Int : day = Day(now) - 2 /\ now = 2 * day + 5
  <2>1. now \in Int /\ now % TicksPerDay = 1
    BY <1>1, <1>2 DEF MetricsTypes, AtWork
  <2>2. Day(now) \in Int /\ now = 2 * Day(now) + 1
    BY <2>1, DayIs
  <2> QED  BY <2>1, <2>2
<1>4. /\ rows' \in [Days -> [downloads : Nat, transfers : Nat]]
      /\ \A d \in Days : d # day => rows'[d] = rows[d]
      /\ day \in Days => /\ rows'[day].downloads = CountEvents("download_success", day)
                         /\ rows'[day].transfers = CountTransfers(day)
  BY <1>1, <1>2, <1>3, RecomputeKeepsTypes
<1>5. \A d \in final : d \in Days /\ d \in Nat /\ d < day
  BY <1>1, <1>2, <1>3, EventFacts DEF MetricsInv, FinalPast, MetricsTypes
<1>6. MetricsTypes'
  BY <1>1, <1>2, <1>4 DEF MetricsTypes, Tracked, AtWork
<1>7. FinalPast' /\ RemovedOld' /\ TransferLives'
  <2>1. FinalPast'
    BY <1>2, <1>3, <1>5 DEF FinalPast
  <2> QED  BY <2>1, <1>2 DEF MetricsInv, RemovedOld, TransferLives, Tracked
<1>8. \A d \in final : rows'[d] = rows[d] /\ AcceptedOn(d)' = AcceptedOn(d)
  BY <1>2, <1>3, <1>4, <1>5 DEF AcceptedOn
<1>9. CASE day \notin Days
  <2>1. final' = final
    BY <1>2, <1>3, <1>9
  <2>2. DownloadsSettled' /\ TransfersSettled'
    BY <1>2, <1>8, <2>1, SettledStays
  <2> QED  BY <1>6, <1>7, <2>2 DEF MetricsInv
<1>10. CASE day \in Days
  <2>1. final' = final \cup {day} /\ day \notin final /\ AcceptedOn(day)' = AcceptedOn(day)
    BY <1>2, <1>3, <1>5, <1>10 DEF AcceptedOn
  <2>2. AcceptedOn(day) = {e \in Kept("download_success") : Day(stamp[e]) = day}
    <3>1. ASSUME NEW e \in accepted, Day(stamp[e]) = day PROVE table[e] > 0 /\ e \in Events
      <4>1. stamp[e] \in Int /\ e \in Events
        BY <1>1, EventFacts
      <4>2. 2 * day <= stamp[e]
        BY <3>1, <4>1, DayIs
      <4>3. ~(stamp[e] + Retention < now - 1)
        BY <1>1, <1>3, <4>1, <4>2
      <4> QED  BY <1>1, <1>2, <4>1, <4>3 DEF MetricsInv, RemovedOld, MetricsTypes
    <3>2. ASSUME NEW e \in Events, table[e] > 0 PROVE e \in accepted
      BY <1>1, <3>2 DEF MetricsTypes
    <3> QED  BY <3>1, <3>2 DEF AcceptedOn, Kept
  <2>3. DownloadsSettled'
    <3>1. rows'[day].downloads = Cardinality(AcceptedOn(day)')
      BY <1>1, <1>4, <1>10, <2>1, <2>2, CountsEvents
    <3> QED  BY <1>8, <2>1, <3>1 DEF MetricsInv, DownloadsSettled
  <2>4. PICK F \in [Days -> SUBSET Transfers] : CountedIn(F)
    BY DEF MetricsInv, TransfersSettled
  <2>5. PICK New :
           /\ New \in SUBSET Transfers /\ Cardinality(New) = CountTransfers(day)
           /\ \A t \in New :
                 /\ \E u \in accepted : u.kind = "upload_success" /\ u.transfer = t
                 /\ \E e \in AcceptedOn(day) : e.transfer = t
                 /\ \A e \in Kept("download_success") : e.transfer = t => Day(stamp[e]) >= day
    BY <1>1, <2>2, CountedTransfers
  <2>6. ASSUME NEW d \in final, NEW t \in New PROVE t \notin F[d]
    <3> SUFFICES ASSUME t \in F[d] PROVE FALSE
      OBVIOUS
    <3>1. PICK e \in AcceptedOn(d) : e.transfer = t
      BY <2>4 DEF CountedIn
    <3>2. PICK x \in AcceptedOn(day) : x.transfer = t
      BY <2>5
    <3>3. /\ e \in accepted /\ e \in Events /\ e.kind = "download_success" /\ Day(stamp[e]) = d
          /\ x \in accepted /\ Day(stamp[x]) = day /\ stamp[e] \in Int /\ stamp[x] \in Int
      BY <1>1, <3>1, <3>2, EventFacts DEF AcceptedOn
    <3>4. d < day /\ d \in Int
      BY <1>5
    <3>5. table[e] = 0
      <4>1. e \notin Kept("download_success")
        BY <1>3, <2>5, <3>1, <3>3, <3>4
      <4> QED  BY <1>1, <3>3, <4>1 DEF Kept, MetricsTypes
    <3>6. stamp[e] + Retention < now - 1
      BY <1>2, <3>3, <3>5 DEF MetricsInv, RemovedOld
    <3>7. 2 * day <= stamp[x]
      BY <3>3, DayIs
    <3>8. stamp[x] - stamp[e] <= ShareLife
      BY <1>1, <3>1, <3>2, <3>3 DEF MetricsInv, TransferLives, MetricsTypes
    <3> QED  BY <1>1, <1>3, <3>3, <3>6, <3>7, <3>8
  <2>7. PICK G \in [Days -> SUBSET Transfers] : G[day] = New /\ \A d \in final : G[d] = F[d] /\ d # day
    <3>1. [F EXCEPT ![day] = New] \in [Days -> SUBSET Transfers]
      BY <2>4, <2>5
    <3> QED  BY <1>5, <1>10, <2>1, <2>4, <2>5, <3>1
  <2>8. CountedIn(G)'
    <3>1. \A d \in final' : Cardinality(G[d]) = rows'[d].transfers
      BY <1>4, <1>8, <1>10, <2>1, <2>4, <2>5, <2>7 DEF CountedIn
    <3>2. ASSUME NEW c \in final', NEW d \in final', c # d PROVE G[c] \cap G[d] = {}
      <4>1. CASE c \in final /\ d \in final
        BY <2>4, <2>7, <3>2, <4>1 DEF CountedIn
      <4>2. CASE c = day
        BY <2>1, <2>6, <2>7, <3>2, <4>2
      <4>3. CASE d = day
        BY <2>1, <2>6, <2>7, <3>2, <4>3
      <4> QED  BY <2>1, <4>1, <4>2, <4>3
    <3>3. ASSUME NEW d \in final', NEW t \in G[d]
          PROVE  /\ \E u \in accepted' : u.kind = "upload_success" /\ u.transfer = t
                 /\ \E e \in AcceptedOn(d)' : e.transfer = t
      <4>1. CASE d \in final
        BY <1>2, <1>8, <2>4, <2>7, <4>1 DEF CountedIn
      <4>2. CASE d = day
        BY <1>2, <2>1, <2>5, <2>7, <4>2
      <4> QED  BY <2>1, <4>1, <4>2
    <3> QED  BY <3>1, <3>2, <3>3 DEF CountedIn
  <2>9. TransfersSettled'
    BY <2>7, <2>8 DEF TransfersSettled, Transfers
  <2> QED  BY <1>6, <1>7, <2>3, <2>9 DEF MetricsInv
<1> QED  BY <1>9, <1>10

\* The second half writes the row of yesterday, which is not settled.
LEMMA RecomputeYesterdayKeeps == ASSUME MetricsInv, RecomputeYesterday PROVE MetricsInv'
<1>1. MetricsTypes /\ now \in Nat
  BY EventFacts DEF MetricsInv
<1>2. /\ dailyJob = "preceding" /\ dailyJob' = "yesterday" /\ ComputeDailyMetrics(Day(now) - 1)
      /\ UNCHANGED <<now, stamp, waiting, flights, accepted, table, final>>
  BY DEF RecomputeYesterday, JobStep
<1>3. PICK day \in Int : day = Day(now) - 1 /\ now = 2 * day + 3
  <2>1. now \in Int /\ now % TicksPerDay = 1
    BY <1>1, <1>2 DEF MetricsTypes, AtWork
  <2>2. Day(now) \in Int /\ now = 2 * Day(now) + 1
    BY <2>1, DayIs
  <2> QED  BY <2>1, <2>2
<1>4. /\ rows' \in [Days -> [downloads : Nat, transfers : Nat]]
      /\ \A d \in Days : d # day => rows'[d] = rows[d]
  BY <1>1, <1>2, <1>3, RecomputeKeepsTypes
<1>5. \A d \in final : rows'[d] = rows[d]
  BY <1>1, <1>2, <1>3, <1>4, EventFacts DEF MetricsInv, FinalPast, MetricsTypes
<1>6. MetricsTypes'
  BY <1>1, <1>2, <1>4 DEF MetricsTypes, Tracked, AtWork
<1>7. FinalPast' /\ RemovedOld' /\ TransferLives'
  BY <1>2 DEF MetricsInv, FinalPast, RemovedOld, TransferLives, Tracked
<1>8. DownloadsSettled' /\ TransfersSettled'
  BY <1>2, <1>5, SettledStays
<1> QED  BY <1>6, <1>7, <1>8 DEF MetricsInv

\* What is deleted is older than the retention; a job that fails, and a tick, change no row.
LEMMA CalendarKeeps ==
    ASSUME MetricsInv, DeleteExpiredAnalyticsEvents \/ JobFails \/ Tick PROVE MetricsInv'
<1>1. MetricsTypes /\ now \in Nat /\ LastTick \in Nat /\ Retention \in Nat
  BY EventFacts DEF MetricsInv
<1>2. UNCHANGED <<stamp, waiting, flights, accepted, rows, final>>
  BY DEF DeleteExpiredAnalyticsEvents, JobFails, JobStep, Tick
<1>3. DownloadsSettled' /\ TransfersSettled'
  BY <1>2, SettledStays
<1>4. TransferLives'
  BY <1>2 DEF MetricsInv, TransferLives, Tracked
<1>5. CASE DeleteExpiredAnalyticsEvents
  <2>1. /\ dailyJob = "yesterday" /\ dailyJob' = "done" /\ now' = now
        /\ table' = [e \in Events |-> IF stamp[e] < now - Retention THEN 0 ELSE table[e]]
    BY <1>5 DEF DeleteExpiredAnalyticsEvents, JobStep
  <2>2. MetricsTypes'
    BY <1>1, <1>2, <2>1 DEF MetricsTypes, Tracked, AtWork
  <2>3. FinalPast'
    BY <1>2, <2>1 DEF MetricsInv, FinalPast
  <2>4. RemovedOld'
    BY <1>1, <1>2, <2>1, EventFacts DEF MetricsInv, RemovedOld, MetricsTypes
  <2> QED  BY <1>3, <1>4, <2>2, <2>3, <2>4 DEF MetricsInv
<1>6. CASE JobFails
  <2>1. /\ dailyJob \in {"due", "preceding", "yesterday"} /\ dailyJob' = "done" /\ now' = now
        /\ table' = table
    BY <1>6 DEF JobFails, JobStep
  <2>2. MetricsTypes'
    BY <1>1, <1>2, <2>1 DEF MetricsTypes, Tracked, AtWork
  <2>3. FinalPast'
    BY <1>1, <1>2, <2>1, EventFacts DEF MetricsInv, FinalPast, MetricsTypes
  <2>4. RemovedOld'
    BY <1>1, <1>2, <2>1, EventFacts DEF MetricsInv, RemovedOld
  <2> QED  BY <1>3, <1>4, <2>2, <2>3, <2>4 DEF MetricsInv
<1>7. CASE Tick
  <2>1. /\ now < LastTick /\ now' = now + 1 /\ dailyJob \in {"later", "done"} /\ table' = table
        /\ dailyJob' = IF now' % TicksPerDay = 1 THEN "due" ELSE "later"
    BY <1>7 DEF Tick
  <2>2. MetricsTypes'
    <3>1. \A e \in Events : stamp'[e] = Never \/ stamp'[e] \in 0..now'
      BY <1>1, <1>2, <2>1 DEF MetricsTypes
    <3>2. now' \in 0..LastTick
      BY <1>1, <2>1
    <3>3. AtWork' => now' % TicksPerDay = 1
      BY <2>1 DEF AtWork
    <3> QED  BY <1>1, <1>2, <2>1, <3>1, <3>2, <3>3 DEF MetricsTypes, Tracked
  <2>3. FinalPast'
    BY <1>1, <1>2, <2>1, EventFacts DEF MetricsInv, FinalPast, MetricsTypes
  <2>4. RemovedOld'
    BY <1>1, <1>2, <2>1, EventFacts DEF MetricsInv, RemovedOld
  <2> QED  BY <1>3, <1>4, <2>2, <2>3, <2>4 DEF MetricsInv
<1> QED  BY <1>5, <1>6, <1>7

LEMMA AnalyticsStepKeeps == ASSUME MetricsInv, [AnalyticsNext]_analyticsVars PROVE MetricsInv'
<1>1. MetricsTypes
  BY DEF MetricsInv
<1>2. CASE UNCHANGED analyticsVars
  BY <1>1, <1>2, BrowserKeeps DEF analyticsVars, MetricsTypes
<1>3. ASSUME NEW browser, Flush(browser) PROVE MetricsInv'
  <2>1. /\ waiting' \subseteq Tracked
        /\ flights' \subseteq [events : SUBSET Tracked, way : {"beacon", "fetch"}]
    BY <1>1, <1>3 DEF Flush, MetricsTypes
  <2> QED  BY <1>3, <2>1, BrowserKeeps DEF Flush, ServerAlone
<1>4. ASSUME NEW browser, CloseTab(browser) PROVE MetricsInv'
  BY <1>1, <1>4, BrowserKeeps DEF CloseTab, ServerAlone, MetricsTypes
<1>5. ASSUME NEW f \in flights, GiveUp(f) PROVE MetricsInv'
  <2>1. f \in [events : SUBSET Tracked, way : {"beacon", "fetch"}]
    BY <1>1 DEF MetricsTypes
  <2>2. /\ waiting' \subseteq Tracked
        /\ flights' \subseteq [events : SUBSET Tracked, way : {"beacon", "fetch"}]
    BY <1>1, <1>5, <2>1 DEF GiveUp, MetricsTypes
  <2> QED  BY <1>5, <2>2, BrowserKeeps DEF GiveUp, ServerAlone
<1>6. ASSUME NEW f \in flights, LoseBeacon(f) PROVE MetricsInv'
  BY <1>1, <1>6, BrowserKeeps DEF LoseBeacon, ServerAlone, MetricsTypes
<1> QED
  BY <1>2, <1>3, <1>4, <1>5, <1>6, TrackKeeps, ArriveKeeps, RecomputePrecedingKeeps,
     RecomputeYesterdayKeeps, CalendarKeeps DEF AnalyticsNext

LEMMA AnalyticsStarts == ASSUME AnalyticsInit PROVE MetricsInv
<1>1. LastTick \in Nat /\ Retention \in Nat
  BY AnalyticsAssumption
<1>2. MetricsTypes
  BY <1>1 DEF AnalyticsInit, MetricsTypes, Tracked, AtWork, Never
<1>3. TransfersSettled
  <2>1. [d \in Days |-> {}] \in [Days -> SUBSET Transfers]
    OBVIOUS
  <2>2. CountedIn([d \in Days |-> {}])
    BY DEF AnalyticsInit, CountedIn
  <2> QED  BY <2>1, <2>2 DEF TransfersSettled
<1> QED
  BY <1>2, <1>3 DEF AnalyticsInit, MetricsInv, FinalPast, RemovedOld, TransferLives, Tracked, DownloadsSettled

\* The transfers of the settled days, each counted on one of them, are transfers that succeeded.
LEMMA SettledAddUp == ASSUME MetricsInv PROVE MetricsSettled
<1>1. MetricsTypes /\ LastTick \in Nat
  BY EventFacts DEF MetricsInv
<1>2. PICK F \in [Days -> SUBSET Transfers] : CountedIn(F)
  BY DEF MetricsInv, TransfersSettled
<1> DEFINE w == Together(final, F)
           c == [d \in final |-> rows[d].transfers]
           Done == {t \in Transfers : \E u, e \in accepted :
                       /\ u.kind = "upload_success" /\ u.transfer = t
                       /\ e.kind = "download_success" /\ e.transfer = t}
<1>3. IsFiniteSet(Transfers) /\ final \subseteq Days
  BY <1>1, CountedTransfers DEF MetricsTypes
<1>4. IsFiniteSet(final)
  <2>1. 0 \in Int /\ LastTick \div TicksPerDay \in Int
    BY <1>1 DEF TicksPerDay
  <2>2. IsFiniteSet(Days)
    BY <2>1, FS_Interval DEF Days
  <2> QED  BY <1>3, <2>2, FS_Subset
<1>5. Apart(final, F) /\ \A d \in final : c[d] = Cardinality(F[d])
  <2>1. \A d \in final : IsFiniteSet(F[d])
    BY <1>2, <1>3, FS_Subset
  <2> QED  BY <1>2, <2>1 DEF Apart, CountedIn
<1>6. Sums(w, c, final)
  <2> HIDE DEF c
  <2> QED  BY <1>4, <1>5, TogetherRecurs
<1>7. \A s \in SUBSET final : s # {} => One(s) \in final
  BY OneIs
<1>8. w[final] <= Cardinality(Done)
  <2>1. Whole(F, final) \subseteq Done
    BY <1>2, <1>3 DEF Whole, CountedIn, AcceptedOn
  <2>2. IsFiniteSet(Done) /\ w[final] = Cardinality(Whole(F, final))
    BY <1>3, FS_Subset DEF Together
  <2> HIDE DEF Done, w
  <2> QED  BY <2>1, <2>2, FS_Subset
<1> HIDE DEF w
<1>9. w = [s \in SUBSET final |-> IF s = {} THEN 0 ELSE rows[One(s)].transfers + w[s \ {One(s)}]]
  BY <1>6, <1>7 DEF Sums
<1>10. PICK iter :
          /\ iter = [s \in SUBSET final |->
                        IF s = {} THEN 0 ELSE rows[One(s)].transfers + iter[s \ {One(s)}]]
          /\ MapThenSumSet(LAMBDA d : rows[d].transfers, final) = iter[final]
  <2> DEFINE Iter == CHOOSE iter : iter = [s \in SUBSET final |->
                        IF s = {} THEN 0 ELSE rows[One(s)].transfers + iter[s \ {One(s)}]]
  <2>1. MapThenSumSet(LAMBDA d : rows[d].transfers, final) = Iter[final]
    BY DEF MapThenSumSet, MapThenFoldSet, One
  <2>2. Iter = [s \in SUBSET final |->
                  IF s = {} THEN 0 ELSE rows[One(s)].transfers + Iter[s \ {One(s)}]]
    BY <1>9
  <2> QED  BY <2>1, <2>2
<1>11. Sums(iter, c, final)
  BY <1>7, <1>10 DEF Sums
<1>12. iter[final] = w[final]
  <2> HIDE DEF c
  <2> QED  BY <1>4, <1>6, <1>11, SumUnique
<1> QED
  BY <1>8, <1>10, <1>12 DEF MetricsInv, MetricsSettled, DownloadsSettled, AcceptedOn

\* A settled day's row counts each accepted event once, and over the settled days no transfer is
\* counted twice (aggregate.ts:83-86, scheduled.ts).
THEOREM MetricsStaySettled == AnalyticsSpec => []MetricsSettled
<1>1. AnalyticsInit => MetricsInv
  BY AnalyticsStarts
<1>2. MetricsInv /\ [AnalyticsNext]_analyticsVars => MetricsInv'
  BY AnalyticsStepKeeps
<1>3. MetricsInv => MetricsSettled
  BY SettledAddUp
<1> QED  BY <1>1, <1>2, <1>3, PTL DEF AnalyticsSpec

(***************************************************************************)
(* AnalyticsReports                                                        *)
(***************************************************************************)
\* The events a page reports.
EventNames == {"landing_view", "upload_start", "upload_success", "download_success"}

\* The metrics of a day follow from the events up to its end.  What the log and the rows have
\* in common: events come in order, and the row of a current day is what its query still finds.
LogInv ==
    /\ today \in Nat /\ IsFiniteSet(log) /\ removed \in BOOLEAN
    /\ daily = [day \in ReportDays |-> daily[day]]
    /\ current \subseteq ReportDays /\ \A day \in settled : day \in current /\ day + 2 <= Today
    /\ \A e \in log :
          /\ e.name \in EventNames /\ e.transfer \in Sessions /\ e.at \in 0..today
          /\ e.name = "landing_view" => e.source \in Sources
    /\ \A e, f \in log : InOrder(e, f)
    /\ ~removed => \A day \in current : daily[day] = DailyMetrics(day, FALSE)

\* A day is its ticks, and days are ordered like them.
LEMMA ReportDayIs ==
    ASSUME NEW t \in Nat PROVE ReportDay(t) \in Nat /\ 2 * ReportDay(t) <= t /\ t <= 2 * ReportDay(t) + 1
BY DEF ReportDay, ReportTicksPerDay

LEMMA ReportDayOrder ==
    ASSUME NEW s \in Nat, NEW t \in Nat, s <= t PROVE ReportDay(s) <= ReportDay(t)
BY DEF ReportDay, ReportTicksPerDay

\* What is stamped a day ago or later is of yesterday or later.
LEMMA RecentDay ==
    ASSUME NEW t \in Nat, NEW at \in Nat, t - at <= 2, NEW day \in Int, day + 2 <= ReportDay(t)
    PROVE  day < ReportDay(at)
<1>1. ReportDay(t) \in Nat /\ 2 * ReportDay(t) <= t
  BY ReportDayIs
<1>2. ReportDay(at) \in Nat /\ at <= 2 * ReportDay(at) + 1
  BY ReportDayIs
<1> QED  BY <1>1, <1>2

\* The earliest of finitely many events is found.
LEMMA EarliestOf ==
    ASSUME NEW L, IsFiniteSet(L), L # {}, \A e \in L : e.at \in Nat
    PROVE  /\ Min({e.at : e \in L}) \in Nat
           /\ \E e \in L : e.at = Min({x.at : x \in L})
           /\ \A e \in L : Min({x.at : x \in L}) <= e.at
<1> DEFINE S == {e.at : e \in L}
           g == [e \in L |-> e.at]
<1>1. g \in Surjection(L, S)
  BY DEF Surjection
<1>2. S \in SUBSET Int /\ S # {}
  OBVIOUS
<1>3. \A x \in S : x \in Nat
  OBVIOUS
<1> HIDE DEF g, S
<1>4. IsFiniteSet(S)
  BY <1>1, FS_Surjection
<1>5. Min(S) \in S /\ \A x \in S : Min(S) <= x
  BY <1>2, <1>4, LeastNumber
<1> QED  BY <1>3, <1>5 DEF S

\* Events of later days do not change whether the first event is of this day.
LEMMA SameFirst ==
    ASSUME NEW A, NEW B, IsFiniteSet(B), A \subseteq B, \A x \in B : x.at \in Nat,
           NEW day \in Int, \A x \in B \ A : day < ReportDay(x.at)
    PROVE  (A # {} /\ ReportDay(Min({x.at : x \in A})) = day)
             <=> (B # {} /\ ReportDay(Min({x.at : x \in B})) = day)
<1> DEFINE a == Min({x.at : x \in A})
           b == Min({x.at : x \in B})
<1>1. ASSUME A # {}
      PROVE  a \in Nat /\ (\E x \in A : x.at = a) /\ \A x \in A : a <= x.at
  <2>1. IsFiniteSet(A) /\ \A x \in A : x.at \in Nat
    BY FS_Subset
  <2> QED  BY <1>1, <2>1, EarliestOf
<1>2. ASSUME B # {}
      PROVE  b \in Nat /\ (\E x \in B : x.at = b) /\ \A x \in B : b <= x.at
  BY <1>2, EarliestOf
<1> HIDE DEF a, b
<1>3. ASSUME A # {}, ReportDay(a) = day PROVE B # {} /\ ReportDay(b) = day
  <2>1. a \in Nat /\ b \in Nat /\ b <= a
    BY <1>1, <1>2, <1>3
  <2>2. PICK x \in B : x.at = b
    BY <1>2, <1>3
  <2>3. CASE x \in A
    <3>1. a = b
      BY <1>1, <1>3, <2>1, <2>2, <2>3
    <3> QED  BY <1>3, <3>1
  <2>4. CASE x \notin A
    <3>1. day < ReportDay(b) /\ ReportDay(b) <= ReportDay(a)
      BY <2>1, <2>2, <2>4, ReportDayOrder
    <3>2. ReportDay(a) \in Nat /\ ReportDay(b) \in Nat
      BY <2>1, ReportDayIs
    <3> QED  BY <1>3, <3>1, <3>2
  <2> QED  BY <2>3, <2>4
<1>4. ASSUME B # {}, ReportDay(b) = day PROVE A # {} /\ ReportDay(a) = day
  <2>1. PICK x \in B : x.at = b
    BY <1>2, <1>4
  <2>2. x \in A
    BY <1>4, <2>1
  <2>3. a = b
    <3>1. a \in Nat /\ b \in Nat /\ a <= b
      BY <1>1, <1>2, <1>4, <2>1, <2>2
    <3>2. b <= a
      BY <1>1, <1>2, <1>4, <2>2
    <3> QED  BY <3>1, <3>2
  <2> QED  BY <1>4, <2>2, <2>3
<1> QED  BY <1>3, <1>4 DEF a, b

\* An event of a later day is stored.
LaterEvent(e, day) ==
    /\ log' = log \cup {e} /\ e.at \in Nat /\ day < ReportDay(e.at)
    /\ \A f \in log : InOrder(e, f)

LEMMA LogFacts ==
    ASSUME LogInv, NEW e, NEW day, LaterEvent(e, day)
    PROVE  /\ IsFiniteSet(log') /\ \A f \in log' : f.at \in Nat /\ ReportDay(f.at) \in Nat
           /\ \A f \in log' \ log : day < ReportDay(f.at)
           /\ log \subseteq log'
<1>1. \A f \in log' : f.at \in Nat
  BY DEF LogInv, LaterEvent
<1> QED  BY <1>1, FS_AddElement, ReportDayIs DEF LogInv, LaterEvent

\* The senders of a day are known at its end.
LEMMA LaterKeepsSenders ==
    ASSUME LogInv, NEW e, NEW day \in Int, LaterEvent(e, day)
    PROVE  NewSenders(day)' = NewSenders(day)
<1>1. ASSUME NEW f \in log', ReportDay(f.at) <= day PROVE f \in log
  BY <1>1, LogFacts
<1>2. Within("upload_success", day, day)' = Within("upload_success", day, day)
  BY <1>1, LogFacts DEF Within
<1>3. ASSUME NEW c
      PROVE  (\E f \in log' : /\ f.name = "upload_success" /\ f.session.client = c
                              /\ ReportDay(f.at) < day /\ Reached(f, day))
               <=> (\E f \in log : /\ f.name = "upload_success" /\ f.session.client = c
                                   /\ ReportDay(f.at) < day /\ Reached(f, day))
  BY <1>1, LogFacts
<1> QED  BY <1>2, <1>3 DEF NewSenders, Clients, Reached

\* So are the transfers first downloaded on it.
LEMMA LaterKeepsTransfers ==
    ASSUME LogInv, NEW e, NEW day \in Int, LaterEvent(e, day)
    PROVE  DailyTransfers(day)' = DailyTransfers(day)
<1> SUFFICES ASSUME NEW t \in Sessions
             PROVE  t \in DailyTransfers(day)' <=> t \in DailyTransfers(day)
  BY DEF DailyTransfers
<1> DEFINE A == DownloadsOf(t)
           B == DownloadsOf(t)'
<1>1. A \subseteq B /\ IsFiniteSet(B) /\ \A x \in B : x.at \in Nat
  BY LogFacts, FS_Subset DEF DownloadsOf
<1>2. \A x \in B \ A : day < ReportDay(x.at)
  BY LogFacts DEF DownloadsOf
<1>3. (A # {} /\ ReportDay(Min({x.at : x \in A})) = day)
        <=> (B # {} /\ ReportDay(Min({x.at : x \in B})) = day)
  <2> HIDE DEF A, B
  <2> QED  BY <1>1, <1>2, SameFirst
<1>4. UploadsOf(t) \subseteq UploadsOf(t)'
  BY LogFacts DEF UploadsOf
<1>5. ASSUME A # {}, ReportDay(Min({x.at : x \in A})) = day, UploadsOf(t)' # {}
      PROVE  UploadsOf(t) # {}
  <2>1. PICK u \in UploadsOf(t)' : TRUE
    BY <1>5
  <2>2. CASE u \in log
    BY <2>1, <2>2 DEF UploadsOf
  <2>3. CASE u \notin log
    <3>1. PICK d \in A : d.at = Min({x.at : x \in A})
      <4>1. IsFiniteSet(A) /\ \A x \in A : x.at \in Nat
        BY <1>1, FS_Subset
      <4> QED  BY <1>5, <4>1, EarliestOf
    <3>2. u = e /\ d \in log /\ d.name = "download_success" /\ d.transfer = u.transfer
          /\ u.name = "upload_success"
      BY <2>1, <2>3, <3>1 DEF UploadsOf, DownloadsOf, LaterEvent
    <3>3. u.at <= d.at
      BY <3>2 DEF LaterEvent, InOrder
    <3>4. ReportDay(u.at) <= ReportDay(d.at) /\ ReportDay(d.at) = day
      <4>1. d.at \in Nat /\ u.at \in Nat
        BY <1>1, <3>1, <3>2 DEF LaterEvent
      <4> QED  BY <1>5, <3>1, <3>3, <4>1, ReportDayOrder
    <3>5. day < ReportDay(u.at) /\ ReportDay(u.at) \in Nat
      BY <3>2, ReportDayIs DEF LaterEvent
    <3> QED  BY <3>4, <3>5
  <2> QED  BY <2>2, <2>3
<1>6. /\ t \in DailyTransfers(day) <=>
           UploadsOf(t) # {} /\ A # {} /\ ReportDay(Min({x.at : x \in A})) = day
      /\ t \in DailyTransfers(day)' <=>
           UploadsOf(t)' # {} /\ B # {} /\ ReportDay(Min({x.at : x \in B})) = day
  BY DEF DailyTransfers
<1> HIDE DEF A, B
<1> QED  BY <1>3, <1>4, <1>5, <1>6

\* A client's receipts.
ReceiptsOf(c) == {r \in Receipts : r.session.client = c}

LEMMA LaterReceipts ==
    ASSUME LogInv, NEW e, NEW day \in Int, LaterEvent(e, day), NEW c
    PROVE  /\ ReceiptsOf(c) \subseteq ReceiptsOf(c)' /\ ReceiptsOf(c)' \subseteq log'
           /\ \A r \in ReceiptsOf(c)' \ ReceiptsOf(c) : day < ReportDay(r.at)
<1>1. ReceiptsOf(c) \subseteq ReceiptsOf(c)' /\ ReceiptsOf(c)' \subseteq log'
  BY LogFacts DEF ReceiptsOf, Receipts, UploadsOf
<1>2. ASSUME NEW r \in ReceiptsOf(c)', r \notin ReceiptsOf(c) PROVE day < ReportDay(r.at)
  <2>1. CASE r \notin log
    BY <1>1, <1>2, <2>1, LogFacts
  <2>2. CASE r \in log
    <3>1. PICK u \in UploadsOf(r.transfer)' : u.session.client # r.session.client
      BY <1>2 DEF ReceiptsOf, Receipts
    <3>2. u \notin log
      BY <1>2, <2>2, <3>1 DEF ReceiptsOf, Receipts, UploadsOf
    <3>3. u = e /\ e.at <= r.at
      BY <1>2, <2>2, <3>1, <3>2 DEF LaterEvent, InOrder, UploadsOf, ReceiptsOf, Receipts
    <3>4. e.at \in Nat /\ r.at \in Nat /\ ReportDay(r.at) \in Nat /\ ReportDay(e.at) \in Nat
          /\ day < ReportDay(e.at)
      BY <1>2, <2>2, LogFacts, ReportDayIs DEF LaterEvent
    <3>5. ReportDay(e.at) <= ReportDay(r.at)
      BY <3>3, <3>4, ReportDayOrder
    <3> QED  BY <3>4, <3>5
  <2> QED  BY <2>1, <2>2
<1> QED  BY <1>1, <1>2

\* And who converted on it.
LEMMA LaterKeepsConversions ==
    ASSUME LogInv, NEW e, NEW day \in Int, LaterEvent(e, day)
    PROVE  ConvertedOn(day, day)' = ConvertedOn(day, day)
<1> SUFFICES ASSUME NEW c
             PROVE  c \in ConvertedOn(day, day)' <=> c \in ConvertedOn(day, day)
  BY DEF ConvertedOn
<1> DEFINE R == ReceiptsOf(c)
           S == ReceiptsOf(c)'
           A == UploadsAfter(c)
           B == UploadsAfter(c)'
           a == BecameRecipient(c)
           b == BecameRecipient(c)'
<1>1. R \subseteq S /\ IsFiniteSet(S) /\ (\A x \in S : x.at \in Nat)
      /\ (\A x \in S \ R : day < ReportDay(x.at))
  BY LaterReceipts, LogFacts, FS_Subset
<1>2. a = Min({x.at : x \in R}) /\ b = Min({x.at : x \in S})
  BY DEF BecameRecipient, ReceiptsOf
<1>3. /\ A = {x \in log : x.name = "upload_start" /\ x.session.client = c /\ x.at > a}
      /\ B = {x \in log' : x.name = "upload_start" /\ x.session.client = c /\ x.at > b}
  BY DEF UploadsAfter
<1>4. IsFiniteSet(B) /\ \A x \in B : x.at \in Nat /\ ReportDay(x.at) \in Nat
  BY <1>3, LogFacts, FS_Subset
<1>5. /\ c \in ConvertedOn(day, day) <=>
           R # {} /\ A # {} /\ ReportDay(Min({x.at : x \in A})) \in day..day
      /\ c \in ConvertedOn(day, day)' <=>
           S # {} /\ B # {} /\ ReportDay(Min({x.at : x \in B})) \in day..day
  <2>1. /\ c \in Clients(Receipts) <=> R # {}
        /\ c \in Clients(Receipts)' <=> S # {}
    BY DEF Clients, ReceiptsOf
  <2> QED  BY <2>1 DEF ConvertedOn
<1> HIDE DEF R, S, A, B, a, b
<1>6. ASSUME S # {} PROVE b \in Nat /\ (\E x \in S : x.at = b) /\ \A x \in S : b <= x.at
  BY <1>1, <1>2, <1>6, EarliestOf
<1>7. ASSUME NEW x \in B, b \in Nat, day < ReportDay(b) PROVE day < ReportDay(x.at)
  <2>1. x.at \in Nat /\ ReportDay(x.at) \in Nat /\ x.at > b
    BY <1>3, <1>4
  <2>2. ReportDay(b) \in Nat
    BY <1>7, ReportDayIs
  <2>3. ReportDay(b) <= ReportDay(x.at)
    BY <1>7, <2>1, ReportDayOrder
  <2> QED  BY <1>7, <2>1, <2>2, <2>3
<1>8. CASE R # {}
  <2>1. a \in Nat /\ (\E x \in R : x.at = a) /\ (\A x \in R : a <= x.at) /\ S # {}
    <3>1. IsFiniteSet(R) /\ (\A x \in R : x.at \in Nat) /\ S # {}
      BY <1>1, <1>8, FS_Subset
    <3> QED  BY <1>2, <1>8, <3>1, EarliestOf
  <2>2. b \in Nat /\ b <= a
    BY <1>1, <1>6, <2>1
  <2>3. A \subseteq B
    <3>1. ASSUME NEW x \in A PROVE x \in B
      <4>1. x \in log' /\ x.at \in Nat /\ x.at > a /\ x.name = "upload_start" /\ x.session.client = c
        BY <1>3, <3>1, LogFacts
      <4>2. x.at > b
        BY <2>1, <2>2, <4>1
      <4> QED  BY <1>3, <4>1, <4>2
    <3> QED  BY <3>1
  <2>4. ASSUME NEW x \in B \ A PROVE day < ReportDay(x.at)
    <3>1. CASE x \notin log
      BY <1>3, <2>4, <3>1, LogFacts
    <3>2. CASE x \in log
      <4>1. x.at \in Nat /\ b < x.at /\ x.at <= a
        BY <1>3, <1>4, <2>1, <2>2, <2>4, <3>2
      <4>2. PICK r \in S : r.at = b
        BY <1>6, <2>1
      <4>3. r \notin R
        BY <2>1, <2>2, <4>1, <4>2
      <4> QED  BY <1>1, <1>7, <2>2, <2>4, <4>2, <4>3
    <3> QED  BY <3>1, <3>2
  <2>5. (A # {} /\ ReportDay(Min({x.at : x \in A})) = day)
          <=> (B # {} /\ ReportDay(Min({x.at : x \in B})) = day)
    BY <1>4, <2>3, <2>4, SameFirst
  <2>6. \A x : x \in day..day <=> x = day
    OBVIOUS
  <2> QED  BY <1>5, <1>8, <2>1, <2>5, <2>6
<1>9. CASE R = {}
  <2>1. SUFFICES ASSUME S # {}, B # {} PROVE ReportDay(Min({x.at : x \in B})) \notin day..day
    BY <1>5, <1>9
  <2>2. b \in Nat /\ day < ReportDay(b)
    BY <1>1, <1>6, <1>9, <2>1
  <2>3. PICK x \in B : x.at = Min({y.at : y \in B})
    BY <1>4, <2>1, EarliestOf
  <2>4. day < ReportDay(x.at) /\ ReportDay(x.at) \in Nat
    BY <1>4, <1>7, <2>2, <2>3
  <2> QED  BY <2>3, <2>4
<1> QED  BY <1>8, <1>9

\* A row that was current stays so when only later events come.
LEMMA LaterKeeps ==
    ASSUME LogInv, NEW e, NEW day \in Int, LaterEvent(e, day)
    PROVE  DailyMetrics(day, FALSE)' = DailyMetrics(day, FALSE)
BY LaterKeepsSenders, LaterKeepsTransfers, LaterKeepsConversions DEF DailyMetrics

\* An event is stored at most a day after its stamp, in its order.
LEMMA StoreKeeps ==
    ASSUME LogInv, NEW e, Store(e), e.name \in EventNames, e.transfer \in Sessions,
           e.at \in Recent, e.name = "landing_view" => e.source \in Sources
    PROVE  LogInv'
<1>1. /\ log' = log \cup {e} /\ today' = today /\ today \in Nat /\ daily' = daily
      /\ removed' = removed /\ settled' = settled
      /\ current' = {day \in current : day < ReportDay(e.at)}
  BY DEF Store, LogInv
<1>2. e.at \in 0..today /\ today - e.at <= 2
  BY <1>1, ReportsAssumption DEF Recent, ReportTicksPerDay
<1>3. IsFiniteSet(log')
  BY <1>1, FS_AddElement DEF LogInv
<1>4. \A x \in log' :
          /\ x.name \in EventNames /\ x.transfer \in Sessions /\ x.at \in 0..today
          /\ x.name = "landing_view" => x.source \in Sources
  BY <1>1, <1>2 DEF LogInv
<1>5. \A x, y \in log' : InOrder(x, y)
  <2>1. \A f \in log : InOrder(e, f) /\ InOrder(f, e)
    BY DEF Store
  <2>2. InOrder(e, e)
    BY <1>2 DEF InOrder
  <2>3. \A f, g \in log : InOrder(f, g)
    BY DEF LogInv
  <2> QED  BY <1>1, <2>1, <2>2, <2>3
<1>6. ASSUME NEW day \in settled PROVE day \in current' /\ day + 2 <= Today
  <2>1. day \in current /\ day + 2 <= Today /\ day \in Int
    BY DEF LogInv, ReportDays
  <2>2. e.at \in Nat /\ today - e.at <= 2
    BY <1>1, <1>2
  <2>3. day < ReportDay(e.at)
    BY <1>1, <2>1, <2>2, RecentDay DEF Today
  <2> QED  BY <1>1, <2>1, <2>3
<1>7. ASSUME ~removed, NEW day \in current' PROVE daily[day] = DailyMetrics(day, FALSE)'
  <2>1. day \in current /\ day < ReportDay(e.at) /\ day \in Int
    BY <1>1, <1>7 DEF LogInv, ReportDays
  <2>2. LaterEvent(e, day)
    BY <1>1, <1>2, <2>1 DEF LaterEvent, Store
  <2> QED  BY <1>7, <2>1, <2>2, LaterKeeps DEF LogInv
<1>8. daily' = [day \in ReportDays |-> daily'[day]] /\ current' \subseteq ReportDays
      /\ removed' \in BOOLEAN /\ Today' = Today
  BY <1>1 DEF LogInv, Today
<1> QED  BY <1>1, <1>3, <1>4, <1>5, <1>6, <1>7, <1>8 DEF LogInv

\* What a day's query finds depends on the log alone.
LEMMA SameLog ==
    ASSUME UNCHANGED log, NEW day PROVE DailyMetrics(day, FALSE)' = DailyMetrics(day, FALSE)
<1>1. \A t : UploadsOf(t)' = UploadsOf(t) /\ DownloadsOf(t)' = DownloadsOf(t)
  BY DEF UploadsOf, DownloadsOf
<1>2. Receipts' = Receipts
  BY <1>1 DEF Receipts
<1>3. \A c : UploadsAfter(c)' = UploadsAfter(c)
  BY <1>2 DEF UploadsAfter, BecameRecipient
<1>4. /\ NewSenders(day)' = NewSenders(day) /\ DailyTransfers(day)' = DailyTransfers(day)
      /\ ConvertedOn(day, day)' = ConvertedOn(day, day)
  BY <1>1, <1>2, <1>3 DEF NewSenders, Clients, Within, Reached, DailyTransfers, ConvertedOn
<1> QED  BY <1>4 DEF DailyMetrics

\* Writing a row makes it what its query finds.
LEMMA WriteKeeps ==
    ASSUME LogInv, NEW day \in Int, WriteRow(day), UNCHANGED <<today, log, removed>>,
           \A d \in settled' : d \in settled \/ (d = day /\ d \in ReportDays /\ d + 2 <= Today)
    PROVE  LogInv'
<1>1. \A d : DailyMetrics(d, FALSE)' = DailyMetrics(d, FALSE)
  BY SameLog
<1>2. /\ daily' = IF day \in ReportDays THEN [daily EXCEPT ![day] = DailyMetrics(day, FALSE)] ELSE daily
      /\ current' = current \cup ({day} \cap ReportDays)
  BY DEF WriteRow
<1>3. daily = [d \in ReportDays |-> daily[d]]
  BY DEF LogInv
<1>4. /\ daily' = [d \in ReportDays |-> daily'[d]]
      /\ \A d \in ReportDays : daily'[d] = IF d = day THEN DailyMetrics(day, FALSE) ELSE daily[d]
  <2>1. CASE day \in ReportDays
    <3>1. daily' = [d \in ReportDays |-> IF d = day THEN DailyMetrics(day, FALSE) ELSE daily[d]]
      BY <1>2, <1>3, <2>1
    <3> QED  BY <3>1
  <2>2. CASE day \notin ReportDays
    BY <1>2, <1>3, <2>2
  <2> QED  BY <2>1, <2>2
<1>5. ASSUME ~removed, NEW d \in current' PROVE daily'[d] = DailyMetrics(d, FALSE)'
  BY <1>1, <1>2, <1>4, <1>5 DEF LogInv
<1>6. current' \subseteq ReportDays /\ \A d \in settled' : d \in current' /\ d + 2 <= Today
  BY <1>2 DEF LogInv
<1>7. Today' = Today /\ \A e, f : InOrder(e, f)' = InOrder(e, f)
  BY DEF Today, InOrder
<1> QED  BY <1>4, <1>5, <1>6, <1>7 DEF LogInv

\* Nothing changes for the rows when the log and they stay.
LEMMA LogStays ==
    ASSUME LogInv, UNCHANGED <<log, daily, settled, current, removed>>, today' \in Nat, today <= today'
    PROVE  LogInv'
<1>1. \A d : DailyMetrics(d, FALSE)' = DailyMetrics(d, FALSE)
  BY SameLog
<1>2. Today <= Today' /\ Today \in Nat /\ Today' \in Nat
  BY ReportDayOrder, ReportDayIs DEF Today, LogInv
<1>3. \A d \in settled : d \in Int
  BY DEF LogInv, ReportDays
<1>4. \A d \in settled : d + 2 <= Today'
  BY <1>2, <1>3 DEF LogInv
<1>5. \A e \in log : e.at \in 0..today'
  BY DEF LogInv
<1>6. \A e, f : InOrder(e, f)' = InOrder(e, f)
  BY DEF InOrder
<1> QED  BY <1>1, <1>4, <1>5, <1>6 DEF LogInv

LEMMA ReportsKeepLog == ASSUME LogInv, [ReportsNext]_reportVars PROVE LogInv'
<1>0. today \in Nat /\ Today \in Nat
  BY ReportDayIs DEF LogInv, Today
<1>1. ASSUME NEW s \in Sessions, Land(s) PROVE LogInv'
  BY <1>1, StoreKeeps DEF Land, Event, EventNames
<1>2. ASSUME NEW s \in Sessions, NEW name \in {"upload_start", "upload_success"}, UploadEvent(s, name)
      PROVE  LogInv'
  BY <1>2, StoreKeeps DEF UploadEvent, Event, EventNames
<1>3. ASSUME NEW s \in Sessions, DownloadEvent(s) PROVE LogInv'
  BY <1>3, StoreKeeps DEF DownloadEvent, Event, EventNames
<1>4. CASE WritePrecedingDay
  BY <1>0, <1>4, WriteKeeps DEF WritePrecedingDay, ReportJobStep
<1>5. CASE WriteYesterday
  BY <1>0, <1>5, WriteKeeps DEF WriteYesterday, ReportJobStep
<1>6. CASE DeleteOldEvents
  <2>1. CASE log' = log
    <3>1. UNCHANGED <<log, daily, settled, current, removed>> /\ today' = today
      <4>1. removed \in BOOLEAN
        BY DEF LogInv
      <4> QED  BY <1>6, <2>1, <4>1 DEF DeleteOldEvents, ReportJobStep
    <3> QED  BY <1>0, <3>1, LogStays
  <2>2. CASE log' # log
    <3>1. log' \subseteq log /\ removed' = TRUE /\ today' = today /\ daily' = daily
          /\ settled' = settled /\ current' = current /\ Today' = Today
      BY <1>6, <2>2 DEF DeleteOldEvents, ReportJobStep, Today
    <3>2. IsFiniteSet(log')
      BY <3>1, FS_Subset DEF LogInv
    <3> QED  BY <3>1, <3>2 DEF LogInv, InOrder
  <2> QED  BY <2>1, <2>2
<1>7. CASE ReportJobFails
  BY <1>0, <1>7, LogStays DEF ReportJobFails, ReportJobStep
<1>8. CASE ReportTick
  BY <1>0, <1>8, LogStays DEF ReportTick
<1>9. CASE UNCHANGED reportVars
  BY <1>0, <1>9, LogStays DEF reportVars
<1> QED  BY <1>1, <1>2, <1>3, <1>4, <1>5, <1>6, <1>7, <1>8, <1>9 DEF ReportsNext

\* The earliest of some stored events is found.
LEMMA Earliest ==
    ASSUME LogInv, NEW L \in SUBSET log, L # {}
    PROVE  /\ Min({e.at : e \in L}) \in Nat
           /\ \E e \in L : e.at = Min({x.at : x \in L})
           /\ \A e \in L : Min({x.at : x \in L}) <= e.at
<1>1. IsFiniteSet(L) /\ \A e \in L : e.at \in Nat
  BY FS_Subset DEF LogInv
<1> QED  BY <1>1, EarliestOf

\* Finitely many events have finitely many clients.
LEMMA ClientsFinite ==
    ASSUME LogInv, NEW L \in SUBSET log PROVE IsFiniteSet(Clients(L))
<1> DEFINE g == [e \in L |-> e.session.client]
<1>1. IsFiniteSet(L) /\ g \in Surjection(L, Clients(L))
  BY FS_Subset DEF LogInv, Surjection, Clients
<1> HIDE DEF g
<1> QED  BY <1>1, FS_Surjection

\* A metric of a day as stored, and of the last day.
Stored(field, day) == daily[day][field]
Limited(field, day) == DailyMetrics(day, TRUE)[field]

\* A daily metric that counts a set of its own each day adds up to what the sets hold together.
LEMMA DailySum ==
    ASSUME NEW field, NEW from \in Int, NEW to \in Int, NEW F, Apart(from..to, F),
           \A day \in from..to : Stored(field, day) = Cardinality(F[day])
    PROVE  SumDailyMetrics(field, from, to) = Cardinality(Whole(F, from..to))
<1> DEFINE S == from..to
           w == Together(S, F)
           c == [day \in S |-> Stored(field, day)]
<1>1. IsFiniteSet(S)
  BY FS_Interval
<1>2. \A x \in S : c[x] = Cardinality(F[x])
  OBVIOUS
<1>3. \A s \in SUBSET S : s # {} => One(s) \in S
  BY OneIs
<1> HIDE DEF S
<1>4. Sums(w, c, S)
  <2> HIDE DEF c
  <2> QED  BY <1>1, <1>2, TogetherRecurs DEF S
<1> HIDE DEF w
<1>5. w = [s \in SUBSET S |->
             IF s = {} THEN 0 ELSE Stored(field, One(s)) + w[s \ {One(s)}]]
  BY <1>3, <1>4 DEF Sums
<1> DEFINE Iter == CHOOSE iter : iter = [s \in SUBSET S |->
                     IF s = {} THEN 0 ELSE Stored(field, One(s)) + iter[s \ {One(s)}]]
<1>6. SumDailyMetrics(field, from, to) = Iter[S]
  BY DEF SumDailyMetrics, MapThenSumSet, MapThenFoldSet, One, S, Stored
<1>7. Iter = [s \in SUBSET S |->
                IF s = {} THEN 0 ELSE Stored(field, One(s)) + Iter[s \ {One(s)}]]
  BY <1>5
<1> HIDE DEF Iter
<1>8. Sums(Iter, c, S)
  BY <1>3, <1>7 DEF Sums
<1>9. Iter[S] = w[S]
  <2> HIDE DEF c
  <2> QED  BY <1>1, <1>4, <1>8, SumUnique
<1> QED  BY <1>6, <1>9 DEF w, Together, S

\* The day of a transfer's first download.
FirstDay(t) == ReportDay(Min({e.at : e \in DownloadsOf(t)}))

\* A transfer counts on the day of its first download, and in the first HistoryDays the
\* limited query finds the same ones.
LEMMA TransfersDay ==
    ASSUME LogInv, NEW day \in Int
    PROVE  /\ DailyTransfers(day) = {t \in Sessions : /\ UploadsOf(t) # {} /\ DownloadsOf(t) # {}
                                                     /\ FirstDay(t) = day}
           /\ day <= HistoryDays => TransfersToday(day) = DailyTransfers(day)
<1>1. ASSUME NEW t, NEW d \in DownloadsOf(t), NEW u \in UploadsOf(t)
      PROVE  u.at <= d.at
  BY DEF LogInv, InOrder, UploadsOf, DownloadsOf
<1>2. DailyTransfers(day) = {t \in Sessions : /\ UploadsOf(t) # {} /\ DownloadsOf(t) # {}
                                               /\ FirstDay(t) = day}
  BY DEF DailyTransfers, FirstDay
<1>3. ASSUME day <= HistoryDays, NEW t \in Sessions
      PROVE  t \in TransfersToday(day) <=> UploadsOf(t) # {} /\ DownloadsOf(t) # {} /\ FirstDay(t) = day
  <2>1. \A e \in DownloadsOf(t) \cup UploadsOf(t) : e.at \in Nat /\ Reached(e, day)
    <3>1. \A e \in DownloadsOf(t) \cup UploadsOf(t) : e.at \in Nat
      BY DEF LogInv, DownloadsOf, UploadsOf
    <3>2. Ticks(day - HistoryDays) <= 0
      BY <1>3, ReportsAssumption DEF Ticks, ReportTicksPerDay
    <3>3. Ticks(day - HistoryDays) \in Int
      BY <1>3, ReportsAssumption DEF Ticks, ReportTicksPerDay
    <3> QED  BY <3>1, <3>2, <3>3 DEF Reached
  <2>2. t \in TransfersToday(day) <=> \E d \in DownloadsOf(t) :
            /\ ReportDay(d.at) = day /\ UploadsOf(t) # {}
            /\ ~\E p \in DownloadsOf(t) : p.at < d.at
    BY <1>1, <2>1 DEF TransfersToday
  <2>3. CASE DownloadsOf(t) = {}
    BY <2>2, <2>3
  <2>4. CASE DownloadsOf(t) # {}
    <3>1. /\ \E e \in DownloadsOf(t) : e.at = Min({x.at : x \in DownloadsOf(t)})
          /\ \A e \in DownloadsOf(t) : Min({x.at : x \in DownloadsOf(t)}) <= e.at
          /\ Min({x.at : x \in DownloadsOf(t)}) \in Nat
      <4>1. DownloadsOf(t) \in SUBSET log
        BY DEF DownloadsOf
      <4> QED  BY <2>4, <4>1, Earliest
    <3>2. ASSUME NEW d \in DownloadsOf(t)
          PROVE  (~\E p \in DownloadsOf(t) : p.at < d.at) <=> d.at = Min({x.at : x \in DownloadsOf(t)})
      BY <2>1, <3>1
    <3> QED  BY <2>2, <2>4, <3>1, <3>2 DEF FirstDay
  <2> QED  BY <2>3, <2>4
<1> QED  BY <1>2, <1>3 DEF TransfersToday, DailyTransfers

\* The uploads of a client.
UploadsBy(c) == {u \in log : u.name = "upload_success" /\ u.session.client = c}

\* In the first HistoryDays a sender is new on the day of the first upload.
LEMMA NewSendersDay ==
    ASSUME LogInv, NEW day \in Int, day <= HistoryDays
    PROVE  NewSenders(day) = {c \in Clients({e \in log : e.name = "upload_success"}) :
                                 ReportDay(FirstUpload(c)) = day}
<1>1. ASSUME NEW c \in Clients({e \in log : e.name = "upload_success"})
      PROVE  /\ FirstUpload(c) \in Nat
             /\ \E e \in UploadsBy(c) : e.at = FirstUpload(c)
             /\ \A e \in UploadsBy(c) : e.at \in Nat /\ FirstUpload(c) <= e.at
  <2>1. UploadsBy(c) \in SUBSET log /\ UploadsBy(c) # {}
    BY DEF UploadsBy, Clients
  <2>2. \A e \in UploadsBy(c) : e.at \in Nat
    BY DEF LogInv, UploadsBy
  <2> QED  BY <2>1, <2>2, Earliest DEF FirstUpload, UploadsBy
<1>2. ASSUME NEW c
      PROVE  c \in NewSenders(day) <=> /\ c \in Clients({e \in log : e.name = "upload_success"})
                                       /\ ReportDay(FirstUpload(c)) = day
  <2>1. c \in Clients(Within("upload_success", day, day)) <=>
          \E e \in UploadsBy(c) : ReportDay(e.at) = day
    <3>1. \A e \in log : ReportDay(e.at) \in Nat
      <4>1. ASSUME NEW e \in log PROVE e.at \in Nat
        BY DEF LogInv
      <4> QED  BY <4>1, ReportDayIs
    <3> QED  BY <3>1 DEF Clients, Within, UploadsBy
  <2>2. c \in Clients({e \in log : e.name = "upload_success"}) <=> UploadsBy(c) # {}
    BY DEF Clients, UploadsBy
  <2>3. c \in NewSenders(day) <=> /\ \E e \in UploadsBy(c) : ReportDay(e.at) = day
                                  /\ ~\E e \in UploadsBy(c) : ReportDay(e.at) < day
    <3>1. \A e \in UploadsBy(c) : Reached(e, day)
      <4>1. Ticks(day - HistoryDays) <= 0 /\ Ticks(day - HistoryDays) \in Int
        BY ReportsAssumption DEF Ticks, ReportTicksPerDay
      <4>2. \A e \in UploadsBy(c) : e.at \in Nat
        BY DEF LogInv, UploadsBy
      <4> QED  BY <4>1, <4>2 DEF Reached
    <3> QED  BY <2>1, <3>1 DEF NewSenders, UploadsBy
  <2>4. CASE UploadsBy(c) = {}
    BY <2>2, <2>3, <2>4
  <2>5. CASE UploadsBy(c) # {}
    <3>1. PICK m \in UploadsBy(c) : m.at = FirstUpload(c)
      BY <1>1, <2>2, <2>5
    <3>2. \A e \in UploadsBy(c) : /\ ReportDay(e.at) \in Nat /\ ReportDay(m.at) \in Nat
                                  /\ ReportDay(m.at) <= ReportDay(e.at)
      <4>1. ASSUME NEW e \in UploadsBy(c)
            PROVE  /\ ReportDay(e.at) \in Nat /\ ReportDay(m.at) \in Nat
                   /\ ReportDay(m.at) <= ReportDay(e.at)
        <5>1. e.at \in Nat /\ m.at \in Nat /\ m.at <= e.at
          BY <1>1, <2>2, <2>5, <3>1
        <5> QED  BY <5>1 DEF ReportDay, ReportTicksPerDay
      <4> QED  BY <4>1
    <3> QED  BY <2>2, <2>3, <2>5, <3>1, <3>2
  <2> QED  BY <2>4, <2>5
<1> QED  BY <1>2

\* The last day of a period, counted by a query of its own, completes the sum.
LEMMA PeriodSum ==
    ASSUME NEW field, NEW from \in Int, NEW to \in Int, from <= to, NEW F, Apart(from..to, F),
           \A day \in from..(to - 1) : Stored(field, day) = Cardinality(F[day]),
           Limited(field, to) = Cardinality(F[to])
    PROVE  SumDailyMetrics(field, from, to - 1) + Limited(field, to)
             = Cardinality(Whole(F, from..to))
<1> DEFINE A == Whole(F, from..(to - 1))
<1>1. \A day \in from..(to - 1) : day \in from..to /\ day # to
  OBVIOUS
<1>2. Apart(from..(to - 1), F) /\ to - 1 \in Int
  BY <1>1 DEF Apart
<1>3. SumDailyMetrics(field, from, to - 1) = Cardinality(A)
  BY <1>2, DailySum
<1>4. A \cap F[to] = {} /\ IsFiniteSet(F[to]) /\ IsFiniteSet(A)
  <2>1. IsFiniteSet(A)
    <3>1. IsFiniteSet(from..(to - 1)) /\ \A x \in from..(to - 1) : IsFiniteSet(F[x])
      BY <1>2, FS_Interval DEF Apart
    <3> QED  BY <3>1, FamilyFinite
  <2>2. to \in from..to
    OBVIOUS
  <2> QED  BY <1>1, <2>1, <2>2 DEF Apart, Whole
<1>5. Whole(F, from..to) = A \cup F[to]
  <2>1. \A day : day \in from..to <=> day \in from..(to - 1) \/ day = to
    OBVIOUS
  <2> QED  BY <2>1 DEF Whole
<1> HIDE DEF A
<1>6. Cardinality(A \cup F[to]) = Cardinality(A) + Cardinality(F[to])
  <2>1. Cardinality(A \cup F[to]) = Cardinality(A) + Cardinality(F[to]) - Cardinality(A \cap F[to])
    BY <1>4, FS_Union
  <2>2. Cardinality(A \cap F[to]) = 0 /\ Cardinality(A) \in Nat /\ Cardinality(F[to]) \in Nat
    BY <1>4, FS_EmptySet, FS_CardinalityType
  <2> QED  BY <2>1, <2>2
<1> QED  BY <1>3, <1>5, <1>6

\* A current row holds what its query finds.
CurrentDays(from, to) ==
    ~removed /\ to <= HistoryDays /\ from..(to - 1) \subseteq current

LEMMA CurrentRow ==
    ASSUME LogInv, ~removed, NEW day \in current
    PROVE  /\ Stored("transfers", day) = Cardinality(DailyTransfers(day))
           /\ Stored("newSenders", day) = Cardinality(NewSenders(day))
           /\ Stored("conversions", day) = Cardinality(ConvertedOn(day, day))
<1>1. daily[day] = DailyMetrics(day, FALSE)
  BY DEF LogInv
<1> QED  BY <1>1 DEF Stored, DailyMetrics

\* The overview's transfers are those first downloaded within the period.
LEMMA TransfersAddUp ==
    ASSUME LogInv, NEW from \in Int, NEW to \in Int, from <= to, CurrentDays(from, to)
    PROVE  Overview(from, to).transfers = Cardinality({t \in Sessions :
              /\ UploadsOf(t) # {}
              /\ \E d \in DownloadsOf(t) : /\ ReportDay(d.at) \in from..to
                                           /\ \A p \in DownloadsOf(t) : p.at >= d.at})
<1> DEFINE P == {t \in Sessions : UploadsOf(t) # {} /\ DownloadsOf(t) # {}}
           key == [t \in P |-> FirstDay(t)]
           F == [day \in from..to |-> DailyTransfers(day)]
<1>1. IsFiniteSet(P)
  BY ReportsAssumption, FS_Subset
<1>2. \A t \in P : /\ \E e \in DownloadsOf(t) : e.at = Min({x.at : x \in DownloadsOf(t)})
                   /\ \A e \in DownloadsOf(t) :
                         /\ Min({x.at : x \in DownloadsOf(t)}) <= e.at /\ e.at \in Nat
                   /\ Min({x.at : x \in DownloadsOf(t)}) \in Nat
  <2>1. \A t : DownloadsOf(t) \in SUBSET log /\ \A e \in DownloadsOf(t) : e.at \in Nat
    BY DEF DownloadsOf, LogInv
  <2> QED  BY <2>1, Earliest
<1>3. \A t \in P : key[t] \in Int
  BY <1>2, ReportDayIs DEF FirstDay
<1>4. \A day \in from..to : F[day] = {t \in P : key[t] = day}
  BY TransfersDay
<1>5. Apart(from..to, F) /\ Whole(F, from..to) = {t \in P : key[t] \in from..to}
  <2> HIDE DEF P, key, F
  <2>1. Apart(from..to, F)
    <3>1. \A day \in from..to : F[day] \subseteq P /\ \A x \in F[day] : key[x] = day
      BY <1>4
    <3>2. \A day \in from..to : IsFiniteSet(F[day])
      BY <1>1, <3>1, FS_Subset
    <3> QED  BY <3>1, <3>2 DEF Apart
  <2>2. Whole(F, from..to) = {t \in P : key[t] \in from..to}
    BY <1>4 DEF Whole
  <2> QED  BY <2>1, <2>2
<1>6. /\ \A day \in from..(to - 1) : Stored("transfers", day) = Cardinality(F[day])
      /\ Limited("transfers", to) = Cardinality(F[to])
  BY TransfersDay, CurrentRow DEF DailyMetrics, Limited, CurrentDays
<1>7. SumDailyMetrics("transfers", from, to - 1) + Limited("transfers", to)
        = Cardinality(Whole(F, from..to))
  <2> HIDE DEF F
  <2> QED  BY <1>5, <1>6, PeriodSum
<1>8. Overview(from, to).transfers
        = SumDailyMetrics("transfers", from, to - 1) + Limited("transfers", to)
  BY DEF Overview, Limited
<1>9. {t \in P : key[t] \in from..to} = {t \in Sessions :
              /\ UploadsOf(t) # {}
              /\ \E d \in DownloadsOf(t) : /\ ReportDay(d.at) \in from..to
                                           /\ \A p \in DownloadsOf(t) : p.at >= d.at}
  <2>1. ASSUME NEW t \in P
        PROVE  key[t] \in from..to <=> \E d \in DownloadsOf(t) :
                  ReportDay(d.at) \in from..to /\ \A p \in DownloadsOf(t) : p.at >= d.at
    <3>1. \A d \in DownloadsOf(t) : (\A p \in DownloadsOf(t) : p.at >= d.at) <=>
                                       d.at = Min({x.at : x \in DownloadsOf(t)})
      BY <1>2
    <3> QED  BY <1>2, <3>1 DEF FirstDay
  <2> QED  BY <2>1
<1> QED  BY <1>5, <1>7, <1>8, <1>9

\* Who ever uploaded.
Senders == Clients({e \in log : e.name = "upload_success"})

\* The overview's new senders are the cohort of the period.
LEMMA SendersAddUp ==
    ASSUME LogInv, NEW from \in Int, NEW to \in Int, from <= to, CurrentDays(from, to)
    PROVE  /\ Overview(from, to).newSenders = Cardinality(Cohort(from, to))
           /\ Overview(from, to).newSenders <= Overview(from, to).uniqueSenders
<1> DEFINE key == [c \in Senders |-> ReportDay(FirstUpload(c))]
           F == [day \in from..to |-> NewSenders(day)]
<1>1. IsFiniteSet(Senders)
  BY ClientsFinite DEF Senders
<1>2. \A c \in Senders : \E e \in UploadsBy(c) : /\ e.at = FirstUpload(c) /\ e.at \in Nat
  <2> SUFFICES ASSUME NEW c \in Senders
               PROVE  \E e \in UploadsBy(c) : /\ e.at = FirstUpload(c) /\ e.at \in Nat
    OBVIOUS
  <2>1. UploadsBy(c) \in SUBSET log /\ UploadsBy(c) # {}
    BY DEF UploadsBy, Clients, Senders
  <2>2. \A e \in UploadsBy(c) : e.at \in Nat
    BY DEF LogInv, UploadsBy
  <2> QED  BY <2>1, <2>2, Earliest DEF FirstUpload, UploadsBy
<1>3. \A c \in Senders : key[c] \in Int
  <2>1. \A c \in Senders : FirstUpload(c) \in Nat
    BY <1>2
  <2> QED  BY <2>1, ReportDayIs
<1>4. \A day \in from..to : F[day] = {c \in Senders : key[c] = day}
  <2>1. \A day \in from..to : day \in Int /\ day <= HistoryDays
    BY ReportsAssumption DEF CurrentDays
  <2> QED  BY <2>1, NewSendersDay DEF Senders
<1>5. Apart(from..to, F) /\ Whole(F, from..to) = {c \in Senders : key[c] \in from..to}
  <2> HIDE DEF key, F
  <2>1. Apart(from..to, F)
    <3>1. \A day \in from..to : F[day] \subseteq Senders /\ \A x \in F[day] : key[x] = day
      BY <1>4
    <3>2. \A day \in from..to : IsFiniteSet(F[day])
      BY <1>1, <3>1, FS_Subset
    <3> QED  BY <3>1, <3>2 DEF Apart
  <2>2. Whole(F, from..to) = {c \in Senders : key[c] \in from..to}
    BY <1>4 DEF Whole
  <2> QED  BY <2>1, <2>2
<1>6. /\ \A day \in from..(to - 1) : Stored("newSenders", day) = Cardinality(F[day])
      /\ Limited("newSenders", to) = Cardinality(F[to])
  BY CurrentRow DEF DailyMetrics, Limited, CurrentDays
<1>7. SumDailyMetrics("newSenders", from, to - 1) + Limited("newSenders", to)
        = Cardinality(Whole(F, from..to))
  <2> HIDE DEF F
  <2> QED  BY <1>5, <1>6, PeriodSum
<1>8. /\ Overview(from, to).newSenders
           = SumDailyMetrics("newSenders", from, to - 1) + Limited("newSenders", to)
      /\ Overview(from, to).uniqueSenders = Cardinality(Clients(Within("upload_success", from, to)))
  BY DEF Overview, Limited
<1>9. {c \in Senders : key[c] \in from..to} = Cohort(from, to)
  BY DEF Senders, Cohort
<1>10. Cohort(from, to) \subseteq Clients(Within("upload_success", from, to))
  BY <1>2 DEF Senders, Cohort, Clients, Within, UploadsBy
<1>11. Cardinality(Cohort(from, to)) <= Cardinality(Clients(Within("upload_success", from, to)))
  <2>1. IsFiniteSet(Clients(Within("upload_success", from, to)))
    BY ClientsFinite DEF Within
  <2> QED  BY <1>10, <2>1, FS_Subset
<1>12. Overview(from, to).newSenders = Cardinality(Cohort(from, to))
  BY <1>5, <1>7, <1>8, <1>9, Zenon
<1> QED  BY <1>8, <1>11, <1>12

\* The conversions of the days are the clients who converted within the period.
LEMMA ConversionsAddUp ==
    ASSUME LogInv, NEW from \in Int, NEW to \in Int, from <= to
    PROVE  /\ ~removed /\ from..to \subseteq current =>
                SumDailyMetrics("conversions", from, to) = Cardinality(ConvertedOn(from, to))
           /\ from >= 0 => ConvertedOn(from, to) \subseteq RecipientGrowth(0, to).recipients
<1> DEFINE P == {c \in Clients(Receipts) : UploadsAfter(c) # {}}
           key == [c \in P |-> ReportDay(Min({e.at : e \in UploadsAfter(c)}))]
           F == [day \in from..to |-> ConvertedOn(day, day)]
<1>1. IsFiniteSet(P)
  <2>1. IsFiniteSet(Clients(Receipts))
    BY ClientsFinite DEF Receipts
  <2> QED  BY <2>1, FS_Subset
<1>2. \A c \in P : \E e \in UploadsAfter(c) : /\ e.at = Min({x.at : x \in UploadsAfter(c)}) /\ e.at \in Nat
  <2>1. \A c : UploadsAfter(c) \in SUBSET log /\ \A e \in UploadsAfter(c) : e.at \in Nat
    BY DEF UploadsAfter, LogInv
  <2> QED  BY <2>1, Earliest
<1>3. \A c \in P : key[c] \in Nat
  BY <1>2, ReportDayIs
<1>4. \A day \in from..to : F[day] = {c \in P : key[c] = day}
  BY <1>3 DEF ConvertedOn
<1>5. Apart(from..to, F) /\ Whole(F, from..to) = {c \in P : key[c] \in from..to}
  <2> HIDE DEF P, key, F
  <2>1. Apart(from..to, F)
    <3>1. \A day \in from..to : F[day] \subseteq P /\ \A x \in F[day] : key[x] = day
      BY <1>4
    <3>2. \A day \in from..to : IsFiniteSet(F[day])
      BY <1>1, <3>1, FS_Subset
    <3> QED  BY <3>1, <3>2 DEF Apart
  <2>2. Whole(F, from..to) = {c \in P : key[c] \in from..to}
    BY <1>4 DEF Whole
  <2> QED  BY <2>1, <2>2
<1>6. ASSUME ~removed, from..to \subseteq current
      PROVE  \A day \in from..to : Stored("conversions", day) = Cardinality(F[day])
  BY <1>6, CurrentRow
<1>7. ASSUME ~removed, from..to \subseteq current
      PROVE  SumDailyMetrics("conversions", from, to) = Cardinality(Whole(F, from..to))
  <2> HIDE DEF F
  <2> QED  BY <1>5, <1>6, <1>7, DailySum
<1>8. {c \in P : key[c] \in from..to} = ConvertedOn(from, to)
  BY DEF ConvertedOn
<1>9. ASSUME from >= 0, NEW c \in ConvertedOn(from, to) PROVE c \in RecipientGrowth(0, to).recipients
  <2> DEFINE R == {r \in Receipts : r.session.client = c}
  <2>1. R \in SUBSET log /\ R # {} /\ \A r \in R : r.at \in Nat
    BY DEF ConvertedOn, Clients, Receipts, LogInv
  <2>2. PICK r \in R : r.at = BecameRecipient(c)
    BY <2>1, Earliest DEF BecameRecipient
  <2>3. PICK e \in UploadsAfter(c) : e.at \in Nat /\ ReportDay(e.at) \in from..to
    BY <1>2, <1>8 DEF ConvertedOn
  <2>4. r.at < e.at /\ r.at \in Nat
    BY <2>1, <2>2, <2>3 DEF UploadsAfter
  <2>5. ReportDay(r.at) \in 0..to
    BY <2>3, <2>4 DEF ReportDay, ReportTicksPerDay
  <2> QED  BY <2>2, <2>5 DEF RecipientGrowth, Clients
<1> QED  BY <1>5, <1>7, <1>8, <1>9

\* The sessions of a period that landed first from a source.
LandedFrom(source, from, to) ==
    {s \in {e.session : e \in Within("landing_view", from, to)} : Landing(s, from, to).source = source}

\* Every session that landed is acquired from one source, and reaches the first step of the funnel.
LEMMA LandingsAddUp ==
    ASSUME LogInv, NEW from \in Int, NEW to \in Int
    PROVE  /\ MapThenSumSet(LAMBDA source : Acquisition(from, to).sessions[source], Sources)
                = Cardinality({e.session : e \in Within("landing_view", from, to)})
           /\ Cardinality({e.session : e \in Within("landing_view", from, to)})
                <= Cardinality(Within("landing_view", from, to))
<1> DEFINE V == Within("landing_view", from, to)
           Landed == {e.session : e \in V}
           F == [source \in Sources |-> LandedFrom(source, from, to)]
           w == Together(Sources, F)
           c == [source \in Sources |-> Acquisition(from, to).sessions[source]]
           g == [e \in V |-> e.session]
<1>1. V \in SUBSET log /\ \A e \in V : e.source \in Sources /\ e.at \in Nat
  BY DEF Within, LogInv
<1>2. IsFiniteSet(V)
  BY <1>1, FS_Subset DEF LogInv
<1>3. IsFiniteSet(Landed) /\ Cardinality(Landed) <= Cardinality(V)
  <2>1. g \in Surjection(V, Landed)
    BY DEF Surjection
  <2> HIDE DEF g, V, Landed
  <2> QED  BY <1>2, <2>1, FS_Surjection
<1>4. ASSUME NEW s \in Landed PROVE Landing(s, from, to).source \in Sources
  <2> DEFINE seen == {e \in V : e.session = s}
  <2>1. seen \in SUBSET log /\ seen # {} /\ \A e \in seen : e.at \in Nat
    BY <1>1
  <2>2. \E e \in seen : \A f \in seen : e.at <= f.at
    <3> HIDE DEF seen
    <3> QED  BY <2>1, Earliest
  <2>3. Landing(s, from, to) \in seen
    <3> HIDE DEF V
    <3> QED  BY <2>2 DEF Landing, V
  <2> QED  BY <1>1, <2>3
<1>5. Apart(Sources, F) /\ Whole(F, Sources) = Landed
  <2>1. \A x \in Sources : F[x] = {s \in Landed : Landing(s, from, to).source = x}
    BY DEF LandedFrom
  <2> HIDE DEF F, Landed, V
  <2>2. \A x \in Sources : IsFiniteSet(F[x])
    <3>1. \A x \in Sources : F[x] \subseteq Landed
      BY <2>1
    <3> QED  BY <1>3, <3>1, FS_Subset
  <2> QED  BY <1>4, <2>1, <2>2 DEF Apart, Whole
<1>6. \A x \in Sources : c[x] = Cardinality(F[x])
  BY DEF Acquisition, LandedFrom
<1>7. IsFiniteSet(Sources)
  BY ReportsAssumption
<1>8. Sums(w, c, Sources)
  <2> HIDE DEF c, F
  <2> QED  BY <1>5, <1>6, <1>7, TogetherRecurs
<1>9. \A s \in SUBSET Sources : s # {} => One(s) \in Sources
  BY OneIs
<1> DEFINE Iter == CHOOSE iter : iter = [s \in SUBSET Sources |->
                     IF s = {} THEN 0 ELSE Acquisition(from, to).sessions[One(s)] + iter[s \ {One(s)}]]
<1>10. MapThenSumSet(LAMBDA source : Acquisition(from, to).sessions[source], Sources) = Iter[Sources]
  BY DEF MapThenSumSet, MapThenFoldSet, One
<1> HIDE DEF w
<1>11. w = [s \in SUBSET Sources |->
              IF s = {} THEN 0 ELSE Acquisition(from, to).sessions[One(s)] + w[s \ {One(s)}]]
  BY <1>8, <1>9 DEF Sums
<1>12. Iter = [s \in SUBSET Sources |->
                 IF s = {} THEN 0 ELSE Acquisition(from, to).sessions[One(s)] + Iter[s \ {One(s)}]]
  BY <1>11
<1> HIDE DEF Iter
<1>13. Sums(Iter, c, Sources)
  BY <1>9, <1>12 DEF Sums
<1>14. Iter[Sources] = w[Sources]
  <2> HIDE DEF c
  <2> QED  BY <1>7, <1>8, <1>13, SumUnique
<1>15. w[Sources] = Cardinality(Landed)
  <2> HIDE DEF F, Landed
  <2> QED  BY <1>5 DEF w, Together
<1> QED  BY <1>3, <1>10, <1>14, <1>15

\* What the log has in common makes the reports agree.
LEMMA LogMakesReportsAgree == ASSUME LogInv PROVE ReportsAgree
<1>1. Today \in Nat
  BY ReportDayIs DEF Today, LogInv
<1> SUFFICES
      ASSUME NEW from \in 0..Today, NEW to \in from..Today
      PROVE  PeriodAgrees(from, to)
  BY DEF ReportsAgree, LogInv
<1>2. from \in Int /\ to \in Int /\ from <= to /\ from >= 0
  BY <1>1
<1>3. RecipientGrowth(from, to).conversions = ConvertedOn(from, to)
  BY DEF RecipientGrowth
<1>4. Funnel(from, to)[1] = Cardinality(Within("landing_view", from, to))
  BY DEF Funnel
<1>5. Reliability(from, to).bySizeBucket.successes <= Reliability(from, to).bySizeBucket.starts
  <2> DEFINE starts == Within("upload_start", from, to)
             ended == {s \in starts : \E e \in Within("upload_success", from, to) : e.session = s.session}
  <2>1. /\ Reliability(from, to).bySizeBucket.successes = Cardinality(ended)
        /\ Reliability(from, to).bySizeBucket.starts = Cardinality(starts)
    BY DEF Reliability, RateViaAttempt
  <2>2. IsFiniteSet(starts) /\ ended \subseteq starts
    BY FS_Subset DEF LogInv, Within
  <2> HIDE DEF starts, ended
  <2> QED  BY <2>1, <2>2, FS_Subset
<1>6. Overview(from, to).repeat.repeaters \subseteq Overview(from, to).repeat.eligible
  BY DEF Overview, RepeatSenders, NoRate
<1>7. \A o \in Offsets : LET r == CohortRetention(from, to, o)
                         IN r.retained \subseteq r.eligible /\ r.eligible \subseteq Cohort(from, to)
  BY DEF CohortRetention
<1>8. /\ MapThenSumSet(LAMBDA source : Acquisition(from, to).sessions[source], Sources) =
           Cardinality({e.session : e \in Within("landing_view", from, to)})
      /\ Cardinality({e.session : e \in Within("landing_view", from, to)}) <= Funnel(from, to)[1]
  BY <1>2, <1>4, LandingsAddUp
<1>9. ASSUME WithinHistory, from..(to - 1) \subseteq current
      PROVE  /\ Overview(from, to).transfers = Cardinality({t \in Sessions :
                  /\ UploadsOf(t) # {}
                  /\ \E d \in DownloadsOf(t) : /\ ReportDay(d.at) \in from..to
                                               /\ \A p \in DownloadsOf(t) : p.at >= d.at})
             /\ Overview(from, to).newSenders = Cardinality(Cohort(from, to))
             /\ Overview(from, to).newSenders <= Overview(from, to).uniqueSenders
  <2>1. CurrentDays(from, to)
    BY <1>1, <1>2, <1>9, ReportsAssumption DEF CurrentDays, WithinHistory
  <2> QED  BY <1>2, <2>1, TransfersAddUp, SendersAddUp
<1>10. ASSUME WithinHistory, from..(to - 1) \subseteq current, to \in current
       PROVE  SumDailyMetrics("conversions", from, to) = Cardinality(ConvertedOn(from, to))
  <2>1. from..to \subseteq current
    <3>1. \A day \in from..to : day \in from..(to - 1) \/ day = to
      BY <1>2
    <3> QED  BY <1>10, <3>1
  <2> QED  BY <1>2, <1>10, <2>1, ConversionsAddUp DEF WithinHistory
<1>11. ConvertedOn(from, to) \subseteq RecipientGrowth(0, to).recipients
  BY <1>2, ConversionsAddUp
<1> QED  BY <1>3, <1>5, <1>6, <1>7, <1>8, <1>9, <1>10, <1>11, Zenon DEF PeriodAgrees

\* Overview, funnel, acquisition, cohorts and recipient growth agree: where they rest on stored
\* rows, over every period whose earlier days have current ones, and the rows of the days the
\* job has written twice are current (reports.ts, aggregate.ts).
THEOREM ReportsAlwaysAgree == ReportsSpec => []ReportsAgree
<1>1. ReportsInit => LogInv
  BY FS_EmptySet, ReportsAssumption DEF ReportsInit, LogInv, InOrder
<1>2. LogInv /\ [ReportsNext]_reportVars => LogInv'
  BY ReportsKeepLog
<1>3. LogInv => ReportsAgree
  BY LogMakesReportsAgree
<1> QED  BY <1>1, <1>2, <1>3, PTL DEF ReportsSpec

=============================================================================
