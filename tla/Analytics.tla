----------------------------- MODULE Analytics -----------------------------
(***************************************************************************)
(* Usage events on their way from a browser to the daily table             *)
(* (lib/analytics/client.ts, server/routes/analytics/events/route.ts,      *)
(* lib/analytics/aggregate.ts, retention.ts, lib/scheduled.ts).  A day has *)
(* two ticks: 00:00-00:10, and the rest, which the daily job opens.        *)
(***************************************************************************)
EXTENDS Integers, FiniteSets, FiniteSetsExt

CONSTANTS Events,     \* [id, kind, transfer, browser]: what the browsers will report
          ShareLife,  \* ticks a share lives at most (RETENTION_DAYS)
          Retention,  \* ticks a raw event is kept (RAW_EVENT_RETENTION_DAYS)
          LastTick,   \* bound on the calendar
          MaxFlights, \* bound: batches under way at once
          MaxFaults   \* bound: lost answers, batches and tabs, failed jobs

Never == -1
TicksPerDay == 2
MaxSkew == TicksPerDay   \* MAX_CLOCK_SKEW_MS
Days == 0..(LastTick \div TicksPerDay)
Day(tick) == tick \div TicksPerDay

ASSUME AnalyticsAssumption ==
    /\ IsFiniteSet(Events) /\ LastTick \in Nat
    /\ MaxFlights \in Nat /\ MaxFaults \in Nat
    /\ ShareLife \in Nat /\ Retention \in Nat /\ Retention >= ShareLife + 2 * TicksPerDay

VARIABLES now, stamp,
          waiting,    \* events waiting in a browser's tab
          flights,    \* batches under way to the server
          table,      \* copies of an event in analytics_events
          accepted,   \* history: events that ever entered the table
          rows,       \* analytics_daily_metrics
          final,      \* history: days recomputed a second time
          dailyJob,   \* progress of today's job
          faults

analyticsVars == <<now, stamp, waiting, flights, table, accepted, rows, final, dailyJob, faults>>

AnalyticsInit ==
    /\ now = 0 /\ stamp = [e \in Events |-> Never]
    /\ waiting = {} /\ flights = {}
    /\ table = [e \in Events |-> 0] /\ accepted = {}
    /\ rows = [d \in Days |-> [downloads |-> 0, transfers |-> 0]] /\ final = {}
    /\ dailyJob = "later" /\ faults = 0

Smooth == UNCHANGED faults
Fault == faults < MaxFaults /\ faults' = faults + 1
ServerAlone == UNCHANGED <<table, accepted, rows, final, dailyJob>>

\* A transfer is a share: files are uploaded to it, and downloaded, while it lives.
Lives(transfer) ==
    \A x \in Events : x.transfer = transfer /\ stamp[x] # Never => now - stamp[x] <= ShareLife

\* track: the event is stamped by the browser's clock.  A download follows an upload
\* of its transfer.
Track(e) ==
    /\ stamp[e] = Never /\ Lives(e.transfer)
    /\ e.kind = "download_success" =>
          \E u \in Events : u.kind = "upload_success" /\ u.transfer = e.transfer /\ stamp[u] # Never
    /\ stamp' = [stamp EXCEPT ![e] = now] /\ waiting' = waiting \cup {e}
    /\ UNCHANGED <<now, flights>> /\ ServerAlone /\ Smooth

\* flush and sendBatch: what waits leaves in one batch, by beacon or by fetch.
Flush(browser) ==
    LET batch == {e \in waiting : e.browser = browser}
    IN /\ batch # {} /\ Cardinality(flights) < MaxFlights /\ waiting' = waiting \ batch
       /\ \E way \in {"beacon", "fetch"} :
             flights' = flights \cup {[events |-> batch, way |-> way]}
       /\ UNCHANGED <<now, stamp>> /\ ServerAlone /\ Smooth

\* Mutant: the age of an event is not checked.
AcceptableEver(e) == now >= stamp[e]

\* normalizeTimestamp.
Acceptable(e) == now - stamp[e] \in -MaxSkew..MaxSkew

\* INSERT OR IGNORE on the event's id.
Insert(e) == IF table[e] > 0 THEN table[e] ELSE 1

\* A batch is stored whole, or rejected for one stamp too old.  A fetch that is refused, or
\* whose answer is lost, puts its events back in the queue; a beacon never does.
Arrive(f) ==
    LET fits == \A e \in f.events : Acceptable(e)
    IN /\ IF fits
          THEN /\ table' = [e \in Events |-> IF e \in f.events THEN Insert(e) ELSE table[e]]
               /\ accepted' = accepted \cup f.events
          ELSE UNCHANGED <<table, accepted>>
       /\ \/ /\ waiting' = IF f.way = "fetch" /\ ~fits THEN waiting \cup f.events ELSE waiting
             /\ Smooth
          \/ /\ f.way = "fetch" /\ fits /\ waiting' = waiting \cup f.events /\ Fault
       /\ flights' = flights \ {f}
       /\ UNCHANGED <<now, stamp, rows, final, dailyJob>>

\* The browser gives up on a fetch; the request may be lost or still arrive.
GiveUp(f) ==
    /\ f.way = "fetch" /\ waiting' = waiting \cup f.events /\ Fault
    /\ \E underWay \in BOOLEAN :
          flights' = (flights \ {f}) \cup
                     IF underWay THEN {[f EXCEPT !.way = "beacon"]} ELSE {}
    /\ UNCHANGED <<now, stamp>> /\ ServerAlone

\* An accepted beacon is lost, and nothing tells the page.
LoseBeacon(f) ==
    /\ f.way = "beacon" /\ flights' = flights \ {f} /\ Fault
    /\ UNCHANGED <<now, stamp, waiting>> /\ ServerAlone

\* The tab is closed before its queue left.
CloseTab(browser) ==
    /\ \E e \in waiting : e.browser = browser
    /\ waiting' = {e \in waiting : e.browser # browser} /\ Fault
    /\ UNCHANGED <<now, stamp, flights>> /\ ServerAlone

Kept(kind) == {e \in Events : e.kind = kind /\ table[e] > 0}

\* countEventName.
CountEvents(kind, day) ==
    MapThenSumSet(LAMBDA e : table[e], {e \in Kept(kind) : Day(stamp[e]) = day})

Transfers == {e.transfer : e \in Events}
FirstDownload(t) == Min({stamp[e] : e \in {d \in Kept("download_success") : d.transfer = t}})

\* Mutant: a transfer counts on every day it is downloaded.
CountTransfersAgain(day) ==
    Cardinality({t \in Transfers :
        /\ \E e \in Kept("upload_success") : e.transfer = t
        /\ \E e \in Kept("download_success") : e.transfer = t /\ Day(stamp[e]) = day})

\* countSuccessfulTransfers: a transfer counts on the day of its first download that is
\* still in the table.
CountTransfers(day) ==
    Cardinality({t \in Transfers :
        /\ \E e \in Kept("upload_success") : e.transfer = t
        /\ \E e \in Kept("download_success") : e.transfer = t
        /\ Day(FirstDownload(t)) = day})

\* computeDailyMetrics: INSERT OR REPLACE of the day's row.
ComputeDailyMetrics(day) ==
    rows' = IF day \in Days
            THEN [rows EXCEPT ![day] = [downloads |-> CountEvents("download_success", day),
                                        transfers |-> CountTransfers(day)]]
            ELSE rows

JobStep(from, to) ==
    /\ dailyJob = from /\ dailyJob' = to
    /\ UNCHANGED <<now, stamp, waiting, flights, accepted>>

\* recomputeRecentDailyMetrics: the day before yesterday, then yesterday; requests land in
\* between.
RecomputePrecedingDay ==
    /\ JobStep("due", "preceding") /\ Smooth /\ ComputeDailyMetrics(Day(now) - 2)
    /\ final' = final \cup ({Day(now) - 2} \cap Days) /\ UNCHANGED table

RecomputeYesterday ==
    /\ JobStep("preceding", "yesterday") /\ Smooth /\ ComputeDailyMetrics(Day(now) - 1)
    /\ UNCHANGED <<final, table>>

DeleteExpiredAnalyticsEvents ==
    /\ JobStep("yesterday", "done") /\ Smooth
    /\ table' = [e \in Events |-> IF stamp[e] < now - Retention THEN 0 ELSE table[e]]
    /\ UNCHANGED <<rows, final>>

\* A query of the job fails: the rest of it is skipped until tomorrow.
JobFails ==
    /\ \E step \in {"due", "preceding", "yesterday"} : JobStep(step, "done") /\ Fault
    /\ UNCHANGED <<table, rows, final>>

Tick ==
    /\ now < LastTick /\ dailyJob \in {"later", "done"}
    /\ now' = now + 1
    /\ dailyJob' = IF now' % TicksPerDay = 1 THEN "due" ELSE "later"
    /\ UNCHANGED <<stamp, waiting, flights, table, accepted, rows, final, faults>>

AnalyticsNext ==
    \/ \E e \in Events : Track(e)
    \/ \E browser \in {e.browser : e \in Events} : Flush(browser) \/ CloseTab(browser)
    \/ \E f \in flights : Arrive(f) \/ GiveUp(f) \/ LoseBeacon(f)
    \/ RecomputePrecedingDay \/ RecomputeYesterday
    \/ DeleteExpiredAnalyticsEvents \/ JobFails \/ Tick

AnalyticsSpec == AnalyticsInit /\ [][AnalyticsNext]_analyticsVars

\* A day recomputed twice is settled: however late, twice or out of order its events came,
\* its row counts each of them once, and over all such days a transfer that succeeded
\* is counted at most once, also after its old events were deleted (aggregate.ts:83-86).
MetricsSettled ==
    /\ \A d \in final : rows[d].downloads =
          Cardinality({e \in accepted : e.kind = "download_success" /\ Day(stamp[e]) = d})
    /\ MapThenSumSet(LAMBDA d : rows[d].transfers, final) <=
          Cardinality({t \in Transfers : \E u, e \in accepted :
              /\ u.kind = "upload_success" /\ u.transfer = t
              /\ e.kind = "download_success" /\ e.transfer = t})
=============================================================================
