-------------------------- MODULE AnalyticsReports --------------------------
(***************************************************************************)
(* What the administrator's dashboard computes from the events stored so   *)
(* far and from the daily table: the daily job and the metrics of          *)
(* lib/analytics/aggregate.ts and the reports of lib/analytics/reports.ts, *)
(* several queries that count the same people, transfers and sessions in   *)
(* different ways.  Each SQL query is the set or the number it selects; a  *)
(* rate is the pair it divides.  The long windows (30, 90 and 365 days)    *)
(* are the constants below.  A day has two ticks: 00:00-00:10, and the     *)
(* rest, which the daily job opens.                                        *)
(***************************************************************************)
EXTENDS Integers, FiniteSets, FiniteSetsExt

CONSTANTS Sessions,      \* [client, n]: each makes one upload attempt, its own transfer
          StoredKinds,   \* bound: the <<session, event name>> that may be stored; others are lost
          Sources,       \* where a visitor came from
          RepeatDays,    \* an uploader who returns within 30 days repeats
          LookbackDays,  \* first uploads looked at for that, 90 days
          HistoryDays,   \* events are kept, and looked back at by a day's query, 365 days
          Offsets,       \* RETENTION_DAY_OFFSETS
          FirstReportTick,         \* when the program starts
          LastReportTick, MaxLog   \* bounds on the calendar and on the events stored

ReportTicksPerDay == 2
ReportDay(tick) == tick \div ReportTicksPerDay
Ticks(days) == days * ReportTicksPerDay
ReportDays == 0..ReportDay(LastReportTick)

ASSUME ReportsAssumption ==
    /\ IsFiniteSet(Sessions) /\ IsFiniteSet(Sources)
    /\ RepeatDays \in Nat /\ LookbackDays \in Nat /\ HistoryDays \in Nat
    /\ Offsets \subseteq Nat /\ MaxLog \in Nat
    /\ FirstReportTick \in Nat /\ LastReportTick \in Nat

VARIABLES today,      \* the tick that passes
          log,        \* analytics_events
          daily,      \* analytics_daily_metrics
          reportJob,  \* progress of today's job
          settled,    \* history: days the job has written a second time
          current,    \* history: days written since the last event of theirs or before was stored
          removed     \* history: an old event was deleted

reportVars == <<today, log, daily, reportJob, settled, current, removed>>

Today == ReportDay(today)

\* An event is stored at most a day after it happened, or never.
Recent == {at \in FirstReportTick..today : today - at <= ReportTicksPerDay}

\* An upload begins before it succeeds, and a transfer is downloaded after its upload.
InOrder(e, f) ==
    /\ e.transfer = f.transfer
    /\ <<e.name, f.name>> \in {<<"upload_start", "upload_success">>, <<"upload_start", "download_success">>,
                               <<"upload_success", "download_success">>}
    => e.at <= f.at

Store(e) ==
    /\ Cardinality(log) < MaxLog
    /\ \A f \in log : InOrder(e, f) /\ InOrder(f, e)
    /\ log' = log \cup {e} /\ current' = {day \in current : day < ReportDay(e.at)}
    /\ UNCHANGED <<today, daily, reportJob, settled, removed>>

Event(name, s, transfer, source, at) ==
    [name |-> name, session |-> s, transfer |-> transfer, source |-> source, at |-> at]

Land(s) ==
    /\ <<s, "landing_view">> \in StoredKinds
    /\ \E source \in Sources, at \in Recent : Store(Event("landing_view", s, s, source, at))

UploadEvent(s, name) ==
    /\ <<s, name>> \in StoredKinds /\ ~\E e \in log : e.name = name /\ e.session = s
    /\ \E at \in Recent : Store(Event(name, s, s, "none", at))

\* No report tells the sessions of a client's downloads apart.
DownloadEvent(s) ==
    /\ <<s, "download_success">> \in StoredKinds
    /\ \E t \in Sessions, at \in Recent :
          Store(Event("download_success", [client |-> s.client, n |-> 0], t, "none", at))

(***************************************************************************)
(* The daily metrics                                                       *)
(***************************************************************************)
Within(name, from, to) == {e \in log : e.name = name /\ ReportDay(e.at) \in from..to}
Clients(events) == {e.session.client : e \in events}
UploadsOf(t) == {e \in log : e.name = "upload_success" /\ e.transfer = t}
DownloadsOf(t) == {e \in log : e.name = "download_success" /\ e.transfer = t}

\* What a query about one day looks back at.
Reached(e, day) == e.at >= Ticks(day - HistoryDays)

NewSenders(day) ==
    {c \in Clients(Within("upload_success", day, day)) :
        ~\E e \in log : /\ e.name = "upload_success" /\ e.session.client = c
                        /\ ReportDay(e.at) < day /\ Reached(e, day)}

\* A settled day counts a transfer at its first download.
DailyTransfers(day) ==
    {t \in Sessions : /\ UploadsOf(t) # {} /\ DownloadsOf(t) # {}
                      /\ ReportDay(Min({e.at : e \in DownloadsOf(t)})) = day}

\* Mutant: a transfer counts today although it was downloaded before.
TransfersOfAnyDownload(day) ==
    {t \in Sessions : \E d \in DownloadsOf(t) :
        /\ ReportDay(d.at) = day
        /\ \E u \in UploadsOf(t) : Reached(u, day) /\ u.at <= d.at}

\* Today's count, limited to what surrounds the day: a download nothing came before.
TransfersToday(day) ==
    {t \in Sessions : \E d \in DownloadsOf(t) :
        /\ ReportDay(d.at) = day
        /\ \E u \in UploadsOf(t) : Reached(u, day) /\ u.at <= d.at
        /\ ~\E p \in DownloadsOf(t) : Reached(p, day) /\ p.at < d.at}

\* Downloads of what somebody else uploaded.
Receipts == {d \in log : /\ d.name = "download_success"
                         /\ \E u \in UploadsOf(d.transfer) : u.session.client # d.session.client}
BecameRecipient(c) == Min({d.at : d \in {r \in Receipts : r.session.client = c}})
UploadsAfter(c) ==
    {e \in log : e.name = "upload_start" /\ e.session.client = c /\ e.at > BecameRecipient(c)}

\* A recipient converts with the first upload begun after the first receipt.
ConvertedOn(from, to) ==
    {c \in Clients(Receipts) : /\ UploadsAfter(c) # {}
                               /\ ReportDay(Min({e.at : e \in UploadsAfter(c)})) \in from..to}

\* Today's count asks for a receipt before any of the day's uploads.
ConversionsToday(day) ==
    {e.session.client : e \in {s \in Within("upload_start", day, day) :
        \E d \in Receipts : /\ d.session.client = s.session.client /\ Reached(d, day) /\ d.at < s.at
                            /\ \E u \in UploadsOf(d.transfer) : /\ u.session.client # d.session.client
                                                             /\ Reached(u, day) /\ u.at <= d.at}}

\* collectDailyMetrics, the columns a report adds up.
DailyMetrics(day, limited) ==
    [newSenders |-> Cardinality(NewSenders(day)),
     transfers |-> Cardinality(IF limited THEN TransfersToday(day) ELSE DailyTransfers(day)),
     conversions |-> Cardinality(IF limited THEN ConversionsToday(day) ELSE ConvertedOn(day, day))]

(***************************************************************************)
(* The daily job                                                           *)
(***************************************************************************)
\* A day without a row adds nothing to a sum.
NoMetrics == [newSenders |-> 0, transfers |-> 0, conversions |-> 0]

ReportJobStep(from, to) ==
    reportJob = from /\ reportJob' = to /\ UNCHANGED today

\* Mutant: INSERT OR IGNORE keeps the row a day has.
WriteRowOnce(day) ==
    /\ daily' = IF day \in ReportDays /\ daily[day] = NoMetrics
                THEN [daily EXCEPT ![day] = DailyMetrics(day, FALSE)]
                ELSE daily
    /\ current' = current \cup ({day} \cap ReportDays)

\* INSERT OR REPLACE of the day's row.
WriteRow(day) ==
    /\ daily' = IF day \in ReportDays THEN [daily EXCEPT ![day] = DailyMetrics(day, FALSE)] ELSE daily
    /\ current' = current \cup ({day} \cap ReportDays)

\* The day before yesterday, then yesterday; events are stored in between.
WritePrecedingDay ==
    /\ ReportJobStep("due", "preceding") /\ WriteRow(Today - 2)
    /\ settled' = settled \cup ({Today - 2} \cap ReportDays) /\ UNCHANGED <<log, removed>>

WriteYesterday ==
    /\ ReportJobStep("preceding", "yesterday") /\ WriteRow(Today - 1)
    /\ UNCHANGED <<log, settled, removed>>

DeleteOldEvents ==
    /\ ReportJobStep("yesterday", "done")
    /\ log' = {e \in log : e.at >= today - Ticks(HistoryDays)}
    /\ removed' = (removed \/ log' # log) /\ UNCHANGED <<daily, settled, current>>

\* A query of the job fails, and the rest is left to tomorrow's.
ReportJobFails ==
    /\ \E step \in {"due", "preceding", "yesterday"} : ReportJobStep(step, "done")
    /\ UNCHANGED <<log, daily, settled, current, removed>>

ReportTick ==
    /\ today < LastReportTick /\ reportJob \in {"later", "done"}
    /\ today' = today + 1
    /\ reportJob' = IF today' % ReportTicksPerDay = 1 THEN "due" ELSE "later"
    /\ UNCHANGED <<log, daily, settled, current, removed>>

(***************************************************************************)
(* The reports                                                             *)
(***************************************************************************)
SumDailyMetrics(field, from, to) ==
    MapThenSumSet(LAMBDA day : daily[day][field], from..to)

FirstUpload(c) ==
    Min({e.at : e \in {u \in log : u.name = "upload_success" /\ u.session.client = c}})
Uploaded(c, from, to) ==
    \E e \in log : e.name = "upload_success" /\ e.session.client = c /\ e.at \in from..to

\* Uploaders observed for RepeatDays, and those of them who came back in time.
RepeatSenders(now) ==
    LET end == now - Ticks(RepeatDays)
        eligible == {c \in Clients(log) : Uploaded(c, now - Ticks(LookbackDays), end)}
        First(c) == Min({e.at : e \in {u \in log :
                        /\ u.name = "upload_success" /\ u.session.client = c
                        /\ u.at >= now - Ticks(LookbackDays)}})
    IN [eligible |-> eligible,
        repeaters |-> {c \in eligible :
            \E t \in (First(c) + 1)..(First(c) + Ticks(RepeatDays)) : t <= end /\ Uploaded(c, t, t)}]

\* The rate is computed for a period of RepeatDays only.
NoRate == [eligible |-> {}, repeaters |-> {}]

\* The days before the last one come from the daily table, the last one from the events.
Overview(from, to) ==
    LET last == DailyMetrics(to, TRUE)
        Total(field) == SumDailyMetrics(field, from, to - 1) + last[field]
    IN [uniqueSenders |-> Cardinality(Clients(Within("upload_success", from, to))),
        transfers |-> Total("transfers"),
        newSenders |-> Total("newSenders"),
        conversions |-> Total("conversions"),
        repeat |-> IF to - from = RepeatDays - 1 THEN RepeatSenders(Ticks(to) + 1) ELSE NoRate]

Funnel(from, to) ==
    LET Count(name) == Cardinality(Within(name, from, to))
    IN <<Count("landing_view"), Count("upload_start"), Count("upload_success"),
         Count("download_success")>>

\* successRateBySizeBucketViaAttempt: of the attempts begun in the period.
RateViaAttempt(from, to) ==
    LET starts == Within("upload_start", from, to)
    IN [starts |-> Cardinality(starts),
        successes |-> Cardinality({s \in starts : \E e \in Within("upload_success", from, to) :
                                      e.session = s.session})]

\* The rates of the report itself divide the events of the period, whatever they belong
\* to: an attempt begun before it may end in it, and the rate exceed one.
Reliability(from, to) ==
    LET Count(name) == Cardinality(Within(name, from, to))
    IN [upload |-> [starts |-> Count("upload_start"), successes |-> Count("upload_success")],
        bySizeBucket |-> RateViaAttempt(from, to)]

\* A session's landing is its first one in the period.
Landing(s, from, to) ==
    LET seen == {e \in Within("landing_view", from, to) : e.session = s}
    IN CHOOSE e \in seen : \A f \in seen : e.at <= f.at

Acquisition(from, to) ==
    LET landed == {e.session : e \in Within("landing_view", from, to)}
        From(source) == {s \in landed : Landing(s, from, to).source = source}
        uploads(source) == {e \in log : e.name = "upload_success" /\ e.session \in From(source)}
    IN [sessions |-> [source \in Sources |-> Cardinality(From(source))],
        uploads |-> [source \in Sources |-> Cardinality(uploads(source))],
        newSenders |-> [source \in Sources |-> Cardinality({e.session.client :
            e \in {u \in uploads(source) : ~Uploaded(u.session.client, 0, u.at - 1)}})]]

Cohort(from, to) ==
    {c \in Clients({e \in log : e.name = "upload_success"}) : ReportDay(FirstUpload(c)) \in from..to}

\* Who of a cohort came back on the day at an offset, of those old enough to be asked.
CohortRetention(from, to, offset) ==
    LET eligible == {c \in Cohort(from, to) : FirstUpload(c) <= today - Ticks(offset)}
        due(c) == FirstUpload(c) + Ticks(offset)
    IN [eligible |-> eligible,
        retained |-> {c \in eligible : Uploaded(c, due(c), due(c) + ReportTicksPerDay - 1)}]

RecipientGrowth(from, to) ==
    [recipients |-> Clients({d \in Receipts : ReportDay(d.at) \in from..to}),
     conversions |-> ConvertedOn(from, to)]

ReportsInit ==
    /\ today = FirstReportTick /\ log = {}
    /\ daily = [day \in ReportDays |-> NoMetrics] /\ reportJob = "later"
    /\ settled = {} /\ current = {} /\ removed = FALSE

ReportsNext ==
    \/ \E s \in Sessions : \/ Land(s) \/ DownloadEvent(s)
                           \/ \E name \in {"upload_start", "upload_success"} : UploadEvent(s, name)
    \/ WritePrecedingDay \/ WriteYesterday \/ DeleteOldEvents \/ ReportJobFails \/ ReportTick

ReportsSpec == ReportsInit /\ [][ReportsNext]_reportVars

\* Stored rows are compared with the events only while those are all there.
WithinHistory == ~removed /\ Today <= HistoryDays

\* What the reports over one period have to say of one another; of its stored rows, if all
\* the days before the last have current ones.
PeriodAgrees(from, to) ==
    LET overview == Overview(from, to)
        growth == RecipientGrowth(from, to)
        rows == Acquisition(from, to)
        landed == {e.session : e \in Within("landing_view", from, to)}
        rate == Reliability(from, to).bySizeBucket
    IN /\ WithinHistory /\ from..(to - 1) \subseteq current =>
            /\ overview.transfers = Cardinality({t \in Sessions :
                 /\ UploadsOf(t) # {}
                 /\ \E d \in DownloadsOf(t) : /\ ReportDay(d.at) \in from..to
                                              /\ \A p \in DownloadsOf(t) : p.at >= d.at})
            /\ overview.newSenders = Cardinality(Cohort(from, to))
            /\ overview.newSenders <= overview.uniqueSenders
            /\ to \in current =>
                 SumDailyMetrics("conversions", from, to) = Cardinality(growth.conversions)
       /\ growth.conversions \subseteq RecipientGrowth(0, to).recipients
       /\ MapThenSumSet(LAMBDA source : rows.sessions[source], Sources) = Cardinality(landed)
       /\ Cardinality(landed) <= Funnel(from, to)[1]
       /\ rate.successes <= rate.starts /\ overview.repeat.repeaters \subseteq overview.repeat.eligible
       /\ \A o \in Offsets : LET r == CohortRetention(from, to, o)
                             IN r.retained \subseteq r.eligible /\ r.eligible \subseteq Cohort(from, to)

\* The reports agree with one another over every period whose earlier days have current rows:
\* the overview, summed from those rows and a limited query of the last day, counts every
\* transfer and every new sender of the period exactly once, though events come late and the
\* job fails on other days; the cohort is those new senders; conversions summed by day are the
\* recipients' report.  The row of a day the job has written twice stays current, since the
\* route refuses older events.  Over any period, no session lands in two rows and no rate by
\* attempt exceeds one.
ReportsAgree ==
    /\ settled \subseteq current
    /\ \A from \in 0..Today : \A to \in from..Today :
          PeriodAgrees(from, to)
=============================================================================
