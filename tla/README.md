# anzdrop in TLA+

Anzdrop is an end-to-end encrypted file sharing service on Cloudflare Workers. The browser
encrypts a file, uploads the ciphertext in parts to R2, and gets a link; the Worker keeps
rows in D1 (SQLite) that say what is stored, for how long and how often it may be
downloaded; a cron trigger deletes what has expired. This directory specifies the parts of
the program whose correctness depends on the order of steps: TLA+ modules translated from
the source, TLC runs on small instances, and TLAPS proofs for instances of any size.

## 1. The system

### Components

| Component | Source | State | Operations | Hard because |
|---|---|---|---|---|
| Upload requests | `server/routes/upload/{start,chunk,part-urls,part-ack,complete}`, `lib/share-auth.ts`, `lib/upload/uploadSessionAuth.ts` | D1 `shares`, `uploads`, `upload_parts`, `files`; R2 multipart uploads and objects | start, store and record a part, complete | D1 and R2 have no common transaction; every await lets another request in; a Worker may die between two calls |
| Cleanup and take-down | `lib/cleanup.ts`, `lib/scheduled.ts`, `lib/storage/*`, `server/routes/admin/shares/*` | the same, plus keyset cursor and work budget of one run | deleteShare, deleteStaleUpload, suspend, unsuspend | works on snapshots; runs beside uploads; must neither orphan objects nor get stuck |
| Counted download | `server/routes/file/[fileId]`, `lib/retention.ts` | `files.download_count`, the object, the response stream | reserve, stream, restore or delete | concurrent readers, interrupted streams, background `waitUntil` work that may be lost |
| Share listing | `server/routes/download/[shareId]` | none | list | reads only |
| Parallel download | `lib/download/parallelFetch.ts` | window map, cursors, waiter, abort signal | pump, fetch with retries, pull, cancel | answers out of order, wake-ups, cancellation |
| Showing and saving a download | `lib/download/{useSharedFiles,useDownloadActions,downloadAll,decrypt,saveFile,streamDownloadSaver,zipDownload}.ts`, `public/download-sw.js` | page state, streams and sinks in the browser, the worker's map of streams | load, unlock, decrypt, save, zip, hand over | stale answers, fallbacks that must not fetch twice, three timers |
| Upload client | `lib/upload/{useUploadSession,uploadFile,chunkUploader}`, `lib/asyncBuffer.ts` | file queue, key, share; part source, read-ahead, workers, URL batcher | add, upload, retry, reset; repartition, PUT, acknowledge, fall back to the proxy | retries, fallback and abort race each other; failures the server did not see |
| Packet format | `lib/crypto/{stream,packet}.ts` | packet counter, pending bytes | encrypt, decrypt | order, truncation and the full last packet |
| Card billing | `server/routes/billing/stripe/*`, `lib/billing/cardPlan.ts`, `lib/stripe-subscription.ts`, `lib/plan.ts` | `accounts` plan columns, `stripe_events` | subscribe, cancel, webhook, sync | redelivered and reordered events, webhook against sync |
| Prepaid billing | `server/routes/billing/btc/*`, `lib/opennode.ts` | `btc_payments`, `accounts` | charge, webhook | crash between two updates, read-modify-write |
| Accounts | `lib/account/*`, `server/routes/account/*` | accounts, sessions, challenges, lock-out counters | log in, second factor, change, recover | concurrent attempts against one counter or challenge |
| Rate limits, Turnstile | `lib/rateLimit.ts`, `lib/turnstile.ts`, `lib/turnstile-client.tsx` | the widget's callbacks | verify, limit | decided by external services; late callbacks |
| Analytics | `lib/analytics/*`, `server/routes/analytics`, `lib/scheduled.ts` | the browser's queue, `analytics_events`, `analytics_daily_metrics` | track, send, store, aggregate, report | duplicated, late and lost batches; deletion of raw events; reports that must agree |
| Forms and administration pages | `components/{report,contact,account,admin}`, `server/routes/{report,contact,admin}`, `lib/admin/*` | page state, rows of their own | submit, list, act | answers out of order, double submissions |
| Storage diagnostics | `lib/storage/diagnostics.ts` | none | inspect | reads only |
| Pages, blog, legal texts, build | `components`, `apps`, `lib/blog`, `scripts` | none | | no protocol |

### How they interact

* The upload client calls start once per file, chunk (or a presigned PUT followed by
  part-ack) per part, and complete once, retrying parts.
* complete turns a multipart upload into an object (R2) and then moves its row from
  `uploads` to `files` (D1 batch).
* The file route reserves a download in `files`, streams the object, and in the background
  restores the count or deletes object and row.
* The cron run and the administrator's DELETE call `deleteShare`; the cron run also calls
  `deleteStaleUpload`. They meet all of the above in D1 and R2.
* Stripe and OpenNode call webhooks; the billing pages, and the administrator, read and write
  the same account row.
* Log-in, re-authentication, a change of the factors and the recovery share the account's row,
  its challenges and its passkeys; `session_version` tells a stale reader from a current one.
* The page hands a decrypted stream to the download service worker by a message, and opens a
  hidden frame at the address the worker answers with.
* Every page sends usage events; the route stores them, and the daily job turns them into
  the rows the dashboard reads together with the events of the last day.

### What makes each correct

* Uploads and cleanup: no object without a row that leads to it, no open multipart upload
  without its session, nothing left of a deleted share, no registered file whose object is
  lost, nothing published into a suspended or expired share, everything expired removed.
* Downloads: never more complete copies than the limit, the count exact, a file deleted only
  when it is spent and never stuck at its limit.
* Parallel download: bytes in order, a bounded window in memory, never asleep with work done.
* Upload client: success only when every part is recorded; an end in every case.
* Upload page: the link shown opens every file the page counts as sent, whatever failed before.
* Share page, saving: what is shown belongs to the share shown; a one-time file is asked for
  once per click; a stream handed over is not cut off, and not saved twice.
* Packets: only one file's chunks, in order, and success only for the whole file.
* Billing: a payment is never lost and never granted twice; nobody but the end of the
  subscription the account points at takes time away.
* Accounts: no more guesses than the limit; a challenge, a code, a recovery code used once;
  no session outlives the factors it was earned with.
* Clean-up run: a run that reports no backlog has left none.
* Analytics: a settled day counts each event once and no transfer twice; where the stored rows
  are current, the reports agree.
* Forms: thanks mean stored, a code shown is the account's. Administration: what is on the
  screen is what was asked for last.

The hazards this comes from are listed with their lines in `PROJECT.json`.

## 2. The plan and where it stands

Modules in order of importance. All are written and checked. "Proved" means that every safety
property a run checks of the module is a theorem (section 5).

| | Module | Models | Composes / implements | State |
|---|---|---|---|---|
| 1 | `ShareStorage` | start, chunk, complete, deleteShare, deleteStaleUpload, deleteOneTimeFile, suspension, expiry | implements `ShareCatalog` | checked, proved |
| 2 | `FileDownload` | the GET of a file with a download limit | implements `DownloadTickets` | checked, proved |
| 3 | `ParallelFetch` | createParallelCiphertextStream | implements `OrderedStream` | checked, proved |
| 4 | `ChunkUploader` | uploadChunksFromStream with its URL batcher | | checked, proved |
| 5 | `Billing` | Stripe webhook, sync, subscription, cancellation; OpenNode charge and webhook; the administrator | one account row | checked, proved |
| 6 | `PasswordLockout` | the counter and the lock of password checks | | checked, proved |
| 7 | `SecurityChanges` | challenges, codes, passkeys, sessions, changes of the factors | | checked, proved |
| 8 | `BufferAhead` | lib/asyncBuffer.ts, the source of `ChunkUploader` | | checked, proved |
| 9 | `UploadPage` | the queue, key, share and link of one tab | | checked, proved |
| 10 | `PacketStream` | the packet format, its reader, ranges and windows | | checked, proved |
| 11 | `SharePage`, `SaveFiles`, `DownloadWorker` | loading a share, the ways to the disk, the hand-over to the service worker | | checked, proved |
| 12 | `CleanupBatches` | batches, budget and summary of one scheduled run | | checked, proved |
| 13 | `Analytics`, `AnalyticsReports` | events to daily rows; the reports over rows and events | | checked, proved |
| 14 | `PublicForms`, `AdminPages` | the forms with their routes; the administrator's pages | | checked, proved |

No invariant or action property of a run is left unproved. What stays with TLC is liveness
(section 5); what could be modelled next is listed in section 8.

## 3. The modules and the code

Every step of a model is what the code does between two awaits. What a handler has read and
keeps in its local variables is state of its own, so that everything another handler does in
between is seen. Failures are explicit actions bounded by `MaxFaults`. Definitions named
after a bug (`...Unchecked`, `...Forgetful`, `...Skipped` and the like, marked *Bug* or *Mutant* in the
comments) are not used by any specification: each is a plausible error in the code that
makes one property fail.

**`ShareStorage`.** `shares`, `uploads`, `recorded`, `files` are the D1 tables, `multi`,
`stored`, `objects` what R2 holds; `suspended`, `expired` and `stale` stand for
`suspended_at` and the two clocks. `startPc`, `reqPc`, `cleanPc` say where each execution of
start, complete and a cleanup stands, and `target`, `won`, `stamp`, `job`, `snapFiles`,
`snapUps`, `todo`, `current` are their locals. A storage key, a multipart upload and a
session are drawn together, so one element of `Uploads` stands for all three; a files row is
named by the complete request that inserted it. The actions are, in the code's order,
`CreateShare`/`JoinShare`, `CreateMultipart`, `InsertUpload`, `InsertUploadFails`,
`AbortNewMultipart` (start); `StorePart`, `RecordPart` (chunk, and the direct PUT with
part-ack); `Lookup`, `ReadParts`, `CompleteMultipart`, `MultipartMissing`, `AcceptSize`,
`PurgeObject`, `PurgeRows`, `Commit`, `AnswerExisting` (complete); `BeginShare`,
`BeginStale`, `ReadFiles`, `ReadUploads`, `CheckReferences`, `AbortMultipart`, `HeadObject`,
`CheckRegistered`, `DeleteObjects`, `DeleteRows`, `DeleteStaleRows` (cleanup);
`BurnObject`, `BurnRow` (deleteOneTimeFile). A D1 batch is one step, since D1 runs it as a
transaction; foreign keys and cascades are part of the steps.

`ShareCatalog` is what a holder of the link may rely on: a file is admitted once, before the
share's period ends, is published into a live share that is not suspended, and leaves by
withdrawal or with its share.

**`FileDownload`.** `row`, `count`, `object` are the file in D1 and R2; `turn` is what
`RETURNING download_count` gave; `sent` and `got` separate what has passed the counting
stream from what has reached the client. `Reserve`, `OpenObject`, `Send`, `Finish`,
`Interrupt`, `Restore`, `EraseObject`, `EraseRow` are the handler and its `waitUntil` tail;
`DeleteShareObject`, `DeleteShareRow` and `ToggleAccess` are the rest of the program.
`DownloadTickets` is the promise: `Limit` tickets, taken, given back, used or lost.

**`ParallelFetch`.** `buffers`, `nextToEnqueue`, `nextToSchedule`, `inFlight`, `failure`,
`aborted` are the closure's variables of the same names; `fetch[i]` and `attempt[i]` say
where `fetchWindow(i)` and its retries stand; `pull` is the pending pull with its waiter.
`Catch` and `Settle` are the promise's `.catch` and `.finally` callbacks, which are separate
because other callbacks run between them. Bytes are abstracted to the set of windows they
belong to, so that a whole-file answer in the place of a window is visible. `OrderedStream`
is the promise: each window once, in order, and a close only after the last.

**`ChunkUploader`.** `produced` is `repartition`'s counter, `pc`, `part`, `attempt` the
worker and the part it holds, `queue`, `batch`, `timer`, `flush` the URL batcher, `failed`
is `firstError !== null` (and the aborted signal), `main` the outer function; `stored` and
`recorded` are R2's parts and the `upload_parts` rows. A request that fails in the browser
may have been carried out.

**`Billing`.** `acct` is the row of `accounts` (`plan`, `plan_expires_at`,
`stripe_subscription_id`), `payments` is `btc_payments`, `processed` is `stripe_events`, `subs`
and `events` are Stripe's. A slot runs one HTTP request; `req[r]` holds its place and what it
has read (`seenPtr`, `seenExp`, `date`, `plan`). The webhook is `WebhookArrives`, `ExtendCard`,
`RelinkRead`, `RelinkSelf`, `RelinkOther`, `RelinkWrite`, `Clear`, `Survey`, `Downgrade`, `Mark`;
the synchronisation `SyncReads`, `SyncRetrieves` and the same card steps; the subscription
request `SubscribeReads`, `Inspect`, `CancelStale`, `Vet`, `CreateSubscription`, `Link`; the
cancellation `CancellationReads`, `CancellationUpdates`; OpenNode `ChargeReads`,
`ChargeCreates`, `Settle`, `PrepaidArrives`, `PrepaidReads`, `PrepaidExtends`,
`PrepaidRecords`. `StripeSide` moves a subscription and emits the event with its snapshot; an
event stays deliverable, in any order, until one delivery of it has been recorded.

**`PasswordLockout`.** `attempts` and `lockedUntil` are the columns; `try[g]` what a request
has seen of them. `openChecks` is history: passwords compared outside a lock since the counter
was last zeroed.

**`SecurityChanges`.** `row` joins `accounts` and `account_totp` (`version` is
`session_version`), `keys` is `account_passkeys`, `challenges` is `account_auth_challenges`,
`sessions` the cookies handed out. `call[r]` is a request with the version, secret and
challenge it read. `Opens` and `Continues` are the entries of the routes, the rest the
conditional writes, named for the helpers of `securityStore.ts`. `used` and `reused` are
history. A password given is the right one: guessing is `PasswordLockout`'s.

**`UploadPage`.** `queue`, `key`, `shareId`, `usePassword`, `passwordProtected`, `shareUrl`
are the refs and state of `useUploadSession`; `drop` is a drop whose entries are still being
read, with the closure it will call; `send` is the run of `upload()`, `shares` the server. A
stream is the key it encrypts with and whether it is read from its start.

**`BufferAhead`.** `pump` and `consumer` are the two sides, "asleep" while `notifyProducer` or
`notifyConsumer` is set; `ahead` is the queue.

**`PacketStream`.** A byte is the packet it belongs to and its place there. `object` is what
R2 holds (intact, or parts missing, repeated, exchanged or of another file), `arriving` what
the answers put together make, whole or in windows, `received`, `consumed` and `streamDone`
are `fillTo`'s, `format`, `index`, `total` the decryptor's. The ranges of the file route
(`ParsedRange`, `Unsatisfiable`, `Served`, `RangeResponse`, `RangeAnswer`) are operators and are
compared with the set of bytes the header names (`RangeExact`).

**`SharePage`.** Each visit of a share is a generation; a value is named by the share it is of.
**`SaveFiles`.** `job` is one click with the sink it writes to and the files still to fetch, which
`NextFile` takes in the order of the list; `browser` is what decides the
way (save dialogue, folder, ZIP, too large for memory), `worker` whether a service worker
answers. **`DownloadWorker`.** `pending` is `pendingDownloads`; `offer`, `giveUp`, `address`,
`notice` are the messages between page and worker, `saver` is `saveViaServiceWorker`, `frame`
the hidden frame. The timers are actions that may fire whenever they are armed.

**`CleanupBatches`.** `due` are the rows at or before the cutoff in the order of the query,
`cursor` the batch loop, `work` the budget, `result` the two entries of the summary. What
deleting a row does is `ShareStorage`'s.

**`Analytics`.** `waiting`, `flights` are the browsers' queues and requests, `table` is
`analytics_events`, `rows` the daily table; a day has two ticks, so that something happens
between midnight and the daily job. A transfer is a share, so its events come while it lives
(`Lives`, at most `ShareLife` ticks from the first to the last).

**`AnalyticsReports`.** `log` is `analytics_events`, `daily` the rows of
`analytics_daily_metrics` (the columns a report sums), `reportJob` where the 00:10 job stands:
`WritePrecedingDay`, `WriteYesterday`, `DeleteOldEvents`, or `ReportJobFails` before any of
them. An event is stored at most a day after it happened, in any order, or never. Each SQL
query is the set it selects, each rate the pair it divides; `Overview` sums the stored rows
of the earlier days and queries the events for the last one, as `getOverviewReport` does.
`settled` and `current` are history: the days written twice, and the days written since an
event that could change their figures was stored.

**`PublicForms`.** `form`, `stage`, `submitting`, `typed`, `codeShown` are a page, `script`,
`resolver`, `challenges` its Turnstile widget, `run` and `call` the submit handler and the
request it makes, `messages`, `code`, `changed` the server. **`AdminPages`.** `fetches` and
`acting` are what the page awaits, `version` the server's data, `sequence` the number that
outdates earlier loads.

## 4. What the runs show

| Run | Instance | Shows |
|---|---|---|
| `storage_race` | 1 share, 1 session, 2 complete requests, cron and administrator, 1 fault | `NoOrphanObject`, `OpenMultipartTracked`, `DeletedShareLeavesNothing`, `ObjectsLostOnlyByDeletion`, `CatalogSpec` |
| `storage_live` | 1 share, 2 sessions, 1 complete request, cron, pages of one row, 1 fault | `ExpiredShareRemoved`, `StaleUploadRemoved` |
| `expired_share` | 1 share, 1 session, no faults | finding: `ExpiredShareDeleted` fails |
| `download_once` | 3 downloads, limit 1, 1 fault | `CopiesWithinLimit`, `TicketSpec`, `ErasedOnlySpent`, `NotStuckAtLimit` |
| `download_bytes` | 2 downloads, limit 1, no faults | finding: `InterruptedNotErased` fails |
| `parallel_fetch` | 6 windows, concurrency 2, 2 attempts, 2 faults | `HeldBounded`, `NoLostWakeup`, `CauseReported`, `NoRequestAfterAbort`, `StreamSpec`, `StreamEnds` |
| `body_retry` | 3 windows, 1 fault | finding: `FailsOnlyExhausted` fails |
| `chunk_upload` | 2 workers, 3 parts, batches of 2, 2 attempts, 3 faults | `SuccessMeansRecorded`, `ProgressHonest`, `WaiterServed`, `SilentAfterError`, `UploadEnds` |
| `accounts` | 2 billing requests, 2 subscriptions, 1 charge, 1 grant, 1 crash; 3 guessers, threshold 2; 2 security requests, 1 passkey, 1 secret | `NeverOverExtended`, `PaidTimeKept`, `AbandonedCheckoutHarmless`; `GuessesBounded`; `SessionsJustified`, `NothingUsedTwice`, `ChangesNeedFreshProof` |
| `billing_paid` | 2 requests, 2 subscriptions, no charge, no crash, no administrator | finding: `ChargedCustomerServed` fails |
| `billing_prepaid` | the same with 1 charge | finding: `PrepaymentNotWasted` fails |
| `pages_and_jobs` | see below | one invariant for each of its eleven modules |

**Runs over several modules.** `MCAccounts` and `MCPagesAndJobs` extend modules that share no
variable. Their specification is the disjoint sum of the modules' own: `scene` is chosen at the
start, only that module moves and the others keep one initial state. The states explored are
therefore exactly those each module would reach alone, and no property depends on two scenes.

| Scene of `pages_and_jobs` | Bounds | Property |
|---|---|---|
| upload | 2 files, 2 keys, 2 shares | `LinkOpensAllFiles` |
| buffer | 4 chunks, capacity 2 | `BufferFaithful` |
| packets | files up to 6 bytes in chunks of 2, pieces up to 3, windows of 5 | `DecryptsTheFile` |
| share | 2 shares (one with a password, one with previews), 4 visits | `ShownBelongsTogether` |
| save | 2 files (one of them one-time), 2 clicks, every kind of browser | `OneRequestPerClick` |
| worker | 2 streams, 1 death of the worker | `HandedOverOnce` |
| admin | 2 filters, 2 kinds of action, 4 requests | `ShownIsCurrent` |
| reports | 3 visits of 2 clients, 3 events, 5 half days, late and lost events, a job that may fail | `ReportsAgree` |
| analytics | 4 events of one transfer (two uploads, two downloads), 9 half days, 1 fault | `MetricsSettled` |
| cleanup | 4 rows a phase, batches of one, 3 batches, budget 8 | `HonestSummary` |
| forms | 2 visitors with 2 submissions each, any two of the seven forms | `FormsHonest` |

**Bounds.** Two complete requests are enough for one to win and one to lose, two cleaners
for two deletions of one share to overlap; a page of one row makes a share with two rows
need a second run. The program sets a download limit of one or none
(`maxDownloadsForRetention`), so the run uses one; the theorems hold for every limit. Six
windows with a concurrency of two exceed `MaxAhead` (four) plus the window being read, so the
scheduler really stops for a slow reader; two faults allow one window to use up its attempts,
or two windows to fail at once. Three parts for two workers make a worker come back for a
second part; three faults lead a part through its direct attempts and stop it on the other
way. A batch of two lets both ways of starting a flush happen, the full queue and the timer
(the deployed batch of 32 exceeds the deployed concurrency of 8 or 12, so there only the timer
starts one). Two billing requests and two subscriptions are the smallest instance in which the
account points away from the subscription that is paid; three guessers with a threshold of two
put one attempt beyond it while the others are still being counted. Files of one to six bytes
in chunks of two have one to three packets, full and partial last ones; five bytes a window
cut packets in the middle. Four rows with three batches of one leave a row behind both by the
batches and by the budget. The calendar of the event scene is longer than the retention (five
half days), and a share lives one half day, so that it may end on the day after it began and
the daily job runs both before and after its events are deleted. The retention has to outlast
a share by two days (four half days), or `MetricsSettled` is false: with the retention as short
as the share's life TLC finds a share of two files whose first upload and download are deleted
before a later download, after a later upload, is counted on a day of its own. The program
keeps raw events for 365 days and shares for 30. The scene `reports` begins on the first day
and ends on the third, after the second job: the first day is then written twice and the next
one once, with events of both stored before, between and after the two jobs, and
`WithinHistory` holds throughout. Three events make a download on one day follow another, a
sender come back, or a recipient send something. `StoredKinds` says which events of a visit are
not lost for certain, so that the three visits differ.

No safety result rests on these bounds: all are proved for all values (section 5).

**Fairness.** Handlers that have begun, callbacks that are due and requests the browser has
sent make progress (weak fairness); a killed Worker is a fault, not unfairness. The cron
trigger fires every six hours for ever and visits the eligible rows again each time, hence
strong fairness for a cleaner beginning with a row that stays eligible. That one run's budget
may not reach a row behind many permanently failing ones is what `CleanupBatches` reports as
backlog, and what `docs/storage-lifecycle.md` (item 7) accepts; the liveness of
`storage_live` is stated without such a crowd. A download's stream moves on or breaks;
`Receive` and the client's disconnection are not fair. In `ParallelFetch` the reader keeps
reading until the stream ends or it cancels. In `ChunkUploader` the source of the chunks is
not fair: the first conjunct of `UploadEnds` assumes it explicitly (every call ends), the
second does without (after an error it ends even if the source hangs). `Billing`'s `FairSpec`
makes requests run to their end (weak), Stripe redeliver an event until it is recorded (strong)
and the customer come back to the billing page (strong, `SyncReads`); `ChargedCustomerServed`
fails even so.

**Deadlock** is not checked (`CHECK_DEADLOCK FALSE`) where the system really stops: all
sessions and requests of the instance are used up and everything is deleted; the stream has
ended; the upload has ended; the calendar and the clicks of an instance are over. The download
runs never stop, since a share's accessibility can always change.

**Type invariants.** Each of modules 1 to 5 and 7 has one, proved for every instance (section 5)
and no longer run. The other modules' types are the first part of their inductive invariants
(`WorkerInv`, `FormsTypes`, `UploadTypes` and so on in `PagesAndJobsProofs`, `MetricsTypes` in
`AnalyticsProofs`, `ObjectInv` and `NetworkInv` in `PacketProofs`).

## 5. What is proved

All theorems are checked by TLAPS for every value of the constants, from the assumptions
named in the modules and nothing else: finite sets where a cardinality is taken, positive
limits, `None` outside the other sets, and two that compare constants of the program. The salt
of a file is no longer than what a packet adds to its chunk (16 bytes against 12 + 16), so no
single packet passes for a salt; raw events outlive a share by two days (365 days against 30).

| Module | Invariant | Theorems |
|---|---|---|
| `ShareStorageProofs` | `StorageInv` | `StorageInvariant`, `TypeCorrect`, `NoOrphans`, `OpenMultipartsTracked`, `NothingOutlivesShare`, `RegisteredObjectsKept` |
| | `StorageInv`, `AcceptedOnce` | `StorageImplementsCatalog` |
| `FileDownloadProofs` | `TicketInv` | `TicketInvariant`, `DownloadTypes`, `CountExact`, `LimitKept`, `SpentBeforeErased`, `DownloadImplementsTickets` |
| `ParallelFetchProofs` | `FetchInv` | `FetchInvariant`, `FetchTypes`, `AlwaysWoken`, `MemoryBounded`, `FirstErrorReported`, `SilentAfterAbort`, `FetchImplementsStream` |
| `ChunkUploaderProofs` | `UploadInv` | `UploadInvariant`, `UploadTypes`, `SuccessIsComplete`, `ProgressIsHonest`, `WaitersServed`, `NothingAfterError` |
| `AccountsAndBillingProofs` | `LockoutInv`; `SecurityInv` | `GuessesStayBounded`; `SecurityInvariant`, `SecurityTypesKept`, `SessionsStayJustified`, `ProofsUsedOnce`, `ChangesAreProved` |
| | `BillingInv` | `BillingInvariant`, `BillingTypesKept`, `TimeIsPaidFor`, `PaidTimeIsKept`, `AbandonedCheckoutIsHarmless` |
| `PagesAndJobsProofs` | `BufferInv` | `BufferIsFaithful` |
| | `WorkerInv` | `StreamsAreHandedOverOnce` |
| | `SharePageInv` | `PageBelongsTogether` |
| | `AdminInv` | `AdministratorSeesCurrent` |
| | `UploadPageInv` | `TheLinkOpensAllFiles` |
| | `SaveInv` | `ClicksAskOnce` |
| | `FormsInv` | `FormsAreHonest` |
| | `CleanupInv` | `SummaryIsHonest` |
| `PacketProofs` | none (operators) | `SizesAgree`, `RangesAreExact` |
| | `PacketInv` | `ReaderDecryptsTheFile` |
| `AnalyticsProofs` | `MetricsInv` | `MetricsStaySettled` |
| | `LogInv` | `ReportsAlwaysAgree` |

*Storage.* `NoOrphanObject` is not inductive: a cleaner that deletes a session's row must
know that the multipart upload can no longer become an object and that an object it has
become is registered. `CleanerKnows` says so for every row the cleaner has already retired;
`OneWinner` says that only the request that won R2's completion judges and registers the
object, so that its compensation cannot hit a file of another request; `CreatedOnce` and
`RowsHaveShare` say that no row comes back. The catalogue is implemented under the mapping
`Item`/`ShareStatus`; `AcceptedOnce` adds that a registered file was accepted in time.

*Downloads.* The count equals the tickets that are out (`CountIsTickets`) only together
with `StreamProgress`, which ties the place of a handler to the bytes that have passed: a
handler that is about to give a ticket back has not sent the whole file, one that is about
to delete has. `SpentBeforeErased` assumes the limit of one, the only one the program sets
(`lib/retention.ts`); it would be false of a larger one (section 7).

*Parallel fetch.* `Cursors` orders taken, held, requested and untouched windows and makes
`inFlight` the number of unsettled ones, which bounds memory; `Busy` says that pump has left
nothing it could ask for, so a reader that waits waits for a request that exists
(`NoLostWakeup`); `Ending` keeps the echo of the abort apart from its cause; `Delivered`
gives the order.

*Upload.* `Holding` and `NothingDropped` say that each part the generator has yielded is
held by exactly one worker or reported, hence recorded; `WaitersHeldOnce` that the batcher
holds exactly the waiting workers, each once.

*Billing.* `NeverOverExtended` compares the row with what was paid, but every handler writes
from what it read some awaits ago, so the invariant is about the requests: whatever date one
holds is within the bound (`WithinBound`, the furthest date billed or granted plus the days of
the charges taken up), and the bound never shrinks. `Knows` says what a request at each place
may rely on (it works on a subscription that was billed, or is dead), and is stable because a
bill and a death are for good (`Happened`, `BilledOnce`). `ChargesRead` makes a paid charge be
read by one request only; without it two redeliveries would count its days twice. The two action
properties follow from `Knows` at the step that writes.

*Account security.* `NothingUsedTwice` is not inductive: a challenge may be offered again if its
id could come back, a one-time password if the counter of its secret could. `UsedIsOver` says
of each thing used that it has left the table, that its step is not above `lastUsed` while its
secret is in force, and that a recovery code is behind the current one; `ChallengesDistinct`
that ids and offered secrets are not reused. `CallsCurrent` says that no request holds a version
above the row's, and that one that holds the row's version holds its secret and passkey too:
this is what the conditional writes rest on, and with `SessionsOld` it keeps a session of an old
version out.

*Buffer.* What the consumer took, followed by what is queued, is what was read in its order
(`BufferOrder`), until the queue is emptied by an abort or the consumer's exit; `BufferEnds` says
for which reasons the pump may have ended, so that the consumer is told "done" only after the
last chunk; `BufferSleep` that the pump sleeps only before a full queue and the consumer only
before an empty one whose producer is not done.

*Packets.* `SizesAgree` and `RangesAreExact` are about the operators and hold for every input:
the first divides by hand, since the packets of a file are whole ones and a rest; the second
names the first byte and the number of bytes of each form of the header. For `DecryptsTheFile`
the bytes have to be placed first. `FlattenSeq` puts packets together; `PartsPlaces` says where
each part then stands, `NewStands` and `LegacyStands` that packet `i` stands right behind the
packets before it (`EndOf`), and `WindowsMakeTheObject` that the answers to the windows, put
together, are the object. `PacketInv` then has two halves. `HandedOn` holds of any object,
misassembled or not: every chunk handed on was opened with the one key, and the `i`-th with the
index `i - 1`, because the reader binds its own counter into what it opens. `Aligned` holds of
an object that is as it was made: the reader stands exactly between two packets. With it a
packet that arrived whole opens (`WholeOpens`), so only a cut or a misassembled object is
refused, and nothing stands behind the last packet (`EndsBefore`). A file ends well only where
`Finished` says, after its last packet: in the new format because the packet opened last was
bound to be the last one (`SaltedBytes`), whatever the object was made of.

*Hand-over.* A stream is held exactly while it is in the worker's map or in a message on its
way, never both, and the hidden frame knows which: this excludes the timers that would cut it.

*Share page.* `OfVisit` says that at most one load and one password check of the current visit
are out, the check for the share shown, that every request bears the number of its visit, and
that a page that still loads has nothing of it yet: a late answer is told from a current one by
that number alone. *Administration.* `FetchesOf` says that the request made last is for the
chosen tab and, once the server has read for it, holds every action confirmed; `AdminShows` that
a page which is not that fresh is still waiting for that request or shows a failure.

*Upload page.* Every file of the form is under the form's one key (`QueueOf`) and one counted as
sent is in the share; the share holds nothing under another key, and is protected exactly when
the page knows it (`ShareOf`); a run of `upload()` writes to that share, or to a new one of which
the same is already true (`SendOf`), which is what makes it the form's share when the answer
comes; a link is shown only between runs, and names the form's share and key (`LinkOf`).

*Saving.* A one-time file that a click has still to fetch has not been asked for, unless it is
the next one and its answer is there (`AskedOnce`): each fallback starts where this holds.
`NoneSkipped` says that a click for all files loses none without noticing, so that at its end
the list has been received.

*Forms.* `ToldTheTruth` says it of answers on their way as well as of pages: thanks and
announcements are stored or carried out before they are sent, and a recovery code given to
anybody is the account's or was used up (`GivenCode`), which is stable because the server only
adds what it has told. `NeverStuck` says that a form is sending exactly while its handler runs
(or the page is being left), and that a handler waits for a token exactly while the widget holds
its resolver.

*Clean-up.* While nothing failed, every row that is due is in the batch or behind all of it, and
after a short batch none is behind (`NothingMissed`); rows are taken from the batch first to
last, so moving the cursor keeps this. A phase that ended cleanly had nothing due, and rows only
go (`EndedClean`). `FirstRows` is the fact about `ORDER BY ... LIMIT` this rests on.

*Password checks.* `GuessesBounded` needs `openChecks <= attempts`: a password is compared only
after the attempt was counted, and both are zeroed together.

*Events.* `MetricsSettled` compares rows written once with a table that changes afterwards. Nothing
of a settled day arrives any more, since the route refuses what is older than a day and the job
settles the day before yesterday (`FinalPast`); nothing of a day is deleted before the day is
settled (`RemovedOld`); so a settled row keeps its meaning (`SettledStays`). That no transfer is
counted on two days needs a witness: `TransfersSettled` gives each settled day the set of the
transfers it counted. A transfer's first download that the table still holds is its first one
unless older ones were deleted, and then its share is over and no later day can come
(`TransferLives`).

*Reports.* The overview adds rows written at different times, so `LogInv` has to say what a row
is worth later: the row of a current day is what its query would find now. An event of a later
day does not change the figures of a day before it (`LaterKeeps`: nobody's first upload, no
transfer's first download and no conversion moves), an event of an earlier day ends the
currency of all days from its own on, and the job writes two of them anew. The day before
yesterday accepts no events any more (`RecentDay`), so what is written twice stays current. The rest
is arithmetic over sets: each metric that is summed by day counts sets that do not meet on
different days, and the limited query of the last day finds the same set as the unlimited one
(`TransfersDay`, `NewSendersDay`), so the sum counts their union (`PeriodSum`), which is what
the other report selects.

The sums are claimed where `from..to-1` has current rows, and only in the first `HistoryDays`
and before an event is deleted (`WithinHistory`). Elsewhere they are false of the program: between
midnight and 00:10, and after a failed job, the overview misses a day that the cohort report,
which reads the events, counts; a late event is in the cohort at once and in a row only after
the next job; and after a year the lookback of 365 days and the deletion of events count an
old sender as new again. The comment at the head of `aggregate.ts` and `docs/analytics.md`
(line 68) accept the last; the others last until the next job that succeeds, unless two fail
in a row, after which a day keeps the row it has. The clauses about landings, attempts,
cohorts and recipients read events only and hold for every period.

*Sums, sequences and induction.* The community modules define a sum over a set (`MapThenSumSet`)
and the joining of sequences (`FlattenSeq`) by recursion, and the library's induction theorems,
which take an operator as a parameter, cannot be instantiated by the provers here. The proofs use
a least counterexample instead. Of the finite sets at which two solutions of the equation of a
sum differ, one is minimal for strict inclusion (`WFMin` with
`FS_StrictSubsetOrderingWellFounded`), and taking an element away gives a smaller one
(`SumUnique`); the sizes of the unions solve the same equation (`TogetherRecurs`), so the sum is
the size of the union. In the same way, of the numbers at which a statement about the first `n`
parts fails there is a least one (`LeastOf`, `UpTo`), which gives what `FlattenSeq` makes
(`FlattenIs`), part by part.

**Only model-checked:** the liveness properties (`ExpiredShareRemoved`,
`StaleUploadRemoved`, `NotStuckAtLimit`, `StreamEnds`, `UploadEnds`), which rest on fairness
and ENABLED.

## 6. Findings

* `expired_share`: a share that expires or is suspended while complete is between R2's
  completion and its D1 batch keeps an object without a files row; every later deletion of
  the share stops with `StorageReconciliationError`, though nothing has failed. The terms
  promise that an expired share is deleted automatically.
* `download_bytes`: the bytes that decide whether a one-time file is deleted are counted
  when they pass the Worker's stream, not when they reach the client, as the comment there
  and `docs/architecture.md` say; a client that disconnects with the last bytes under way
  loses the file.
* `body_retry`: a request of the parallel download is retried only until its headers are
  there; a connection that breaks while the body is read fails the whole download at once.
* `billing_paid`: two tabs of one customer subscribe. The webhook of the subscription that is
  paid finds the account pointing elsewhere and relinks it by a compare-and-swap; if the other
  request re-points the row in between, the swap matches nothing, the handler logs a warning,
  and the event is recorded as processed. The card is charged and no later event, nor the
  synchronisation (which looks at the account's pointer), gives the plan. The comment above
  that code says this is what the fallback is for.
* `billing_prepaid`: a Bitcoin payment extends the account before its own row says how far
  (`extends_plan_until`). The end of a card subscription that surveys the paid charges in
  between does not see it and writes an earlier expiry; the comment there says that what was
  paid is not wasted.

## 7. Seen while modelling

Behaviour the models show or assume, for which no comment or document says otherwise, so that
no run is expected to fail on it.

* Billing: a crash of the OpenNode webhook between marking the charge paid and extending the
  account loses the payment, since a redelivery stops at "already processed". The fallback
  skips a relink whose new expiry is older than the row's, which leaves an active subscription
  nobody points at. The billing page's polling after a checkout does not order its answers.
* Accounts: `passwordAuthentication.ts` 96-102 clears a lock it saw expired without testing that
  the row still holds that lock. Losing the answer of a sign-up or a recovery leaves an account
  whose recovery code nobody has seen.
* Downloads: a download whose turn was the last of the limit deletes the file when it has been
  sent, also if an earlier one is still being sent or has given its turn back. With a limit of
  two, a file would be deleted after one copy; the program never sets a limit other than one.
* Saving: the page counts a file as saved when the hidden frame is opened, so a worker that
  is ended between its answer and the frame's request loses the download without a message;
  the same happens in a browser whose TransformStream has no `cancel`, where no notice is sent
  and the frame stays its hour. The grace of one second before a finished frame is removed is
  an assumption about the browser. A streamed ZIP that breaks midway has spent the one-time
  files before it.
* Upload page: the files of a drop are added by a closure of an earlier render and may be
  queued behind a result that is already shown; a rejected key promise is kept.
* Administration: a list keeps the other filter's items beside the error when a load fails;
  applying an unchanged range on the dashboard shows the spinner without a request; the lookup
  on the reports page (`AdminReportsPage.tsx` 64-132) lacks the guard against an outdated
  answer that the accounts page has.
* Analytics: one event older than a day makes the route refuse its whole batch, which the
  client then sends again for ever. Daily conversions and those of the last day
  of an overview are computed by different queries, and the overview's total may differ from the
  recipient report's, so `ReportsAgree` compares the latter with stored rows only. The overview
  has no row for a day whose job has not run or has failed (section 5). Success rates by device class and
  the overall one divide the events of the period and may exceed one at its edge.
* Turnstile: a late callback settles whatever request waits at that moment.

## 8. What is not modelled

* Cryptographic primitives, the derivation of keys, names and passwords: a packet opens
  exactly when its bytes are whole and bound to their place. A passkey's signature and counter,
  the signatures of webhooks and cookies.
* Validation of requests, the decisions of rate limits and Turnstile, plan limits on size: a
  refused request changes no state.
* Two starts that race for one share's upload token, HEAD requests, the listing's queries.
* Presigned URLs: their expiry is a failed PUT. Two attempts of a part carry the same bytes,
  and a part is its number; whether R2 gives equal parts equal ETags is not code here.
* The browser's queue between an aborted fetch and its callbacks: any order of due callbacks is
  allowed, more than a browser produces.
* A start whose insert and compensating abort both fail leaves a multipart upload without a row
  (`docs/storage-lifecycle.md` names it); `OpenMultipartTracked` is stated for sessions start
  has answered.
* An answer to the parallel download's first request without a readable `Content-Range`
  (`parallelFetch.ts` 179; the file route sends one with every 206), and a batch of upload URLs
  that lacks one of the parts asked for (`chunkUploader.ts` 191-198; the route signs them all).
* The awaits between the reads that create a Bitcoin charge (`ChargeCreates`), between the two
  that vet a subscription (`Vet`) and between the queries of one report or one day's metrics:
  each is one step, and no property is about a change between them.
* Amounts, currencies and Stripe's customer objects; browsers with a wrong clock in the event
  pipeline; the bytes of a ZIP; previews' media elements; breakdowns of the reports by campaign,
  device and browser.
* Storage diagnostics and the share listing only read; pages, blog, legal texts, build scripts
  and the weekly report of repository activity have no protocol.
