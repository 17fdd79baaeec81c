---------------------------- MODULE ShareStorage ----------------------------
(***************************************************************************)
(* The life of an uploaded file on the server.  D1 (SQL rows) and R2       *)
(* (objects and multipart uploads) are two stores without a common         *)
(* transaction; four kinds of handler work on them at once, and each can   *)
(* stop between any two of its calls:                                      *)
(*   start     POST /api/upload/start                                      *)
(*   complete  POST /api/upload/complete                                   *)
(*   cleaners  deleteShare and deleteStaleUpload, run by the cron trigger  *)
(*             and (deleteShare) by the administrator's DELETE             *)
(*   burn      deleteOneTimeFile, after the last counted download          *)
(*                                                                         *)
(* Every await of the code is a step of its own; what a handler has read   *)
(* and keeps in its locals is a variable of the handler.  A storage key,   *)
(* a multipart upload and an upload session are drawn together and fresh   *)
(* by one start request, so an element of Uploads stands for all three.    *)
(* A files row has a fresh id, so it is named by the complete request that *)
(* inserted it: files is a set of Requests and target[f] is its key.       *)
(***************************************************************************)
EXTENDS Naturals, FiniteSets

CONSTANTS
  Shares,       \* share ids (lib/id.ts draws them at random)
  Uploads,      \* upload sessions, each with its storage key and multipart
  Requests,     \* executions of the complete handler
  Cleaners,     \* workers that run cleanup work
  Admins,       \* the cleaners that are administrator requests
  ShareOf,      \* the share a session uploads into
  FileLimit,    \* SHARE_FILE_BATCH_SIZE
  UploadLimit,  \* SHARE_UPLOAD_BATCH_SIZE
  MaxFaults,    \* bound: failed calls and killed handlers
  None          \* no share, no session

ASSUME ShareOfAssumption == ShareOf \in [Uploads -> Shares]
ASSUME CleanersAssumption == Admins \subseteq Cleaners
ASSUME LimitsAssumption == /\ FileLimit \in Nat \ {0}
                           /\ UploadLimit \in Nat \ {0}
                           /\ MaxFaults \in Nat
ASSUME NoneAssumption == None \notin Shares \cup Uploads \cup Requests

VARIABLES
  shares,     \* D1: rows of shares
  issued,     \* share ids drawn so far (none is drawn twice)
  suspended,  \* D1: shares with suspended_at set
  expired,    \* shares whose expires_at has passed
  uploads,    \* D1: rows of uploads
  recorded,   \* D1: sessions with at least one row in upload_parts
  files,      \* D1: rows of files
  stale,      \* sessions created more than 24 hours ago
  multi,      \* R2: state of each multipart upload
  stored,     \* R2: multipart uploads that hold at least one part
  objects,    \* R2: completed objects
  startPc,    \* start: where each start request stands
  reqPc,      \* complete: where each request stands
  target,     \* complete: the session a request names
  won,        \* complete: requests whose R2 complete call returned an object
  stamp,      \* complete: requests whose createdAt precedes expires_at
  answer,     \* complete: the file id a success answer carries
  cleanPc,    \* cleaner: where it stands
  job,        \* cleaner: the share it deletes, None in a stale-upload job
  snapFiles,  \* cleaner: files rows it read
  snapUps,    \* cleaner: uploads rows it read
  todo,       \* cleaner: rows of snapUps it has not retired yet
  current,    \* cleaner: the row it is retiring
  burning,    \* downloads: files whose object deleteOneTimeFile removed
  faults      \* failed calls and killed handlers so far

d1Vars    == <<shares, issued, suspended, uploads, recorded, files>>
timeVars  == <<expired, stale>>
r2Vars    == <<multi, stored, objects>>
reqVars   == <<reqPc, target, won, stamp, answer>>
cleanVars == <<cleanPc, job, snapFiles, snapUps, todo, current>>
vars == <<d1Vars, timeVars, r2Vars, startPc, reqVars, cleanVars, burning, faults>>

FilesOf(s)   == {f \in files : ShareOf[target[f]] = s}
UploadsOf(s) == {u \in uploads : ShareOf[u] = s}
KeysOf(F)    == {target[f] : f \in F}
Registered(u) == \E f \in files : target[f] = u

(* SELECT ... LIMIT n returns any n of the matching rows, or all of them. *)
Page(rows, n) == {P \in SUBSET rows : \/ P = rows /\ Cardinality(rows) <= n
                                      \/ Cardinality(P) = n}

Fault == faults < MaxFaults /\ faults' = faults + 1

Init ==
  /\ shares = {} /\ issued = {} /\ suspended = {} /\ expired = {}
  /\ uploads = {} /\ recorded = {} /\ files = {} /\ stale = {}
  /\ multi = [u \in Uploads |-> "none"] /\ stored = {} /\ objects = {}
  /\ startPc = [u \in Uploads |-> "new"]
  /\ reqPc = [r \in Requests |-> "new"]
  /\ target = [r \in Requests |-> None]
  /\ answer = [r \in Requests |-> None]
  /\ won = {} /\ stamp = {}
  /\ cleanPc = [c \in Cleaners |-> "idle"]
  /\ job = [c \in Cleaners |-> None]
  /\ snapFiles = [c \in Cleaners |-> {}]
  /\ snapUps = [c \in Cleaners |-> {}]
  /\ todo = [c \in Cleaners |-> {}]
  /\ current = [c \in Cleaners |-> None]
  /\ burning = {} /\ faults = 0

-----------------------------------------------------------------------------
(* Upload start.  A refused request (plan limits, Turnstile, a wrong token) *)
(* draws no session and is not a step.                                      *)

(* A new share: INSERT INTO shares. *)
CreateShare(u) ==
  /\ startPc[u] = "new" /\ ShareOf[u] \notin issued
  /\ shares' = shares \cup {ShareOf[u]}
  /\ issued' = issued \cup {ShareOf[u]}
  /\ startPc' = [startPc EXCEPT ![u] = "shared"]
  /\ UNCHANGED <<suspended, uploads, recorded, files, timeVars, r2Vars, reqVars,
                 cleanVars, burning, faults>>

(* A file added to an existing share: verifyShareOwnership. *)
JoinShare(u) ==
  /\ startPc[u] = "new"
  /\ ShareOf[u] \in shares \ (expired \cup suspended)
  /\ startPc' = [startPc EXCEPT ![u] = "shared"]
  /\ UNCHANGED <<d1Vars, timeVars, r2Vars, reqVars, cleanVars, burning, faults>>

CreateMultipart(u) ==
  /\ startPc[u] = "shared"
  /\ multi' = [multi EXCEPT ![u] = "open"]
  /\ startPc' = [startPc EXCEPT ![u] = "opened"]
  /\ UNCHANGED <<d1Vars, timeVars, stored, objects, reqVars, cleanVars, burning, faults>>

(* INSERT INTO uploads; the foreign key needs the share row. *)
InsertUpload(u) ==
  /\ startPc[u] = "opened" /\ ShareOf[u] \in shares
  /\ uploads' = uploads \cup {u}
  /\ startPc' = [startPc EXCEPT ![u] = "started"]
  /\ UNCHANGED <<shares, issued, suspended, recorded, files, timeVars, r2Vars,
                 reqVars, cleanVars, burning, faults>>

(* The insert fails: on the foreign key, or in D1, which may have inserted *)
(* the row all the same.                                                   *)
InsertUploadFails(u) ==
  /\ startPc[u] = "opened"
  /\ \/ ShareOf[u] \notin shares /\ UNCHANGED <<uploads, faults>>
     \/ Fault /\ UNCHANGED uploads
     \/ Fault /\ ShareOf[u] \in shares /\ uploads' = uploads \cup {u}
  /\ startPc' = [startPc EXCEPT ![u] = "compensate"]
  /\ UNCHANGED <<shares, issued, suspended, recorded, files, timeVars, r2Vars,
                 reqVars, cleanVars, burning>>

(* The catch block aborts the multipart upload it created. *)
AbortNewMultipart(u) ==
  /\ startPc[u] = "compensate"
  /\ multi' = [multi EXCEPT ![u] = "gone"]
  /\ startPc' = [startPc EXCEPT ![u] = "failed"]
  /\ UNCHANGED <<d1Vars, timeVars, stored, objects, reqVars, cleanVars, burning, faults>>

(* The handler dies, or the compensating abort fails and is swallowed. *)
CrashStart(u) ==
  /\ startPc[u] \in {"shared", "opened", "compensate"} /\ Fault
  /\ startPc' = [startPc EXCEPT ![u] = "failed"]
  /\ UNCHANGED <<d1Vars, timeVars, r2Vars, reqVars, cleanVars, burning>>

-----------------------------------------------------------------------------
(* Parts: the chunk handler stores a part in R2 and then records its ETag; *)
(* with presigned URLs the browser stores it and part-ack records it.      *)

StorePart(u) ==
  /\ startPc[u] = "started" /\ u \in uploads /\ multi[u] = "open"
  /\ stored' = stored \cup {u}
  /\ UNCHANGED <<d1Vars, timeVars, multi, objects, startPc, reqVars, cleanVars,
                 burning, faults>>

RecordPart(u) ==
  /\ u \in stored /\ u \in uploads
  /\ recorded' = recorded \cup {u}
  /\ UNCHANGED <<shares, issued, suspended, uploads, files, timeVars, r2Vars,
                 startPc, reqVars, cleanVars, burning, faults>>

-----------------------------------------------------------------------------
(* Upload complete. *)

(* SELECT uploads JOIN shares, the token check and checkShareAccessible. *)
Lookup(r, u) ==
  /\ reqPc[r] = "new" /\ startPc[u] = "started"
  /\ u \in uploads /\ ShareOf[u] \notin expired \cup suspended
  /\ target' = [target EXCEPT ![r] = u]
  /\ reqPc' = [reqPc EXCEPT ![r] = "found"]
  /\ UNCHANGED <<d1Vars, timeVars, r2Vars, startPc, won, stamp, answer, cleanVars,
                 burning, faults>>

(* SELECT upload_parts: 400 when there is none. *)
ReadParts(r) ==
  /\ reqPc[r] = "found"
  /\ reqPc' = [reqPc EXCEPT ![r] = IF target[r] \in recorded THEN "read" ELSE "refused"]
  /\ UNCHANGED <<d1Vars, timeVars, r2Vars, startPc, target, won, stamp, answer,
                 cleanVars, burning, faults>>

(* multipart.complete succeeds. *)
CompleteMultipart(r) ==
  /\ reqPc[r] = "read" /\ multi[target[r]] = "open"
  /\ multi' = [multi EXCEPT ![target[r]] = "gone"]
  /\ objects' = objects \cup {target[r]}
  /\ won' = won \cup {r}
  /\ reqPc' = [reqPc EXCEPT ![r] = "sized"]
  /\ UNCHANGED <<d1Vars, timeVars, stored, startPc, target, stamp, answer, cleanVars,
                 burning, faults>>

(* Bug: a lost race is treated as a success and the object finalized again. *)
RefinalizeMissing(r) ==
  /\ reqPc[r] = "read" /\ multi[target[r]] # "open"
  /\ reqPc' = [reqPc EXCEPT ![r] = IF target[r] \in objects THEN "sized" ELSE "recheck"]
  /\ UNCHANGED <<d1Vars, timeVars, r2Vars, startPc, target, won, stamp, answer,
                 cleanVars, burning, faults>>

(* multipart.complete rejects with NoSuchUpload (10024). *)
MultipartMissing(r) ==
  /\ reqPc[r] = "read" /\ multi[target[r]] # "open"
  /\ reqPc' = [reqPc EXCEPT ![r] = "recheck"]
  /\ UNCHANGED <<d1Vars, timeVars, r2Vars, startPc, target, won, stamp, answer,
                 cleanVars, burning, faults>>

(* The object R2 reports is within the plan's limit: createdAt is taken. *)
AcceptSize(r) ==
  /\ reqPc[r] = "sized"
  /\ stamp' = IF ShareOf[target[r]] \in expired THEN stamp ELSE stamp \cup {r}
  /\ reqPc' = [reqPc EXCEPT ![r] = "commit"]
  /\ UNCHANGED <<d1Vars, timeVars, r2Vars, startPc, target, won, answer, cleanVars,
                 burning, faults>>

(* The object is larger than the plan allows: R2.delete, then the rows. *)
PurgeObject(r) ==
  /\ reqPc[r] = "sized"
  /\ objects' = objects \ {target[r]}
  /\ reqPc' = [reqPc EXCEPT ![r] = "purge"]
  /\ UNCHANGED <<d1Vars, timeVars, multi, stored, startPc, target, won, stamp, answer,
                 cleanVars, burning, faults>>

PurgeRows(r) ==
  /\ reqPc[r] = "purge"
  /\ uploads' = uploads \ {target[r]}
  /\ recorded' = recorded \ {target[r]}
  /\ reqPc' = [reqPc EXCEPT ![r] = "toolarge"]
  /\ UNCHANGED <<shares, issued, suspended, files, timeVars, r2Vars, startPc, target,
                 won, stamp, answer, cleanVars, burning, faults>>

(* Bug: the first access check is trusted and the insert is unconditional. *)
InsertAllowedUnchecked(r) == target[r] \in uploads /\ ~Registered(target[r])

(* Bug: the insert tests that the upload and the share are there, not expiry. *)
InsertAllowedExpired(r) ==
  /\ target[r] \in uploads /\ ~Registered(target[r])
  /\ ShareOf[target[r]] \notin suspended

(* The conditions of INSERT INTO files ... SELECT FROM uploads JOIN shares. *)
InsertAllowed(r) ==
  /\ target[r] \in uploads
  /\ r \in stamp /\ ShareOf[target[r]] \notin suspended
  /\ ~Registered(target[r])

(* Bug: the session is deleted whether or not the file was registered. *)
CommitDroppingSession(r) ==
  /\ reqPc[r] = "commit"
  /\ files' = IF InsertAllowed(r) THEN files \cup {r} ELSE files
  /\ uploads' = uploads \ {target[r]}
  /\ recorded' = recorded \ {target[r]}
  /\ answer' = IF InsertAllowed(r) THEN [answer EXCEPT ![r] = r] ELSE answer
  /\ reqPc' = [reqPc EXCEPT ![r] = IF InsertAllowed(r) THEN "ok" ELSE "recheck"]
  /\ UNCHANGED <<shares, issued, suspended, timeVars, r2Vars, startPc, target, won,
                 stamp, cleanVars, burning, faults>>

(* The D1 batch: insert the file if the share is still open, and delete the *)
(* session only if a file is registered for its key.                        *)
Commit(r) ==
  LET inserted == InsertAllowed(r)
      done == inserted \/ Registered(target[r])
  IN
  /\ reqPc[r] = "commit"
  /\ files' = IF inserted THEN files \cup {r} ELSE files
  /\ uploads' = IF done THEN uploads \ {target[r]} ELSE uploads
  /\ recorded' = IF done THEN recorded \ {target[r]} ELSE recorded
  /\ answer' = IF inserted THEN [answer EXCEPT ![r] = r] ELSE answer
  /\ reqPc' = [reqPc EXCEPT ![r] = IF inserted THEN "ok" ELSE "recheck"]
  /\ UNCHANGED <<shares, issued, suspended, timeVars, r2Vars, startPc, target, won,
                 stamp, cleanVars, burning, faults>>

(* SELECT id FROM files for the key: another request may have registered it. *)
AnswerExisting(r) ==
  /\ reqPc[r] = "recheck"
  /\ \/ \E f \in files : /\ target[f] = target[r]
                         /\ answer' = [answer EXCEPT ![r] = f]
                         /\ reqPc' = [reqPc EXCEPT ![r] = "ok"]
     \/ /\ ~Registered(target[r])
        /\ reqPc' = [reqPc EXCEPT ![r] = "conflict"]
        /\ UNCHANGED answer
  /\ UNCHANGED <<d1Vars, timeVars, r2Vars, startPc, target, won, stamp, cleanVars,
                 burning, faults>>

(* A call fails with an error the handler does not map, or the Worker is    *)
(* killed.  A call that took effect before it failed is the step of the     *)
(* call followed by this one.                                               *)
CrashRequest(r) ==
  /\ reqPc[r] \in {"found", "read", "sized", "purge", "commit", "recheck"} /\ Fault
  /\ reqPc' = [reqPc EXCEPT ![r] = "crashed"]
  /\ UNCHANGED <<d1Vars, timeVars, r2Vars, startPc, target, won, stamp, answer,
                 cleanVars, burning>>

-----------------------------------------------------------------------------
(* Cleanup. *)

(* A job ends, well or badly: its locals are gone. *)
Release(c) ==
  /\ cleanPc' = [cleanPc EXCEPT ![c] = "idle"]
  /\ job' = [job EXCEPT ![c] = None]
  /\ snapFiles' = [snapFiles EXCEPT ![c] = {}]
  /\ snapUps' = [snapUps EXCEPT ![c] = {}]
  /\ todo' = [todo EXCEPT ![c] = {}]
  /\ current' = [current EXCEPT ![c] = None]

(* deleteShare on an expired share (cron) or on any share id (admin). *)
BeginShare(c, s) ==
  /\ cleanPc[c] = "idle"
  /\ IF c \in Admins THEN s \in issued ELSE s \in shares \cap expired
  /\ job' = [job EXCEPT ![c] = s]
  /\ cleanPc' = [cleanPc EXCEPT ![c] = "files"]
  /\ UNCHANGED <<d1Vars, timeVars, r2Vars, startPc, reqVars, snapFiles, snapUps, todo,
                 current, burning, faults>>

(* deleteStaleUpload on a session older than 24 hours (cron only). *)
BeginStale(c, u) ==
  /\ cleanPc[c] = "idle" /\ c \notin Admins /\ u \in uploads \cap stale
  /\ job' = [job EXCEPT ![c] = None]
  /\ snapFiles' = [snapFiles EXCEPT ![c] = {}]
  /\ snapUps' = [snapUps EXCEPT ![c] = {u}]
  /\ todo' = [todo EXCEPT ![c] = {u}]
  /\ cleanPc' = [cleanPc EXCEPT ![c] = "abort"]
  /\ UNCHANGED <<d1Vars, timeVars, r2Vars, startPc, reqVars, current, burning, faults>>

ReadFiles(c) ==
  /\ cleanPc[c] = "files"
  /\ \E F \in Page(FilesOf(job[c]), FileLimit) : snapFiles' = [snapFiles EXCEPT ![c] = F]
  /\ cleanPc' = [cleanPc EXCEPT ![c] = "uploads"]
  /\ UNCHANGED <<d1Vars, timeVars, r2Vars, startPc, reqVars, job, snapUps, todo,
                 current, burning, faults>>

ReadUploads(c) ==
  /\ cleanPc[c] = "uploads"
  /\ \E U \in Page(UploadsOf(job[c]), UploadLimit) :
       /\ snapUps' = [snapUps EXCEPT ![c] = U]
       /\ todo' = [todo EXCEPT ![c] = U]
  /\ cleanPc' = [cleanPc EXCEPT ![c] = "refs"]
  /\ UNCHANGED <<d1Vars, timeVars, r2Vars, startPc, reqVars, job, snapFiles, current,
                 burning, faults>>

(* Another file row with a snapshot key stops the deletion. *)
CheckReferences(c) ==
  /\ cleanPc[c] = "refs"
  /\ IF \E f \in files \ snapFiles[c] : target[f] \in KeysOf(snapFiles[c])
     THEN Release(c)
     ELSE /\ cleanPc' = [cleanPc EXCEPT ![c] = "abort"]
          /\ UNCHANGED <<job, snapFiles, snapUps, todo, current>>
  /\ UNCHANGED <<d1Vars, timeVars, r2Vars, startPc, reqVars, burning, faults>>

(* Bug: the session's row is dropped without aborting its multipart upload. *)
AbortMultipartSkipped(c) ==
  /\ cleanPc[c] = "abort"
  /\ \E u \in todo[c] : current' = [current EXCEPT ![c] = u]
  /\ cleanPc' = [cleanPc EXCEPT ![c] = "head"]
  /\ UNCHANGED <<d1Vars, timeVars, r2Vars, startPc, reqVars, job, snapFiles,
                 snapUps, todo, burning, faults>>

(* Bug: a multipart upload that is already gone fails the job. *)
AbortMultipartStrict(c) ==
  /\ cleanPc[c] = "abort"
  /\ \E u \in todo[c] :
       IF multi[u] = "open"
       THEN /\ multi' = [multi EXCEPT ![u] = "gone"]
            /\ current' = [current EXCEPT ![c] = u]
            /\ cleanPc' = [cleanPc EXCEPT ![c] = "head"]
            /\ UNCHANGED <<job, snapFiles, snapUps, todo>>
       ELSE Release(c) /\ UNCHANGED multi
  /\ UNCHANGED <<d1Vars, timeVars, stored, objects, startPc, reqVars, burning, faults>>

(* abort(): a multipart upload that is already gone (10024) is not an error. *)
AbortMultipart(c) ==
  /\ cleanPc[c] = "abort"
  /\ \E u \in todo[c] :
       /\ multi' = [multi EXCEPT ![u] = "gone"]
       /\ current' = [current EXCEPT ![c] = u]
  /\ cleanPc' = [cleanPc EXCEPT ![c] = "head"]
  /\ UNCHANGED <<d1Vars, timeVars, stored, objects, startPc, reqVars, job, snapFiles,
                 snapUps, todo, burning, faults>>

HeadObject(c) ==
  /\ cleanPc[c] = "head"
  /\ IF current[c] \in objects
     THEN cleanPc' = [cleanPc EXCEPT ![c] = "register"] /\ UNCHANGED todo
     ELSE /\ cleanPc' = [cleanPc EXCEPT ![c] = "abort"]
          /\ todo' = [todo EXCEPT ![c] = @ \ {current[c]}]
  /\ UNCHANGED <<d1Vars, timeVars, r2Vars, startPc, reqVars, job, snapFiles, snapUps,
                 current, burning, faults>>

(* SELECT files for the key; none: StorageReconciliationError. *)
CheckRegistered(c) ==
  /\ cleanPc[c] = "register"
  /\ IF Registered(current[c])
     THEN /\ cleanPc' = [cleanPc EXCEPT ![c] = "abort"]
          /\ todo' = [todo EXCEPT ![c] = @ \ {current[c]}]
          /\ UNCHANGED <<job, snapFiles, snapUps, current>>
     ELSE Release(c)
  /\ UNCHANGED <<d1Vars, timeVars, r2Vars, startPc, reqVars, burning, faults>>

(* Every session is retired: R2.delete of the snapshot's keys. *)
DeleteObjects(c) ==
  /\ cleanPc[c] = "abort" /\ todo[c] = {} /\ job[c] # None
  /\ objects' = objects \ KeysOf(snapFiles[c])
  /\ cleanPc' = [cleanPc EXCEPT ![c] = "rows"]
  /\ UNCHANGED <<d1Vars, timeVars, multi, stored, startPc, reqVars, job, snapFiles,
                 snapUps, todo, current, burning, faults>>

(* The rows of a share whose own row is deleted go with it (ON DELETE CASCADE). *)
DropRows(F, U, gone) ==
  /\ files' = {f \in files \ F : ShareOf[target[f]] \notin gone}
  /\ uploads' = {u \in uploads \ U : ShareOf[u] \notin gone}
  /\ recorded' = {u \in recorded \ U : ShareOf[u] \notin gone}
  /\ shares' = shares \ gone
  /\ suspended' = suspended \ gone

(* Bug: the share row is deleted without the NOT EXISTS conditions. *)
ShareRowDoomedAlways(c) == TRUE

(* DELETE FROM shares ... AND NOT EXISTS files AND NOT EXISTS uploads, read *)
(* after the batch has deleted the snapshot's rows.                         *)
ShareRowDoomed(c) == /\ FilesOf(job[c]) \subseteq snapFiles[c]
                     /\ UploadsOf(job[c]) \subseteq snapUps[c]

(* The D1 batch of deleteShare.  The SELECT that follows it only decides   *)
(* which answer the caller gets, so it is not a step.                      *)
DeleteRows(c) ==
  /\ cleanPc[c] = "rows"
  /\ DropRows(snapFiles[c], snapUps[c], IF ShareRowDoomed(c) THEN {job[c]} ELSE {})
  /\ Release(c)
  /\ UNCHANGED <<issued, timeVars, r2Vars, startPc, reqVars, burning, faults>>

(* The D1 batch of deleteStaleUpload. *)
DeleteStaleRows(c) ==
  /\ cleanPc[c] = "abort" /\ todo[c] = {} /\ job[c] = None
  /\ DropRows({}, snapUps[c], {})
  /\ Release(c)
  /\ UNCHANGED <<issued, timeVars, r2Vars, startPc, reqVars, burning, faults>>

(* A call fails, the work budget runs out or the Worker is killed; the      *)
(* caller counts the failure and goes on with other work.                   *)
FailClean(c) ==
  /\ cleanPc[c] # "idle" /\ Fault /\ Release(c)
  /\ UNCHANGED <<d1Vars, timeVars, r2Vars, startPc, reqVars, burning>>

-----------------------------------------------------------------------------
(* deleteOneTimeFile: the last counted download of f was delivered. *)

BurnObject(f) ==
  /\ f \in files /\ target[f] \in objects
  /\ objects' = objects \ {target[f]}
  /\ burning' = burning \cup {f}
  /\ UNCHANGED <<d1Vars, timeVars, multi, stored, startPc, reqVars, cleanVars, faults>>

BurnRow(f) ==
  /\ f \in burning
  /\ files' = files \ {f}
  /\ burning' = burning \ {f}
  /\ UNCHANGED <<shares, issued, suspended, uploads, recorded, timeVars, r2Vars, startPc,
                 reqVars, cleanVars, faults>>

-----------------------------------------------------------------------------
(* The administrator's suspend and unsuspend, and the clock. *)

Suspend(s) ==
  /\ s \in shares /\ suspended' = suspended \cup {s}
  /\ UNCHANGED <<shares, issued, uploads, recorded, files, timeVars, r2Vars, startPc,
                 reqVars, cleanVars, burning, faults>>

Unsuspend(s) ==
  /\ s \in shares /\ suspended' = suspended \ {s}
  /\ UNCHANGED <<shares, issued, uploads, recorded, files, timeVars, r2Vars, startPc,
                 reqVars, cleanVars, burning, faults>>

Expire(s) ==
  /\ s \in issued /\ expired' = expired \cup {s}
  /\ UNCHANGED <<d1Vars, stale, r2Vars, startPc, reqVars, cleanVars, burning, faults>>

GrowStale(u) ==
  /\ u \in uploads /\ stale' = stale \cup {u}
  /\ UNCHANGED <<d1Vars, expired, r2Vars, startPc, reqVars, cleanVars, burning, faults>>

-----------------------------------------------------------------------------
StartStep(u) ==
  \/ CreateShare(u) \/ JoinShare(u) \/ CreateMultipart(u) \/ InsertUpload(u)
  \/ InsertUploadFails(u) \/ AbortNewMultipart(u)

RequestStep(r) ==
  \/ ReadParts(r) \/ CompleteMultipart(r) \/ MultipartMissing(r) \/ AcceptSize(r)
  \/ PurgeObject(r) \/ PurgeRows(r) \/ Commit(r) \/ AnswerExisting(r)

CleanStep(c) ==
  \/ ReadFiles(c) \/ ReadUploads(c) \/ CheckReferences(c) \/ AbortMultipart(c)
  \/ HeadObject(c) \/ CheckRegistered(c) \/ DeleteObjects(c) \/ DeleteRows(c)
  \/ DeleteStaleRows(c)

Next ==
  \/ \E u \in Uploads : \/ StartStep(u) \/ CrashStart(u) \/ StorePart(u) \/ RecordPart(u)
                        \/ GrowStale(u)
  \/ \E r \in Requests : \/ RequestStep(r) \/ CrashRequest(r) \/ BurnObject(r) \/ BurnRow(r)
                         \/ \E u \in Uploads : Lookup(r, u)
  \/ \E c \in Cleaners : \/ CleanStep(c) \/ FailClean(c)
                         \/ \E s \in Shares : BeginShare(c, s)
                         \/ \E u \in Uploads : BeginStale(c, u)
  \/ \E s \in Shares : Suspend(s) \/ Unsuspend(s) \/ Expire(s)

Spec == Init /\ [][Next]_vars

(* A handler that has begun runs to its end unless it is killed.  The cron *)
(* trigger fires every six hours for ever, and one run visits every        *)
(* eligible row it has the budget for, so a row that stays eligible is     *)
(* visited again and again.                                                *)
Fairness ==
  /\ \A u \in Uploads : WF_vars(startPc[u] # "new" /\ StartStep(u))
  /\ \A r \in Requests : WF_vars(RequestStep(r))
  /\ \A c \in Cleaners : WF_vars(CleanStep(c))
  /\ \A c \in Cleaners \ Admins :
       /\ \A s \in Shares : SF_vars(BeginShare(c, s))
       /\ \A u \in Uploads : SF_vars(BeginStale(c, u))

FairSpec == Spec /\ Fairness

-----------------------------------------------------------------------------
(* Properties. *)

StartStates == {"new", "shared", "opened", "started", "compensate", "failed"}
RequestStates == {"new", "found", "refused", "read", "sized", "commit", "purge",
                  "toolarge", "recheck", "ok", "conflict", "crashed"}
CleanStates == {"idle", "files", "uploads", "refs", "abort", "head", "register", "rows"}

(* Every variable has its type; parts are only recorded for a session that *)
(* has a row, as the foreign key of upload_parts demands of chunk and      *)
(* part-ack when they come late.                                           *)
TypeOK ==
  /\ shares \subseteq issued /\ issued \subseteq Shares
  /\ suspended \subseteq shares /\ expired \subseteq issued
  /\ uploads \subseteq Uploads /\ recorded \subseteq uploads
  /\ files \subseteq Requests /\ stale \subseteq Uploads
  /\ multi \in [Uploads -> {"none", "open", "gone"}]
  /\ stored \subseteq Uploads /\ objects \subseteq Uploads
  /\ startPc \in [Uploads -> StartStates]
  /\ reqPc \in [Requests -> RequestStates]
  /\ target \in [Requests -> Uploads \cup {None}]
  /\ answer \in [Requests -> Requests \cup {None}]
  /\ won \subseteq Requests /\ stamp \subseteq Requests
  /\ cleanPc \in [Cleaners -> CleanStates]
  /\ job \in [Cleaners -> Shares \cup {None}]
  /\ snapFiles \in [Cleaners -> SUBSET Requests]
  /\ snapUps \in [Cleaners -> SUBSET Uploads]
  /\ todo \in [Cleaners -> SUBSET Uploads]
  /\ current \in [Cleaners -> Uploads \cup {None}]
  /\ burning \subseteq Requests
  /\ faults \in Nat

(* A completed R2 object is always reachable from D1, through its session's *)
(* row or a file's row, whatever complete, deleteShare, deleteStaleUpload   *)
(* and deleteOneTimeFile do at the same time and wherever they stop: no     *)
(* ciphertext is stored that no later cleanup can find.                     *)
NoOrphanObject == \A u \in objects : u \in uploads \/ Registered(u)

(* Once start has answered, an open multipart upload (billed storage) has  *)
(* its session's row: both cleanups abort it before they delete the row.   *)
OpenMultipartTracked ==
  \A u \in Uploads : startPc[u] = "started" /\ multi[u] = "open" => u \in uploads

(* When the share's row is gone nothing of the share is left in R2 and     *)
(* nothing can come back: no object, no multipart upload that a complete   *)
(* request still under way could turn into one, no row.                    *)
DeletedShareLeavesNothing ==
  \A u \in Uploads : ShareOf[u] \in issued \ shares =>
    /\ u \notin objects /\ u \notin uploads /\ ~Registered(u)
    /\ startPc[u] = "started" => multi[u] # "open"

(* The object of a registered file goes only with its share's deletion, by *)
(* a cleaner that has read the file's row, or after its last download: in  *)
(* particular the delete that compensates for an oversized upload never    *)
(* hits a file another complete request has registered.                    *)
ObjectsLostOnlyByDeletion ==
  [][\A f \in files : target[f] \in objects \ objects' =>
       \/ f \in burning'
       \/ \E c \in Cleaners : cleanPc'[c] = "rows" /\ f \in snapFiles[c]]_vars

(* An object of a session that no file row names: the outcome of complete  *)
(* is unknown and deleteShare and deleteStaleUpload refuse to touch it     *)
(* (StorageReconciliationError).                                           *)
Unreconciled(u) == u \in uploads /\ u \in objects /\ ~Registered(u)

(* The cron cleanup gets rid of every expired share, unless an object of it *)
(* needs reconciliation.                                                    *)
ExpiredShareRemoved ==
  \A s \in Shares : s \in shares \cap expired ~>
    s \notin shares \/ \E u \in Uploads : ShareOf[u] = s /\ Unreconciled(u)

(* The cron cleanup gets rid of every session older than 24 hours, unless  *)
(* its object needs reconciliation.                                        *)
StaleUploadRemoved ==
  \A u \in Uploads : u \in uploads \cap stale ~> u \notin uploads \/ Unreconciled(u)

(* components/legal/TermsPage.tsx: a share whose retention period has      *)
(* passed is deleted automatically.                                        *)
ExpiredShareDeleted == \A s \in Shares : s \in shares \cap expired ~> s \notin shares

-----------------------------------------------------------------------------
(* The inductive invariant. *)

(* A session's row is out of a cleaner's way: nothing can turn its multipart *)
(* upload into an object any more, and an object it has become is a file.   *)
Retired(u) == multi[u] = "gone" /\ (u \in objects => Registered(u))

(* The foreign keys. *)
RowsHaveShare == /\ \A u \in uploads : ShareOf[u] \in shares
                 /\ \A f \in files : ShareOf[target[f]] \in shares

(* A session and its multipart upload are created once, in this order. *)
CreatedOnce ==
  /\ \A u \in Uploads : startPc[u] \in {"new", "shared"} => multi[u] = "none"
  /\ \A u \in uploads : startPc[u] \in {"started", "compensate", "failed"}
  /\ \A u \in objects : multi[u] = "gone"

(* Only one request completes a multipart upload, and only that request     *)
(* judges the size of the object and registers it.                          *)
OneWinner ==
  /\ \A r \in Requests : reqPc[r] # "new" =>
       target[r] \in Uploads /\ startPc[target[r]] = "started"
  /\ \A r \in Requests : reqPc[r] \in {"sized", "commit", "purge"} => r \in won
  /\ \A r \in won : /\ reqPc[r] \notin {"new", "found", "read"}
                    /\ multi[target[r]] = "gone"
  /\ \A r, q \in won : target[r] = target[q] => r = q
  /\ \A r \in Requests : reqPc[r] = "purge" => target[r] \notin objects
  /\ files \subseteq won
  /\ \A r \in files : reqPc[r] = "ok"

(* What a cleaner has established before it deletes rows. *)
CleanerKnows(c) ==
  /\ todo[c] \subseteq snapUps[c]
  /\ snapFiles[c] \subseteq won
  /\ \A u \in snapUps[c] : startPc[u] \in {"started", "compensate", "failed"}
  /\ cleanPc[c] \in {"refs", "abort", "head", "register", "rows"} =>
       \A u \in snapUps[c] \ todo[c] : Retired(u)
  /\ cleanPc[c] \in {"head", "register"} =>
       current[c] \in Uploads /\ multi[current[c]] = "gone"
  /\ cleanPc[c] = "rows" =>
       todo[c] = {} /\ job[c] \in Shares /\ objects \cap KeysOf(snapFiles[c]) = {}

BurnedObjectsGone == burning \subseteq won /\ \A f \in burning : target[f] \notin objects

(* What every reachable state satisfies and every step preserves. *)
StorageInv ==
  /\ TypeOK
  /\ RowsHaveShare
  /\ CreatedOnce
  /\ OneWinner
  /\ \A c \in Cleaners : CleanerKnows(c)
  /\ BurnedObjectsGone
  /\ NoOrphanObject
  /\ OpenMultipartTracked

-----------------------------------------------------------------------------
(* What the storage promises, as ShareCatalog states it. *)

Withdrawn(u) == \E r \in Requests : target[r] = u /\ answer[r] = r /\ r \notin files
Admitted(u) == \E r \in stamp : target[r] = u

ShareStatus == [s \in Shares |-> IF s \in shares THEN "live"
                                 ELSE IF s \in issued THEN "deleted" ELSE "unborn"]
Item(u) == IF Registered(u) THEN "published"
           ELSE IF Withdrawn(u) THEN "withdrawn"
           ELSE IF Admitted(u) THEN "admitted" ELSE "pending"
ItemStatus == [u \in Uploads |-> Item(u)]

Catalog == INSTANCE ShareCatalog WITH share <- ShareStatus, paused <- suspended,
                                      ended <- expired, item <- ItemStatus

(* What the implementation of the catalogue rests on besides StorageInv:   *)
(* only an accepted upload is registered, under its own request's name, and *)
(* a cleaner's snapshot holds registered files of the share it deletes.     *)
AcceptedOnce ==
  /\ stamp \subseteq won
  /\ \A r \in stamp : reqPc[r] # "sized"
  /\ \A r \in Requests : answer[r] = r => r \in stamp /\ reqPc[r] = "ok"
  /\ \A f \in files : answer[f] = f
  /\ \A c \in Cleaners : /\ \A f \in snapFiles[c] : ShareOf[target[f]] = job[c]
                         /\ cleanPc[c] \in {"idle", "files"} => snapFiles[c] = {}

(* The storage implements the catalogue: a file is published at most once,  *)
(* never into a share that is suspended or was expired when its upload was  *)
(* accepted, though both were checked several awaits earlier, and a deleted *)
(* share lists nothing and does not come back.                              *)
CatalogSpec == Catalog!Spec

=============================================================================
