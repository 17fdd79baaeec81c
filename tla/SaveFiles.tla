----------------------------- MODULE SaveFiles -----------------------------
(***************************************************************************)
(* Saving what a share holds (lib/download/useDownloadActions.ts,          *)
(* saveFile.ts, downloadAll.ts, zipDownload.ts, decrypt.ts,                *)
(* streamDownloadSaver.ts and public/download-sw.js): one click runs one   *)
(* job, which picks a way to the disk that the browser offers and falls    *)
(* back to the next.  A one-time file can be fetched once: a second fetch  *)
(* of the same click finds it gone.                                        *)
(***************************************************************************)
EXTENDS Naturals, Sequences

CONSTANTS Files,         \* the files of the share, in the order of the list
          OneTime,       \* those whose retention is one download
          MaxClicks,     \* bound: clicks ever made
          MaxSwitches    \* bound: times the service worker dies or takes over

ASSUME SaveFilesAssumption ==
    /\ Files \in Seq(STRING) /\ OneTime \subseteq {Files[i] : i \in DOMAIN Files}
    /\ MaxClicks \in Nat /\ MaxSwitches \in Nat

VARIABLES browser,     \* the pickers and sizes of this visit: what decides the way
          worker,      \* a service worker answers the page
          switches,
          stored,      \* files the server still hands out
          listed,      \* files the page still lists
          job,         \* the running click
          requested,   \* GET requests of this click, per file
          delivered,   \* files whole on disk, in a finished archive or in memory, or
                       \* being written by the browser from the worker's stream
          downloaded,  \* files shown as downloaded
          clicks

saveVars == <<browser, worker, switches, stored, listed, job, requested, delivered, downloaded, clicks>>

All == {Files[i] : i \in DOMAIN Files}
NoJob == [pc |-> "idle", kind |-> "none", sink |-> "none", todo |-> {}, held |-> {}, gone |-> FALSE]
NoRequests == [f \in All |-> 0]

SaveInit ==
    /\ browser \in [picker : BOOLEAN, folder : BOOLEAN, big : BOOLEAN, zip : BOOLEAN]
    /\ worker \in BOOLEAN /\ switches = 0
    /\ stored = All /\ listed = All /\ job = NoJob /\ requested = NoRequests
    /\ delivered = {} /\ downloaded = {} /\ clicks = 0

Same == UNCHANGED <<browser, worker, switches, clicks>>
NoFetch == UNCHANGED <<stored, requested>>

Go(j) == job' = j /\ UNCHANGED <<listed, delivered, downloaded>>
Fail(removed) == job' = NoJob /\ listed' = listed \ removed /\ UNCHANGED <<delivered, downloaded>>

Click(kind, files) ==
    /\ job = NoJob /\ clicks < MaxClicks /\ clicks' = clicks + 1
    /\ requested' = NoRequests
    /\ LET start == [NoJob EXCEPT !.kind = kind, !.todo = files]
       IN Go(CASE kind = "preview" -> [start EXCEPT !.pc = "fetch", !.sink = "memory"]
               [] kind # "preview" /\ browser.big /\ browser.picker /\ (kind = "all" => browser.zip) ->
                    [start EXCEPT !.pc = "pick"]
               [] OTHER -> [start EXCEPT !.pc = "ping"])
    /\ UNCHANGED <<browser, worker, switches, stored>>

DownloadFile(f) == f \in listed /\ Click("one", {f})
DownloadAll == listed # {} /\ Click("all", listed)
\* openPreview and canPreviewFile: no preview of a one-time file.
OpenPreview(f) == f \in listed \ OneTime /\ Click("preview", {f})

\* downloadAllFiles after its streaming routes: a folder, then memory, then a refusal.
AfterWorker(j) ==
    IF browser.big /\ browser.folder THEN [j EXCEPT !.pc = "folder"]
    ELSE [j EXCEPT !.pc = "fetch", !.sink = "memory"]

\* The save dialogue: a place is chosen, the user cancels, or it cannot be opened.
PickerAnswers ==
    /\ job.pc = "pick"
    /\ \/ Go([job EXCEPT !.pc = "fetch", !.sink = "disk"])
       \/ Go(NoJob)
       \/ job.kind = "one" /\ Go([job EXCEPT !.pc = "ping"])
    /\ Same /\ NoFetch

FolderAnswers ==
    /\ job.pc = "folder"
    /\ Go([job EXCEPT !.pc = "fetch", !.sink = "folder"]) \/ Go(NoJob)
    /\ Same /\ NoFetch

\* canSaveViaServiceWorker: the worker is asked before anything is fetched.
PingWorker ==
    /\ job.pc = "ping"
    /\ LET toWorker == worker /\ (job.kind = "all" => browser.zip)
       IN Go(CASE toWorker /\ job.kind = "all" -> [job EXCEPT !.pc = "handoff", !.sink = "worker"]
               [] toWorker /\ job.kind = "one" -> [job EXCEPT !.pc = "fetch", !.sink = "worker"]
               [] ~toWorker /\ job.kind = "all" -> AfterWorker(job)
               [] OTHER -> [job EXCEPT !.pc = "fetch", !.sink = "memory"])
    /\ Same /\ NoFetch

\* Too large for the memory of a tab that has no other way: nothing is fetched.
RefuseTooLarge ==
    /\ job.pc = "fetch" /\ job.kind = "all" /\ job.sink = "memory" /\ job.held = {}
    /\ browser.big /\ requested = NoRequests
    /\ Fail({}) /\ Same /\ NoFetch

\* The files still to fetch are taken in the order of the list.
Place(f) == CHOOSE i \in DOMAIN Files : Files[i] = f
NextFile == CHOOSE f \in job.todo : \A g \in job.todo : Place(f) <= Place(g)

\* GET /api/file/[fileId]; the server gives a one-time file away with it.
FetchFile ==
    /\ job.pc = "fetch" /\ job.todo # {} /\ NextFile \in stored
    /\ LET f == NextFile
       IN /\ requested' = [requested EXCEPT ![f] = @ + 1]
          /\ stored' = stored \ (OneTime \cap {f})
          /\ Go([job EXCEPT !.pc = IF job.kind = "one" /\ job.sink = "worker" THEN "handoff" ELSE "receive"])
    /\ Same

\* 404: an archive being streamed is abandoned, a folder or an archive in memory goes on without.
FileGone ==
    /\ job.pc = "fetch" /\ job.todo # {} /\ NextFile \notin stored
    /\ LET f == NextFile
       IN /\ requested' = [requested EXCEPT ![f] = @ + 1]
          /\ IF job.kind = "all" /\ job.sink \in {"folder", "memory"}
             THEN /\ job' = [job EXCEPT !.todo = @ \ {NextFile}, !.gone = TRUE]
                  /\ listed' = listed \ {f} /\ UNCHANGED <<delivered, downloaded>>
             ELSE Fail({f})
    /\ Same /\ UNCHANGED stored

\* The body breaks off, does not decrypt or cannot be written.
ReceiveFails ==
    /\ job.pc \in {"fetch", "receive"} /\ job.todo # {}
    /\ Fail({}) /\ Same /\ NoFetch

\* The body has arrived whole; a file in a folder is on disk at once.
Receive ==
    /\ job.pc = "receive"
    /\ job' = [job EXCEPT !.pc = "fetch", !.todo = @ \ {NextFile}, !.held = @ \cup {NextFile}]
    /\ delivered' = IF job.sink = "folder" THEN delivered \cup {NextFile} ELSE delivered
    /\ UNCHANGED <<listed, downloaded>> /\ Same /\ NoFetch

\* The job has what it could get: it is closed, and shown as downloaded when nothing was missing.
Finish ==
    /\ job.pc = "fetch" /\ job.todo = {}
    /\ IF job.held = {} THEN Fail({})
       ELSE /\ job' = NoJob /\ UNCHANGED listed
            /\ delivered' = IF job.kind = "preview" THEN delivered ELSE delivered \cup job.held
            /\ downloaded' = IF job.kind = "preview" \/ job.gone THEN downloaded
                             ELSE IF job.kind = "all" THEN listed ELSE downloaded \cup job.held
    /\ Same /\ NoFetch

\* saveViaServiceWorker: the worker takes the stream and answers with its address.
HandOff ==
    /\ job.pc = "handoff" /\ worker
    /\ IF job.kind = "all" THEN Go([job EXCEPT !.pc = "fetch"])
       ELSE /\ job' = NoJob /\ UNCHANGED listed
            /\ delivered' = delivered \cup {NextFile}
            /\ downloaded' = downloaded \cup {NextFile}
    /\ Same /\ NoFetch

\* Mutant: a file whose hand-off failed is always fetched again.
RefetchAnything(f) == TRUE

\* Only a file that may be fetched again falls back to a Blob.
MayRefetch(f) == f \notin OneTime

\* The address does not come in time, or the worker cannot be reached.
HandOffFails ==
    /\ job.pc = "handoff"
    /\ IF job.kind = "all" THEN Go(AfterWorker(job))
       ELSE IF MayRefetch(NextFile) THEN Go([job EXCEPT !.pc = "fetch", !.sink = "memory"])
       ELSE Fail({})
    /\ Same /\ NoFetch

WorkerSwitches ==
    /\ switches < MaxSwitches /\ switches' = switches + 1 /\ worker' = ~worker
    /\ UNCHANGED <<browser, stored, listed, job, requested, delivered, downloaded, clicks>>

\* The file expires, or another visitor takes it.
FileVanishes(f) ==
    /\ f \in stored /\ stored' = stored \ {f}
    /\ UNCHANGED <<browser, worker, switches, listed, job, requested, delivered, downloaded, clicks>>

SaveNext ==
    \/ \E f \in All : DownloadFile(f) \/ OpenPreview(f) \/ FileVanishes(f)
    \/ DownloadAll \/ PickerAnswers \/ FolderAnswers \/ PingWorker \/ RefuseTooLarge
    \/ FetchFile \/ FileGone \/ ReceiveFails \/ Receive \/ Finish
    \/ HandOff \/ HandOffFails \/ WorkerSwitches

SaveSpec == SaveInit /\ [][SaveNext]_saveVars

(* A click asks for a one-time file at most once, whichever ways it falls back through - so it    *)
(* never finds it gone through its own doing - and a file is shown as downloaded only when it was *)
(* received whole or its stream was taken over by the browser                                     *)
(* (saveFile.ts 311-324, downloadAll.ts 170-187, useDownloadActions.ts 94-103, 189-202).          *)
OneRequestPerClick ==
    /\ \A f \in OneTime : requested[f] <= 1
    /\ downloaded \subseteq delivered
=============================================================================
