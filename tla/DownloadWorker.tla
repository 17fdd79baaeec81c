--------------------------- MODULE DownloadWorker ---------------------------
(***************************************************************************)
(* The hand-over of a decrypted stream to the download service worker      *)
(* (lib/download/streamDownloadSaver.ts, public/download-sw.js).  The page *)
(* transfers the stream and waits for an address; a hidden frame opened at *)
(* that address makes the worker answer with the stream, which the browser *)
(* writes to the disk.  Three timers run against this: the page's wait for *)
(* the address, the worker's life of an unclaimed stream and the frame's;  *)
(* and the browser may end the worker, whose map of streams is in memory.  *)
(***************************************************************************)
EXTENDS Naturals

CONSTANTS Streams,    \* hand-overs, one per saved file or archive
          MaxDeaths   \* bound: times the browser ends the worker

ASSUME WorkerAssumption == MaxDeaths \in Nat

VARIABLES saver,      \* saveViaServiceWorker of each stream
          offer,      \* the message with the stream: "none", "sent" or "handled"
          giveUp,     \* the abort message, likewise
          address,    \* the worker's answer is on its way to the page
          notice,     \* { done: true } is on its way to the page
          pending,    \* pendingDownloads; an entry's timer runs as long as it is there
          frame,      \* the hidden frame
          stream,     \* the decrypted stream itself
          deaths

workerVars == <<saver, offer, giveUp, address, notice, pending, frame, stream, deaths>>

WorkerInit ==
    /\ saver = [s \in Streams |-> "idle"]
    /\ offer = [s \in Streams |-> "none"] /\ giveUp = [s \in Streams |-> "none"]
    /\ address = [s \in Streams |-> FALSE] /\ notice = [s \in Streams |-> FALSE]
    /\ pending = {} /\ frame = [s \in Streams |-> "none"]
    /\ stream = [s \in Streams |-> "ours"] /\ deaths = 0

(***************************************************************************)
(* The page                                                                *)
(***************************************************************************)
HandOver(s) ==
    /\ saver[s] = "idle" /\ saver' = [saver EXCEPT ![s] = "waiting"]
    /\ offer' = [offer EXCEPT ![s] = "sent"] /\ stream' = [stream EXCEPT ![s] = "held"]
    /\ UNCHANGED <<giveUp, address, notice, pending, frame, deaths>>

\* No worker controls the page any more: nothing is transferred.
NoController(s) ==
    /\ saver[s] = "idle" /\ saver' = [saver EXCEPT ![s] = "failed"]
    /\ UNCHANGED <<offer, giveUp, address, notice, pending, frame, stream, deaths>>

\* The address in time: the frame is opened, and the file counts as being saved.
OpenFrame(s) ==
    /\ saver[s] = "waiting" /\ address[s]
    /\ saver' = [saver EXCEPT ![s] = "started"] /\ address' = [address EXCEPT ![s] = FALSE]
    /\ frame' = [frame EXCEPT ![s] = "loading"]
    /\ UNCHANGED <<offer, giveUp, notice, pending, stream, deaths>>

\* DOWNLOAD_URL_TIMEOUT_MS: the worker is told to let go, and the port is closed.
AbandonHandOver(s) ==
    /\ saver[s] = "waiting" /\ saver' = [saver EXCEPT ![s] = "failed"]
    /\ giveUp' = [giveUp EXCEPT ![s] = "sent"] /\ address' = [address EXCEPT ![s] = FALSE]
    /\ UNCHANGED <<offer, notice, pending, frame, stream, deaths>>

\* The notice ends the frame after a grace; a closed port hears nothing.
HearDone(s) ==
    /\ notice[s] /\ notice' = [notice EXCEPT ![s] = FALSE]
    /\ frame' = [frame EXCEPT ![s] = IF saver[s] = "started" /\ @ # "removed" THEN "closing" ELSE @]
    /\ UNCHANGED <<saver, offer, giveUp, address, pending, stream, deaths>>

\* HIDDEN_IFRAME_COMPLETION_GRACE_MS after the notice.
GraceEnds(s) ==
    /\ frame[s] = "closing" /\ frame' = [frame EXCEPT ![s] = "removed"]
    /\ UNCHANGED <<saver, offer, giveUp, address, notice, pending, stream, deaths>>

\* HIDDEN_IFRAME_FALLBACK_TTL_MS: an hour without any notice.
FrameExpires(s) ==
    /\ frame[s] \in {"loading", "open"} /\ ~notice[s]
    /\ frame' = [frame EXCEPT ![s] = "removed"]
    /\ UNCHANGED <<saver, offer, giveUp, address, notice, pending, stream, deaths>>

(***************************************************************************)
(* The worker                                                              *)
(***************************************************************************)
\* releasePending: what is still in the map is cancelled, and the page is told.
Release(s) ==
    IF s \in pending
    THEN /\ pending' = pending \ {s} /\ notice' = [notice EXCEPT ![s] = TRUE]
         /\ stream' = [stream EXCEPT ![s] = IF @ = "held" THEN "released" ELSE "cut off"]
    ELSE UNCHANGED <<pending, notice, stream>>

\* Messages of one page arrive in the order they were sent.
TakeStream(s) ==
    /\ offer[s] = "sent" /\ offer' = [offer EXCEPT ![s] = "handled"]
    /\ pending' = pending \cup {s}
    /\ address' = [address EXCEPT ![s] = saver[s] = "waiting"]
    /\ UNCHANGED <<saver, giveUp, notice, frame, stream, deaths>>

TakeGiveUp(s) ==
    /\ offer[s] = "handled" /\ giveUp[s] = "sent" /\ giveUp' = [giveUp EXCEPT ![s] = "handled"]
    /\ Release(s) /\ UNCHANGED <<saver, offer, address, frame, deaths>>

\* PENDING_TTL_MS: nobody came for the stream.
Unclaimed(s) ==
    /\ s \in pending /\ Release(s) /\ UNCHANGED <<saver, offer, giveUp, address, frame, deaths>>

\* Mutant: the entry and its timer stay when the frame takes the stream.
ClaimAndKeep(s) == pending' = pending

\* The entry leaves the map and its timer is stopped.
Claim(s) == pending' = pending \ {s}

\* The frame's request: answered with the stream as an attachment, or not found.
AnswerFrame(s) ==
    /\ frame[s] = "loading" /\ frame' = [frame EXCEPT ![s] = "open"]
    /\ IF s \in pending THEN Claim(s) /\ stream' = [stream EXCEPT ![s] = "read"]
       ELSE UNCHANGED <<pending, stream>>
    /\ UNCHANGED <<saver, offer, giveUp, address, notice, deaths>>

\* The monitored stream comes to its end, or the browser or the page gives it up midway.
StreamEnds(s) ==
    /\ stream[s] = "read" /\ notice' = [notice EXCEPT ![s] = TRUE]
    /\ \E end \in {"saved", "broken"} : stream' = [stream EXCEPT ![s] = end]
    /\ UNCHANGED <<saver, offer, giveUp, address, pending, frame, deaths>>

\* The browser ends the worker with all it holds; the next message starts a new one.
WorkerDies ==
    /\ deaths < MaxDeaths /\ deaths' = deaths + 1 /\ pending' = {}
    /\ stream' = [s \in Streams |-> IF s \in pending \/ stream[s] = "read" THEN "lost" ELSE stream[s]]
    /\ UNCHANGED <<saver, offer, giveUp, address, notice, frame>>

WorkerNext ==
    \/ \E s \in Streams :
          \/ HandOver(s) \/ NoController(s) \/ OpenFrame(s) \/ AbandonHandOver(s)
          \/ HearDone(s) \/ GraceEnds(s) \/ FrameExpires(s)
          \/ TakeStream(s) \/ TakeGiveUp(s) \/ Unclaimed(s) \/ AnswerFrame(s) \/ StreamEnds(s)
    \/ WorkerDies

WorkerSpec == WorkerInit /\ [][WorkerNext]_workerVars

(* A download the browser has begun is never cut off by a timer, a late give-up or the removal of *)
(* its frame (but for the frame's own hour); a stream its page gave up, and now fetches again, is *)
(* never saved beside the second copy; and no stream stays open in a worker with nobody to claim  *)
(* or release it (download-sw.js 27-41, 57-88, 122-141; streamDownloadSaver.ts 155-184, 238-256). *)
HandedOverOnce ==
    \A s \in Streams :
        /\ stream[s] # "cut off"
        /\ stream[s] = "read" => saver[s] = "started" /\ frame[s] \notin {"none", "loading", "closing"}
        /\ stream[s] = "held" => s \in pending \/ offer[s] = "sent"
=============================================================================
