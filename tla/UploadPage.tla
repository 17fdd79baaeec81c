----------------------------- MODULE UploadPage -----------------------------
(***************************************************************************)
(* The upload page of one tab (lib/upload/useUploadSession.tsx,            *)
(* lib/upload/uploadFile.ts): a queue of files sent one after another to   *)
(* one share under one key, across failures, retries, files added to a     *)
(* share already shown, and a form that is reset.  Any call may fail, and  *)
(* the server may have done what the page believes has failed.             *)
(***************************************************************************)
EXTENDS Naturals, Sequences

CONSTANTS MaxFiles,   \* bound: files in the queue at once
          MaxKeys,    \* bound: keys ever generated, one for each form
          MaxShares   \* bound: shares ever created

ASSUME UploadPageAssumption == MaxFiles \in Nat /\ MaxKeys \in Nat /\ MaxShares \in Nat

VARIABLES queue,        \* queueRef: the files of this form, sent or not
          key,          \* keyPromiseRef, 0 when no key has been asked for
          keysMade,
          shareId,      \* shareIdRef, 0 until a file is known to be stored
          usePassword,
          passwordProtected,
          shareUrl,     \* the link shown, with the key it carries
          drop,         \* dropped files being read, with what the page showed at the drop
          send,         \* the run of upload()
          shares        \* the server's shares

pageVars == <<queue, key, keysMade, shareId, usePassword, passwordProtected, shareUrl,
              drop, send, shares>>

NoStream == [key |-> 0, whole |-> TRUE]
NoLink == [share |-> 0, key |-> 0]
NoDrop == [held |-> FALSE, shown |-> FALSE, busy |-> FALSE]
NoSend == [pc |-> "idle", at |-> 0, isNewShare |-> FALSE, wrapped |-> FALSE, to |-> 0, body |-> NoStream]

Uploading == send.pc # "idle"
Pending(q) == {i \in DOMAIN q : ~q[i].completed}
FirstPending(q) == CHOOSE i \in Pending(q) : \A j \in Pending(q) : i <= j

UploadPageInit ==
    /\ queue = <<>> /\ key = 0 /\ keysMade = 0 /\ shareId = 0
    /\ usePassword = FALSE /\ passwordProtected = FALSE
    /\ shareUrl = NoLink /\ drop = NoDrop /\ send = NoSend /\ shares = <<>>

\* The first chunk of the first file still to be sent is encrypted in advance.
Prepare(q, k) ==
    IF Pending(q) = {} \/ q[FirstPending(q)].prepared.key # 0 THEN q
    ELSE [q EXCEPT ![FirstPending(q)].prepared = [key |-> k, whole |-> TRUE]]

\* addFiles, called with the shareUrl and isUploading of the render it was made in.
AddFile(shown, busy) ==
    /\ Len(queue) < MaxFiles /\ (key = 0 => keysMade < MaxKeys)
    /\ key' = IF key = 0 THEN keysMade + 1 ELSE key
    /\ keysMade' = IF key = 0 THEN keysMade + 1 ELSE keysMade
    /\ shareUrl' = IF shown /\ ~busy THEN NoLink ELSE shareUrl
    /\ LET added == Append(queue, [name |-> key', prepared |-> NoStream, completed |-> FALSE])
       IN queue' = IF ~busy /\ Pending(queue) = {} THEN Prepare(added, key') ELSE added

Select == /\ ~Uploading /\ shareUrl = NoLink /\ AddFile(FALSE, FALSE)
          /\ UNCHANGED <<shareId, usePassword, passwordProtected, drop, send, shares>>

\* Dropped entries are read asynchronously, so the page may have moved on when they are added.
DropFiles ==
    /\ ~drop.held
    /\ drop' = [held |-> TRUE, shown |-> shareUrl # NoLink, busy |-> Uploading]
    /\ UNCHANGED <<queue, key, keysMade, shareId, usePassword, passwordProtected, shareUrl, send, shares>>

AddDropped ==
    /\ drop.held /\ drop' = NoDrop
    /\ IF Uploading THEN UNCHANGED <<queue, key, keysMade, shareUrl>> ELSE AddFile(drop.shown, drop.busy)
    /\ UNCHANGED <<shareId, usePassword, passwordProtected, send, shares>>

\* The encryption of a prepared chunk fails: it is forgotten.
PrepareFails(i) ==
    /\ i \in DOMAIN queue /\ queue[i].prepared.key # 0
    /\ queue' = [queue EXCEPT ![i].prepared = NoStream]
    /\ UNCHANGED <<key, keysMade, shareId, usePassword, passwordProtected, shareUrl, drop, send, shares>>

\* The option is offered while nothing runs, no link is shown and no share exists.
TogglePassword ==
    /\ ~Uploading /\ shareUrl = NoLink /\ shareId = 0
    /\ usePassword' = ~usePassword
    /\ UNCHANGED <<queue, key, keysMade, shareId, passwordProtected, shareUrl, drop, send, shares>>

Upload ==
    /\ ~Uploading /\ shareUrl = NoLink /\ Pending(queue) # {}
    /\ queue' = Prepare(queue, key)
    /\ send' = [NoSend EXCEPT !.pc = "start", !.at = FirstPending(queue), !.isNewShare = (shareId = 0),
                              !.wrapped = (shareId = 0) /\ usePassword]
    /\ UNCHANGED <<key, keysMade, shareId, usePassword, passwordProtected, shareUrl, drop, shares>>

\* Mutant: the prepared generator is left on the item and read on by the next attempt (issue #58).
StreamKept(item) == [body |-> item.prepared, left |-> [item.prepared EXCEPT !.whole = FALSE]]

\* createChunkStream: the prepared stream is handed over once, otherwise the file is read anew.
ChunkStream(item) ==
    [body |-> IF item.prepared.key # 0 THEN item.prepared ELSE [key |-> key, whole |-> TRUE],
     left |-> NoStream]

\* /api/upload/start is answered: a new share keeps the wrapped key, an existing one is joined.
Start ==
    /\ send.pc = "start"
    /\ shareId = 0 => Len(shares) < MaxShares
    /\ shares' = IF shareId # 0 THEN shares
                 ELSE Append(shares, [wrapped |-> IF send.wrapped THEN key ELSE 0, files |-> {}])
    /\ LET stream == ChunkStream(queue[send.at])
       IN /\ send' = [send EXCEPT !.pc = "chunks", !.to = IF shareId # 0 THEN shareId ELSE Len(shares'),
                                  !.body = stream.body]
          /\ queue' = [queue EXCEPT ![send.at].prepared = stream.left]
    /\ UNCHANGED <<key, keysMade, shareId, usePassword, passwordProtected, shareUrl, drop>>

\* The parts are stored and /api/upload/complete takes the file into the share.
Complete ==
    /\ send.pc = "chunks"
    /\ shares' = [shares EXCEPT ![send.to].files = @ \cup
                    {[item |-> send.at, name |-> queue[send.at].name, body |-> send.body]}]
    /\ send' = [send EXCEPT !.pc = "answer"]
    /\ UNCHANGED <<queue, key, keysMade, shareId, usePassword, passwordProtected, shareUrl, drop>>

\* The page learns it: the share is joined from now on, and the next file is prepared.
Completed ==
    /\ send.pc = "answer"
    /\ shareId' = send.to
    /\ passwordProtected' = (passwordProtected \/ (send.isNewShare /\ send.wrapped))
    /\ LET done == [queue EXCEPT ![send.at].completed = TRUE]
       IN /\ queue' = Prepare(done, key)
          /\ send' = IF Pending(done) = {} THEN [send EXCEPT !.pc = "link"]
                     ELSE [send EXCEPT !.pc = "start", !.at = FirstPending(done)]
    /\ UNCHANGED <<key, keysMade, usePassword, shareUrl, drop, shares>>

ShowLink ==
    /\ send.pc = "link" /\ send' = NoSend
    /\ shareUrl' = [share |-> shareId, key |-> IF passwordProtected THEN 0 ELSE key]
    /\ UNCHANGED <<queue, key, keysMade, shareId, usePassword, passwordProtected, drop, shares>>

\* A call fails, or its answer is lost: the error is shown and the queue stays for a retry.
UploadFails ==
    /\ send.pc \in {"start", "chunks", "answer"} /\ send' = NoSend
    /\ UNCHANGED <<queue, key, keysMade, shareId, usePassword, passwordProtected, shareUrl, drop, shares>>

ResetForm ==
    /\ shareUrl # NoLink /\ ~Uploading
    /\ queue' = <<>> /\ key' = 0 /\ shareId' = 0 /\ usePassword' = FALSE
    /\ passwordProtected' = FALSE /\ shareUrl' = NoLink
    /\ UNCHANGED <<keysMade, drop, send, shares>>

UploadPageNext ==
    \/ Select \/ DropFiles \/ AddDropped \/ TogglePassword \/ Upload
    \/ Start \/ Complete \/ Completed \/ ShowLink \/ UploadFails \/ ResetForm
    \/ \E i \in 1..MaxFiles : PrepareFails(i)

UploadPageSpec == UploadPageInit /\ [][UploadPageNext]_pageVars

(* The link shown opens the share it names: it carries the key exactly when the server keeps no  *)
(* password-wrapped one, that key opens every name and every body stored in the share, every     *)
(* body is the whole file, and every file the page counts as sent is in it - after any failures, *)
(* retries, drops and resets before (useUploadSession.tsx 461-472, issue #58).                   *)
LinkOpensAllFiles ==
    shareUrl # NoLink =>
        LET share == shares[shareUrl.share]
            opens == IF shareUrl.key # 0 THEN shareUrl.key ELSE share.wrapped
        IN /\ (shareUrl.key = 0) <=> (share.wrapped # 0)
           /\ \A f \in share.files : f.name = opens /\ f.body = [key |-> opens, whole |-> TRUE]
           /\ \A i \in DOMAIN queue : queue[i].completed => \E f \in share.files : f.item = i
=============================================================================
