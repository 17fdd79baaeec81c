------------------------- MODULE ShareStorageProofs -------------------------
(***************************************************************************)
(* ShareStorage keeps StorageInv, for all sets of shares, sessions,        *)
(* requests and cleaners, any page limits and any number of faults; what   *)
(* the storage must never lose, leak or list follows from it.              *)
(***************************************************************************)
EXTENDS ShareStorage, TLAPS

USE DEF vars, d1Vars, timeVars, r2Vars, reqVars, cleanVars

(* A page of rows holds only such rows. *)
LEMMA PageSubset == ASSUME NEW rows, NEW n, NEW P \in Page(rows, n) PROVE P \subseteq rows
BY DEF Page

(* A file row names the object's only winner, so an object has one row. *)
LEMMA OneRowPerObject ==
  ASSUME TypeOK, OneWinner, NEW f \in files, NEW r \in won, target[f] = target[r]
  PROVE  f = r
BY DEF TypeOK, OneWinner

LEMMA InitInv == Init => StorageInv
BY NoneAssumption DEF Init, StorageInv, TypeOK, RowsHaveShare, CreatedOnce, OneWinner,
   CleanerKnows, BurnedObjectsGone, NoOrphanObject, OpenMultipartTracked, KeysOf,
   StartStates, RequestStates, CleanStates

-----------------------------------------------------------------------------
(* Start and the parts: a session's row is there before the client learns  *)
(* the session's id, so no request can complete a multipart upload that    *)
(* has no row.                                                             *)
LEMMA StartKeepsInv ==
  ASSUME StorageInv, NEW u \in Uploads,
         StartStep(u) \/ CrashStart(u) \/ StorePart(u) \/ RecordPart(u) \/ GrowStale(u)
  PROVE  StorageInv'
<1> USE DEF StorageInv, TypeOK, RowsHaveShare, CreatedOnce, OneWinner, CleanerKnows,
            BurnedObjectsGone, NoOrphanObject, OpenMultipartTracked, Registered, Retired,
            KeysOf, StartStates, RequestStates, CleanStates
<1>1. CASE CreateShare(u)
  <2>1. ShareOf[u] \in Shares
    BY ShareOfAssumption
  <2>2. (shares \subseteq issued /\ issued \subseteq Shares)'
    BY <1>1, <2>1 DEF CreateShare
  <2>3. TypeOK'
    BY <1>1, <2>2 DEF CreateShare
  <2>4. RowsHaveShare'
    BY <1>1 DEF CreateShare
  <2> QED
    BY <1>1, <2>3, <2>4, SMTT(20) DEF CreateShare
<1>2. CASE JoinShare(u)
  BY <1>2 DEF JoinShare
<1>3. CASE CreateMultipart(u)
  <2>1. multi[u] = "none" /\ u \notin objects
    BY <1>3 DEF CreateMultipart
  <2> QED
    BY <1>3, <2>1, SMTT(20) DEF CreateMultipart
<1>4. CASE InsertUpload(u)
  BY <1>4, SMTT(20) DEF InsertUpload
<1>5. CASE InsertUploadFails(u)
  BY <1>5, SMTT(20) DEF InsertUploadFails, Fault
<1>6. CASE AbortNewMultipart(u)
  BY <1>6, SMTT(20) DEF AbortNewMultipart
<1>7. CASE CrashStart(u)
  BY <1>7, SMTT(20) DEF CrashStart, Fault
<1>8. CASE StorePart(u)
  BY <1>8 DEF StorePart
<1>9. CASE RecordPart(u)
  BY <1>9 DEF RecordPart
<1>10. CASE GrowStale(u)
  BY <1>10 DEF GrowStale
<1> QED
  BY <1>1, <1>2, <1>3, <1>4, <1>5, <1>6, <1>7, <1>8, <1>9, <1>10 DEF StartStep

-----------------------------------------------------------------------------
(* Complete: the one request that completes the multipart upload keeps the *)
(* session's row until a file row names the object or the object is gone.  *)
LEMMA CompleteKeepsInv ==
  ASSUME StorageInv, NEW r \in Requests,
         \/ RequestStep(r) \/ CrashRequest(r)
         \/ \E u \in Uploads : Lookup(r, u)
  PROVE  StorageInv'
<1> USE DEF StorageInv, TypeOK, RowsHaveShare, CreatedOnce, OneWinner, CleanerKnows,
            BurnedObjectsGone, NoOrphanObject, OpenMultipartTracked, Registered, Retired,
            KeysOf, StartStates, RequestStates, CleanStates
<1>1. CASE \E u \in Uploads : Lookup(r, u)
  <2>1. PICK u \in Uploads : Lookup(r, u)
    BY <1>1
  <2>2. r \notin won /\ r \notin files
    BY <2>1 DEF Lookup
  <2> QED
    BY <2>1, <2>2, SMTT(20) DEF Lookup
<1>2. CASE ReadParts(r)
  BY <1>2, SMTT(20) DEF ReadParts
<1>3. CASE CompleteMultipart(r)
  (* The session is tracked, and nobody has won it yet. *)
  <2>1. /\ target[r] \in uploads
        /\ \A q \in won : target[q] # target[r]
    BY <1>3 DEF CompleteMultipart
  <2>2. TypeOK' /\ CreatedOnce'
    BY <1>3, <2>1, SMTT(20) DEF CompleteMultipart
  <2>3. OneWinner'
    BY <1>3, <2>1, SMTT(20) DEF CompleteMultipart
  <2>4. ASSUME NEW c \in Cleaners PROVE CleanerKnows(c)'
    BY <1>3, <2>1, SMTT(20) DEF CompleteMultipart
  <2>5. NoOrphanObject' /\ OpenMultipartTracked' /\ RowsHaveShare' /\ BurnedObjectsGone'
    BY <1>3, <2>1, SMTT(20) DEF CompleteMultipart
  <2> QED
    BY <2>2, <2>3, <2>4, <2>5
<1>4. CASE MultipartMissing(r)
  BY <1>4, SMTT(20) DEF MultipartMissing
<1>5. CASE AcceptSize(r)
  BY <1>5, SMTT(20) DEF AcceptSize
<1>6. CASE PurgeObject(r)
  BY <1>6, SMTT(20) DEF PurgeObject
<1>7. CASE PurgeRows(r)
  BY <1>7, SMTT(20) DEF PurgeRows
<1>8. CASE Commit(r)
  (* The multipart upload is spent, and the session's row goes only when a *)
  (* file row for its key is there.                                        *)
  <2>1. r \in won /\ multi[target[r]] = "gone" /\ target[r] \in Uploads
    BY <1>8 DEF Commit
  <2>2. /\ files \subseteq files' /\ files' \subseteq files \cup {r}
        /\ \A u \in uploads \ uploads' : u = target[r] /\ Registered(u)'
    BY <1>8 DEF Commit
  <2>3. TypeOK' /\ CreatedOnce' /\ OneWinner'
    BY <1>8, <2>1, SMTT(20) DEF Commit
  <2>4. RowsHaveShare'
    BY <1>8 DEF Commit, InsertAllowed
  <2>5. NoOrphanObject' /\ OpenMultipartTracked'
    BY <1>8, <2>1, <2>2 DEF Commit
  <2>6. (\A c \in Cleaners : CleanerKnows(c))' /\ BurnedObjectsGone'
    BY <1>8, <2>2 DEF Commit
  <2> QED
    BY <2>3, <2>4, <2>5, <2>6
<1>9. CASE AnswerExisting(r)
  BY <1>9, SMTT(20) DEF AnswerExisting
<1>10. CASE CrashRequest(r)
  BY <1>10, SMTT(20) DEF CrashRequest, Fault
<1> QED
  BY <1>1, <1>2, <1>3, <1>4, <1>5, <1>6, <1>7, <1>8, <1>9, <1>10 DEF RequestStep

-----------------------------------------------------------------------------
(* Cleanup: a session's row goes only when the session is retired, and a   *)
(* file's row only when its object is gone.                                *)
LEMMA CleanKeepsInv ==
  ASSUME StorageInv, NEW c \in Cleaners,
         \/ CleanStep(c) \/ FailClean(c)
         \/ \E s \in Shares : BeginShare(c, s)
         \/ \E u \in Uploads : BeginStale(c, u)
  PROVE  StorageInv'
<1> USE DEF StorageInv, TypeOK, RowsHaveShare, CreatedOnce, OneWinner, CleanerKnows,
            BurnedObjectsGone, NoOrphanObject, OpenMultipartTracked, Registered, Retired,
            KeysOf, StartStates, RequestStates, CleanStates
<1>1. CASE \E s \in Shares : BeginShare(c, s)
  BY <1>1, SMTT(20) DEF BeginShare
<1>2. CASE \E u \in Uploads : BeginStale(c, u)
  BY <1>2, SMTT(20) DEF BeginStale
<1>3. CASE ReadFiles(c)
  BY <1>3, PageSubset, SMTT(20) DEF ReadFiles, FilesOf
<1>4. CASE ReadUploads(c)
  <2>1. PICK U \in Page(UploadsOf(job[c]), UploadLimit) :
          /\ snapUps' = [snapUps EXCEPT ![c] = U]
          /\ todo' = [todo EXCEPT ![c] = U]
    BY <1>4 DEF ReadUploads
  <2>2. U \subseteq uploads
    BY PageSubset DEF UploadsOf
  <2> QED
    BY <1>4, <2>1, <2>2, SMTT(20) DEF ReadUploads
<1>5. CASE CheckReferences(c)
  BY <1>5, NoneAssumption, SMTT(20) DEF CheckReferences, Release
<1>6. CASE AbortMultipart(c)
  BY <1>6, SMTT(20) DEF AbortMultipart
<1>7. CASE HeadObject(c)
  <2>1. multi[current[c]] = "gone"
    BY <1>7 DEF HeadObject
  <2> QED
    BY <1>7, <2>1, SMTT(20) DEF HeadObject
<1>8. CASE CheckRegistered(c)
  BY <1>8, NoneAssumption, SMTT(20) DEF CheckRegistered, Release
<1>9. CASE DeleteObjects(c)
  BY <1>9, SMTT(20) DEF DeleteObjects
<1>10. CASE DeleteRows(c)
  (* The rows of a share that goes are all in the snapshot, ... *)
  <2> DEFINE gone == IF ShareRowDoomed(c) THEN {job[c]} ELSE {}
  <2>1. /\ \A u \in uploads : ShareOf[u] \in gone => u \in snapUps[c]
        /\ \A f \in files : ShareOf[target[f]] \in gone => f \in snapFiles[c]
    BY DEF ShareRowDoomed, FilesOf, UploadsOf
  <2>2. /\ uploads' = uploads \ snapUps[c] /\ files' = files \ snapFiles[c]
        /\ recorded' = {u \in recorded \ snapUps[c] : ShareOf[u] \notin gone}
        /\ shares' = shares \ gone /\ suspended' = suspended \ gone
    BY <1>10, <2>1 DEF DeleteRows, DropRows
  (* ... and a file whose object is there is not, so it stays. *)
  <2>3. \A f \in files : target[f] \in objects => f \in files'
    BY <1>10, <2>2 DEF DeleteRows
  <2>4. \A u \in snapUps[c] : Retired(u)
    BY <1>10 DEF DeleteRows
  <2>5. TypeOK'
    BY <1>10, <2>1, <2>2, NoneAssumption, SMTT(20) DEF DeleteRows, Release
  <2>6. RowsHaveShare'
    BY <1>10, <2>1, <2>2 DEF DeleteRows
  <2>7. CreatedOnce' /\ OneWinner' /\ BurnedObjectsGone'
    BY <1>10, <2>2 DEF DeleteRows
  <2>8. ASSUME NEW k \in Cleaners PROVE CleanerKnows(k)'
    BY <1>10, <2>2, <2>3, NoneAssumption, SMTT(20) DEF DeleteRows, Release
  <2>9. NoOrphanObject' /\ OpenMultipartTracked'
    BY <1>10, <2>2, <2>3, <2>4 DEF DeleteRows
  <2> QED
    BY <2>5, <2>6, <2>7, <2>8, <2>9
<1>11. CASE DeleteStaleRows(c)
  BY <1>11, NoneAssumption, SMTT(20) DEF DeleteStaleRows, DropRows, Release
<1>12. CASE FailClean(c)
  BY <1>12, NoneAssumption, SMTT(20) DEF FailClean, Fault, Release
<1> QED
  BY <1>1, <1>2, <1>3, <1>4, <1>5, <1>6, <1>7, <1>8, <1>9, <1>10, <1>11, <1>12
  DEF CleanStep

-----------------------------------------------------------------------------
(* One-time downloads, the administrator and the clock. *)
LEMMA OthersKeepInv ==
  ASSUME StorageInv,
         \/ \E f \in Requests : BurnObject(f) \/ BurnRow(f)
         \/ \E s \in Shares : Suspend(s) \/ Unsuspend(s) \/ Expire(s)
  PROVE  StorageInv'
<1> USE DEF StorageInv, TypeOK, RowsHaveShare, CreatedOnce, OneWinner, CleanerKnows,
            BurnedObjectsGone, NoOrphanObject, OpenMultipartTracked, Registered, Retired,
            KeysOf, StartStates, RequestStates, CleanStates
<1>1. CASE \E f \in Requests : BurnObject(f)
  BY <1>1, SMTT(20) DEF BurnObject
<1>2. CASE \E f \in Requests : BurnRow(f)
  BY <1>2, SMTT(20) DEF BurnRow
<1>3. CASE \E s \in Shares : Suspend(s) \/ Unsuspend(s) \/ Expire(s)
  BY <1>3, SMTT(20) DEF Suspend, Unsuspend, Expire
<1> QED
  BY <1>1, <1>2, <1>3

LEMMA NextKeepsInv == StorageInv /\ [Next]_vars => StorageInv'
<1> SUFFICES ASSUME StorageInv, [Next]_vars PROVE StorageInv'
  OBVIOUS
<1>1. CASE UNCHANGED vars
  BY <1>1 DEF StorageInv, TypeOK, RowsHaveShare, CreatedOnce, OneWinner, CleanerKnows,
              BurnedObjectsGone, NoOrphanObject, OpenMultipartTracked, Registered, Retired,
              KeysOf
<1>2. CASE Next
  BY <1>2, StartKeepsInv, CompleteKeepsInv, CleanKeepsInv, OthersKeepInv DEF Next
<1> QED
  BY <1>1, <1>2

(* Every reachable state satisfies the inductive invariant. *)
THEOREM StorageInvariant == Spec => []StorageInv
BY InitInv, NextKeepsInv, PTL DEF Spec

-----------------------------------------------------------------------------
(* Every variable keeps its type, whatever is interleaved. *)
THEOREM TypeCorrect == Spec => []TypeOK
<1>1. StorageInv => TypeOK
  BY DEF StorageInv
<1> QED
  BY <1>1, StorageInvariant, PTL

(* complete, the cleanups and the one-time deletion never leave an object  *)
(* in R2 that no row of D1 leads to.                                       *)
THEOREM NoOrphans == Spec => []NoOrphanObject
<1>1. StorageInv => NoOrphanObject
  BY DEF StorageInv
<1> QED
  BY <1>1, StorageInvariant, PTL

(* A session the client knows keeps its row as long as R2 holds its parts. *)
THEOREM OpenMultipartsTracked == Spec => []OpenMultipartTracked
<1>1. StorageInv => OpenMultipartTracked
  BY DEF StorageInv
<1> QED
  BY <1>1, StorageInvariant, PTL

(* Deleting a share's row is the end of everything under it. *)
THEOREM NothingOutlivesShare == Spec => []DeletedShareLeavesNothing
<1>1. StorageInv => DeletedShareLeavesNothing
  BY DEF StorageInv, DeletedShareLeavesNothing, RowsHaveShare, NoOrphanObject,
         OpenMultipartTracked, Registered
<1> QED
  BY <1>1, StorageInvariant, PTL

(* No step but a deletion of the share or a last download takes the object *)
(* of a registered file away.                                              *)
THEOREM RegisteredObjectsKept == Spec => ObjectsLostOnlyByDeletion
<1> DEFINE Kept == \A f \in files : target[f] \in objects \ objects' =>
                     \/ f \in burning'
                     \/ \E c \in Cleaners : cleanPc'[c] = "rows" /\ f \in snapFiles[c]
<1>1. ASSUME StorageInv, [Next]_vars PROVE Kept
  <2> SUFFICES ASSUME NEW f \in files, target[f] \in objects, target[f] \notin objects'
               PROVE  \/ f \in burning'
                      \/ \E c \in Cleaners : cleanPc'[c] = "rows" /\ f \in snapFiles[c]
    BY DEF Kept
  <2>1. TypeOK /\ OneWinner
    BY <1>1 DEF StorageInv
  <2>2. \/ \E r \in Requests : PurgeObject(r) \/ BurnObject(r)
        \/ \E c \in Cleaners : DeleteObjects(c)
    <3>1. ASSUME NEW u \in Uploads,
                 StartStep(u) \/ CrashStart(u) \/ StorePart(u) \/ RecordPart(u) \/ GrowStale(u)
          PROVE  FALSE
      BY <3>1 DEF StartStep, CreateShare, JoinShare, CreateMultipart, InsertUpload,
         InsertUploadFails, AbortNewMultipart, CrashStart, StorePart, RecordPart, GrowStale
    <3>2. ASSUME NEW r \in Requests,
                 \/ RequestStep(r) \/ CrashRequest(r) \/ BurnRow(r)
                 \/ \E u \in Uploads : Lookup(r, u)
          PROVE  PurgeObject(r)
      BY <3>2 DEF RequestStep, ReadParts, CompleteMultipart, MultipartMissing, AcceptSize,
         PurgeRows, Commit, AnswerExisting, CrashRequest, BurnRow, Lookup
    <3>3. ASSUME NEW c \in Cleaners,
                 \/ CleanStep(c) \/ FailClean(c)
                 \/ \E s \in Shares : BeginShare(c, s)
                 \/ \E u \in Uploads : BeginStale(c, u)
          PROVE  DeleteObjects(c)
      BY <3>3 DEF CleanStep, ReadFiles, ReadUploads, CheckReferences, AbortMultipart,
         HeadObject, CheckRegistered, DeleteRows, DeleteStaleRows, FailClean, BeginShare,
         BeginStale
    <3>4. ASSUME NEW s \in Shares, Suspend(s) \/ Unsuspend(s) \/ Expire(s)
          PROVE  FALSE
      BY <3>4 DEF Suspend, Unsuspend, Expire
    <3> QED
      BY <1>1, <3>1, <3>2, <3>3, <3>4 DEF Next
  <2>3. ASSUME NEW r \in Requests, PurgeObject(r)
        PROVE  f \in burning'
    <3>1. target[f] = target[r] /\ r \in won
      BY <2>1, <2>3 DEF PurgeObject, OneWinner
    <3> QED
      BY <2>1, <2>3, <3>1, OneRowPerObject DEF PurgeObject, OneWinner
  <2>4. ASSUME NEW r \in Requests, BurnObject(r)
        PROVE  f \in burning'
    BY <2>1, <2>4, OneRowPerObject DEF BurnObject, OneWinner
  <2>5. ASSUME NEW c \in Cleaners, DeleteObjects(c)
        PROVE  cleanPc'[c] = "rows" /\ f \in snapFiles[c]
    <3>1. PICK g \in snapFiles[c] : target[g] = target[f]
      BY <2>5 DEF DeleteObjects, KeysOf
    <3>2. g \in won
      BY <1>1, <2>5 DEF StorageInv, CleanerKnows
    <3>3. f = g
      BY <2>1, <3>1, <3>2, OneRowPerObject
    <3> QED
      BY <2>1, <2>5, <3>3 DEF DeleteObjects, TypeOK
  <2> QED
    BY <2>2, <2>3, <2>4, <2>5
<1> QED
  BY <1>1, StorageInvariant, PTL DEF Spec, ObjectsLostOnlyByDeletion

(***************************************************************************)
(* ShareStorage implements ShareCatalog, for every value of the constants. *)
(* Eleven actions can change what the catalogue shows; the others stutter. *)
(***************************************************************************)

LEMMA InitAccepted == Init => AcceptedOnce
BY NoneAssumption DEF Init, AcceptedOnce

LEMMA NextAccepted ==
  ASSUME StorageInv, AcceptedOnce, [Next]_vars PROVE AcceptedOnce'
<1> USE DEF AcceptedOnce
<1>1. TypeOK /\ OneWinner
  BY DEF StorageInv
<1>2. ASSUME NEW u \in Uploads,
             StartStep(u) \/ CrashStart(u) \/ StorePart(u) \/ RecordPart(u) \/ GrowStale(u)
      PROVE  AcceptedOnce'
  BY <1>2 DEF StartStep, CreateShare, JoinShare, CreateMultipart, InsertUpload,
     InsertUploadFails, AbortNewMultipart, CrashStart, StorePart, RecordPart, GrowStale
<1>3. ASSUME NEW r \in Requests, RequestStep(r) \/ CrashRequest(r) PROVE AcceptedOnce'
  <2> USE <1>1, NoneAssumption DEF TypeOK, OneWinner
  <2>1. CASE ReadParts(r)
    BY <2>1 DEF ReadParts
  <2>2. CASE CompleteMultipart(r) \/ MultipartMissing(r)
    BY <2>2 DEF CompleteMultipart, MultipartMissing
  <2>3. CASE AcceptSize(r) \/ PurgeObject(r) \/ PurgeRows(r)
    BY <2>3 DEF AcceptSize, PurgeObject, PurgeRows
  <2>4. CASE Commit(r)
    BY <2>4, SMTT(30) DEF Commit, InsertAllowed
  <2>5. CASE AnswerExisting(r)
    BY <2>5, SMTT(30) DEF AnswerExisting
  <2>6. CASE CrashRequest(r)
    BY <2>6 DEF CrashRequest
  <2> QED
    BY <1>3, <2>1, <2>2, <2>3, <2>4, <2>5, <2>6 DEF RequestStep
<1>4. ASSUME NEW r \in Requests, NEW u \in Uploads, Lookup(r, u) PROVE AcceptedOnce'
  BY <1>1, <1>4 DEF Lookup, TypeOK, OneWinner, StorageInv, CleanerKnows
<1>5. ASSUME NEW c \in Cleaners,
             \/ CleanStep(c) \/ FailClean(c)
             \/ \E s \in Shares : BeginShare(c, s)
             \/ \E u \in Uploads : BeginStale(c, u)
      PROVE  AcceptedOnce'
  <2> USE <1>1 DEF TypeOK
  <2>1. ASSUME NEW s \in Shares, BeginShare(c, s) PROVE AcceptedOnce'
    BY <2>1 DEF BeginShare
  <2>6. ASSUME NEW u \in Uploads, BeginStale(c, u) PROVE AcceptedOnce'
    BY <2>6 DEF BeginStale
  <2>2. CASE ReadFiles(c)
    BY <2>2, PageSubset, SMTT(30) DEF ReadFiles, FilesOf
  <2>3. CASE ReadUploads(c) \/ AbortMultipart(c) \/ HeadObject(c) \/ DeleteObjects(c)
    BY <2>3, SMTT(30) DEF ReadUploads, AbortMultipart, HeadObject, DeleteObjects
  <2>4. CASE CheckReferences(c) \/ CheckRegistered(c) \/ FailClean(c)
    BY <2>4, SMTT(30) DEF CheckReferences, CheckRegistered, FailClean, Release
  <2>5. CASE DeleteRows(c) \/ DeleteStaleRows(c)
    BY <2>5, SMTT(30) DEF DeleteRows, DeleteStaleRows, Release, DropRows
  <2> QED
    BY <1>5, <2>1, <2>2, <2>3, <2>4, <2>5, <2>6 DEF CleanStep
<1>6. ASSUME NEW f \in Requests, BurnObject(f) \/ BurnRow(f) PROVE AcceptedOnce'
  BY <1>6 DEF BurnObject, BurnRow
<1>7. ASSUME NEW s \in Shares, Suspend(s) \/ Unsuspend(s) \/ Expire(s) PROVE AcceptedOnce'
  BY <1>7 DEF Suspend, Unsuspend, Expire
<1>8. CASE UNCHANGED vars
  BY <1>8
<1> QED
  BY <1>2, <1>3, <1>4, <1>5, <1>6, <1>7, <1>8 DEF Next

-----------------------------------------------------------------------------
CatalogVars == <<ShareStatus, suspended, expired, ItemStatus>>

LEMMA InitCatalog == Init => Catalog!Init
BY NoneAssumption DEF Init, Catalog!Init, ShareStatus, ItemStatus, Item, Registered, Withdrawn, Admitted

(* What an upload's entry depends on. *)
LEMMA ItemsKept ==
  ASSUME \A u \in Uploads : Item(u)' = Item(u) PROVE ItemStatus' = ItemStatus
BY DEF ItemStatus

LEMMA QuietStep ==
  ASSUME UNCHANGED <<shares, issued, suspended, expired, files, stamp, answer, target>>
  PROVE  UNCHANGED CatalogVars
BY DEF CatalogVars, ShareStatus, ItemStatus, Item, Registered, Withdrawn, Admitted

(* Only the winner of a session has an entry in it. *)
LEMMA OnlyWinner ==
  ASSUME StorageInv, AcceptedOnce, NEW r \in won
  PROVE  /\ Registered(target[r]) <=> r \in files
         /\ Withdrawn(target[r]) <=> answer[r] = r /\ r \notin files
         /\ Admitted(target[r]) <=> r \in stamp
BY SMTT(30) DEF StorageInv, TypeOK, OneWinner, AcceptedOnce, Registered, Withdrawn, Admitted

(* Start: a new share opens. *)
LEMMA StartMaps ==
  ASSUME StorageInv, NEW u \in Uploads,
         StartStep(u) \/ CrashStart(u) \/ StorePart(u) \/ RecordPart(u) \/ GrowStale(u)
  PROVE  (\E s \in Shares : Catalog!Open(s)) \/ UNCHANGED CatalogVars
<1>1. CASE CreateShare(u)
  <2>1. ShareOf[u] \in Shares
    BY ShareOfAssumption
  <2>2. ShareStatus[ShareOf[u]] = "unborn"
    BY <1>1, <2>1 DEF CreateShare, ShareStatus, StorageInv, TypeOK
  <2>3. ShareStatus' = [ShareStatus EXCEPT ![ShareOf[u]] = "live"]
    BY <1>1, <2>1 DEF CreateShare, ShareStatus
  <2>4. ItemStatus' = ItemStatus
    BY <1>1 DEF CreateShare, ItemStatus, Item, Registered, Withdrawn, Admitted
  <2> QED
    BY <1>1, <2>1, <2>2, <2>3, <2>4 DEF Catalog!Open, CreateShare
<1>2. CASE ~CreateShare(u)
  BY <1>2, QuietStep DEF StartStep, JoinShare, CreateMultipart, InsertUpload,
     InsertUploadFails, AbortNewMultipart, CrashStart, StorePart, RecordPart, GrowStale
<1> QED
  BY <1>1, <1>2

(* Complete: an upload is admitted, then published. *)
LEMMA CompleteMaps ==
  ASSUME StorageInv, AcceptedOnce, NEW r \in Requests,
         \/ RequestStep(r) \/ CrashRequest(r)
         \/ \E u \in Uploads : Lookup(r, u)
  PROVE  \/ \E u \in Uploads : Catalog!Admit(u) \/ Catalog!Publish(u)
         \/ UNCHANGED CatalogVars
<1>1. CASE \E u \in Uploads : Lookup(r, u)
  <2>1. r \notin won /\ r \notin files /\ r \notin stamp /\ answer[r] # r
    BY <1>1 DEF Lookup, StorageInv, OneWinner, AcceptedOnce
  <2>2. \A u \in Uploads : Item(u)' = Item(u)
    BY <1>1, <2>1 DEF Lookup, Item, Registered, Withdrawn, Admitted, StorageInv, TypeOK
  <2> QED
    BY <1>1, <2>2, ItemsKept DEF CatalogVars, ShareStatus, Lookup
<1>2. CASE AcceptSize(r) /\ stamp' # stamp
  <2>1. r \in won /\ r \notin stamp /\ r \notin files /\ answer[r] # r /\ target[r] \in Uploads
    BY <1>2 DEF AcceptSize, StorageInv, OneWinner, AcceptedOnce
  <2>2. ItemStatus[target[r]] = "pending"
    BY <2>1, OnlyWinner DEF ItemStatus, Item
  <2>3. stamp' = stamp \cup {r} /\ ShareOf[target[r]] \notin expired
    BY <1>2 DEF AcceptSize
  <2>4. \A u \in Uploads : Item(u)' = IF u = target[r] THEN "admitted" ELSE Item(u)
    BY <1>2, <2>1, <2>2, <2>3 DEF AcceptSize, ItemStatus, Item, Registered, Withdrawn, Admitted
  <2>5. ItemStatus' = [ItemStatus EXCEPT ![target[r]] = "admitted"]
    BY <2>1, <2>4 DEF ItemStatus
  <2>6. Catalog!Admit(target[r])
    BY <1>2, <2>2, <2>3, <2>5 DEF Catalog!Admit, AcceptSize, ShareStatus
  <2> QED
    BY <2>1, <2>6
<1>3. CASE Commit(r) /\ InsertAllowed(r)
  <2>1. /\ r \in won /\ r \in stamp /\ r \notin files /\ answer[r] # r
        /\ target[r] \in Uploads /\ target[r] \in uploads
    BY <1>3 DEF Commit, InsertAllowed, StorageInv, OneWinner, AcceptedOnce
  <2>2. ItemStatus[target[r]] = "admitted"
    BY <2>1, OnlyWinner DEF ItemStatus, Item
  <2>3. files' = files \cup {r} /\ answer' = [answer EXCEPT ![r] = r]
    BY <1>3 DEF Commit
  <2>4. \A u \in Uploads : Item(u)' = IF u = target[r] THEN "published" ELSE Item(u)
    <3>1. ASSUME NEW u \in Uploads, u = target[r] PROVE Registered(u)'
      BY <1>3, <2>3, <3>1 DEF Commit, Registered
    <3>2. ASSUME NEW u \in Uploads, u # target[r]
          PROVE  /\ Registered(u)' <=> Registered(u)
                 /\ Withdrawn(u)' <=> Withdrawn(u)
                 /\ Admitted(u)' <=> Admitted(u)
      <4>1. \A q \in Requests : target[q] = u => q # r /\ answer'[q] = answer[q]
        BY <2>3, <3>2 DEF StorageInv, TypeOK
      <4>2. target' = target /\ stamp' = stamp
        BY <1>3 DEF Commit
      <4>3. files' \subseteq Requests /\ files \subseteq Requests /\ stamp \subseteq Requests
        BY <2>3 DEF StorageInv, TypeOK
      <4> QED
        BY <2>3, <4>1, <4>2, <4>3 DEF Registered, Withdrawn, Admitted
    <3> QED
      BY <3>1, <3>2 DEF Item
  <2>5. ItemStatus' = [ItemStatus EXCEPT ![target[r]] = "published"]
    BY <2>1, <2>4 DEF ItemStatus
  <2>6. /\ ShareOf[target[r]] \in shares /\ ShareOf[target[r]] \in Shares
        /\ ShareOf[target[r]] \notin suspended
    BY <1>3, <2>1, ShareOfAssumption DEF InsertAllowed, StorageInv, RowsHaveShare
  <2>7. Catalog!Publish(target[r])
    BY <1>3, <2>2, <2>5, <2>6 DEF Catalog!Publish, Commit, ShareStatus
  <2> QED
    BY <2>1, <2>7
<1>4. CASE AnswerExisting(r)
  <2>1. answer[r] # r /\ answer'[r] # r
    BY <1>4 DEF AnswerExisting, StorageInv, TypeOK, OneWinner, AcceptedOnce
  <2>2. \A q \in Requests : answer'[q] = q <=> answer[q] = q
    BY <1>4, <2>1 DEF AnswerExisting, StorageInv, TypeOK
  <2>3. \A u \in Uploads : Item(u)' = Item(u)
    BY <1>4, <2>2 DEF AnswerExisting, Item, Registered, Withdrawn, Admitted
  <2> QED
    BY <1>4, <2>3, ItemsKept DEF CatalogVars, ShareStatus, AnswerExisting
<1>5. CASE AcceptSize(r) /\ stamp' = stamp
  BY <1>5, QuietStep DEF AcceptSize
<1>6. CASE Commit(r) /\ ~InsertAllowed(r)
  BY <1>6, QuietStep DEF Commit
<1>7. CASE \/ ReadParts(r) \/ CompleteMultipart(r) \/ MultipartMissing(r) \/ PurgeObject(r)
           \/ PurgeRows(r) \/ CrashRequest(r)
  BY <1>7, QuietStep DEF ReadParts, CompleteMultipart, MultipartMissing, PurgeObject,
     PurgeRows, CrashRequest
<1> QED
  BY <1>1, <1>2, <1>3, <1>4, <1>5, <1>6, <1>7 DEF RequestStep

(* Files that leave D1 are withdrawn. *)
LEMMA RemovedItems ==
  ASSUME StorageInv, AcceptedOnce, files' \subseteq files,
         UNCHANGED <<answer, target, stamp>>
  PROVE  \A u \in Uploads : Item(u)' =
           IF Item(u) = "published" /\ (\A f \in files' : target[f] # u)
           THEN "withdrawn" ELSE Item(u)
<1> SUFFICES ASSUME NEW u \in Uploads
             PROVE  Item(u)' = IF Item(u) = "published" /\ (\A f \in files' : target[f] # u)
                               THEN "withdrawn" ELSE Item(u)
  OBVIOUS
<1>1. CASE Registered(u)'
  BY <1>1 DEF Item, Registered
<1>2. CASE Registered(u) /\ ~Registered(u)'
  <2>1. Withdrawn(u)'
    BY <1>2 DEF Registered, Withdrawn, AcceptedOnce, StorageInv, TypeOK
  <2> QED
    BY <1>2, <2>1 DEF Item, Registered
<1>3. CASE ~Registered(u) /\ ~Registered(u)'
  <2>1. Withdrawn(u)' <=> Withdrawn(u)
    BY <1>3 DEF Registered, Withdrawn
  <2>2. Admitted(u)' <=> Admitted(u)
    BY DEF Admitted
  <2> QED
    BY <1>3, <2>1, <2>2 DEF Item
<1> QED
  BY <1>1, <1>2, <1>3 DEF Registered

(* Cleanup: entries are withdrawn, with their share when it goes. *)
LEMMA DeleteRowsMaps ==
  ASSUME StorageInv, AcceptedOnce, NEW c \in Cleaners, DeleteRows(c)
  PROVE  \/ \E s \in Shares : Catalog!Delete(s)
         \/ \E U \in SUBSET Uploads : Catalog!Withdraw(U)
<1> DEFINE s == job[c]
           gone == IF ShareRowDoomed(c) THEN {s} ELSE {}
<1>1. s \in Shares
  BY DEF DeleteRows, StorageInv, CleanerKnows
<1>2. /\ files' = files \ snapFiles[c]
      /\ shares' = shares \ gone /\ suspended' = suspended \ gone
      /\ \A f \in files : ShareOf[target[f]] \in gone => f \in snapFiles[c]
  <2>1. \A f \in files : ShareOf[target[f]] \in gone => f \in snapFiles[c]
    BY DEF ShareRowDoomed, FilesOf
  <2> QED
    BY <2>1 DEF DeleteRows, DropRows
<1>3. \A u \in Uploads : Item(u)' =
        IF Item(u) = "published" /\ (\A f \in files' : target[f] # u)
        THEN "withdrawn" ELSE Item(u)
  BY <1>2, RemovedItems DEF DeleteRows
<1>4. \A u \in Uploads : Item(u) = "published" <=> Registered(u)
  BY DEF Item
<1>5. CASE s \in gone /\ s \in shares
  (* Exactly the share's published entries go. *)
  <2>1. \A u \in Uploads : Registered(u) =>
          ((\A f \in files' : target[f] # u) <=> ShareOf[u] = s)
    <3>1. \A f \in files : f \in snapFiles[c] <=> ShareOf[target[f]] = s
      BY <1>2, <1>5 DEF AcceptedOnce
    <3>2. \A f, g \in files : target[f] = target[g] => f = g
      BY DEF StorageInv, OneWinner
    <3>3. files' = files \ snapFiles[c]
      BY <1>2
    <3> HIDE DEF s, gone
    <3> QED
      BY <3>1, <3>2, <3>3 DEF Registered
  <2>2. ItemStatus' = [u \in Uploads |-> IF ShareOf[u] = s /\ ItemStatus[u] = "published"
                                        THEN "withdrawn" ELSE ItemStatus[u]]
    BY <1>3, <1>4, <2>1 DEF ItemStatus
  <2>3. ShareStatus[s] = "live" /\ ShareStatus' = [ShareStatus EXCEPT ![s] = "deleted"]
    BY <1>1, <1>2, <1>5 DEF ShareStatus, DeleteRows, StorageInv, TypeOK
  <2>4. suspended' = suspended \ {s} /\ expired' = expired
    BY <1>2, <1>5 DEF DeleteRows
  <2> QED
    BY <1>1, <2>2, <2>3, <2>4 DEF Catalog!Delete
<1>6. CASE ~(s \in gone /\ s \in shares)
  <2> DEFINE U == {u \in Uploads : Item(u) = "published" /\ (\A f \in files' : target[f] # u)}
  <2>1. shares' = shares /\ suspended' = suspended /\ UNCHANGED <<issued, expired>>
    BY <1>2, <1>6 DEF DeleteRows, StorageInv, TypeOK
  <2>2. \A u \in U : ItemStatus[u] = "published"
    BY DEF ItemStatus
  <2>3. ItemStatus' = [u \in Uploads |-> IF u \in U THEN "withdrawn" ELSE ItemStatus[u]]
    BY <1>3 DEF ItemStatus
  <2>4. Catalog!Withdraw(U)
    BY <2>1, <2>2, <2>3 DEF Catalog!Withdraw, ShareStatus
  <2> QED
    BY <2>4
<1> QED
  BY <1>5, <1>6

LEMMA CleanMaps ==
  ASSUME StorageInv, AcceptedOnce, NEW c \in Cleaners,
         \/ CleanStep(c) \/ FailClean(c)
         \/ \E s \in Shares : BeginShare(c, s)
         \/ \E u \in Uploads : BeginStale(c, u)
  PROVE  \/ \E s \in Shares : Catalog!Delete(s)
         \/ \E U \in SUBSET Uploads : Catalog!Withdraw(U)
         \/ UNCHANGED CatalogVars
<1>1. CASE DeleteRows(c)
  BY <1>1, DeleteRowsMaps
<1>2. CASE DeleteStaleRows(c)
  <2>1. files' = files /\ shares' = shares /\ suspended' = suspended
    BY <1>2 DEF DeleteStaleRows, DropRows
  <2> QED
    BY <1>2, <2>1, QuietStep DEF DeleteStaleRows
<1>3. CASE ~DeleteRows(c) /\ ~DeleteStaleRows(c)
  BY <1>3, QuietStep DEF CleanStep, ReadFiles, ReadUploads, CheckReferences, AbortMultipart,
     HeadObject, CheckRegistered, DeleteObjects, FailClean, BeginShare, BeginStale
<1> QED
  BY <1>1, <1>2, <1>3

LEMMA BurnMaps ==
  ASSUME StorageInv, AcceptedOnce, NEW r \in Requests, BurnObject(r) \/ BurnRow(r)
  PROVE  (\E U \in SUBSET Uploads : Catalog!Withdraw(U)) \/ UNCHANGED CatalogVars
<1>1. CASE BurnObject(r)
  BY <1>1, QuietStep DEF BurnObject
<1>2. CASE BurnRow(r)
  <2> DEFINE U == {u \in Uploads : Item(u) = "published" /\ (\A f \in files' : target[f] # u)}
  <2>1. \A u \in Uploads : Item(u)' = IF u \in U THEN "withdrawn" ELSE Item(u)
    BY <1>2, RemovedItems DEF BurnRow
  <2>2. \A u \in U : ItemStatus[u] = "published"
    BY DEF ItemStatus
  <2>3. ItemStatus' = [u \in Uploads |-> IF u \in U THEN "withdrawn" ELSE ItemStatus[u]]
    BY <2>1 DEF ItemStatus
  <2>4. Catalog!Withdraw(U)
    BY <1>2, <2>2, <2>3 DEF Catalog!Withdraw, ShareStatus, BurnRow
  <2> QED
    BY <2>4
<1> QED
  BY <1>1, <1>2

(* The administrator and the clock. *)
LEMMA ShareMaps ==
  ASSUME StorageInv, NEW s \in Shares, Suspend(s) \/ Unsuspend(s) \/ Expire(s)
  PROVE  Catalog!Pause(s) \/ Catalog!Resume(s) \/ Catalog!End(s)
<1>1. ItemStatus' = ItemStatus /\ ShareStatus' = ShareStatus
  BY DEF Suspend, Unsuspend, Expire, ItemStatus, Item, Registered, Withdrawn, Admitted,
     ShareStatus
<1>2. /\ s \in shares => ShareStatus[s] = "live"
      /\ s \in issued => ShareStatus[s] # "unborn"
  BY DEF ShareStatus
<1> QED
  BY <1>1, <1>2 DEF Suspend, Unsuspend, Expire, Catalog!Pause, Catalog!Resume, Catalog!End

LEMMA NextMaps ==
  ASSUME StorageInv, AcceptedOnce, [Next]_vars PROVE [Catalog!Next]_(Catalog!vars)
<1>1. CASE UNCHANGED vars
  <2>1. UNCHANGED CatalogVars
    BY <1>1, QuietStep
  <2> QED
    BY <2>1 DEF CatalogVars, Catalog!vars
<1>2. CASE Next
  BY <1>2, StartMaps, CompleteMaps, CleanMaps, BurnMaps, ShareMaps
  DEF Next, Catalog!Next, Catalog!vars, CatalogVars
<1> QED
  BY <1>1, <1>2

(* Every behaviour of the storage is one of the catalogue. *)
THEOREM StorageImplementsCatalog == Spec => CatalogSpec
<1>1. Init => StorageInv /\ AcceptedOnce /\ Catalog!Init
  BY InitInv, InitAccepted, InitCatalog
<1>2. StorageInv /\ AcceptedOnce /\ [Next]_vars => StorageInv' /\ AcceptedOnce'
  BY NextKeepsInv, NextAccepted
<1>3. StorageInv /\ AcceptedOnce /\ [Next]_vars => [Catalog!Next]_(Catalog!vars)
  BY NextMaps
<1> QED
  BY <1>1, <1>2, <1>3, PTL DEF Spec, CatalogSpec, Catalog!Spec

=============================================================================
