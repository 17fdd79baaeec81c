-------------------------- MODULE MCPagesAndJobs --------------------------
(***************************************************************************)
(* The browser's pages and streams and the scheduled jobs.  None of them   *)
(* shares a variable with another, so each is explored by itself: `scene'  *)
(* picks the one that moves, and the others keep one start.                *)
(***************************************************************************)
EXTENDS UploadPage, BufferAhead, PacketStream, SharePage, SaveFiles, DownloadWorker,
        AdminPages, Analytics, AnalyticsReports, CleanupBatches, PublicForms, TLC

CONSTANTS e1, e2, e3, e4

VARIABLE scene

TwoFiles == <<"a", "b">>

\* One transfer of two files, downloaded twice in one browser.
OneTransfer ==
    {[id |-> id, kind |-> "upload_success", transfer |-> "t", browser |-> "sender"] : id \in {e1, e4}}
    \cup {[id |-> id, kind |-> "download_success", transfer |-> "t", browser |-> "receiver"] : id \in {e2, e3}}

\* A client who lands, uploads and comes back to upload, and another who does everything.
VisitOf(client, n) == [client |-> client, n |-> n]
ThreeVisits == {VisitOf("a", 1), VisitOf("a", 2), VisitOf("b", 1)}
StoredEvents ==
    (ThreeVisits \X {"upload_success"}) \cup ({VisitOf("a", 1), VisitOf("b", 1)} \X {"landing_view"})
    \cup ({VisitOf("b", 1)} \X {"upload_start", "download_success"})

\* Two files of one transfer, two downloads of it, and two visitors, are alike.
ScenesSymmetry == Permutations({e1, e4}) \cup Permutations({e2, e3}) \cup Permutations(Visitors)

uploadScene == <<pageVars, bufferVars, packetVars>>
downloadScene == <<shareVars, saveVars, workerVars>>
serviceScene == <<adminVars, formVars, analyticsVars, reportVars, cleanupVars>>

ScenesInit ==
    /\ scene \in {"upload", "buffer", "packets", "share", "save", "worker",
                  "admin", "forms", "analytics", "reports", "cleanup"}
    /\ UploadPageInit /\ BufferInit /\ WorkerInit /\ AnalyticsInit /\ ReportsInit
    /\ PacketInit /\ (scene = "packets" \/ (fileSize = 1 /\ legacy))
    /\ SharePageInit /\ (scene = "share" \/ shareOf = <<"p">>)
    /\ SaveInit /\ (scene = "save" \/ (~worker /\ \A b \in DOMAIN browser : ~browser[b]))
    /\ AdminInit /\ (scene = "admin" \/ (page = "accounts" /\ tab = "u"))
    /\ FormsInit /\ (scene = "forms" \/ (code = NoCode /\ \A v \in Visitors : form[v] = "login"))
    /\ CleanupInit /\ (scene = "cleanup" \/ \A p \in Phases : due[p] = {})

ScenesNext ==
    /\ UNCHANGED scene
    /\ \/ /\ scene = "upload" /\ UploadPageNext
          /\ UNCHANGED <<bufferVars, packetVars, downloadScene, serviceScene>>
       \/ /\ scene = "buffer" /\ BufferNext
          /\ UNCHANGED <<pageVars, packetVars, downloadScene, serviceScene>>
       \/ /\ scene = "packets" /\ PacketNext
          /\ UNCHANGED <<pageVars, bufferVars, downloadScene, serviceScene>>
       \/ /\ scene = "share" /\ SharePageNext
          /\ UNCHANGED <<uploadScene, saveVars, workerVars, serviceScene>>
       \/ /\ scene = "save" /\ SaveNext
          /\ UNCHANGED <<uploadScene, shareVars, workerVars, serviceScene>>
       \/ /\ scene = "worker" /\ WorkerNext
          /\ UNCHANGED <<uploadScene, shareVars, saveVars, serviceScene>>
       \/ /\ scene = "admin" /\ AdminNext
          /\ UNCHANGED <<uploadScene, downloadScene, formVars, analyticsVars, reportVars, cleanupVars>>
       \/ /\ scene = "forms" /\ FormsNext
          /\ UNCHANGED <<uploadScene, downloadScene, adminVars, analyticsVars, reportVars, cleanupVars>>
       \/ /\ scene = "analytics" /\ AnalyticsNext
          /\ UNCHANGED <<uploadScene, downloadScene, adminVars, formVars, reportVars, cleanupVars>>
       \/ /\ scene = "reports" /\ ReportsNext
          /\ UNCHANGED <<uploadScene, downloadScene, adminVars, formVars, analyticsVars, cleanupVars>>
       \/ /\ scene = "cleanup" /\ CleanupNext
          /\ UNCHANGED <<uploadScene, downloadScene, adminVars, formVars, analyticsVars, reportVars>>

ScenesSpec ==
    ScenesInit /\ [][ScenesNext]_<<uploadScene, downloadScene, serviceScene, scene>>
=============================================================================
