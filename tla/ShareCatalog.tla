---------------------------- MODULE ShareCatalog ----------------------------
(***************************************************************************)
(* What the storage of shares promises to those who hold a link: which     *)
(* files a share lists, and when a file may enter or leave it.             *)
(***************************************************************************)
CONSTANTS Shares, Uploads, ShareOf

VARIABLES
  share,   \* "unborn", "live" or "deleted"
  paused,  \* shares an administrator has suspended
  ended,   \* shares whose retention period has passed
  item     \* "pending", "admitted", "published" or "withdrawn"

vars == <<share, paused, ended, item>>

Init == /\ share = [s \in Shares |-> "unborn"]
        /\ paused = {} /\ ended = {}
        /\ item = [u \in Uploads |-> "pending"]

Open(s) == /\ share[s] = "unborn"
           /\ share' = [share EXCEPT ![s] = "live"]
           /\ UNCHANGED <<paused, ended, item>>

Pause(s) == /\ share[s] = "live" /\ paused' = paused \cup {s}
            /\ UNCHANGED <<share, ended, item>>

Resume(s) == /\ share[s] = "live" /\ paused' = paused \ {s}
             /\ UNCHANGED <<share, ended, item>>

End(s) == /\ share[s] # "unborn" /\ ended' = ended \cup {s}
          /\ UNCHANGED <<share, paused, item>>

(* An upload is accepted only before the retention period ends ... *)
Admit(u) == /\ item[u] = "pending" /\ ShareOf[u] \notin ended
            /\ item' = [item EXCEPT ![u] = "admitted"]
            /\ UNCHANGED <<share, paused, ended>>

(* ... and listed only in a live share that is not suspended. *)
Publish(u) == /\ item[u] = "admitted"
              /\ share[ShareOf[u]] = "live" /\ ShareOf[u] \notin paused
              /\ item' = [item EXCEPT ![u] = "published"]
              /\ UNCHANGED <<share, paused, ended>>

Withdraw(U) == /\ \A u \in U : item[u] = "published"
               /\ item' = [u \in Uploads |-> IF u \in U THEN "withdrawn" ELSE item[u]]
               /\ UNCHANGED <<share, paused, ended>>

(* A share is deleted with what it still lists. *)
Delete(s) == /\ share[s] = "live"
             /\ share' = [share EXCEPT ![s] = "deleted"]
             /\ paused' = paused \ {s}
             /\ item' = [u \in Uploads |->
                  IF ShareOf[u] = s /\ item[u] = "published" THEN "withdrawn" ELSE item[u]]
             /\ UNCHANGED ended

Next == \/ \E s \in Shares : Open(s) \/ Pause(s) \/ Resume(s) \/ End(s) \/ Delete(s)
        \/ \E u \in Uploads : Admit(u) \/ Publish(u)
        \/ \E U \in SUBSET Uploads : Withdraw(U)

Spec == Init /\ [][Next]_vars

=============================================================================
