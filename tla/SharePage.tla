----------------------------- MODULE SharePage -----------------------------
(***************************************************************************)
(* The download page's view of a share (lib/download/useSharedFiles.ts):   *)
(* the list is loaded when the share changes, decrypted with the key of    *)
(* the link or unwrapped with a password, and every await may outlive the  *)
(* share it was started for.  A value is named by the share it is of.      *)
(***************************************************************************)
EXTENDS Naturals, Sequences

CONSTANTS Shares,       \* the shares a tab visits
          Protected,    \* those whose key is wrapped with a password
          Previewable,  \* those whose sender may offer previews
          MaxVisits     \* bound: effects ever run

ASSUME SharePageAssumption ==
    Protected \subseteq Shares /\ Previewable \subseteq Shares /\ MaxVisits \in Nat

VARIABLES shareOf,     \* the share of each generation so far; the last one is shown
          loads,       \* loads in flight, with the step each awaits
          unlocks,     \* password checks in flight
          view         \* what the page holds

shareVars == <<shareOf, loads, unlocks, view>>

NoShare == "none"
generation == Len(shareOf)
Blank == [files |-> NoShare, key |-> NoShare, protection |-> NoShare, preview |-> FALSE,
          error |-> FALSE, loading |-> TRUE, unlocking |-> FALSE]

\* Mutant: an answer is taken whatever the page shows by then.
CurrentAnyway(g) == g \in Nat

\* `cancelled', or a generation that has passed: the effect that started this has been cleaned up.
Current(g) == g = generation

SharePageInit ==
    /\ \E s \in Shares : shareOf = <<s>>
    /\ loads = {[gen |-> 1, step |-> "list"]}
    /\ unlocks = {} /\ view = Blank

\* The effect runs for another share, or again for the same one, and clears the page.
Visit(s) ==
    /\ generation < MaxVisits
    /\ shareOf' = Append(shareOf, s)
    /\ loads' = loads \cup {[gen |-> generation + 1, step |-> "list"]}
    /\ view' = Blank /\ UNCHANGED unlocks

\* finally: a load that is still current takes the spinner away.
LoadEnds(l, next) ==
    /\ loads' = loads \ {l}
    /\ view' = IF Current(l.gen) THEN [next EXCEPT !.loading = FALSE] ELSE view
    /\ UNCHANGED <<shareOf, unlocks>>

\* The share is gone, the answer does not arrive or the link has no usable key.
LoadFails(l) == l \in loads /\ LoadEnds(l, [view EXCEPT !.error = TRUE])

\* The list arrives: a password is asked for, or the names are decrypted with the link's key.
ListArrives(l) ==
    /\ l \in loads /\ l.step = "list"
    /\ LET s == shareOf[l.gen]
           known == [view EXCEPT !.preview = (s \in Previewable)]
       IN IF ~Current(l.gen) \/ s \in Protected
          THEN LoadEnds(l, [known EXCEPT !.protection = s])
          ELSE /\ loads' = (loads \ {l}) \cup {[l EXCEPT !.step = "names"]}
               /\ view' = known /\ UNCHANGED <<shareOf, unlocks>>

NamesDecrypted(l) ==
    /\ l \in loads /\ l.step = "names"
    /\ LoadEnds(l, [view EXCEPT !.files = shareOf[l.gen], !.key = shareOf[l.gen]])

\* unlockWithPassword: the password typed may be right or wrong.
Unlock(right) ==
    /\ view.protection # NoShare /\ ~view.unlocking
    /\ unlocks' = unlocks \cup {[gen |-> generation, of |-> view.protection, right |-> right]}
    /\ view' = [view EXCEPT !.unlocking = TRUE]
    /\ UNCHANGED <<shareOf, loads>>

UnlockEnds(u) ==
    /\ u \in unlocks /\ unlocks' = unlocks \ {u}
    /\ view' = IF ~Current(u.gen) THEN view
               ELSE IF u.right THEN [view EXCEPT !.key = u.of, !.files = u.of, !.protection = NoShare,
                                                 !.unlocking = FALSE]
               ELSE [view EXCEPT !.unlocking = FALSE]
    /\ UNCHANGED <<shareOf, loads>>

SharePageNext ==
    \/ \E s \in Shares : Visit(s)
    \/ \E l \in loads : LoadFails(l) \/ ListArrives(l) \/ NamesDecrypted(l)
    \/ \E right \in BOOLEAN : Unlock(right)
    \/ \E u \in unlocks : UnlockEnds(u)

SharePageSpec == SharePageInit /\ [][SharePageNext]_shareVars

(* What the page holds belongs together: files, key and password form are the shown share's and   *)
(* of one another, previews are offered only if that share offers them, and a spinner turns only  *)
(* while a request of this visit is out, so that the page can never be stuck                      *)
(* (useSharedFiles.ts 66, 99, 110-120, 139-160).                                                  *)
ShownBelongsTogether ==
    LET s == shareOf[generation]
    IN /\ {view.files, view.key, view.protection} \subseteq {s, NoShare}
       /\ view.files = view.key /\ (view.files = s => view.protection = NoShare)
       /\ view.preview => s \in Previewable
       /\ view.loading <=> \E l \in loads : l.gen = generation
       /\ view.unlocking <=> \E u \in unlocks : u.gen = generation
=============================================================================
