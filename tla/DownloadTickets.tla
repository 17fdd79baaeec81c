-------------------------- MODULE DownloadTickets --------------------------
(***************************************************************************)
(* What a download limit promises: a file has Limit tickets.  A download   *)
(* takes one before it gets a byte; it gives it back if it was interrupted *)
(* and has used it up once it was sent the whole file.  A ticket whose     *)
(* download died is lost.                                                  *)
(***************************************************************************)
EXTENDS Naturals

CONSTANTS Downloads, Limit

VARIABLES
  free,   \* tickets nobody has taken
  held,   \* downloads under way
  used,   \* downloads that were sent the whole file
  lost    \* downloads that died with their ticket

vars == <<free, held, used, lost>>

Init == free = Limit /\ held = {} /\ used = {} /\ lost = {}

Take(d) == /\ free > 0 /\ d \notin held \cup used \cup lost
           /\ free' = free - 1 /\ held' = held \cup {d}
           /\ UNCHANGED <<used, lost>>

GiveBack(d) == /\ d \in held
               /\ free' = free + 1 /\ held' = held \ {d}
               /\ UNCHANGED <<used, lost>>

Use(d) == /\ d \in held /\ held' = held \ {d} /\ used' = used \cup {d}
          /\ UNCHANGED <<free, lost>>

Lose(d) == /\ d \in held /\ held' = held \ {d} /\ lost' = lost \cup {d}
           /\ UNCHANGED <<free, used>>

Next == \E d \in Downloads : Take(d) \/ GiveBack(d) \/ Use(d) \/ Lose(d)

Spec == Init /\ [][Next]_vars

=============================================================================
