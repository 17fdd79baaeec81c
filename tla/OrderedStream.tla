---------------------------- MODULE OrderedStream ----------------------------
(***************************************************************************)
(* What a parallel download promises to its reader: the windows of the     *)
(* file, each once and in order, and an end that is reported as one only   *)
(* when the file is complete.  A piece is the set of windows whose bytes   *)
(* it holds.                                                               *)
(***************************************************************************)
EXTENDS Naturals, Sequences

CONSTANT WindowCount

VARIABLES
  out,    \* the pieces handed to the reader
  state   \* "open", "complete", "failed", "cancelled" or "whole"

vars == <<out, state>>

Init == out = <<>> /\ state = "open"

Deliver == /\ state = "open" /\ Len(out) < WindowCount
           /\ out' = Append(out, {Len(out)})
           /\ UNCHANGED state

Close == /\ state = "open" /\ Len(out) = WindowCount
         /\ state' = "complete" /\ UNCHANGED out

Fail == state = "open" /\ state' = "failed" /\ UNCHANGED out

Cancel == state = "open" /\ state' = "cancelled" /\ UNCHANGED out

(* The server ignores ranges: its one body is handed over untouched. *)
HandOver == /\ state = "open" /\ out = <<>>
            /\ state' = "whole" /\ UNCHANGED out

Next == Deliver \/ Close \/ Fail \/ Cancel \/ HandOver

Spec == Init /\ [][Next]_vars

=============================================================================
