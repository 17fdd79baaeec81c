--------------------------- MODULE MCShareStorage ---------------------------
(* Instances of ShareStorage for TLC. *)
EXTENDS ShareStorage, TLC

CONSTANTS s1, u1, u2, r1, r2, cron, admin

AllInOneShare == [u \in Uploads |-> s1]
RequestSymmetry == Permutations({r1, r2})
=============================================================================
