--------------------------- MODULE MCParallelFetch ---------------------------
(* Instances of ParallelFetch for TLC. *)
EXTENDS ParallelFetch
=============================================================================
