--------------------------- MODULE MCFileDownload ---------------------------
(* Instances of FileDownload for TLC.  Downloads differ only in their names. *)
EXTENDS FileDownload, TLC

CONSTANTS d1, d2, d3

DownloadSymmetry == Permutations(Downloads)
=============================================================================
