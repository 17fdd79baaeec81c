--------------------------- MODULE MCChunkUploader ---------------------------
(* An instance of ChunkUploader for TLC. *)
EXTENDS ChunkUploader

CONSTANTS w1, w2
=============================================================================
