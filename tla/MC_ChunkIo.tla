----------------------------- MODULE MC_ChunkIo -----------------------------
(* Model-checking instance of ChunkIo: chunks of 2 bytes, files of up to   *)
(* three chunks spread over two valid blobs and one index past the end of  *)
(* the blob table.                                                         *)
EXTENDS ChunkIo
=============================================================================
