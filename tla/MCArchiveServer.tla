--------------------------- MODULE MCArchiveServer ---------------------------
(* Instantiation of ArchiveServer for TLC: two client connections, an      *)
(* archive of heights 1 .. 2, and requests naming heights from -1 (below   *)
(* block 0) to 3 (past the archive), so that both directions, the clamp of *)
(* toHeight and the refusal of fromHeight > endHeight all occur.           *)
EXTENDS ArchiveServer

MCReqHeights == -1 .. 3
=============================================================================
