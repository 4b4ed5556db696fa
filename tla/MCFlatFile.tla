----------------------------- MODULE MCFlatFile -----------------------------
(* Instantiation of FlatFile for TLC: three blocks from height 1.          *)
EXTENDS FlatFile

\* Block 1 creates two outputs, block 2 one, block 3 none.
MCSlots == <<2, 1, 0>>
=============================================================================
