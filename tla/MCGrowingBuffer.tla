--------------------------- MODULE MCGrowingBuffer ---------------------------
(* Small instances of GrowingBuffer for TLC. *)
EXTENDS GrowingBuffer
=============================================================================
