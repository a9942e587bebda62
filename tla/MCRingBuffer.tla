---------------------------- MODULE MCRingBuffer ----------------------------
(* Small instances of RingBuffer for TLC. *)
EXTENDS RingBuffer, TLC

\* Elements are only compared for equality.
Symmetry == Permutations(Element)
=============================================================================
