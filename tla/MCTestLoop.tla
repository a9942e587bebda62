----------------------------- MODULE MCTestLoop -----------------------------
(* Small instances of TestLoop for TLC. *)
EXTENDS TestLoop
=============================================================================
