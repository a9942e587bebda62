---------------------------- MODULE MCProcessList ----------------------------
(* Small instances of ProcessList for TLC. *)
EXTENDS ProcessList, TLC

\* The kernel's name of a Firefox process is "Web Content"; "We" is left of it.
Fragments == "Web Content" :> "We"

Symmetry == Permutations(Pid)
=============================================================================
