---------------------------- MODULE MCBackendList ----------------------------
(* Small instances of BackendList for TLC.  There is no symmetry: liveness   *)
(* is checked in the same run as safety.                                     *)
EXTENDS BackendList
=============================================================================
