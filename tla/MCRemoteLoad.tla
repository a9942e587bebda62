----------------------------- MODULE MCRemoteLoad -----------------------------
(* Small instances of RemoteLoad for TLC.  There is no symmetry: liveness is  *)
(* checked in the same run as safety.                                         *)
EXTENDS RemoteLoad
=============================================================================
