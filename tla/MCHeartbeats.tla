--------------------------- MODULE MCHeartbeats ---------------------------
(* Small instances of Heartbeats for TLC. *)
EXTENDS Heartbeats
=============================================================================
