----------------------------- MODULE MCBackoff -----------------------------
(* Small instances of Backoff for TLC. *)
EXTENDS Backoff
=============================================================================
