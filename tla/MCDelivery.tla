----------------------------- MODULE MCDelivery -----------------------------
(* Small instances of Delivery for TLC. *)
EXTENDS Delivery

CONSTANTS s1, s2

OneDest == [s \in Subs |-> "q"]
=============================================================================
