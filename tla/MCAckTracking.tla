--------------------------- MODULE MCAckTracking ---------------------------
(* Small instances of AckTracking for TLC. *)
EXTENDS AckTracking, TLC

CONSTANTS s1, s2, a1, a2

AllClient == [s \in Subs |-> "client"]
Mixed == [s \in Subs |-> IF s = s1 THEN "client" ELSE "individual"]
OneDest == [s \in Subs |-> "q"]

AckerSymmetry == Permutations(Ackers)
=============================================================================
