---------------------------- MODULE MCLineEditor ----------------------------
(* Small instances of LineEditor for TLC: a letter, a character of two bytes *)
(* and a blank. *)
EXTENDS LineEditor

CONSTANTS a, e2, sp

OneTwoBlank == [c \in Chars |-> IF c = e2 THEN 2 ELSE 1]
=============================================================================
