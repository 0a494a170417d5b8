-------------------------------- MODULE Line --------------------------------
(***************************************************************************)
(* What a line editor promises its user: a cursor between two pieces of    *)
(* text, keys that act where the cursor is, and lines that can be called   *)
(* back.  Bytes, character widths and how lines are remembered do not      *)
(* show; module LineEditor implements it.                                  *)
(***************************************************************************)
EXTENDS Sequences

CONSTANT Symbols      \* what can be typed

VARIABLES
    before,           \* the text left of the cursor
    after,            \* the text right of it
    texts             \* lines that a key can put in its place

vars == <<before, after>>

Insert == after' = after /\ \E x \in Symbols : before' = Append(before, x)

Rubout ==
    /\ after' = after
    /\ \E x \in Symbols : before = Append(before', x)

DeleteNext == before' = before /\ after # <<>> /\ after' = Tail(after)

MoveLeft == \E x \in Symbols : before = Append(before', x)
                               /\ after' = <<x>> \o after

MoveRight == after # <<>> /\ before' = Append(before, Head(after))
             /\ after' = Tail(after)

MoveHome == before' = <<>> /\ after' = before \o after

MoveEnd == before' = before \o after /\ after' = <<>>

\* Another line, the cursor at its end.
Recall == before' \in texts /\ after' = <<>>

Next == Insert \/ Rubout \/ DeleteNext \/ MoveLeft \/ MoveRight \/ MoveHome
        \/ MoveEnd \/ Recall
=============================================================================
