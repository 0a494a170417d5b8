------------------------------ MODULE Mailbox ------------------------------
(***************************************************************************)
(* What a subscription promises its consumer: one queue of frames, read in *)
(* the order the connection received them, each at most once.  Nothing of  *)
(* it is lost while the subscription is open, except that a reconnect may  *)
(* take back the newest frames of a mailbox in a client ack mode, which    *)
(* the broker then sends again, and that an end may cut the queue short.   *)
(* How the queue is divided over a bounded channel and an overflow queue   *)
(* is not its reader's concern; module Delivery implements it.             *)
(***************************************************************************)
EXTENDS Integers, Sequences

CONSTANTS
    Auto,      \* whether the broker considers a frame sent as delivered
    Depth,     \* the most frames that can wait
    MaxMsg     \* bound: MESSAGEs

VARIABLES
    state,     \* "unborn", "open" or "ended"
    mail,      \* frames waiting to be read
    got        \* frames read

vars == <<state, mail, got>>

Init == state = "unborn" /\ mail = <<>> /\ got = <<>>

Open == state = "unborn" /\ state' = "open" /\ UNCHANGED <<mail, got>>

Accept(n) ==
    /\ state = "open"
    /\ Len(mail) < Depth
    /\ \A i \in DOMAIN mail : mail[i] < n
    /\ \A i \in DOMAIN got : got[i] < n
    /\ mail' = Append(mail, n)
    /\ UNCHANGED <<state, got>>

Read ==
    /\ mail # <<>>
    /\ got' = Append(got, Head(mail))
    /\ mail' = Tail(mail)
    /\ UNCHANGED state

CutShort == \E k \in 0..Len(mail) : mail' = SubSeq(mail, 1, k)

TakeBack == state = "open" /\ ~Auto /\ CutShort /\ UNCHANGED <<state, got>>

\* An end never discards what a reader can still see, unless the reader left.
EndIt == state # "ended" /\ state' = "ended" /\ CutShort /\ UNCHANGED got

Leave == state' = "ended" /\ mail' = <<>> /\ UNCHANGED got

Next == Open \/ (\E n \in 1..MaxMsg : Accept(n)) \/ Read \/ TakeBack \/ EndIt
        \/ Leave

Spec == Init /\ [][Next]_vars
=============================================================================
