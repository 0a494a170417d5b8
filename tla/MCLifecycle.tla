---------------------------- MODULE MCLifecycle ----------------------------
(* Small instances of Lifecycle for TLC. *)
EXTENDS Lifecycle

CONSTANTS c1, c2

Pair(calls1, calls2) ==
    [c \in Clients |-> IF c = c1 THEN calls1 ELSE calls2]

\* Both close, at once or one after sending; one has a frame confirmed while
\* the other sends and closes; or a single client, as `stomp --send` is, or
\* one with more to send than the channel and the sockets take at once.
TwoClients == {
    Pair(<<"send_frame", "close">>, <<"close">>),
    Pair(<<"send_frame_confirmed">>, <<"send_frame", "close">>),
    Pair(<<"send_frame_confirmed", "close">>, <<>>),
    Pair(<<"send_frame", "send_frame", "send_frame", "send_frame", "close">>,
         <<>>)}
=============================================================================
