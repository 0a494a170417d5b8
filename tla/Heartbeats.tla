----------------------------- MODULE Heartbeats -----------------------------
(***************************************************************************)
(* Heartbeats on one connection: what the handshake negotiates, when the   *)
(* background task sends one, and when its watchdog takes the server for   *)
(* dead.  Time is discrete.  Both timers live in the task's select, with a *)
(* difference that matters: the ticker is one timer for the whole          *)
(* connection, the watchdog's sleep is created anew for every pass through *)
(* the select and so starts over whenever anything else happens.           *)
(***************************************************************************)
EXTENDS Integers

CONSTANTS
    ClientOut, ClientIn,   \* the client's heart-beat header
    ServerOut, ServerIn,   \* the server's, in CONNECTED
    MaxWrites              \* bound: frames the application writes

ASSUME ConstantsAssumption ==
    /\ ClientOut \in Nat /\ ClientIn \in Nat
    /\ ServerOut \in Nat /\ ServerIn \in Nat
    /\ MaxWrites \in Nat

Larger(a, b) == IF a >= b THEN a ELSE b

\* negotiate_heartbeats: each direction, zero being none.  (Faulty form: the
\* values of the wrong pair.)
ReceiveWithinCrossed == Larger(ClientIn, ServerIn)
SendEvery == Larger(ClientOut, ServerIn)
ReceiveWithin == Larger(ClientIn, ServerOut)
Half == ReceiveWithin \div 2

\* The server goes by STOMP: it sends only if it can and the client wants it.
ServerEvery == IF ServerOut = 0 \/ ClientIn = 0 THEN 0
               ELSE Larger(ServerOut, ClientIn)

\* Ages are counted no further than it takes to tell them apart.
Horizon == (4 + MaxWrites) * Larger(SendEvery, ReceiveWithin) + 2
Older(age) == IF age < Horizon THEN age + 1 ELSE age

VARIABLES
    open,      \* the connection, until the watchdog closes it
    alive,     \* whether the server still runs
    sent,      \* time since `writer_last_sent`
    heard,     \* time since `last_received`
    ticker,    \* time until `hb_tick` fires
    dog,       \* time until the watchdog's sleep ends
    writes     \* frames written so far

vars == <<open, alive, sent, heard, ticker, dog, writes>>

Init ==
    /\ open = TRUE
    /\ alive = TRUE
    /\ sent = 0
    /\ heard = 0
    /\ ticker = 0
    /\ dog = Half
    /\ writes = 0

----------------------------------------------------------------------------
\* Time passes once no timer is due and the server, if it runs, is on time.
Due == (SendEvery > 0 /\ ticker = 0) \/ (ReceiveWithin > 0 /\ dog = 0)
Tick ==
    /\ open
    /\ ~Due
    /\ alive /\ ServerEvery > 0 => heard < ServerEvery
    /\ sent' = Older(sent)
    /\ heard' = Older(heard)
    /\ ticker' = IF SendEvery > 0 THEN ticker - 1 ELSE ticker
    /\ dog' = IF ReceiveWithin > 0 THEN dog - 1 ELSE dog
    /\ UNCHANGED <<open, alive, writes>>

\* Any arm of the select but the watchdog's own starts its sleep over.
NextPass == dog' = Half

\* hb_tick: a heartbeat goes out unless something did within the interval.
\* (Faulty form: within two.)
IdleLong == sent >= 2 * SendEvery
Idle == sent >= SendEvery
HeartbeatTick ==
    /\ open
    /\ SendEvery > 0 /\ ticker = 0
    /\ ticker' = SendEvery
    /\ sent' = IF Idle THEN 0 ELSE sent
    /\ NextPass
    /\ UNCHANGED <<open, alive, heard, writes>>

\* The watchdog: twice the interval without a word closes the connection.
\* (Faulty form: it takes thrice.)
SilentThrice == heard > 3 * ReceiveWithin
Silent == heard > 2 * ReceiveWithin
Watchdog ==
    /\ open
    /\ ReceiveWithin > 0 /\ dog = 0
    /\ open' = ~Silent
    /\ NextPass
    /\ UNCHANGED <<alive, sent, heard, ticker, writes>>

\* A frame, or a heartbeat, is read; a frame is written.
Receive ==
    /\ open
    /\ alive
    /\ heard' = 0
    /\ NextPass
    /\ UNCHANGED <<open, alive, sent, ticker, writes>>

Write ==
    /\ open
    /\ writes < MaxWrites
    /\ writes' = writes + 1
    /\ sent' = 0
    /\ NextPass
    /\ UNCHANGED <<open, alive, heard, ticker>>

\* The server goes, and the network says nothing of it.
ServerDies ==
    /\ alive
    /\ alive' = FALSE
    /\ UNCHANGED <<open, sent, heard, ticker, dog, writes>>

Next == Tick \/ HeartbeatTick \/ Watchdog \/ Receive \/ Write \/ ServerDies

Spec == Init /\ [][Next]_vars

\* Time passes and timers fire.
FairSpec == Spec /\ WF_vars(Tick) /\ WF_vars(HeartbeatTick) /\ WF_vars(Watchdog)

----------------------------------------------------------------------------
(* Properties *)

\* Every variable has its type.
TypeOK ==
    /\ open \in BOOLEAN
    /\ alive \in BOOLEAN
    /\ sent \in 0..Horizon
    /\ heard \in 0..Horizon
    /\ ticker \in 0..SendEvery
    /\ dog \in 0..Half
    /\ writes \in 0..MaxWrites

\* The line is never idle towards the server for twice the interval that was
\* negotiated, whatever is written and when.
NeverIdleForTwo == open /\ SendEvery > 0 => sent < 2 * SendEvery

\* The line is never idle for longer than the interval, which is how often the
\* server was told to expect something (heartbeats.md, "How often the client
\* will send heartbeats").
NeverIdleForOne == open /\ SendEvery > 0 => sent <= SendEvery

\* A server that keeps the interval it negotiated is never taken for dead.
LiveServerKept == alive => open

\* A server that has died is found out: the library "closes the connection if
\* the server stops responding" (README, Heartbeat Negotiation).
DeadServerNoticed == ~alive ~> ~open

\* ... and, where the ticker leaves the watchdog its sleep, at most one round
\* of the ticker later than the twice, and a round more for each frame that
\* was written meanwhile.
Round == Larger(SendEvery, Half)
NoticedInTime ==
    open /\ ReceiveWithin > 0 =>
        heard <= 2 * ReceiveWithin + (1 + writes) * Round
=============================================================================
