----------------------------- MODULE Lifecycle -----------------------------
(***************************************************************************)
(* The life of a Connection after `connect` has succeeded: the background  *)
(* task's loop of connecting, running, losing the connection and backing   *)
(* off; the shutdown signal; the outbound channel that any clone of the    *)
(* handle submits frames to; and receipts, by which a caller, and close()  *)
(* with its DISCONNECT, learns that the broker has processed a frame.      *)
(*                                                                         *)
(* Each client owns one clone of the handle and runs a program of calls on *)
(* it.  Subscriptions are the business of AckTracking and Delivery, and    *)
(* time that of Heartbeats and Backoff: a timeout, and the end of a sleep, *)
(* may come at any moment here.                                            *)
(***************************************************************************)
EXTENDS Integers, Sequences, FiniteSets

CONSTANTS
    Clients,     \* application tasks, each with a clone of the Connection
    Programs,    \* what calls each may make, in order; `close` takes its clone
    OutCap,      \* capacity of the outbound channel (32 in the code)
    WireCap,     \* frames the sockets buffer before a write has to wait
    MaxLosses    \* bound: connections lost and attempts failed

Receipted == {"send_frame_confirmed", "close"}
Calls == Receipted \cup {"send_frame"}

ASSUME ConstantsAssumption ==
    /\ Programs \subseteq [Clients -> Seq(Calls)]
    /\ \A p \in Programs : \A c \in Clients : \A i \in DOMAIN p[c] :
          p[c][i] = "close" => i = Len(p[c])
    /\ OutCap \in Nat \ {0}
    /\ WireCap \in Nat \ {0}
    /\ MaxLosses \in Nat

VARIABLES
    program,     \* the calls each client makes
    client,      \* per client: where its current call is, and which it is
    result,      \* what each call that returned gave its caller
    receipts,    \* `pending_receipts`: frames with a waiter registered
    outcome,     \* what the task has sent to a waiter, per frame
    outbound,    \* the outbound channel
    signal,      \* `shutdown_sub`: signals sent and not yet received
    io,          \* the background task: where it is and what it carries
    wire,        \* frames written to the connection, not yet at the broker
    answers,     \* RECEIPTs and ERRORs of the broker, not yet read
    losses,      \* connections lost and attempts failed so far
    accepted,    \* history: frames the outbound channel has taken
    before,      \* history: frames taken when each client called close()
    reached,     \* history: frames the broker has processed, and its verdict
    dropped,     \* history: frames that went down with their connection
    unheard      \* history: frames whose answer did

appVars == <<program, client, result, before>>
brokerVars == <<wire, answers, reached, dropped, unheard>>
vars == <<appVars, receipts, outcome, outbound, signal, io, brokerVars, losses,
          accepted>>

----------------------------------------------------------------------------
(* Data *)

\* A frame is named by the call that submits it, as a receipt id names it.
Frames == UNION {{c} \X DOMAIN program[c] : c \in Clients}
Verdicts == {"confirmed", "rejected"}

At(pc) == [pc |-> pc]
Ready(n) == [pc |-> "ready", n |-> n]
Gone == [pc |-> "gone", n |-> 0]

Frame(c) == <<c, client[c].n>>
Call(c) == program[c][client[c].n]
CallOf(f) == program[f[1]][f[2]]
Awaited == {f \in Frames : CallOf(f) \in Receipted}

Handles == {c \in Clients : client[c].pc # "gone"}

\* The task exits for a signal or because every clone of the handle is gone:
\* either makes its shutdown_sub.recv() ready.
ShutdownReady == signal # "none" \/ Handles = {}

Exited == io.pc = "exited"

Init ==
    /\ program \in Programs
    /\ client = [c \in Clients |->
                    IF program[c] = <<>> THEN Gone ELSE Ready(1)]
    /\ result = {}
    /\ receipts = {}
    /\ outcome = {}
    /\ outbound = <<>>
    /\ signal = "none"
    /\ io = [pc |-> "check", fresh |-> TRUE]
    /\ wire = <<>>
    /\ answers = <<>>
    /\ losses = 0
    /\ accepted = {}
    /\ before = [c \in Clients |-> {}]
    /\ reached = {}
    /\ dropped = {}
    /\ unheard = {}

----------------------------------------------------------------------------
(* Calls *)

\* The client's call returns; close() has the signal left to send.
Return(c, how) ==
    /\ result' = result \cup {[frame |-> Frame(c), got |-> how]}
    /\ client' = [client EXCEPT ![c] =
          IF Call(c) = "close" THEN [@ EXCEPT !.pc = "signalling"]
          ELSE IF @.n = Len(program[c]) THEN Gone ELSE Ready(@.n + 1)]

\* A call begins.  send_frame_with_receipt registers its waiter first, before
\* the frame is submitted.
Register(c) ==
    /\ client[c].pc = "ready"
    /\ receipts' = receipts \cup ({Frame(c)} \cap Awaited)
    /\ client' = [client EXCEPT ![c].pc = "submitting"]
    /\ before' = IF Call(c) = "close"
                 THEN [before EXCEPT ![c] = accepted] ELSE before
    /\ UNCHANGED <<program, result, outcome, outbound, signal, io,
                   brokerVars, losses, accepted>>

\* (Faulty form: a DISCONNECT goes to the front of the queue.)
EnqueueFirst(queue, f) ==
    IF CallOf(f) = "close" THEN <<f>> \o queue ELSE Append(queue, f)

Enqueue(queue, f) == Append(queue, f)

\* send_frame: the frame waits for room in the outbound channel.
Submit(c) ==
    /\ client[c].pc = "submitting"
    /\ ~Exited
    /\ Len(outbound) < OutCap
    /\ outbound' = Enqueue(outbound, Frame(c))
    /\ accepted' = accepted \cup {Frame(c)}
    /\ IF Call(c) = "send_frame" THEN Return(c, "sent")
       ELSE /\ client' = [client EXCEPT ![c].pc = "waiting"]
            /\ UNCHANGED result
    /\ UNCHANGED <<program, receipts, outcome, signal, io,
                   brokerVars, losses, before>>

\* ... or finds it closed, the task having exited.
SubmitFails(c) ==
    /\ client[c].pc = "submitting"
    /\ Exited
    /\ IF Call(c) = "send_frame" THEN Return(c, "closed")
       ELSE /\ client' = [client EXCEPT ![c].pc = "refused"]
            /\ UNCHANGED result
    /\ UNCHANGED <<program, receipts, outcome, outbound, signal, io,
                   brokerVars, losses, accepted, before>>

\* ReceiptHandle::wait: the broker's verdict ...
Settled(c) ==
    /\ client[c].pc = "waiting"
    /\ \E v \in Verdicts :
          /\ [frame |-> Frame(c), got |-> v] \in outcome
          /\ Return(c, v)
    /\ UNCHANGED <<program, receipts, outcome, outbound, signal, io,
                   brokerVars, losses, accepted, before>>


\* ... or the timeout, after which the waiter has to be removed.
Expire(c) ==
    /\ client[c].pc = "waiting"
    /\ \A v \in Verdicts : [frame |-> Frame(c), got |-> v] \notin outcome
    /\ client' = [client EXCEPT ![c].pc = "expired"]
    /\ UNCHANGED <<program, result, receipts, outcome, outbound,
                   signal, io, brokerVars, losses, accepted, before>>

\* (Faulty form: it is left behind.)
DeregisterNothing(c) ==
    /\ client[c].pc \in {"refused", "expired"}
    /\ Return(c, IF client[c].pc = "refused" THEN "closed" ELSE "timeout")
    /\ UNCHANGED <<program, receipts, outcome, outbound, signal, io,
                   brokerVars, losses, accepted, before>>

Deregister(c) ==
    /\ client[c].pc \in {"refused", "expired"}
    /\ receipts' = receipts \ {Frame(c)}
    /\ Return(c, IF client[c].pc = "refused" THEN "closed" ELSE "timeout")
    /\ UNCHANGED <<program, outcome, outbound, signal, io,
                   brokerVars, losses, accepted, before>>

\* A ReceiptHandle may be dropped instead.  Its waiter stays registered.
DropHandle(c) ==
    /\ client[c].pc = "waiting"
    /\ Call(c) = "send_frame_confirmed"
    /\ Return(c, "unawaited")
    /\ UNCHANGED <<program, receipts, outcome, outbound, signal, io,
                   brokerVars, losses, accepted, before>>

\* close() ends with the signal, whatever the broker answered.  The broadcast
\* channel holds one: a receiver that missed one is told that it lagged.
Signal(c) ==
    /\ client[c].pc = "signalling"
    /\ signal' = IF Exited THEN signal
                 ELSE IF signal = "none" THEN "one" ELSE "lagged"
    /\ client' = [client EXCEPT ![c] = Gone]
    /\ UNCHANGED <<program, result, receipts, outcome, outbound, io,
                   brokerVars, losses, accepted, before>>

\* The application may be done with its clone, and drop it, before any call.
DropClone(c) ==
    /\ client[c].pc = "ready"
    /\ client' = [client EXCEPT ![c] = Gone]
    /\ UNCHANGED <<program, result, receipts, outcome, outbound,
                   signal, io, brokerVars, losses, accepted, before>>

----------------------------------------------------------------------------
(* The background task: between connections *)

\* (Faulty form: the task subscribes to the signal anew in every round, and so
\* misses one sent before, #96.)
CheckAnew ==
    /\ io.pc = "check"
    /\ io' = IF io.fresh THEN At("select") ELSE At("connecting")
    /\ signal' = "none"
    /\ UNCHANGED <<appVars, receipts, outcome, outbound, brokerVars,
                   losses, accepted>>

\* The top of the loop: stop if told to, use the connection `connect` made
\* the first time, and make a new one any other time.
Check ==
    /\ io.pc = "check"
    /\ io' = IF ShutdownReady THEN At("ending")
             ELSE IF io.fresh THEN At("select") ELSE At("connecting")
    /\ UNCHANGED <<appVars, receipts, outcome, outbound, signal,
                   brokerVars, losses, accepted>>

\* TcpStream::connect and the CONNECT frame, then the answer to it.  Neither
\* wait races the shutdown signal.
Connect ==
    /\ io.pc = "connecting"
    /\ io' = At("handshake")
    /\ UNCHANGED <<appVars, receipts, outcome, outbound, signal,
                   brokerVars, losses, accepted>>

Connected ==
    /\ io.pc = "handshake"
    /\ io' = At("select")
    /\ wire' = <<>>
    /\ answers' = <<>>
    /\ UNCHANGED <<appVars, receipts, outcome, outbound, signal,
                   reached, dropped, unheard, losses, accepted>>

\* (Faulty form: a failed attempt ends the task.)
AttemptFailsForGood ==
    /\ io.pc \in {"connecting", "handshake"}
    /\ losses < MaxLosses
    /\ losses' = losses + 1
    /\ io' = At("ending")
    /\ UNCHANGED <<appVars, receipts, outcome, outbound, signal,
                   brokerVars, accepted>>

\* A failure of either, a rejection by the server included, is tried again.
AttemptFails ==
    /\ io.pc \in {"connecting", "handshake"}
    /\ losses < MaxLosses
    /\ losses' = losses + 1
    /\ io' = At("backoff")
    /\ UNCHANGED <<appVars, receipts, outcome, outbound, signal,
                   brokerVars, accepted>>

\* The sleep races the signal and, both being ready, loses.
BackoffEnds ==
    /\ io.pc = "backoff"
    /\ io' = IF ShutdownReady THEN At("ending")
             ELSE [pc |-> "check", fresh |-> FALSE]
    /\ UNCHANGED <<appVars, receipts, outcome, outbound, signal,
                   brokerVars, losses, accepted>>

\* The task ends: subscriptions first, then the outbound receiver, with
\* whatever it still holds.
Exit ==
    /\ io.pc = "ending"
    /\ io' = At("exited")
    /\ outbound' = <<>>
    /\ UNCHANGED <<appVars, receipts, outcome, signal, brokerVars,
                   losses, accepted>>

----------------------------------------------------------------------------
(* The background task: on a connection, one arm of its select at a time *)

\* (Faulty form: the signal is consumed here, and the check after the
\* connection finds none, #96.)
TakeShutdownForgets ==
    /\ io.pc = "select"
    /\ ShutdownReady
    /\ io' = At("lost")
    /\ signal' = "none"
    /\ UNCHANGED <<appVars, receipts, outcome, outbound, brokerVars,
                   losses, accepted>>

TakeShutdown ==
    /\ io.pc = "select"
    /\ ShutdownReady
    /\ io' = At("ending")
    /\ UNCHANGED <<appVars, receipts, outcome, outbound, signal,
                   brokerVars, losses, accepted>>

TakeOutbound ==
    /\ io.pc = "select"
    /\ outbound # <<>>
    /\ io' = [pc |-> "writing", frame |-> Head(outbound)]
    /\ outbound' = Tail(outbound)
    /\ UNCHANGED <<appVars, receipts, outcome, signal, brokerVars,
                   losses, accepted>>

\* sink.send: done when the sockets have room for the frame.
Write ==
    /\ io.pc = "writing"
    /\ Len(wire) < WireCap
    /\ wire' = Append(wire, io.frame)
    /\ io' = At("select")
    /\ UNCHANGED <<appVars, receipts, outcome, outbound, signal,
                   answers, reached, dropped, unheard, losses, accepted>>

\* Every handle is gone and the channel is empty: recv() gives None.
OutboundClosed ==
    /\ io.pc = "select"
    /\ outbound = <<>>
    /\ Handles = {}
    /\ io' = At("lost")
    /\ UNCHANGED <<appVars, receipts, outcome, outbound, signal,
                   brokerVars, losses, accepted>>

\* (Faulty form: any waiter will do.)
WaiterOfAny(f) == receipts
WaiterOf(f) == receipts \cap {f}

\* settle_receipt: a RECEIPT, or an ERROR that names a receipt, is given to
\* the waiter registered for it, if there still is one.
ReadAnswer ==
    /\ io.pc = "select"
    /\ answers # <<>>
    /\ LET waiters == WaiterOf(Head(answers).frame)
       IN /\ receipts' = receipts \ waiters
          /\ outcome' = outcome \cup
                {[frame |-> f, got |-> Head(answers).got] : f \in waiters}
    /\ answers' = Tail(answers)
    /\ UNCHANGED <<appVars, outbound, signal, io, wire, reached,
                   dropped, unheard, losses, accepted>>

\* The connection ends, with what was written and not yet processed.
InHand == IF io.pc = "writing" THEN {io.frame} ELSE {}
Lose ==
    /\ io.pc \in {"select", "writing"}
    /\ losses < MaxLosses
    /\ losses' = losses + 1
    /\ io' = At("lost")
    /\ dropped' = dropped \cup {wire[i] : i \in DOMAIN wire} \cup InHand
    /\ wire' = <<>>
    /\ unheard' = unheard \cup {answers[i].frame : i \in DOMAIN answers}
    /\ answers' = <<>>
    /\ UNCHANGED <<appVars, receipts, outcome, outbound, signal,
                   reached, accepted>>

\* (Faulty form: waiters are cleared with the connection, as pending
\* messages are, those of frames still queued included.)
AfterConnectionClears ==
    /\ io.pc = "lost"
    /\ io' = IF signal = "one" THEN At("ending") ELSE At("backoff")
    /\ signal' = IF signal = "lagged" THEN "one" ELSE signal
    /\ receipts' = {}
    /\ UNCHANGED <<appVars, outcome, outbound, brokerVars, losses, accepted>>

\* After the connection: a signal that came meanwhile ends the task, but
\* try_recv() does not see one through a lag, or that the handles are gone.
AfterConnection ==
    /\ io.pc = "lost"
    /\ io' = IF signal = "one" THEN At("ending") ELSE At("backoff")
    /\ signal' = IF signal = "lagged" THEN "one" ELSE signal
    /\ UNCHANGED <<appVars, receipts, outcome, outbound, brokerVars,
                   losses, accepted>>

----------------------------------------------------------------------------
(* Broker: it processes frames in order and answers those that ask for it. *)

Process(v) ==
    /\ wire # <<>>
    /\ v = "confirmed" \/ Head(wire) \in Awaited
    /\ wire' = Tail(wire)
    /\ LET f == Head(wire) IN
       /\ reached' = reached \cup {[frame |-> f, got |-> v]}
       /\ answers' = IF f \in Awaited
                     THEN Append(answers, [frame |-> f, got |-> v])
                     ELSE answers
    /\ UNCHANGED <<appVars, receipts, outcome, outbound, signal, io,
                   dropped, unheard, losses, accepted>>

----------------------------------------------------------------------------
\* Beginning a call, or dropping the clone, is the application's choice; a
\* call that has begun goes on.
Proceed(c) ==
    \/ Submit(c) \/ SubmitFails(c) \/ Settled(c) \/ Expire(c)
    \/ Deregister(c) \/ DropHandle(c) \/ Signal(c)
Client(c) == Register(c) \/ DropClone(c) \/ Proceed(c)

\* What the task does of its own accord, and what the network lets it do.
Step == Check \/ BackoffEnds \/ AfterConnection \/ Exit
Network == Connect \/ Connected \/ AttemptFails \/ Write \/ Lose
Arms == TakeShutdown \/ TakeOutbound \/ OutboundClosed \/ ReadAnswer

Next ==
    \/ \E c \in Clients : Client(c)
    \/ Step \/ Network \/ Arms
    \/ \E v \in Verdicts : Process(v)

Spec == Init /\ [][Next]_vars

\* The runtime runs every task; a connection attempt ends one way or the other
\* (the operating system gives it up); select! picks among ready arms at
\* random, so one that stays ready is picked.  Nothing is assumed of the
\* broker: it may never answer CONNECT, never read, never send a RECEIPT.
Fairness ==
    /\ \A c \in Clients : WF_vars(Proceed(c))
    /\ WF_vars(Step)
    /\ WF_vars(io.pc = "connecting" /\ (Connect \/ AttemptFails))
    /\ SF_vars(TakeShutdown) /\ SF_vars(TakeOutbound)
    /\ WF_vars(OutboundClosed) /\ WF_vars(ReadAnswer)
    /\ WF_vars(Write)

FairSpec == Spec /\ Fairness

----------------------------------------------------------------------------
(* Properties *)

ClientStates == {"ready", "submitting", "refused", "waiting", "expired",
                 "signalling", "gone"}
Tasks == [pc: {"connecting", "handshake", "select", "backoff", "lost",
               "ending", "exited"}]
         \cup [pc: {"check"}, fresh: BOOLEAN]
         \cup [pc: {"writing"}, frame: Frames]
Answers == [frame: Frames, got: Verdicts]
Results == [frame: Frames,
            got: Verdicts \cup {"sent", "closed", "timeout", "unawaited"}]

\* Every variable has its type, and the channel is within its capacity.
TypeOK ==
    /\ program \in Programs
    /\ client \in [Clients -> [pc: ClientStates, n: Nat]]
    /\ result \subseteq Results
    /\ receipts \subseteq Frames
    /\ outcome \subseteq Answers
    /\ outbound \in Seq(Frames)
    /\ Len(outbound) <= OutCap
    /\ signal \in {"none", "one", "lagged"}
    /\ io \in Tasks
    /\ wire \in Seq(Frames)
    /\ answers \in Seq(Answers)
    /\ losses \in 0..MaxLosses
    /\ accepted \subseteq Frames
    /\ before \in [Clients -> SUBSET accepted]
    /\ reached \subseteq Answers
    /\ dropped \subseteq Frames
    /\ unheard \subseteq Frames

\* A call is told the broker's verdict on its own frame, and nothing else:
\* whatever was asked for, answered, timed out or lost around it.
VerdictIsTheBrokers ==
    \A r \in result : r.got \in Verdicts => r \in reached

\* No answer is missed: one the broker has given is in its waiter's hands or
\* still to be read, however fast it came, for as long as the caller waits and
\* the connection that carries it lasts (#82).
NoAnswerMissed ==
    \A c \in Clients : \A a \in reached :
        client[c].pc = "waiting" /\ a.frame = Frame(c) =>
            \/ a \in outcome
            \/ \E i \in DOMAIN answers : answers[i] = a
            \/ a.frame \in unheard

\* A call that returned leaves no waiter behind, unless its handle was
\* dropped without waiting.
NoWaiterLeft ==
    \A r \in result : r.got # "unawaited" => r.frame \notin receipts

\* When close() reports a confirmed DISCONNECT, no frame submitted before it,
\* by any clone, is left in the client: each has been processed, or went down
\* with an earlier connection.
Confirmed(c) ==
    \E r \in result : r.frame[1] = c /\ CallOf(r.frame) = "close"
                      /\ r.got = "confirmed"
Reached == {a.frame : a \in reached}
ConfirmedCloseDrains ==
    \A c \in Clients :
        Confirmed(c) => before[c] \subseteq Reached \cup dropped

\* "a confirmed close also proves that everything previously sent on this
\* connection reached the broker" (Connection::close).
ConfirmedCloseProves ==
    \A c \in Clients : Confirmed(c) => before[c] \subseteq Reached

\* The task ends only if a close() has signalled or every handle is gone: no
\* failure of the connection ends it.
HasClosed(c) ==
    /\ client[c].pc = "gone"
    /\ \E r \in result : r.frame[1] = c /\ CallOf(r.frame) = "close"
Signalled == \E c \in Clients : HasClosed(c)
EndsOnlyIfAsked ==
    io.pc \in {"ending", "exited"} => Signalled \/ Handles = {}

\* Once close() has signalled, no new connection is attempted (#96).
NoConnectAfterClose ==
    [][Signalled /\ io.pc # "connecting" => io'.pc # "connecting"]_vars

\* The task waits for the broker, and only for it: for the answer to CONNECT,
\* or for the broker to read and so make room for a write.
HeldByBroker ==
    \/ io.pc = "handshake"
    \/ io.pc = "writing" /\ Len(wire) = WireCap

\* "The connection is torn down either way" (Connection::close), whatever the
\* broker does: once close() has signalled, or every handle is gone, the task
\* ends.  The one way out is a task that the broker holds for ever, in a
\* handshake or a write, neither of which races the signal.
TornDown == Signalled \/ Handles = {} ~> Exited \/ []HeldByBroker

\* An "unresponsive broker cannot make close hang" (Connection::close), nor any
\* other call.  The timeout bounds the wait for the RECEIPT; the wait for room
\* in the outbound channel has none, so a call hangs where the channel stays
\* full because the broker holds the task for ever, and nowhere else.
Calling(c) == client[c].pc \notin {"ready", "gone"}
NoRoom(c) == client[c].pc = "submitting" /\ Len(outbound) = OutCap
=============================================================================
