------------------------------ MODULE Session ------------------------------
(***************************************************************************)
(* A session of the command line client: the main loop that reads lines    *)
(* or keys and executes commands, the task that subscribes on request, one *)
(* task per subscription, the monitor of broker errors, and the ways a     *)
(* session ends.  They share the state of module AppState under a lock,    *)
(* and the connection.                                                     *)
(*                                                                         *)
(* Of the connection only what a caller can wait for is here: room in the  *)
(* outbound channel, which is written while there is a connection, and the *)
(* answer to DISCONNECT; and the inbound channel, into which the           *)
(* connection puts frames no subscription takes, or drops them.  Editing   *)
(* the line is module LineEditor's.                                        *)
(***************************************************************************)
EXTENDS AppState

CONSTANTS
    Common,         \* destinations of a pattern the client knows
    Wanted,         \* those asked for on the command line, in order
    SUB_CAP,        \* capacity of the channel of subscription requests
    OUT_CAP,        \* of the connection's outbound channel
    IN_CAP,         \* of its inbound channel
    MaxCommands,    \* bound: commands entered
    MaxMessages,    \* bound: MESSAGEs recorded
    MaxErrors       \* bound: broker ERRORs recorded, but for those queued

ASSUME SessionAssumption ==
    /\ Common \subseteq Destinations
    /\ Wanted \in Seq(Destinations)
    /\ {SUB_CAP, OUT_CAP, IN_CAP} \subseteq Nat \ {0}
    /\ {MaxCommands, MaxMessages, MaxErrors} \subseteq Nat

VARIABLES
    tui,         \* TUI or plain mode
    main,        \* where the main loop is and what it has in hand
    eof,         \* standard input has ended
    requests,    \* the channel of subscription requests
    manager,     \* the destination the subscription task works on
    handlers,    \* destinations with a task reading their MESSAGEs
    app,         \* the shared state
    out,         \* the outbound channel
    in,          \* the inbound channel
    now,         \* the number of entries recorded
    commands,    \* commands entered
    cleared,     \* history: messages recorded before the last `clear`
    broker       \* history: MESSAGEs recorded, and entries of the error pane

io == <<out, in, broker>>
panes == <<app, now, cleared>>
vars == <<tui, main, eof, requests, manager, handlers, commands, io, panes>>

At(pc) == [pc |-> pc]
With(pc, dest) == [pc |-> pc, dest |-> dest]
None == "none"
Announcing == "announcing"

Init ==
    /\ tui \in BOOLEAN
    /\ main = [pc |-> "starting", todo |-> Wanted]
    /\ eof = FALSE
    /\ requests = <<>> /\ manager = None /\ handlers = {}
    /\ app = NewApp /\ now = 0 /\ cleared = 0
    /\ out = <<>> /\ in = <<>>
    /\ commands = 0
    /\ broker = [messages |-> 0, errors |-> 0]

\* Record entries in the shared state, in order.
Record(state, sources) ==
    /\ app' = FoldLeft(LAMBDA a, i : record_message(a, sources[i], now + i),
                       state, [i \in DOMAIN sources |-> i])
    /\ now' = now + Len(sources)
    /\ UNCHANGED cleared

RecordNothing == UNCHANGED panes

\* What a command has to say goes to the message pane of the TUI, and is
\* printed in plain mode.
Say(sources) == IF tui THEN Record(app, sources) ELSE RecordNothing

----------------------------------------------------------------------------
(* Starting: the subscriptions of the command line come first.               *)

Room == Len(out) < OUT_CAP

Subscribe(dest) ==
    /\ Room
    /\ out' = Append(out, "SUBSCRIBE")
    /\ handlers' = handlers \cup {dest}

Start ==
    /\ main.pc = "starting"
    /\ \/ /\ main.todo = <<>>
          /\ main' = At("prompt")
          /\ UNCHANGED <<out, handlers, app>>
       \/ /\ main.todo # <<>>
          /\ Subscribe(Head(main.todo))
          /\ app' = register_subscription(app, Head(main.todo))
          /\ main' = [main EXCEPT !.todo = Tail(@)]
    /\ UNCHANGED <<tui, eof, requests, manager, in, now, commands,
                   cleared, broker>>

----------------------------------------------------------------------------
(* The main loop *)

Command ==
    /\ main.pc = "prompt"
    /\ ~eof
    /\ commands < MaxCommands
    /\ commands' = commands + 1
    /\ UNCHANGED <<tui, eof, manager, handlers, in, broker>>

\* send: refused without a destination that starts with a slash or without a
\* text; an unusual destination nobody subscribed to gets a warning.
SendCommand(dest) ==
    /\ Command
    /\ main' = [pc |-> "sending",
                say |-> IF dest \in DOMAIN app.subscriptions \cup Common
                        THEN <<"SENT">> ELSE <<"WARN", "SENT">>]
    /\ RecordNothing
    /\ UNCHANGED <<requests, out>>

\* sub: the request goes to the subscription task.
SubCommand(dest) ==
    /\ Command
    /\ main' = With("asking", dest)
    /\ IF dest \in Common THEN RecordNothing ELSE Say(<<"WARN">>)
    /\ UNCHANGED <<requests, out>>

ClearCommand ==
    /\ Command
    /\ app' = clear_messages(app)
    /\ cleared' = now - broker.errors
    /\ UNCHANGED <<main, requests, out, now>>

\* about, help, summary and report to a file; a command that is refused or
\* unknown, a file that cannot be written; an empty line.
OtherCommand(answer) ==
    /\ Command
    /\ Say(answer)
    /\ UNCHANGED <<main, requests, out>>

QuitCommand ==
    /\ Command
    /\ main' = At("quitting")
    /\ RecordNothing
    /\ UNCHANGED <<requests, out>>

\* A command waits: send_frame for room in the outbound channel ...
Sent ==
    /\ main.pc = "sending"
    /\ Room
    /\ out' = Append(out, "SEND")
    /\ Say(main.say)
    /\ main' = At("prompt")
    /\ UNCHANGED <<tui, eof, requests, manager, handlers, in, commands,
                   broker>>

\* ... and sub for room in the channel of requests.
Asked ==
    /\ main.pc = "asking"
    /\ Len(requests) < SUB_CAP
    /\ requests' = Append(requests, main.dest)
    /\ main' = At("prompt")
    /\ RecordNothing
    /\ UNCHANGED <<tui, eof, manager, handlers, io, commands>>

\* The keys that scroll or toggle are only read at the prompt.
Scroll ==
    /\ tui
    /\ main.pc = "prompt"
    /\ app' \in ScrollKeys(app)
    /\ UNCHANGED <<tui, main, eof, requests, manager, handlers, io, now,
                   commands, cleared>>

\* Plain mode: input that ends, ends the session, and nothing is closed.
EndOfInput ==
    /\ ~tui
    /\ ~eof
    /\ eof' = TRUE
    /\ UNCHANGED <<tui, main, requests, manager, handlers, io, panes,
                   commands>>

StopAtEof ==
    /\ main.pc = "prompt"
    /\ eof
    /\ main' = At("done")
    /\ UNCHANGED <<tui, eof, requests, manager, handlers, io, panes,
                   commands>>

\* close(): DISCONNECT is queued behind everything else, which waits for room,
\* and then its receipt comes or the wait times out with a warning.
Disconnect ==
    /\ main.pc = "quitting"
    /\ Room
    /\ out' = Append(out, "DISCONNECT")
    /\ main' = At("closing")
    /\ UNCHANGED <<tui, eof, requests, manager, handlers, in, broker,
                   panes, commands>>

Closed ==
    /\ main.pc = "closing"
    /\ main' = At("done")
    /\ UNCHANGED <<tui, eof, requests, manager, handlers, io, panes,
                   commands>>

----------------------------------------------------------------------------
(* The other tasks.  They run until the process ends.                        *)

Running == main.pc \notin {"starting", "done"}

\* The subscription task takes a request ...
Take ==
    /\ Running
    /\ manager = None
    /\ requests # <<>>
    /\ manager' = Head(requests)
    /\ requests' = Tail(requests)
    /\ UNCHANGED <<tui, main, eof, handlers, io, panes, commands>>

\* ... subscribes, which waits for room, and spawns a task for what comes ...
Subscribed ==
    /\ Running
    /\ manager \in Destinations
    /\ Subscribe(manager)
    /\ app' = register_subscription(app, manager)
    /\ manager' = IF tui THEN Announcing ELSE None
    /\ UNCHANGED <<tui, main, eof, requests, in, broker, now, cleared,
                   commands>>

\* ... and says so in the TUI, possibly after the first messages.
Announce ==
    /\ Running
    /\ manager = Announcing
    /\ Record(app, <<"INFO">>)
    /\ manager' = None
    /\ UNCHANGED <<tui, main, eof, requests, handlers, io, commands>>

\* A subscription's task records a MESSAGE: among the errors, if broker errors
\* have the name of its destination.
Handle(dest) ==
    /\ main.pc # "done"
    /\ dest \in handlers
    /\ broker.messages < MaxMessages
    /\ Record(app, <<dest>>)
    /\ broker' = [messages |-> broker.messages + 1,
                  errors |-> IF dest = BrokerError THEN broker.errors + 1
                             ELSE broker.errors]
    /\ UNCHANGED <<tui, main, eof, requests, manager, handlers, out, in,
                   commands>>

\* forward_inbound: an ERROR, or a MESSAGE for no subscription, is offered to
\* the inbound channel and dropped when that is full.
Forward(frame) ==
    /\ main.pc # "done"
    /\ broker.errors < MaxErrors
    /\ in' = IF Len(in) < IN_CAP THEN Append(in, frame) ELSE in
    /\ UNCHANGED <<tui, main, eof, requests, manager, handlers, out,
                   broker, panes, commands>>

\* The monitor: next_frame(), and an ERROR is recorded, whatever the mode.
Monitor ==
    /\ Running
    /\ in # <<>>
    /\ in' = Tail(in)
    /\ IF Head(in) = "ERROR"
       THEN /\ Record(app, <<BrokerError>>)
            /\ broker' = [broker EXCEPT !.errors = @ + 1]
       ELSE RecordNothing /\ UNCHANGED broker
    /\ UNCHANGED <<tui, main, eof, requests, manager, handlers, out,
                   commands>>

----------------------------------------------------------------------------
(* The connection *)

\* (Faulty form: a frame is put into the inbound channel when there is room,
\* and until then nothing else is done.)
WriteBehindInbound ==
    /\ main.pc # "done"
    /\ Len(in) < IN_CAP
    /\ out # <<>>
    /\ out' = Tail(out)
    /\ UNCHANGED <<tui, main, eof, requests, manager, handlers, in,
                   broker, panes, commands>>

Write ==
    /\ main.pc # "done"
    /\ out # <<>>
    /\ out' = Tail(out)
    /\ UNCHANGED <<tui, main, eof, requests, manager, handlers, in,
                   broker, panes, commands>>

----------------------------------------------------------------------------
Answers == {<<>>, <<"INFO">>, <<"ERROR">>}

User ==
    \/ \E d \in Destinations : SendCommand(d) \/ SubCommand(d)
    \/ \E answer \in Answers : OtherCommand(answer)
    \/ ClearCommand \/ QuitCommand \/ Scroll \/ EndOfInput

Main == Start \/ Sent \/ Asked \/ StopAtEof \/ Disconnect \/ Closed

Tasks == Take \/ Subscribed \/ Announce \/ Monitor

Network ==
    \/ \E d \in Destinations : Handle(d)
    \/ \E frame \in {"ERROR", "MESSAGE"} : Forward(frame)

Next == User \/ Main \/ Tasks \/ Network \/ Write

Spec == Init /\ [][Next]_vars

\* The runtime runs every task, and the connection writes, if need be after
\* it was lost and replaced.  Waiting for room is first come, first served.
Fairness ==
    /\ WF_vars(Main) /\ SF_vars(Sent) /\ SF_vars(Disconnect)
    /\ WF_vars(Take) /\ SF_vars(Subscribed) /\ WF_vars(Announce)
    /\ WF_vars(Monitor)
    /\ WF_vars(Write)

FairSpec == Spec /\ Fairness

----------------------------------------------------------------------------
(* Properties *)

\* Every variable has its type, and every channel is within its capacity.
TypeOK ==
    /\ tui \in BOOLEAN /\ eof \in BOOLEAN
    /\ main.pc \in {"starting", "prompt", "sending", "asking", "quitting",
                    "closing", "done"}
    /\ requests \in Seq(Destinations) /\ Len(requests) <= SUB_CAP
    /\ manager \in Destinations \cup {None, Announcing}
    /\ handlers \subseteq Destinations
    /\ out \in Seq({"SEND", "SUBSCRIBE", "DISCONNECT"}) /\ Len(out) <= OUT_CAP
    /\ in \in Seq({"ERROR", "MESSAGE"}) /\ Len(in) <= IN_CAP
    /\ {now, commands, cleared} \subseteq Nat

\* A pane holds as many as it can of what was recorded for it, in order and
\* down to the newest, and the counters, kept apart from them and over clears
\* and evictions, add up to all that was ever recorded.  Broker errors have
\* their pane to themselves and lose nothing to `clear`.
InOrder(ring) == \A i \in 2..Len(ring) : ring[i - 1].at < ring[i].at

PanesHoldLatest ==
    /\ Len(app.messages) = AtMost(now - broker.errors - cleared, MAX_MESSAGES)
    /\ Len(app.errors) = AtMost(broker.errors, MAX_ERRORS)
    /\ InOrder(app.messages) /\ InOrder(app.errors)
    /\ app.messages # <<>> =>
           \E e \in Range(app.messages) \cup Range(app.errors) : e.at = now
    /\ total_message_count(app) + SumFunction(app.count) = now

\* Unless the user scrolled, the newest message can be seen, as long as no
\* headers are shown; and however the user scrolled before messages went, no
\* pane is left empty while there is something for it.
NewestShown ==
    /\ app.messages # <<>> => render_messages(app) # {}
    /\ app.errors # <<>> => render_errors(app) # {}
    /\ app.messages # <<>> /\ app.scroll_offset = 0 /\ ~app.show_headers =>
           Len(app.messages) \in render_messages(app)

\* Whatever the tasks wait for, the main loop comes back to read keys, or the
\* session ends: a full channel never blocks it for good.
KeysAreHeard == []<>(main.pc \in {"prompt", "done"})
=============================================================================
