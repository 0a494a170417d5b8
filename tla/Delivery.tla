------------------------------ MODULE Delivery ------------------------------
(***************************************************************************)
(* Delivery of MESSAGEs to subscriptions: the bounded channel of each      *)
(* Subscription, the overflow queue the background task parks frames in    *)
(* while the channel is full, the wake list it waits on, and how a         *)
(* subscription ends.                                                      *)
(*                                                                         *)
(* The background task holds the registry lock for a whole delivery pass,  *)
(* but consumers read their channels, and let go of them, at any instant:  *)
(* each try_send is a step of its own.  MESSAGEs are numbered in the order *)
(* they are read; acknowledging them is the business of AckTracking.       *)
(***************************************************************************)
EXTENDS Integers, Sequences, FiniteSets

CONSTANTS
    Subs,         \* subscription ids
    Dests,        \* destinations
    Dest,         \* the destination of each subscription
    AutoSubs,     \* the subscriptions in `auto` ack mode
    Cap,          \* capacity of a subscription's channel
    Limit,        \* its overflow limit; zero means no parking at all
    MaxMsg,       \* bound: MESSAGEs read
    MaxDrops      \* bound: connections lost

ASSUME ConstantsAssumption ==
    /\ Dest \in [Subs -> Dests]
    /\ AutoSubs \subseteq Subs
    /\ Cap \in Nat \ {0}
    /\ Limit \in Nat
    /\ MaxMsg \in Nat
    /\ MaxDrops \in Nat

VARIABLES
    registry,     \* subscriptions with an entry in `subscriptions`
    chan,         \* per subscription, frames in its channel
    over,         \* per subscription, frames in its overflow queue
    wake,         \* the task's `parked` list: it holds a sender of each
    leaving,      \* the subscription an application task is ending: it has
                  \* the registry lock, the reason is set, the entry to go
    ended,        \* per subscription, why it ended: first reason given
    overflowed,   \* the task's `overflowed_sub_ids`
    io,           \* the background task: where it is and what it carries
    reader,       \* per subscription, the state of its receiving side
    count,        \* MESSAGEs read so far; the last one is number count
    drops,        \* connections lost so far
    got,          \* history: per subscription, frames the consumer read
    backlog       \* history: frames waiting when the last MESSAGE was read

vars == <<registry, chan, over, wake, leaving, ended, overflowed, io, reader,
          count, drops, got, backlog>>

Reasons == {"unsubscribed", "overflowed", "abandoned", "connection closed"}

At(pc) == [pc |-> pc]
Registered(d) == {s \in registry : Dest[s] = d}

\* Who has the registry lock: the task, for a delivery pass, a drain or an
\* end, or an application task that ends a subscription.
TaskHasLock ==
    io.pc \in {"pass", "drain", "offer", "park", "evict", "wake", "end"}
Locked == TaskHasLock \/ leaving # {}

\* try_send's three answers.  The receiver may go at any time, and a channel
\* without one is Closed even when it has room.
Closed(s) == reader[s] = "gone"
Full(s) == ~Closed(s) /\ Len(chan[s]) = Cap
Room(s) == ~Closed(s) /\ Len(chan[s]) < Cap

\* A channel is open for reading while any sender of it is left.
HasSender(s) == s \in registry \/ s \in wake \/ reader[s] = "entered"

\* The first reason given for an end is the one kept.
End(gone, why) ==
    [s \in Subs |-> IF s \in gone /\ ended[s] = "none" THEN why ELSE ended[s]]

\* Removing an entry drops its sender, and what was parked for it.
Remove(gone) ==
    /\ registry' = registry \ gone
    /\ over' = [s \in Subs |-> IF s \in gone THEN <<>> ELSE over[s]]

\* An end has two halves, under one lock that consumers need not have: the
\* reasons are given, then the entries go.  (Faulty form: the other way round.)
Tell(gone, why) == ended' = End(gone, why) /\ UNCHANGED <<registry, over>>
Drop(gone) == Remove(gone) /\ UNCHANGED ended

EndHalfSwapped(half, gone, why) ==
    IF half = 1 THEN Drop(gone) ELSE Tell(gone, why)
EndHalf(half, gone, why) ==
    IF half = 1 THEN Tell(gone, why) ELSE Drop(gone)

Init ==
    /\ registry = {}
    /\ chan = [s \in Subs |-> <<>>]
    /\ over = [s \in Subs |-> <<>>]
    /\ wake = {}
    /\ leaving = {}
    /\ ended = [s \in Subs |-> "none"]
    /\ overflowed = {}
    /\ io = At("top")
    /\ reader = [s \in Subs |-> "new"]
    /\ count = 0
    /\ drops = 0
    /\ got = [s \in Subs |-> <<>>]
    /\ backlog = [s \in Subs |-> 0]

----------------------------------------------------------------------------
(* The application *)

\* subscribe, first half: the entry goes into the registry.
SubscribeEnter(s) ==
    /\ reader[s] = "new"
    /\ ~Locked
    /\ registry' = registry \cup {s}
    /\ reader' = [reader EXCEPT ![s] = "entered"]
    /\ UNCHANGED <<chan, over, wake, leaving, ended, overflowed, io, count,
                   drops, got, backlog>>

\* Second half: SUBSCRIBE is queued and the caller has its Subscription, or
\* the task has exited, the call fails and the receiver is dropped.
SubscribeSend(s) ==
    /\ reader[s] = "entered"
    /\ reader' = [reader EXCEPT ![s] =
                     IF io.pc = "exited" THEN "gone" ELSE "open"]
    /\ UNCHANGED <<registry, chan, over, wake, leaving, ended, overflowed, io,
                   count, drops, got, backlog>>

\* The future of subscribe is dropped while SUBSCRIBE waits for room: the
\* entry stays, and its receiver is gone.
SubscribeGivenUp(s) ==
    /\ reader[s] = "entered"
    /\ reader' = [reader EXCEPT ![s] = "gone"]
    /\ chan' = [chan EXCEPT ![s] = <<>>]
    /\ UNCHANGED <<registry, over, wake, leaving, ended, overflowed, io, count,
                   drops, got, backlog>>

\* The stream's next(): a frame, or None once every sender is gone.
Read(s) ==
    /\ reader[s] = "open"
    /\ chan[s] # <<>>
    /\ chan' = [chan EXCEPT ![s] = Tail(@)]
    /\ got' = [got EXCEPT ![s] = Append(@, Head(chan[s]))]
    /\ UNCHANGED <<registry, over, wake, leaving, ended, overflowed, io,
                   reader, count, drops, backlog>>

ReadEnd(s) ==
    /\ reader[s] = "open"
    /\ chan[s] = <<>>
    /\ ~HasSender(s)
    /\ reader' = [reader EXCEPT ![s] = "done"]
    /\ UNCHANGED <<registry, chan, over, wake, leaving, ended, overflowed, io,
                   count, drops, got, backlog>>

\* An application task takes the lock and gives the reason: unsubscribe (the
\* receiver may live on: another task's, or one taken with into_receiver), or
\* the drop of a Subscription, if nobody else has the lock.
BeginLeaving(s, next) ==
    /\ reader[s] = "open"
    /\ s \in registry
    /\ ~Locked
    /\ EndHalf(1, {s}, "unsubscribed")
    /\ leaving' = {s}
    /\ reader' = [reader EXCEPT ![s] = next]
    /\ UNCHANGED <<chan, wake, overflowed, io, count, drops, got, backlog>>

Unsubscribe(s) == BeginLeaving(s, "open")
DropHandle(s) == BeginLeaving(s, "dropping")

\* The entry goes and the lock is released; a Subscription that is being
\* dropped has its receiver go next.
FinishLeaving(s) ==
    /\ s \in leaving
    /\ EndHalf(2, {s}, "unsubscribed")
    /\ leaving' = leaving \ {s}
    /\ IF reader[s] = "dropping"
       THEN /\ reader' = [reader EXCEPT ![s] = "gone"]
            /\ chan' = [chan EXCEPT ![s] = <<>>]
       ELSE UNCHANGED <<reader, chan>>
    /\ UNCHANGED <<wake, overflowed, io, count, drops, got, backlog>>

\* Only a receiver is dropped: one taken with into_receiver, that of a
\* Subscription without an entry, or one whose drop found the lock taken.
DropReceiver(s) ==
    /\ reader[s] \in {"open", "done"}
    /\ reader' = [reader EXCEPT ![s] = "gone"]
    /\ chan' = [chan EXCEPT ![s] = <<>>]
    /\ UNCHANGED <<registry, over, wake, leaving, ended, overflowed, io, count,
                   drops, got, backlog>>

----------------------------------------------------------------------------
(* The background task: a MESSAGE *)

\* Read one: for the subscription it names, or for every subscription of its
\* destination when it names none.  An overflowed subscription's is dropped.
Receive(targets) ==
    /\ io.pc = "select"
    /\ leaving = {}
    /\ count < MaxMsg
    /\ count' = count + 1
    /\ io' = [pc |-> "pass", todo |-> targets, failed |-> {}]
    /\ backlog' = [s \in Subs |-> IF s \in registry
                                  THEN Len(chan[s]) + Len(over[s])
                                  ELSE backlog[s]]
    /\ UNCHANGED <<registry, chan, over, wake, leaving, ended, overflowed,
                   reader, drops, got>>

ReceiveNamed(s) ==
    /\ reader[s] # "new"
    /\ s \notin overflowed
    /\ Receive({s} \cap registry)

ReceiveForDest(d) == Receive(Registered(d))

\* deliver_and_keep, one subscription at a time.  First drain_overflow ...
PassNext(s) ==
    /\ io.pc = "pass"
    /\ s \in io.todo
    /\ io' = [pc |-> "drain", sub |-> s, todo |-> io.todo \ {s},
              failed |-> io.failed]
    /\ UNCHANGED <<registry, chan, over, wake, leaving, ended, overflowed,
                   reader, count, drops, got, backlog>>

\* (the oldest parked frame moves into the channel)
MoveOne(s) ==
    /\ over[s] # <<>>
    /\ Room(s)
    /\ chan' = [chan EXCEPT ![s] = Append(@, Head(over[s]))]
    /\ over' = [over EXCEPT ![s] = Tail(@)]
    /\ UNCHANGED <<registry, wake, leaving, ended, overflowed, io, reader,
                   count, drops, got, backlog>>

DrainOne == io.pc = "drain" /\ MoveOne(io.sub)

DrainStops ==
    /\ io.pc = "drain"
    /\ over[io.sub] = <<>> \/ Full(io.sub)
    /\ io' = [io EXCEPT !.pc = IF over[io.sub] = <<>> THEN "offer" ELSE "park"]
    /\ UNCHANGED <<registry, chan, over, wake, leaving, ended, overflowed,
                   reader, count, drops, got, backlog>>

PassOn == [pc |-> "pass", todo |-> io.todo, failed |-> io.failed]

\* (the receiver is gone: the entry is pruned)
PassClosed ==
    /\ \/ io.pc = "drain" /\ over[io.sub] # <<>>
       \/ io.pc = "offer"
    /\ Closed(io.sub)
    /\ Remove({io.sub})
    /\ io' = PassOn
    /\ UNCHANGED <<chan, wake, leaving, ended, overflowed, reader, count,
                   drops, got, backlog>>

\* ... then, with nothing parked any more, the frame goes into the channel ...
OfferTaken ==
    /\ io.pc = "offer"
    /\ Room(io.sub)
    /\ chan' = [chan EXCEPT ![io.sub] = Append(@, count)]
    /\ io' = PassOn
    /\ UNCHANGED <<registry, over, wake, leaving, ended, overflowed, reader,
                   count, drops, got, backlog>>

OfferFull ==
    /\ io.pc = "offer"
    /\ Full(io.sub)
    /\ io' = [io EXCEPT !.pc = "park"]
    /\ UNCHANGED <<registry, chan, over, wake, leaving, ended, overflowed,
                   reader, count, drops, got, backlog>>

\* ... or joins the back of the overflow queue, and the wake list has the
\* subscription ...
\* (Faulty forms: a queue one shorter than the limit, and a park that forgets
\* the wake list.)
AtLimitEarly(s) == Len(over[s]) >= Limit - 1
AtLimit(s) == Len(over[s]) >= Limit

ParkWithoutWake ==
    /\ io.pc = "park"
    /\ ~AtLimit(io.sub)
    /\ over' = [over EXCEPT ![io.sub] = Append(@, count)]
    /\ io' = PassOn
    /\ UNCHANGED <<registry, chan, wake, leaving, ended, overflowed, reader,
                   count, drops, got, backlog>>

ParkTaken ==
    /\ io.pc = "park"
    /\ ~AtLimit(io.sub)
    /\ over' = [over EXCEPT ![io.sub] = Append(@, count)]
    /\ wake' = wake \cup {io.sub}
    /\ io' = PassOn
    /\ UNCHANGED <<registry, chan, leaving, ended, overflowed, reader, count,
                   drops, got, backlog>>

\* ... or, the queue being at its limit, fails the subscription.
ParkRefused ==
    /\ io.pc = "park"
    /\ AtLimit(io.sub)
    /\ EndHalf(1, {io.sub}, "overflowed")
    /\ io' = [io EXCEPT !.pc = "evict"]
    /\ UNCHANGED <<chan, wake, leaving, overflowed, reader, count, drops, got,
                   backlog>>

Evict ==
    /\ io.pc = "evict"
    /\ EndHalf(2, {io.sub}, "overflowed")
    /\ io' = [PassOn EXCEPT !.failed = @ \cup {io.sub}]
    /\ UNCHANGED <<chan, wake, leaving, overflowed, reader, count, drops, got,
                   backlog>>

PassDone ==
    /\ io.pc = "pass"
    /\ io.todo = {}
    /\ io' = IF io.failed = {} THEN At("top")
             ELSE [pc |-> "fail", failed |-> io.failed]
    /\ UNCHANGED <<registry, chan, over, wake, leaving, ended, overflowed,
                   reader, count, drops, got, backlog>>

\* The lock is released.  Each failed subscription leaves the wake list, is
\* remembered and has its UNSUBSCRIBE written; a failed write loses the
\* connection and leaves the rest of them unhandled.
FailOne(s, ok) ==
    /\ io.pc = "fail"
    /\ s \in io.failed
    /\ ok \/ drops < MaxDrops
    /\ wake' = wake \ {s}
    /\ overflowed' = overflowed \cup {s}
    /\ io' = IF ~ok THEN At("lost")
             ELSE IF io.failed = {s} THEN At("top")
             ELSE [io EXCEPT !.failed = @ \ {s}]
    /\ UNCHANGED <<registry, chan, over, leaving, ended, reader, count, drops,
                   got, backlog>>

----------------------------------------------------------------------------
(* The background task: everything else *)

\* Before every wait the wake list is pruned to what it is for.  (Faulty
\* form: it is not.)
PruneNothing(w) == w
Prune(w) == {s \in w : s \in registry /\ over[s] # <<>>}

Top ==
    /\ io.pc = "top"
    /\ wake # {} => leaving = {}
    /\ wake' = Prune(wake)
    /\ io' = At("select")
    /\ UNCHANGED <<registry, chan, over, leaving, ended, overflowed, reader,
                   count, drops, got, backlog>>

\* The parked arm: a listed subscription has room, or no receiver.
Wake(s) ==
    /\ io.pc = "select"
    /\ leaving = {}
    /\ s \in wake
    /\ Room(s) \/ Closed(s)
    /\ io' = [pc |-> "wake", sub |-> s]
    /\ UNCHANGED <<registry, chan, over, wake, leaving, ended, overflowed,
                   reader, count, drops, got, backlog>>

WakeOne == io.pc = "wake" /\ io.sub \in registry /\ MoveOne(io.sub)

WakeStops ==
    /\ io.pc = "wake"
    /\ io.sub \notin registry \/ over[io.sub] = <<>> \/ Full(io.sub)
    /\ wake' = Prune(wake)
    /\ io' = At("top")
    /\ UNCHANGED <<registry, chan, over, leaving, ended, overflowed, reader,
                   count, drops, got, backlog>>

WakeClosed ==
    /\ io.pc = "wake"
    /\ io.sub \in registry
    /\ over[io.sub] # <<>>
    /\ Closed(io.sub)
    /\ Remove({io.sub})
    /\ wake' = Prune(wake) \ {io.sub}
    /\ io' = At("top")
    /\ UNCHANGED <<chan, leaving, ended, overflowed, reader, count, drops, got,
                   backlog>>

\* The task ends every entry of a set.
BeginEnding(gone, why, next) ==
    /\ leaving = {}
    /\ EndHalf(1, gone, why)
    /\ io' = [pc |-> "end", gone |-> gone, why |-> why, next |-> next]
    /\ UNCHANGED <<chan, wake, leaving, overflowed, reader, count, drops, got,
                   backlog>>

\* The third ERROR for a destination ends all its subscriptions.  (The code
\* counts; which ERROR is the third is the broker's choice here.)
Abandon(d) ==
    /\ io.pc = "select"
    /\ Registered(d) # {}
    /\ BeginEnding(Registered(d), "abandoned", "top")

FinishEnding ==
    /\ io.pc = "end"
    /\ EndHalf(2, io.gone, io.why)
    /\ io' = At(io.next)
    /\ UNCHANGED <<chan, wake, leaving, overflowed, reader, count, drops, got,
                   backlog>>

\* Any other frame, heartbeat or timer: around the loop again.
OtherEvent ==
    /\ io.pc = "select"
    /\ io' = At("top")
    /\ UNCHANGED <<registry, chan, over, wake, leaving, ended, overflowed,
                   reader, count, drops, got, backlog>>

LoseConnection ==
    /\ io.pc = "select"
    /\ drops < MaxDrops
    /\ io' = At("lost")
    /\ UNCHANGED <<registry, chan, over, wake, leaving, ended, overflowed,
                   reader, count, drops, got, backlog>>

GoDown ==
    /\ io.pc = "lost"
    /\ drops' = drops + 1
    /\ io' = At("down")
    /\ UNCHANGED <<registry, chan, over, wake, leaving, ended, overflowed,
                   reader, count, got, backlog>>

\* A new connection: frames parked in the client ack modes are discarded,
\* because the broker redelivers them, and those in `auto` mode are kept.
\* (Faulty form: `auto` mode's too.)
ReconnectDiscardsAll ==
    /\ io.pc = "down"
    /\ leaving = {}
    /\ over' = [s \in Subs |-> <<>>]
    /\ wake' = {}
    /\ io' = At("top")
    /\ UNCHANGED <<registry, chan, leaving, ended, overflowed, reader, count,
                   drops, got, backlog>>

Reconnect ==
    /\ io.pc = "down"
    /\ leaving = {}
    /\ over' = [s \in Subs |-> IF s \in registry \ AutoSubs THEN <<>>
                               ELSE over[s]]
    /\ wake' = {s \in wake : s \in registry /\ over'[s] # <<>>}
    /\ io' = At("top")
    /\ UNCHANGED <<registry, chan, leaving, ended, overflowed, reader, count,
                   drops, got, backlog>>

\* close(): the signal is taken while waiting or while backing off ...
Shutdown ==
    /\ io.pc \in {"select", "lost", "down"}
    /\ io' = At("ending")
    /\ UNCHANGED <<registry, chan, over, wake, leaving, ended, overflowed,
                   reader, count, drops, got, backlog>>

\* ... every subscription registered by then ends ...
Finish ==
    /\ io.pc = "ending"
    /\ BeginEnding(registry, "connection closed", "done")

\* ... and the task's own variables go: the wake list, the outbound receiver.
Exit ==
    /\ io.pc = "done"
    /\ wake' = {}
    /\ io' = At("exited")
    /\ UNCHANGED <<registry, chan, over, leaving, ended, overflowed, reader,
                   count, drops, got, backlog>>

----------------------------------------------------------------------------
Application(s) ==
    \/ SubscribeEnter(s) \/ SubscribeSend(s) \/ SubscribeGivenUp(s)
    \/ Read(s) \/ ReadEnd(s)
    \/ Unsubscribe(s) \/ DropHandle(s) \/ FinishLeaving(s) \/ DropReceiver(s)

\* What the task does of its own accord, having started it.
Step ==
    \/ \E s \in Subs : PassNext(s)
    \/ DrainOne \/ DrainStops \/ PassClosed \/ OfferTaken \/ OfferFull
    \/ ParkTaken \/ ParkRefused \/ Evict \/ PassDone
    \/ \E s \in Subs, ok \in BOOLEAN : FailOne(s, ok)
    \/ Top \/ WakeOne \/ WakeStops \/ WakeClosed
    \/ GoDown \/ Reconnect \/ Finish \/ FinishEnding \/ Exit

\* What it waits for.
Event ==
    \/ \E s \in Subs : ReceiveNamed(s)
    \/ \E d \in Dests : ReceiveForDest(d) \/ Abandon(d)
    \/ OtherEvent \/ LoseConnection \/ Shutdown

Next ==
    \/ \E s \in Subs : Application(s) \/ Wake(s)
    \/ Step
    \/ Event

Spec == Init /\ [][Next]_vars

\* The runtime runs the task whenever it can move, a broken connection is in
\* time replaced, and select! picks a parked subscription that stays ready.
\* A consumer keeps reading its stream, and a critical section without an
\* await comes to its end.
Fairness ==
    /\ WF_vars(Step)
    /\ \A s \in Subs : SF_vars(Wake(s)) /\ WF_vars(Read(s) \/ ReadEnd(s))
                       /\ WF_vars(SubscribeSend(s))
                       /\ WF_vars(FinishLeaving(s))

FairSpec == Spec /\ Fairness

----------------------------------------------------------------------------
(* Properties *)

Frames == 1..MaxMsg
Carrying == [pc: {"drain", "offer", "park", "evict"}, sub: Subs,
             todo: SUBSET Subs, failed: SUBSET Subs]
Tasks == [pc: {"top", "select", "lost", "down", "ending", "done", "exited"}]
         \cup [pc: {"pass"}, todo: SUBSET Subs, failed: SUBSET Subs]
         \cup Carrying
         \cup [pc: {"fail"}, failed: SUBSET Subs]
         \cup [pc: {"wake"}, sub: Subs]
         \cup [pc: {"end"}, gone: SUBSET Subs, why: Reasons,
               next: {"top", "done"}]

\* Every variable has its type, and every queue is within its bound.
TypeOK ==
    /\ registry \in SUBSET Subs
    /\ chan \in [Subs -> Seq(Frames)]
    /\ over \in [Subs -> Seq(Frames)]
    /\ \A s \in Subs : Len(chan[s]) <= Cap /\ Len(over[s]) <= Limit
    /\ wake \in SUBSET Subs
    /\ leaving \in SUBSET Subs
    /\ ended \in [Subs -> Reasons \cup {"none"}]
    /\ overflowed \in SUBSET Subs
    /\ io \in Tasks
    /\ reader \in [Subs -> {"new", "entered", "open", "dropping", "done",
                           "gone"}]
    /\ count \in 0..MaxMsg
    /\ drops \in 0..MaxDrops
    /\ got \in [Subs -> Seq(Frames)]
    /\ backlog \in [Subs -> Nat]

\* No wakeup is lost: whenever the task waits, a subscription with frames
\* parked is on the wake list, so room in its channel will be noticed.
NoStrandedFrames ==
    io.pc \in {"top", "select", "lost", "down", "fail"} =>
        \A s \in registry : over[s] # <<>> => s \in wake

\* A subscription fails for overflow only if its consumer was behind by the
\* whole channel and the whole limit when the MESSAGE that failed it was read:
\* what it had made room for by then counts, what it reads while that MESSAGE
\* is delivered does not.
FailsOnlyWhenFull ==
    \A s \in Subs : ended[s] = "overflowed" => backlog[s] = Cap + Limit

\* Each subscription is a mailbox to its consumer: frames are read in the
\* order they arrived, each once, past channel, overflow queue and reconnects
\* alike; in `auto` mode none is lost before the subscription ends.
Waiting(s) == IF Closed(s) THEN <<>> ELSE chan[s] \o over[s]
StateOf(s) ==
    IF s \in registry /\ ~Closed(s) THEN "open"
    ELSE IF reader[s] = "new" THEN "unborn" ELSE "ended"

MailboxOf(s) ==
    INSTANCE Mailbox WITH Auto <- s \in AutoSubs, Depth <- Cap + Limit,
                          state <- StateOf(s), mail <- Waiting(s),
                          got <- got[s]

IsMailbox ==
    /\ \A s \in Subs : MailboxOf(s)!Init
    /\ [][\A s \in Subs :
             MailboxOf(s)!Next \/ UNCHANGED MailboxOf(s)!vars]_vars

\* A consumer that sees None finds the reason set, wherever its poll falls in
\* the two halves of an end ("a handle that sees None never finds ended()
\* unset").
EndedBeforeNone ==
    \A s \in Subs : reader[s] = "done" => ended[s] # "none"

\* Frames parked for a live subscription reach its channel, if its consumer
\* keeps reading, or are discarded by a reconnect or the subscription's end.
ParkedFramesMove ==
    \A s \in Subs : [](over[s] # <<>> => <>(over[s] = <<>>))

\* A stream whose subscription has ended yields None, or is dropped, even when
\* the wake list held a sender of it.
EndedStreamsClose ==
    \A s \in Subs : ended[s] # "none" ~> reader[s] \in {"done", "gone"}

\* When the task has exited no stream is left waiting: every Subscription
\* still held has its reason ("every subscription still registered ends here").
ExitEndsStreams ==
    io.pc = "exited" =>
        \A s \in Subs : reader[s] = "open" => ended[s] # "none"
=============================================================================
