---------------------------- MODULE AckTracking ----------------------------
(***************************************************************************)
(* Acknowledgement tracking of a STOMP connection: which MESSAGEs are      *)
(* awaiting an ACK, what an application task's `ack` puts on the wire, and *)
(* how both survive reconnects and the end of a subscription.              *)
(*                                                                         *)
(* Three kinds of actors interleave at lock granularity, as they do under  *)
(* a multi-threaded runtime: the background I/O task (variable io), the    *)
(* tasks that own a Subscription (handle), and the tasks that acknowledge  *)
(* (acker).  They share the registry, the pending map and the outbound     *)
(* channel; the code never holds the first two locks together, so every    *)
(* critical section is one atomic step here and nothing larger is.         *)
(*                                                                         *)
(* The broker is an environment: it may send any message of a subscription *)
(* it knows, in any order, and redelivers in the next session whatever was *)
(* not settled.  Every MESSAGE carries a `subscription` header, as STOMP   *)
(* 1.1 and 1.2 require.  ACK and NACK take the same path through the       *)
(* client, so one command stands for both.                                 *)
(***************************************************************************)
EXTENDS Integers, Sequences, FiniteSets, SequencesExt

CONSTANTS
    Subs,        \* subscription ids
    Dests,       \* destinations
    Dest,        \* the destination of each subscription
    Mode,        \* the ack mode of each subscription
    Ackers,      \* application tasks that acknowledge
    Naming,      \* how they name a message: its "ack" id or its "message-id"
    OutCap,      \* capacity of the outbound channel (32 in the code)
    MaxMid,      \* bound: messages the broker holds per subscription
    MaxSession,  \* bound: reconnects
    MaxCalls,    \* bound: acknowledgements asked for
    MaxInflight  \* bound: MESSAGEs written by the broker and not yet read

AckModes == {"client", "individual", "auto"}
Mids == 1..MaxMid
Sessions == 0..MaxSession

ASSUME ConstantsAssumption ==
    /\ Dest \in [Subs -> Dests]
    /\ Mode \in [Subs -> AckModes]
    /\ Naming \subseteq {"ack", "message-id"}
    /\ OutCap \in Nat \ {0}
    /\ MaxMid \in Nat
    /\ MaxSession \in Nat
    /\ MaxCalls \in Nat
    /\ MaxInflight \in Nat

VARIABLES
    registry,    \* subscriptions with an entry in `subscriptions`
    pending,     \* `pending`: per subscription, deliveries awaiting an ack
    outbound,    \* the outbound channel
    io,          \* the background task: where it is and what it carries
    session,     \* its session counter
    overflowed,  \* its `overflowed_sub_ids`
    handle,      \* per subscription, how far its owner has come
    acker,       \* per acknowledging task, how far its call has come
    calls,       \* acknowledgements asked for so far
    held,        \* deliveries the application has been given
    bsubs,       \* broker: subscriptions of the current connection
    sent,        \* broker: per subscription, mids sent on this connection
    settled,     \* broker: per subscription, mids acknowledged for good
    inflight,    \* broker to client: MESSAGEs written and not yet read
    written,     \* history: every ACK written, and what became of it
    lapsed,      \* history: ACKs of this session, given up before queued
    asked        \* history: mids the application asked to acknowledge

appVars == <<handle, acker, calls, held, asked>>
brokerVars == <<bsubs, sent, settled, inflight, written, lapsed>>
vars == <<registry, pending, outbound, io, session, overflowed, appVars,
          brokerVars>>

----------------------------------------------------------------------------
(* Data *)

\* One MESSAGE: mid is its message-id, and <<sess, mid>> its ack id, which no
\* other session issues.
Delivery == [sub: Subs, mid: Mids, sess: Sessions]

\* What a caller passes to `ack`: the ack id or the message-id of a delivery
\* (a message-id says nothing of the session).
Name == [by: {"ack", "message-id"}, sess: Sessions, mid: Mids]
NameOf(d, by) ==
    [by |-> by, sess |-> IF by = "ack" THEN d.sess ELSE 0, mid |-> d.mid]
Matches(d, id) == d.mid = id.mid /\ (id.by = "ack" => d.sess = id.sess)

\* No mode: the subscription is not in the registry.
Unmanaged == "unmanaged"
ManagedModes == AckModes \cup {Unmanaged}

\* An acknowledgement on its way to the broker.  issued is the session of an
\* `Outbound::Ack`, NoSession that of a plain `Outbound::Item`; about and
\* managed remember the call: the delivery the caller held and the mode found.
NoSession == -1
AckItem == [kind: {"ACK"}, sub: Subs, id: Name,
            issued: Sessions \cup {NoSession}, about: Delivery,
            managed: ManagedModes]
Item == [kind: {"SUBSCRIBE", "UNSUBSCRIBE"}, sub: Subs] \cup AckItem

Frame(kind, s) == [kind |-> kind, sub |-> s]
Room == Len(outbound) < OutCap
Registered(d) == {s \in registry : Dest[s] = d}

----------------------------------------------------------------------------
(* Initial state: `connect` has made session 0, nothing is subscribed. *)

Select == [pc |-> "select"]
Idle == [pc |-> "idle"]

Init ==
    /\ registry = {}
    /\ pending = [s \in Subs |-> <<>>]
    /\ outbound = <<>>
    /\ io = Select
    /\ session = 0
    /\ overflowed = {}
    /\ handle = [s \in Subs |-> "new"]
    /\ acker = [a \in Ackers |-> Idle]
    /\ calls = 0
    /\ held = {}
    /\ asked = [s \in Subs |-> {}]
    /\ bsubs = {}
    /\ sent = [s \in Subs |-> <<>>]
    /\ settled = [s \in Subs |-> {}]
    /\ inflight = <<>>
    /\ lapsed = {}
    /\ written = {}

----------------------------------------------------------------------------
(* A Subscription's owner: subscribe, then unsubscribe or drop it. *)

\* subscribe, first half: the entry goes into the registry.
SubscribeEnter(s) ==
    /\ handle[s] = "new"
    /\ handle' = [handle EXCEPT ![s] = "entered"]
    /\ registry' = registry \cup {s}
    /\ UNCHANGED <<pending, outbound, io, session, overflowed, acker, calls,
                   held, asked, brokerVars>>

\* subscribe, second half: SUBSCRIBE is queued once there is room.
SubscribeSend(s) ==
    /\ handle[s] = "entered"
    /\ Room
    /\ handle' = [handle EXCEPT ![s] = "open"]
    /\ outbound' = Append(outbound, Frame("SUBSCRIBE", s))
    /\ UNCHANGED <<registry, pending, io, session, overflowed, acker, calls,
                   held, asked, brokerVars>>

\* unsubscribe: the entry goes; without one the call fails and sends nothing.
UnsubscribeRemove(s) ==
    /\ handle[s] = "open"
    /\ handle' = [handle EXCEPT ![s] =
                     IF s \in registry THEN "unsubscribing" ELSE "ended"]
    /\ registry' = registry \ {s}
    /\ UNCHANGED <<pending, outbound, io, session, overflowed, acker, calls,
                   held, asked, brokerVars>>

UnsubscribeForget(s) ==
    /\ handle[s] = "unsubscribing"
    /\ handle' = [handle EXCEPT ![s] = "forgotten"]
    /\ pending' = [pending EXCEPT ![s] = <<>>]
    /\ UNCHANGED <<registry, outbound, io, session, overflowed, acker, calls,
                   held, asked, brokerVars>>

UnsubscribeSend(s) ==
    /\ handle[s] = "forgotten"
    /\ Room
    /\ handle' = [handle EXCEPT ![s] = "closed"]
    /\ outbound' = Append(outbound, Frame("UNSUBSCRIBE", s))
    /\ UNCHANGED <<registry, pending, io, session, overflowed, acker, calls,
                   held, asked, brokerVars>>

\* Dropping the Subscription tries each of the three once and gives up on a
\* lock another task holds at that instant (got = FALSE) or a full channel.
DropRemove(s, got) ==
    /\ handle[s] = "open"
    /\ handle' = [handle EXCEPT ![s] = "dropping"]
    /\ registry' = IF got THEN registry \ {s} ELSE registry
    /\ UNCHANGED <<pending, outbound, io, session, overflowed, acker, calls,
                   held, asked, brokerVars>>

DropForget(s, got) ==
    /\ handle[s] = "dropping"
    /\ handle' = [handle EXCEPT ![s] = "dropped"]
    /\ pending' = IF got THEN [pending EXCEPT ![s] = <<>>] ELSE pending
    /\ UNCHANGED <<registry, outbound, io, session, overflowed, acker, calls,
                   held, asked, brokerVars>>

\* After the try_send the receiver goes too: the channel is closed.
DropSend(s) ==
    /\ handle[s] = "dropped"
    /\ handle' = [handle EXCEPT ![s] = IF Room THEN "closed" ELSE "leaked"]
    /\ outbound' = IF Room THEN Append(outbound, Frame("UNSUBSCRIBE", s))
                           ELSE outbound
    /\ UNCHANGED <<registry, pending, io, session, overflowed, acker, calls,
                   held, asked, brokerVars>>

\* The future of a subscribe or an unsubscribe is dropped where it waits, for
\* a lock or for room: what it has done stays done, and the receiver goes.
OwnerGivesUp(s) ==
    /\ handle[s] \in {"entered", "open", "unsubscribing", "forgotten"}
    /\ handle' = [handle EXCEPT ![s] = "leaked"]
    /\ UNCHANGED <<registry, pending, outbound, io, session, overflowed, acker,
                   calls, held, asked, brokerVars>>

Gone(s) == handle[s] \in {"closed", "leaked", "ended"}

----------------------------------------------------------------------------
(* acknowledge *)

\* The mids an acknowledgement of d covers, in the mode the broker was told.
UpTo(s, mid) ==
    {sent[s][i] : i \in {i \in DOMAIN sent[s] :
                            \E j \in DOMAIN sent[s] : i <= j /\ sent[s][j] = mid}}
Covers(d) ==
    {d.mid} \cup (IF Mode[d.sub] = "client" /\ d.sess = session
                  THEN UpTo(d.sub, d.mid) ELSE {})

\* The call, and its first lock: the mode the registry gives, if any.
AckCall(a, d, by) ==
    /\ acker[a] = Idle
    /\ calls < MaxCalls
    /\ calls' = calls + 1
    /\ acker' = [acker EXCEPT ![a] =
                    [pc |-> "settle", about |-> d, id |-> NameOf(d, by),
                     managed |-> IF d.sub \in registry THEN Mode[d.sub]
                                 ELSE Unmanaged]]
    /\ asked' = [asked EXCEPT ![d.sub] = @ \cup Covers(d)]
    /\ UNCHANGED <<registry, pending, outbound, io, session, overflowed,
                   handle, held, brokerVars>>

\* (A faulty form, which the checks must notice: any match settles the whole
\* queue.)
MatchesLast(q, id, pos) ==
    /\ \E i \in DOMAIN q : Matches(q[i], id)
    /\ pos = Len(q)

\* Position pos of queue q holds the first delivery that id names.
FirstMatch(q, id, pos) ==
    /\ pos \in DOMAIN q
    /\ Matches(q[pos], id)
    /\ \A i \in 1..(pos - 1) : ~Matches(q[i], id)

\* (Faulty forms: an exclusive range, and one too long.)
RemainingKeepsNamed(q, pos, mode) ==
    IF mode \in {"client", "unmanaged"} THEN SubSeq(q, pos, Len(q))
    ELSE RemoveAt(q, pos)
RemainingTakesNext(q, pos, mode) ==
    IF mode \in {"client", "unmanaged"} THEN SubSeq(q, pos + 2, Len(q))
    ELSE RemoveAt(q, pos)

\* What an ack leaves of the queue.  A subscription that is not managed is
\* taken to be in `client` mode, which acknowledges cumulatively.
Remaining(q, pos, mode) ==
    IF mode \in {"client", Unmanaged} THEN SubSeq(q, pos + 1, Len(q))
    ELSE RemoveAt(q, pos)

\* The frame.
AckOf(call, id, issued) ==
    [kind |-> "ACK", sub |-> call.about.sub, id |-> id, issued |-> issued,
     about |-> call.about, managed |-> call.managed]

\* The second lock, message found: it leaves the queue, and its ack id and
\* session go into the frame.
AckSettle(a) ==
    /\ acker[a].pc = "settle"
    /\ LET call == acker[a]
           q == pending[call.about.sub]
       IN \E pos \in DOMAIN q :
             /\ FirstMatch(q, call.id, pos)
             /\ pending' = [pending EXCEPT ![call.about.sub] =
                               Remaining(q, pos, call.managed)]
             /\ acker' = [acker EXCEPT ![a] =
                   [pc |-> "send",
                    item |-> AckOf(call, NameOf(q[pos], "ack"), q[pos].sess)]]
    /\ UNCHANGED <<registry, outbound, io, session, overflowed, handle, calls,
                   held, asked, brokerVars>>

\* The second lock, nothing found: no frame for a subscription managed in a
\* client mode; for any other the id goes out as given.
AckMiss(a) ==
    /\ acker[a].pc = "settle"
    /\ LET call == acker[a]
           q == pending[call.about.sub]
       IN /\ \A i \in DOMAIN q : ~Matches(q[i], call.id)
          /\ acker' = [acker EXCEPT ![a] =
                IF call.managed \in {"client", "individual"} THEN Idle
                ELSE [pc |-> "send", item |-> AckOf(call, call.id, NoSession)]]
    /\ UNCHANGED <<registry, pending, outbound, io, session, overflowed,
                   handle, calls, held, asked, brokerVars>>

\* The frame is queued once there is room.
AckSend(a) ==
    /\ acker[a].pc = "send"
    /\ Room
    /\ outbound' = Append(outbound, acker[a].item)
    /\ acker' = [acker EXCEPT ![a] = Idle]
    /\ UNCHANGED <<registry, pending, io, session, overflowed, handle, calls,
                   held, asked, brokerVars>>

\* The future is dropped where it waits, for the second lock or for room.  In
\* the latter case the delivery has left the queue and no ACK will follow.
AckGivenUp(a) ==
    /\ acker[a] # Idle
    /\ acker' = [acker EXCEPT ![a] = Idle]
    /\ lapsed' = IF acker[a].pc = "send" THEN lapsed \cup {acker[a].item}
                 ELSE lapsed
    /\ UNCHANGED <<registry, pending, outbound, io, session, overflowed, handle,
                   calls, held, asked, bsubs, sent, settled, inflight, written>>

----------------------------------------------------------------------------
(* Broker: what it does with the frames written to it, and what it sends. *)

Outstanding(s) == {mid \in Mids : \E i \in DOMAIN sent[s] : sent[s][i] = mid}
                  \ settled[s]

\* The mids an ACK names: ids of an earlier session name nothing.
Named(item) ==
    {mid \in Outstanding(item.sub) :
        Matches([sub |-> item.sub, mid |-> mid, sess |-> session], item.id)}

Settles(item) ==
    IF Named(item) = {} THEN {}
    ELSE IF Mode[item.sub] = "client" THEN UpTo(item.sub, item.id.mid)
    ELSE Named(item)

BrokerTakes(item) ==
    /\ bsubs' = CASE item.kind = "SUBSCRIBE" -> bsubs \cup {item.sub}
                  [] item.kind = "UNSUBSCRIBE" -> bsubs \ {item.sub}
                  [] OTHER -> bsubs
    /\ IF item.kind = "ACK"
       THEN /\ settled' = [settled EXCEPT ![item.sub] = @ \cup Settles(item)]
            /\ written' = written \cup
                  {[ack |-> item, on |-> session, hit |-> Named(item) # {}]}
       ELSE UNCHANGED <<settled, written>>

BrokerDelivers(s, mid) ==
    /\ io.pc \notin {"lost", "down"}
    /\ s \in bsubs
    /\ Len(inflight) < MaxInflight
    /\ mid \notin settled[s]
    /\ \A i \in DOMAIN sent[s] : sent[s][i] # mid
    /\ sent' = [sent EXCEPT ![s] = Append(@, mid)]
    /\ inflight' = Append(inflight, [sub |-> s, mid |-> mid, sess |-> session])
    /\ UNCHANGED <<registry, pending, outbound, io, session, overflowed,
                   appVars, bsubs, settled, written, lapsed>>

----------------------------------------------------------------------------
(* The background task *)

\* The outbound arm.  An ACK issued for an earlier session is skipped; an
\* UNSUBSCRIBE forgets what was pending for its id before it is written.
\* (Faulty forms: every ACK is written; nothing is forgotten.)
WritableAlways(item, sess) == TRUE
WritableIn(item, sess) ==
    item.kind = "ACK" => item.issued \in {sess, NoSession}

ForgetNothing(item) == UNCHANGED pending
ForgetFor(item) ==
    pending' = IF item.kind = "UNSUBSCRIBE"
               THEN [pending EXCEPT ![item.sub] = <<>>] ELSE pending

SkipStaleAck ==
    /\ io = Select
    /\ outbound # <<>>
    /\ ~WritableIn(Head(outbound), session)
    /\ outbound' = Tail(outbound)
    /\ UNCHANGED <<registry, pending, io, session, overflowed, appVars,
                   brokerVars>>

WriteOutbound ==
    /\ io = Select
    /\ outbound # <<>>
    /\ WritableIn(Head(outbound), session)
    /\ outbound' = Tail(outbound)
    /\ ForgetFor(Head(outbound))
    /\ BrokerTakes(Head(outbound))
    /\ UNCHANGED <<registry, io, session, overflowed, appVars, sent, inflight,
                   lapsed>>

\* sink.send fails: the frame is lost with the connection.
WriteFails ==
    /\ io = Select
    /\ session < MaxSession
    /\ outbound # <<>>
    /\ WritableIn(Head(outbound), session)
    /\ outbound' = Tail(outbound)
    /\ ForgetFor(Head(outbound))
    /\ io' = [pc |-> "lost"]
    /\ UNCHANGED <<registry, session, overflowed, appVars, brokerVars>>

\* A MESSAGE is read.  One for an overflowed subscription is dropped; whether
\* it must be tracked is read under the registry lock, which is then released.
ReadMessage ==
    /\ io = Select
    /\ inflight # <<>>
    /\ inflight' = Tail(inflight)
    /\ LET m == Head(inflight)
           track == m.sub \in registry /\ Mode[m.sub] # "auto"
       IN io' = IF m.sub \in overflowed THEN Select
                ELSE [pc |-> IF track THEN "push" ELSE "deliver", msg |-> m]
    /\ UNCHANGED <<registry, pending, outbound, session, overflowed, appVars,
                   bsubs, sent, settled, written, lapsed>>

\* It is tracked before any subscriber can see it.
PushPending ==
    /\ io.pc = "push"
    /\ pending' = [pending EXCEPT ![io.msg.sub] = Append(@, io.msg)]
    /\ io' = [pc |-> "deliver", msg |-> io.msg]
    /\ UNCHANGED <<registry, outbound, session, overflowed, appVars, bsubs,
                   sent, settled, inflight, written, lapsed>>

\* The delivery pass, under the registry lock.  The channel and its overflow
\* queue are those of module Delivery; here their verdict is a choice, closed
\* only once the receiver is gone.  A MESSAGE with no entry goes to
\* next_frame(), from where the application may acknowledge it too.
Verdicts(s) ==
    IF s \notin registry THEN {"nobody"}
    ELSE IF Gone(s) THEN {"closed"} ELSE {"taken", "overflowed"}

Deliver(verdict) ==
    /\ io.pc = "deliver"
    /\ verdict \in Verdicts(io.msg.sub)
    /\ registry' = IF verdict \in {"closed", "overflowed"}
                   THEN registry \ {io.msg.sub} ELSE registry
    /\ held' = IF verdict = "overflowed" THEN held ELSE held \cup {io.msg}
    /\ io' = [pc |-> "sweep", msg |-> io.msg, live |-> registry',
              failed |-> verdict = "overflowed"]
    /\ UNCHANGED <<pending, outbound, session, overflowed, handle, acker,
                   calls, asked, brokerVars>>

\* (Faulty form: every queue but this MESSAGE's goes.)
SweepOthers ==
    /\ io.pc = "sweep"
    /\ pending' = [s \in Subs |-> IF s = io.msg.sub THEN pending[s] ELSE <<>>]
    /\ io' = IF io.failed THEN [pc |-> "fail", msg |-> io.msg] ELSE Select
    /\ UNCHANGED <<registry, outbound, session, overflowed, appVars,
                   brokerVars>>

\* The sweep, under the pending lock, with the ids the pass left registered.
Sweep ==
    /\ io.pc = "sweep"
    /\ pending' = [s \in Subs |-> IF s \in io.live THEN pending[s] ELSE <<>>]
    /\ io' = IF io.failed THEN [pc |-> "fail", msg |-> io.msg] ELSE Select
    /\ UNCHANGED <<registry, outbound, session, overflowed, appVars,
                   brokerVars>>

\* A subscription that hit its overflow limit: the UNSUBSCRIBE is written at
\* once, past the outbound channel.  The write may fail.
FailOverflowed(ok) ==
    /\ io.pc = "fail"
    /\ ok \/ session < MaxSession
    /\ overflowed' = overflowed \cup {io.msg.sub}
    /\ io' = IF ok THEN Select ELSE [pc |-> "lost"]
    /\ bsubs' = IF ok THEN bsubs \ {io.msg.sub} ELSE bsubs
    /\ UNCHANGED <<registry, pending, outbound, session, appVars, sent,
                   settled, inflight, written, lapsed>>

\* The third ERROR for a destination abandons its subscriptions.  Nothing is
\* told to the broker and nothing pending is forgotten.  (Errors are counted
\* by the code; which one is the third is the broker's choice here.)
Abandon(d) ==
    /\ io = Select
    /\ Registered(d) # {}
    /\ registry' = registry \ Registered(d)
    /\ UNCHANGED <<pending, outbound, io, session, overflowed, appVars,
                   brokerVars>>

\* The parked arm finds a channel closed: the entry goes, then what was
\* pending for it.
ReapClosed(s) ==
    /\ io = Select
    /\ s \in registry
    /\ Gone(s)
    /\ registry' = registry \ {s}
    /\ io' = [pc |-> "reap", sub |-> s]
    /\ UNCHANGED <<pending, outbound, session, overflowed, appVars, brokerVars>>

ReapForget ==
    /\ io.pc = "reap"
    /\ pending' = [pending EXCEPT ![io.sub] = <<>>]
    /\ io' = Select
    /\ UNCHANGED <<registry, outbound, session, overflowed, appVars, brokerVars>>

\* The stream ends, fails to decode or falls silent.
LoseConnection ==
    /\ io = Select
    /\ session < MaxSession
    /\ io' = [pc |-> "lost"]
    /\ UNCHANGED <<registry, pending, outbound, session, overflowed, appVars,
                   brokerVars>>

\* What the task does first about it: a new session, nothing pending.
ForgetSession ==
    /\ io.pc = "lost"
    /\ io' = [pc |-> "down"]
    /\ session' = session + 1
    /\ pending' = [s \in Subs |-> <<>>]
    /\ lapsed' = {}
    /\ UNCHANGED <<registry, outbound, overflowed, appVars, bsubs, sent, settled,
                   inflight, written>>

\* Reconnected: every entry is subscribed again.  The broker has forgotten
\* which messages it sent and keeps which were settled.
Reconnect ==
    /\ io.pc = "down"
    /\ io' = Select
    /\ bsubs' = registry
    /\ sent' = [s \in Subs |-> <<>>]
    /\ inflight' = <<>>
    /\ UNCHANGED <<registry, pending, outbound, session, overflowed, appVars,
                   settled, written, lapsed>>

----------------------------------------------------------------------------
Owner(s) ==
    \/ SubscribeEnter(s) \/ SubscribeSend(s)
    \/ UnsubscribeRemove(s) \/ UnsubscribeForget(s) \/ UnsubscribeSend(s)
    \/ \E got \in BOOLEAN : DropRemove(s, got) \/ DropForget(s, got)
    \/ DropSend(s) \/ OwnerGivesUp(s)

Acknowledge(a) ==
    \/ \E d \in held, by \in Naming : AckCall(a, d, by)
    \/ AckSettle(a) \/ AckMiss(a) \/ AckSend(a) \/ AckGivenUp(a)

Background ==
    \/ SkipStaleAck \/ WriteOutbound \/ WriteFails
    \/ ReadMessage \/ PushPending \/ Sweep
    \/ \E verdict \in {"taken", "closed", "overflowed", "nobody"} :
          Deliver(verdict)
    \/ \E ok \in BOOLEAN : FailOverflowed(ok)
    \/ \E d \in Dests : Abandon(d)
    \/ \E s \in Subs : ReapClosed(s)
    \/ ReapForget \/ LoseConnection \/ ForgetSession \/ Reconnect

Next ==
    \/ \E s \in Subs : Owner(s)
    \/ \E a \in Ackers : Acknowledge(a)
    \/ Background
    \/ \E s \in Subs, mid \in Mids : BrokerDelivers(s, mid)

Spec == Init /\ [][Next]_vars

----------------------------------------------------------------------------
(* Properties *)

InClientMode(mode) == mode \in {"client", "individual"}

\* Where the background task can be, and what it holds there.
Tasks == [pc: {"select", "lost", "down"}]
         \cup [pc: {"push", "deliver", "fail"}, msg: Delivery]
         \cup [pc: {"sweep"}, msg: Delivery, live: SUBSET Subs, failed: BOOLEAN]
         \cup [pc: {"reap"}, sub: Subs]

\* Where an acknowledging task can be, and what it holds there.
Calls == [pc: {"idle"}]
         \cup [pc: {"settle"}, about: Delivery, id: Name, managed: ManagedModes]
         \cup [pc: {"send"}, item: AckItem]

HandleStates == {"new", "entered", "open", "unsubscribing", "forgotten",
                 "dropping", "dropped", "closed", "leaked", "ended"}

\* Every variable has its type.
TypeOK ==
    /\ registry \in SUBSET Subs
    /\ pending \in [Subs -> Seq(Delivery)]
    /\ outbound \in Seq(Item)
    /\ io \in Tasks
    /\ session \in Sessions
    /\ overflowed \in SUBSET Subs
    /\ handle \in [Subs -> HandleStates]
    /\ acker \in [Ackers -> Calls]
    /\ calls \in Nat
    /\ held \in SUBSET Delivery
    /\ bsubs \in SUBSET Subs
    /\ sent \in [Subs -> Seq(Mids)]
    /\ settled \in [Subs -> SUBSET Mids]
    /\ inflight \in Seq(Delivery)
    /\ asked \in [Subs -> SUBSET Mids]
    /\ lapsed \in SUBSET AckItem
    /\ written \in SUBSET [ack: AckItem, on: Sessions, hit: BOOLEAN]

\* An ACK for a subscription the library manages in a client mode carries an
\* ack id that the connection it is written to issued, whatever was queued,
\* in hand or asked for when an earlier connection dropped (#118).
AcksNameThisSession ==
    \A w \in written :
        InClientMode(w.ack.managed) =>
            w.ack.id.by = "ack" /\ w.ack.id.sess = w.on

\* Whichever way the caller named a message, an ACK that a managed client-mode
\* subscription has in hand or queued carries an ack id, and the session that
\* issued that id, so that the write can tell.
WellFormed(item) ==
    InClientMode(item.managed) =>
        item.id.by = "ack" /\ item.id.sess = item.issued
AcksWellFormed ==
    /\ \A a \in Ackers :
          acker[a].pc = "send" => WellFormed(acker[a].item)
    /\ \A i \in DOMAIN outbound :
          outbound[i].kind = "ACK" => WellFormed(outbound[i])

\* A cumulative ACK that another one, of a later message, was written ahead of.
Overtaken(w) ==
    /\ Mode[w.ack.sub] = "client"
    /\ \E v \in written :
          /\ v.hit /\ v.on = w.on /\ v.ack.sub = w.ack.sub
          /\ w.ack.id.mid \in UpTo(w.ack.sub, v.ack.id.mid) \ {v.ack.id.mid}

\* While its subscription is registered, such an ACK names a delivery that is
\* outstanding at the broker: nothing is acknowledged twice, cumulatively or by
\* its other header, by two tasks or one, whichever copy of a redelivered
\* message the caller holds (subscriber-guide.md, "Each message is still
\* acknowledged exactly once").  Only a cumulative ACK that was overtaken
\* between the map and the channel may come too late.
NoStrayAck ==
    \A w \in written :
        InClientMode(w.ack.managed) /\ w.ack.sub \in registry /\ w.on = session =>
            w.hit \/ Overtaken(w)

\* An acknowledgement on its way that will settle d.
OnItsWay == {acker[a].item : a \in {a \in Ackers : acker[a].pc = "send"}}
            \cup {item \in ToSet(outbound) : item.kind = "ACK"}
WillSettle(item, d) ==
    /\ item.sub = d.sub
    /\ item.id.sess = d.sess
    /\ IF Mode[d.sub] = "client" THEN d.mid \in UpTo(d.sub, item.id.mid)
       ELSE d.mid = item.id.mid

\* No delivery is forgotten while its subscription is open: what the broker
\* holds as outstanding is still to be read, tracked as pending, or settled
\* by an ACK on its way.  So the application can always acknowledge it, unless
\* it dropped the future of a call that had taken the delivery already.
NothingForgotten ==
    \A s \in registry :
        (handle[s] \in {"entered", "open"} /\ InClientMode(Mode[s])
         /\ io.pc \notin {"lost", "down"}) =>
            \A mid \in Outstanding(s) :
                LET d == [sub |-> s, mid |-> mid, sess |-> session] IN
                \/ d \in ToSet(inflight)
                \/ io = [pc |-> "push", msg |-> d]
                \/ d \in ToSet(pending[s])
                \/ \E item \in OnItsWay \cup lapsed : WillSettle(item, d)

\* The broker settles only what the application asked to acknowledge: no
\* message is lost to an ACK for another.  (An ack that names a copy from an
\* earlier connection is excepted: it settles what precedes the new copy.)
SettledOnlyIfAsked ==
    \A s \in Subs :
        (InClientMode(Mode[s])
         /\ \A w \in written : w.ack.sub = s => w.ack.about.sess = w.on) =>
            settled[s] \subseteq asked[s]

\* A subscription that ended by unsubscribe or drop holds nothing in the
\* pending map once its UNSUBSCRIBE has been taken from the channel and no
\* MESSAGE is in hand: cleanup that lost a lock, or raced a MESSAGE being
\* delivered, is made good.
ClosedIsForgotten ==
    \A s \in Subs :
        (handle[s] = "closed" /\ io = Select
         /\ Frame("UNSUBSCRIBE", s) \notin ToSet(outbound)) =>
            pending[s] = <<>>
=============================================================================
