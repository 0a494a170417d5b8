------------------------------- MODULE Errors -------------------------------
(***************************************************************************)
(* ERROR frames and abandonment.  The background task works out which      *)
(* destination an ERROR is about, counts, and at the third gives up on the *)
(* destination: its subscriptions end and are no longer replayed when the  *)
(* connection is made again.  Brokers name what they complain of in        *)
(* different ways, which is all the model keeps of an ERROR's text.        *)
(***************************************************************************)
EXTENDS Naturals, Sequences

CONSTANTS
    Subs,          \* subscription ids
    Dest,          \* the destination of each
    Refused,       \* the subscriptions the broker refuses
    Styles,        \* how it may word a refusal that says what it is of
    Word,          \* what follows "subscription " in prose: no id
    None,          \* nothing extracted, nothing in hand
    WireCap,       \* bound: ERRORs under way
    MaxErrors,     \* bound: refusals of one subscription
    MaxComplaints, \* bound: ERRORs that name none
    MaxLosses      \* bound: lost connections

Dests == {Dest[s] : s \in Subs}

ASSUME StylesAssumption ==
    Styles \subseteq {"destination", "id", "both", "prose"}
ASSUME NamesAssumption ==
    /\ Word \notin Subs \union {None}
    /\ None \notin Subs \union Dests
\* Lost connections leave the broker enough refusals to reach the third.
ASSUME BoundsAssumption ==
    /\ WireCap \in Nat /\ MaxComplaints \in Nat
    /\ MaxErrors \in Nat /\ MaxLosses \in Nat
    /\ MaxErrors >= 3 + MaxLosses * WireCap

VARIABLES
    registry,  \* `subscriptions`, flattened
    ended,     \* why each handle's stream ended: "no", or the reason
    errors,    \* `subscription_errors`
    abandoned, \* `abandoned_sub_ids`
    hand,      \* the ERROR being handled, its destination worked out
    up,        \* whether there is a connection
    bsubs,     \* subscriptions the broker has been, or is being, told of
    wire,      \* ERRORs between the broker and the task
    losses, complaints, refusals,  \* counted for the bounds
    heard,     \* history: ERRORs read about each destination
    missed     \* history: subjects of the ERRORs `next_frame` never saw

task == <<errors, abandoned, hand>>
handles == <<registry, ended>>
broker == <<bsubs, wire, complaints, refusals>>
history == <<heard, missed>>
vars == <<task, handles, broker, history, up, losses>>

\* The frame: what the code can extract from it, and what it is really about.
Frame(dest, sub, on, about) ==
    [dest |-> dest, sub |-> sub, on |-> on, about |-> about]
Refusal(s, style) ==
    Frame(IF style \in {"destination", "both", "prose"} THEN Dest[s] ELSE None,
          CASE style \in {"id", "both"} -> s
            [] style = "prose" -> Word
            [] OTHER -> None,
          Dest[s], s)
Complaint(d) == Frame(d, None, d, None)

Frames == {Refusal(s, style) : s \in Subs, style \in Styles}
              \union {Complaint(d) : d \in Dests \union {None}}

TypeOK ==
    /\ registry \subseteq Subs
    /\ ended \in [Subs -> {"no", "abandoned", "unsubscribed"}]
    /\ errors \in [Dests -> Nat]
    /\ abandoned \subseteq Subs \union {Word}
    /\ hand \in {None} \union [frame : Frames, dest : Dests \union {None}]
    /\ up \in BOOLEAN
    /\ bsubs \subseteq Subs
    /\ wire \in Seq(Frames) /\ Len(wire) <= WireCap
    /\ losses \in 0..MaxLosses
    /\ complaints \in 0..MaxComplaints
    /\ refusals \in [Subs -> 0..MaxErrors]
    /\ heard \in [Dests -> Nat]
    /\ missed \subseteq Subs \union {None}

Init ==
    /\ registry = {}
    /\ ended = [s \in Subs |-> "no"]
    /\ errors = [d \in Dests |-> 0]
    /\ abandoned = {}
    /\ hand = None
    /\ up = TRUE
    /\ bsubs = {}
    /\ wire = <<>>
    /\ losses = 0 /\ complaints = 0
    /\ refusals = [s \in Subs |-> 0]
    /\ heard = [d \in Dests |-> 0]
    /\ missed = {}

----------------------------------------------------------------------------
\* The application.  The first reason set is the one that stays.
End(subs, why) ==
    ended' = [s \in Subs |->
                 IF s \in subs /\ ended[s] = "no" THEN why ELSE ended[s]]

Subscribe(s) ==
    /\ s \notin registry /\ ended[s] = "no"
    /\ registry' = registry \union {s}
    /\ bsubs' = bsubs \union {s}
    /\ UNCHANGED <<ended, wire, complaints, refusals, task, history, up, losses>>

Unsubscribe(s) ==
    /\ s \in registry
    /\ End({s}, "unsubscribed")
    /\ registry' = registry \ {s}
    /\ UNCHANGED <<task, broker, history, up, losses>>

----------------------------------------------------------------------------
\* The broker.  It may refuse one subscription any number of times, and one
\* whose UNSUBSCRIBE it has yet to process.
Say(frame) ==
    /\ up /\ Len(wire) < WireCap
    /\ wire' = Append(wire, frame)
    /\ UNCHANGED <<bsubs, task, handles, history, up, losses>>

Refuse(s, style) ==
    /\ s \in bsubs
    /\ refusals[s] < MaxErrors
    /\ refusals' = [refusals EXCEPT ![s] = @ + 1]
    /\ UNCHANGED complaints
    /\ Say(Refusal(s, style))

\* An ERROR that names no subscription: of a SEND it refuses, or of anything.
Complain(d) ==
    /\ complaints < MaxComplaints
    /\ complaints' = complaints + 1
    /\ UNCHANGED refusals
    /\ Say(Complaint(d))

----------------------------------------------------------------------------
\* The background task.  The lookup takes the registry's lock and gives it
\* back; what follows it takes the lock again.
Identified(frame) ==
    IF frame.dest # None THEN frame.dest
    ELSE IF frame.sub \in registry THEN Dest[frame.sub]
    ELSE None

Skipped(frame) == frame.sub # None /\ frame.sub \in abandoned

ReadError ==
    LET frame == Head(wire) IN
    /\ hand = None /\ wire # <<>>
    /\ wire' = Tail(wire)
    /\ heard' = IF frame.on = None THEN heard
                ELSE [heard EXCEPT ![frame.on] = @ + 1]
    /\ \/ /\ Skipped(frame)
          /\ missed' = missed \union {frame.about}
          /\ UNCHANGED hand
       \/ /\ ~Skipped(frame)
          /\ hand' = [frame |-> frame, dest |-> Identified(frame)]
          /\ UNCHANGED missed
    /\ UNCHANGED <<errors, abandoned, handles, bsubs, complaints, refusals,
                   up, losses>>

\* (Faulty form: one error too few.)
EnoughAtTwo(n) == n >= 2
Enough(n) == n >= 3

\* Under the lock: end the destination's subscriptions, drop its entry, and
\* remember the id the ERROR named, if there was an entry to drop.  (Faulty
\* form: the id is remembered with every ERROR.)
On(d) == {s \in registry : Dest[s] = d}
Named(frame) == {frame.sub} \ {None}

CountAndRemember(d, frame) ==
    /\ errors' = [errors EXCEPT ![d] = @ + 1]
    /\ abandoned' = abandoned \union Named(frame)
    /\ IF Enough(errors'[d])
       THEN End(On(d), "abandoned") /\ registry' = registry \ On(d)
       ELSE UNCHANGED handles

Count(d, frame) ==
    /\ errors' = [errors EXCEPT ![d] = @ + 1]
    /\ \/ /\ Enough(errors'[d]) /\ On(d) # {}
          /\ End(On(d), "abandoned")
          /\ registry' = registry \ On(d)
          /\ abandoned' = abandoned \union Named(frame)
       \/ /\ ~(Enough(errors'[d]) /\ On(d) # {})
          /\ UNCHANGED <<handles, abandoned>>

\* Either way the ERROR goes on to `next_frame`.
HandleError ==
    /\ hand # None
    /\ \/ hand.dest # None /\ Count(hand.dest, hand.frame)
       \/ hand.dest = None /\ UNCHANGED <<errors, abandoned, handles>>
    /\ hand' = None
    /\ UNCHANGED <<broker, history, up, losses>>

\* The counts and the ids abandoned outlive the connection.  (Faulty form:
\* the counts do not.)
LoseConnection ==
    /\ up /\ hand = None
    /\ losses < MaxLosses
    /\ losses' = losses + 1
    /\ up' = FALSE
    /\ wire' = <<>>
    /\ bsubs' = {}
    /\ UNCHANGED <<task, handles, history, complaints, refusals>>

ReconnectCleanly ==
    /\ ~up
    /\ up' = TRUE
    /\ bsubs' = bsubs \union registry
    /\ errors' = [d \in Dests |-> 0]
    /\ UNCHANGED <<abandoned, hand, handles, wire, complaints, refusals,
                   history, losses>>

\* SUBSCRIBE again for every entry, and what was queued meanwhile.
Reconnect ==
    /\ ~up
    /\ up' = TRUE
    /\ bsubs' = bsubs \union registry
    /\ UNCHANGED <<task, handles, wire, complaints, refusals, history, losses>>

Application == \E s \in Subs : Subscribe(s) \/ Unsubscribe(s)
Broker ==
    \/ \E s \in Refused, style \in Styles : Refuse(s, style)
    \/ \E d \in Dests \union {None} : Complain(d)
Task == ReadError \/ HandleError \/ Reconnect
Next == Application \/ Broker \/ Task \/ LoseConnection

Spec == Init /\ [][Next]_vars

\* The runtime runs the task, and the broker goes on refusing what it refuses.
FairSpec ==
    /\ Spec
    /\ WF_vars(Task)
    /\ \A s \in Refused :
           WF_vars(\E style \in Styles : Refuse(s, style))

----------------------------------------------------------------------------
\* A subscription is abandoned only once the broker has sent three ERRORs
\* about its destination: none that named another, however they were worded,
\* whoever came and went while one was handled.  (The count in the handler.)
AbandonedDeserved ==
    \A s \in Subs : ended[s] = "abandoned" => heard[Dest[s]] >= 3

\* An ERROR that is neither counted nor handed to `next_frame` is about a
\* subscription that has ended.  (The check of `abandoned_sub_ids`.)
SkipsOnlyEnded == \A s \in missed : s # None /\ ended[s] # "no"

\* The error loop ends: a subscription the broker keeps refusing leaves the
\* registry, and with it the replays, whichever way each refusal names it and
\* however often the connection is lost in between.
GivenUp == \A s \in Refused : s \in registry ~> s \notin registry
=============================================================================
