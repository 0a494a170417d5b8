---------------------------- MODULE ErrorsProofs ----------------------------
(***************************************************************************)
(* Proofs about Errors: typing, that only what the broker sent three       *)
(* ERRORs about is abandoned, and that only ERRORs about ended             *)
(* subscriptions are skipped as long as no wording puts a word that is no  *)
(* id where the code looks for one.                                        *)
(***************************************************************************)
EXTENDS Errors, TLAPS

\* What holds of every ERROR: a destination it states is the one it is about,
\* and so is that of a subscription it names.
FrameFacts(f) ==
    /\ f.dest \in Dests \union {None}
    /\ f.sub \in Subs \union {Word, None}
    /\ f.on \in Dests \union {None}
    /\ f.about \in Subs \union {None}
    /\ f.dest # None => f.dest = f.on
    /\ f.sub \in Subs => f.on = Dest[f.sub] /\ f.about = f.sub
    /\ f.sub = Word => "prose" \in Styles

LEMMA FramesAreHonest == \A f \in Frames : FrameFacts(f)
<1>1. ASSUME NEW s \in Subs, NEW style \in Styles
      PROVE  FrameFacts(Refusal(s, style))
  <2>1. Dest[s] \in Dests  BY DEF Dests
  <2>2. style \in {"destination", "id", "both", "prose"}
    BY StylesAssumption
  <2>3. CASE style = "destination"
    BY <2>1, <2>3, NamesAssumption DEF FrameFacts, Refusal, Frame
  <2>4. CASE style = "id"
    BY <2>1, <2>4, NamesAssumption DEF FrameFacts, Refusal, Frame
  <2>5. CASE style = "both"
    BY <2>1, <2>5, NamesAssumption DEF FrameFacts, Refusal, Frame
  <2>6. CASE style = "prose"
    BY <2>1, <2>6, NamesAssumption DEF FrameFacts, Refusal, Frame
  <2> QED  BY <2>2, <2>3, <2>4, <2>5, <2>6
<1>2. ASSUME NEW d \in Dests \union {None}
      PROVE  FrameFacts(Complaint(d))
  BY NamesAssumption DEF FrameFacts, Complaint, Frame
<1> QED  BY <1>1, <1>2 DEF Frames

----------------------------------------------------------------------------
(* Typing *)

LEMMA InitType == Init => TypeOK
  BY BoundsAssumption, NamesAssumption
  DEF Init, TypeOK

LEMMA SayType ==
    ASSUME TypeOK, NEW frame \in Frames, Say(frame)
    PROVE  wire' \in Seq(Frames) /\ Len(wire') <= WireCap
  BY BoundsAssumption DEF TypeOK, Say

LEMMA EndType ==
    ASSUME TypeOK, NEW subs, NEW why \in {"abandoned", "unsubscribed"},
           End(subs, why)
    PROVE  ended' \in [Subs -> {"no", "abandoned", "unsubscribed"}]
  BY DEF TypeOK, End

LEMMA StepType == TypeOK /\ [Next]_vars => TypeOK'
<1> SUFFICES ASSUME TypeOK, [Next]_vars PROVE TypeOK'
  OBVIOUS
<1>1. CASE UNCHANGED vars
  BY <1>1 DEF TypeOK, vars, task, handles, broker, history
<1>2. ASSUME NEW s \in Subs, Subscribe(s) PROVE TypeOK'
  BY <1>2 DEF TypeOK, Subscribe, task, history
<1>3. ASSUME NEW s \in Subs, Unsubscribe(s) PROVE TypeOK'
  BY <1>3, EndType DEF TypeOK, Unsubscribe, task, broker, history
<1>4. ASSUME NEW s \in Refused, NEW style \in Styles, Refuse(s, style)
      PROVE  TypeOK'
  <2>1. s \in Subs /\ Refusal(s, style) \in Frames
    BY <1>4 DEF Refuse, TypeOK, Frames
  <2>2. refusals' \in [Subs -> 0..MaxErrors]
    <3>1. refusals[s] \in 0..MaxErrors /\ refusals[s] < MaxErrors
      BY <1>4, <2>1 DEF Refuse, TypeOK
    <3>2. refusals[s] + 1 \in 0..MaxErrors
      BY <3>1, BoundsAssumption
    <3> QED  BY <1>4, <2>1, <3>2 DEF Refuse, TypeOK
  <2> QED  BY <1>4, <2>1, <2>2, SayType DEF TypeOK, Refuse, Say, task,
                                            handles, history
<1>5. ASSUME NEW d \in Dests \union {None}, Complain(d) PROVE TypeOK'
  <2>1. Complaint(d) \in Frames  BY DEF Frames
  <2>2. complaints' \in 0..MaxComplaints
    BY <1>5, BoundsAssumption DEF Complain, TypeOK
  <2> QED  BY <1>5, <2>1, <2>2, SayType DEF TypeOK, Complain, Say, task,
                                            handles, history
<1>6. CASE ReadError
  <2> DEFINE frame == Head(wire)
  <2>1. frame \in Frames /\ wire' \in Seq(Frames) /\ Len(wire') <= WireCap
    BY <1>6, BoundsAssumption DEF ReadError, TypeOK
  <2>2. FrameFacts(frame)
    BY <2>1, FramesAreHonest
  <2>3. Identified(frame) \in Dests \union {None}
    BY <2>2 DEF Identified, FrameFacts, TypeOK, Dests
  <2>4. heard' \in [Dests -> Nat]
    BY <1>6, <2>2 DEF ReadError, TypeOK, FrameFacts
  <2>5. missed' \subseteq Subs \union {None}
    BY <1>6, <2>2 DEF ReadError, TypeOK, FrameFacts
  <2>6. hand' \in {None} \union [frame : Frames, dest : Dests \union {None}]
    BY <1>6, <2>1, <2>3 DEF ReadError, TypeOK
  <2> QED  BY <1>6, <2>1, <2>4, <2>5, <2>6 DEF ReadError, TypeOK, handles
<1>7. CASE HandleError
  <2>1. CASE hand.dest = None
    BY <1>7, <2>1, NamesAssumption DEF HandleError, TypeOK, Count, handles,
                                       broker, history
  <2>2. CASE hand.dest # None
    <3>1. hand.dest \in Dests /\ hand.frame \in Frames
      BY <1>7, <2>2 DEF HandleError, TypeOK
    <3>2. FrameFacts(hand.frame)
      BY <3>1, FramesAreHonest
    <3>3. Count(hand.dest, hand.frame)
      BY <1>7, <2>2 DEF HandleError
    <3>4. errors' \in [Dests -> Nat]
      BY <3>1, <3>3 DEF Count, TypeOK
    <3>5. ended' \in [Subs -> {"no", "abandoned", "unsubscribed"}]
      BY <3>3, EndType DEF Count, TypeOK, handles
    <3>6. registry' \subseteq Subs
      BY <3>3 DEF Count, TypeOK, handles
    <3>7. abandoned' \subseteq Subs \union {Word}
      BY <3>2, <3>3 DEF Count, TypeOK, Named, FrameFacts
    <3> QED  BY <1>7, <3>4, <3>5, <3>6, <3>7 DEF HandleError, TypeOK, broker,
                                                 history
  <2> QED  BY <2>1, <2>2
<1>8. CASE Reconnect
  BY <1>8 DEF TypeOK, Reconnect, task, handles, history
<1>9. CASE LoseConnection
  <2>1. losses' \in 0..MaxLosses
    BY <1>9, BoundsAssumption DEF TypeOK, LoseConnection
  <2>2. wire' \in Seq(Frames) /\ Len(wire') <= WireCap
    BY <1>9, BoundsAssumption DEF LoseConnection
  <2> QED  BY <1>9, <2>1, <2>2 DEF TypeOK, LoseConnection, task, handles,
                                   history
<1> QED
  BY <1>1, <1>2, <1>3, <1>4, <1>5, <1>6, <1>7, <1>8, <1>9
  DEF Next, Application, Broker, Task

\* Every reachable state is well typed.
THEOREM TypeCorrect == Spec => []TypeOK
  BY InitType, StepType, PTL DEF Spec

----------------------------------------------------------------------------
(* Abandonment *)

\* What the task has counted against a destination, and the ERROR in hand it
\* is about to count, the broker has sent about that destination.
InHand(d) == IF hand # None /\ hand.dest = d THEN 1 ELSE 0
CountInv == \A d \in Dests : errors[d] + InHand(d) <= heard[d]
AbandonInv == CountInv /\ AbandonedDeserved

LEMMA InitAbandon == Init => AbandonInv
<1> SUFFICES ASSUME Init PROVE AbandonInv
  OBVIOUS
<1>1. CountInv
  BY DEF Init, CountInv, InHand
<1>2. AbandonedDeserved
  BY DEF Init, AbandonedDeserved
<1> QED  BY <1>1, <1>2 DEF AbandonInv

\* The application ends subscriptions for another reason.
LEMMA OtherReasons ==
    ASSUME TypeOK, AbandonedDeserved, NEW subs, End(subs, "unsubscribed"),
           UNCHANGED heard
    PROVE  AbandonedDeserved'
  BY DEF TypeOK, AbandonedDeserved, End

LEMMA CountKept ==
    ASSUME CountInv, UNCHANGED <<errors, hand, heard>>
    PROVE  CountInv'
  BY DEF CountInv, InHand

LEMMA StepAbandon == TypeOK /\ AbandonInv /\ [Next]_vars => AbandonInv'
<1> SUFFICES ASSUME TypeOK, CountInv, AbandonedDeserved, [Next]_vars
             PROVE  CountInv' /\ AbandonedDeserved'
  BY DEF AbandonInv
<1>1. CASE UNCHANGED <<errors, hand, heard, ended>>
  BY <1>1, CountKept DEF AbandonedDeserved
<1>2. ASSUME NEW s \in Subs, Unsubscribe(s)
      PROVE  CountInv' /\ AbandonedDeserved'
  BY <1>2, CountKept, OtherReasons DEF Unsubscribe, task, history
<1>3. CASE ReadError
  <2> DEFINE frame == Head(wire)
  <2>1. FrameFacts(frame)
    BY <1>3, FramesAreHonest DEF ReadError, TypeOK
  <2>2. Identified(frame) # None => Identified(frame) = frame.on
    BY <2>1 DEF Identified, FrameFacts, TypeOK
  <2>3. \A d \in Dests : heard'[d] = IF d = frame.on THEN heard[d] + 1 ELSE heard[d]
    BY <1>3, NamesAssumption DEF ReadError, TypeOK
  <2>4. ASSUME NEW d \in Dests PROVE errors'[d] + InHand(d)' <= heard'[d]
    <3>1. errors[d] \in Nat /\ heard[d] \in Nat /\ errors[d] <= heard[d]
      BY <1>3 DEF CountInv, InHand, TypeOK, ReadError
    <3>2. d # None
      BY NamesAssumption
    <3>3. CASE hand' = None
      <4>1. InHand(d)' = 0
        BY <3>3 DEF InHand
      <4> QED  BY <1>3, <2>3, <3>1, <4>1 DEF ReadError
    <3>4. CASE hand' # None
      <4>1. hand' = [frame |-> frame, dest |-> Identified(frame)]
        BY <1>3, <3>4 DEF ReadError
      <4>2. CASE hand'.dest = d
        <5>1. d = frame.on /\ InHand(d)' = 1
          BY <2>2, <3>2, <3>4, <4>1, <4>2 DEF InHand
        <5> QED  BY <1>3, <2>3, <3>1, <5>1 DEF ReadError
      <4>3. CASE hand'.dest # d
        <5>1. InHand(d)' = 0
          BY <4>3 DEF InHand
        <5> QED  BY <1>3, <2>3, <3>1, <5>1 DEF ReadError
      <4> QED  BY <4>2, <4>3
    <3> QED  BY <3>3, <3>4
  <2>5. AbandonedDeserved'
    <3>1. \A s \in Subs : Dest[s] \in Dests  BY DEF Dests
    <3>2. \A d \in Dests : heard[d] \in Nat  BY DEF TypeOK
    <3> QED  BY <1>3, <2>3, <3>1, <3>2 DEF AbandonedDeserved, ReadError,
                                           handles
  <2> QED  BY <2>4, <2>5 DEF CountInv
<1>4. CASE HandleError
  <2>1. UNCHANGED heard /\ hand' = None /\ hand # None
    BY <1>4 DEF HandleError, history
  <2>2. \A d \in Dests : InHand(d)' = 0
    BY <2>1 DEF InHand
  <2>3. CASE hand.dest = None
    <3>1. UNCHANGED <<errors, ended>>
      BY <1>4, <2>3, NamesAssumption DEF HandleError, TypeOK, handles
    <3>2. \A d \in Dests : InHand(d) = 0
      BY <2>3, NamesAssumption DEF InHand
    <3> QED  BY <2>1, <2>2, <3>1, <3>2 DEF CountInv, AbandonedDeserved
  <2>4. CASE hand.dest # None
    <3> DEFINE e == hand.dest
    <3>1. e \in Dests /\ Count(e, hand.frame)
      BY <1>4, <2>4 DEF HandleError, TypeOK
    <3>2. InHand(e) = 1 /\ \A d \in Dests \ {e} : InHand(d) = 0
      BY <2>1 DEF InHand
    <3>3. \A d \in Dests : errors'[d] = IF d = e THEN errors[d] + 1 ELSE errors[d]
      BY <3>1 DEF Count, TypeOK
    <3>4. \A d \in Dests : errors[d] \in Nat /\ heard[d] \in Nat
      BY DEF TypeOK
    <3>5. CountInv'
      BY <2>1, <2>2, <3>1, <3>2, <3>3, <3>4 DEF CountInv
    <3>6. AbandonedDeserved'
      <4> SUFFICES ASSUME NEW s \in Subs, ended'[s] = "abandoned"
                   PROVE  heard[Dest[s]] >= 3
        BY <2>1 DEF AbandonedDeserved
      <4>1. CASE ended[s] = "abandoned"
        BY <4>1 DEF AbandonedDeserved
      <4>2. CASE ended[s] # "abandoned"
        <5>1. Enough(errors'[e]) /\ s \in On(e)
          BY <3>1, <4>2 DEF Count, End, handles
        <5>2. Dest[s] = e /\ errors'[e] >= 3
          BY <5>1 DEF On, Enough
        <5>3. errors'[e] <= heard[e]
          BY <2>1, <2>2, <3>1, <3>3, <3>4, <3>5 DEF CountInv
        <5> QED  BY <3>1, <3>3, <3>4, <5>2, <5>3
      <4> QED  BY <4>1, <4>2
    <3> QED  BY <3>5, <3>6
  <2> QED  BY <2>3, <2>4
<1> QED
  BY <1>1, <1>2, <1>3, <1>4
  DEF Next, Application, Broker, Task, Subscribe, Refuse, Complain, Say,
      Reconnect, LoseConnection, vars, task, handles, broker, history

\* A subscription is abandoned only once the broker has sent three ERRORs
\* about its destination, whatever the wordings, the words that are no ids, and
\* the subscriptions that come and go while an ERROR is handled.
THEOREM AbandonmentIsDeserved == Spec => []AbandonedDeserved
<1>1. TypeOK /\ AbandonInv /\ [Next]_vars => TypeOK' /\ AbandonInv'
  BY StepType, StepAbandon
<1>2. AbandonInv => AbandonedDeserved
  BY DEF AbandonInv
<1> QED
  BY <1>1, <1>2, InitType, InitAbandon, PTL DEF Spec

----------------------------------------------------------------------------
(* Skipped ERRORs *)

\* The broker only refuses what it was told of, so whatever an ERROR names is
\* registered or has ended; and what is remembered as abandoned has ended.
Known(s) == s \in registry \/ ended[s] # "no"
KnownIn(frame) == frame.sub \in Subs => Known(frame.sub)
ToldInv == \A s \in bsubs : Known(s)
WireInv == \A i \in 1..Len(wire) : KnownIn(wire[i])
HandInv == hand # None => /\ KnownIn(hand.frame)
                          /\ hand.dest \in {None, hand.frame.on}
EndedInv == \A s \in abandoned : s \in Subs /\ ended[s] # "no"
SkipInv == ToldInv /\ WireInv /\ HandInv /\ EndedInv /\ SkipsOnlyEnded

LEMMA InitSkip == Init => SkipInv
  BY DEF Init, SkipInv, ToldInv, WireInv, HandInv, EndedInv, SkipsOnlyEnded

LEMMA EndKeeps ==
    ASSUME TypeOK, NEW subs, NEW why \in {"abandoned", "unsubscribed"},
           End(subs, why)
    PROVE  /\ \A s \in Subs : ended[s] # "no" => ended'[s] # "no"
           /\ \A s \in Subs \intersect subs : ended'[s] # "no"
  BY DEF TypeOK, End

\* No step makes an end undone, or loses a subscription without one.
LEMMA KnownStays ==
    ASSUME TypeOK, [Next]_vars
    PROVE  \A s \in Subs : /\ ended[s] # "no" => ended'[s] # "no"
                           /\ Known(s) => Known(s)'
<1>1. CASE UNCHANGED handles
  BY <1>1 DEF handles, Known
<1>2. ASSUME NEW r \in Subs, Subscribe(r)
      PROVE  \A s \in Subs : /\ ended[s] # "no" => ended'[s] # "no"
                             /\ Known(s) => Known(s)'
  BY <1>2 DEF Subscribe, Known
<1>3. ASSUME NEW r \in Subs, Unsubscribe(r)
      PROVE  \A s \in Subs : /\ ended[s] # "no" => ended'[s] # "no"
                             /\ Known(s) => Known(s)'
  BY <1>3, EndKeeps DEF Unsubscribe, Known
<1>4. ASSUME HandleError
      PROVE  \A s \in Subs : /\ ended[s] # "no" => ended'[s] # "no"
                             /\ Known(s) => Known(s)'
  <2>1. CASE UNCHANGED handles
    BY <2>1 DEF handles, Known
  <2>2. CASE End(On(hand.dest), "abandoned") /\ registry' = registry \ On(hand.dest)
    BY <2>2, EndKeeps DEF Known
  <2> QED  BY <1>4, <2>1, <2>2 DEF HandleError, Count, handles
<1> QED
  BY <1>1, <1>2, <1>3, <1>4
  DEF Next, Application, Broker, Task, Refuse, Complain, Say, ReadError,
      Reconnect, LoseConnection, vars, task, handles, broker, history

LEMMA FramesWithoutProse ==
    ASSUME "prose" \notin Styles
    PROVE  \A f \in Frames : /\ f.sub \in Subs \union {None}
                             /\ f.sub \in Subs => f.on = Dest[f.sub] /\ f.about = f.sub
  BY FramesAreHonest DEF FrameFacts

LEMMA StepSkip ==
    ASSUME "prose" \notin Styles, TypeOK, SkipInv, [Next]_vars
    PROVE  SkipInv'
<1> DEFINE Stays == \A s \in Subs : /\ ended[s] # "no" => ended'[s] # "no"
                                    /\ Known(s) => Known(s)'
<1>0. Stays
  BY KnownStays
<1>1. None \notin Subs
  BY NamesAssumption
<1>2. \A f : KnownIn(f) => KnownIn(f)'
  BY <1>0 DEF KnownIn
<1> HIDE DEF Stays
<1>3. ToldInv'
  <2>1. CASE bsubs' \subseteq bsubs \union registry
    BY <1>0, <2>1 DEF Stays, SkipInv, ToldInv, Known, TypeOK
  <2>2. ASSUME NEW s \in Subs, Subscribe(s) PROVE ToldInv'
    BY <1>0, <2>2 DEF Stays, SkipInv, ToldInv, Known, TypeOK, Subscribe
  <2> QED
    BY <2>1, <2>2
    DEF Next, Application, Broker, Task, Unsubscribe, Refuse, Complain, Say,
        ReadError, HandleError, Reconnect, LoseConnection, vars, broker
<1>4. WireInv'
  <2>1. CASE UNCHANGED wire
    BY <1>2, <2>1 DEF SkipInv, WireInv
  <2>2. ASSUME NEW frame, KnownIn(frame), wire' = Append(wire, frame)
        PROVE  WireInv'
    BY <1>2, <2>2 DEF SkipInv, WireInv, TypeOK
  <2>3. ASSUME NEW s \in Refused, NEW style \in Styles, Refuse(s, style)
        PROVE  WireInv'
    <3>1. s \in Subs /\ Known(s) /\ Refusal(s, style) \in Frames
      BY <2>3 DEF Refuse, TypeOK, SkipInv, ToldInv, Frames
    <3>2. Refusal(s, style).sub \in Subs => Refusal(s, style).about = Refusal(s, style).sub
      BY <3>1, FramesWithoutProse
    <3>3. Refusal(s, style).about = s
      BY DEF Refusal, Frame
    <3>4. KnownIn(Refusal(s, style))
      BY <3>1, <3>2, <3>3 DEF KnownIn
    <3> QED  BY <2>2, <2>3, <3>4 DEF Refuse, Say
  <2>4. ASSUME NEW d \in Dests \union {None}, Complain(d) PROVE WireInv'
    <3>1. KnownIn(Complaint(d))
      BY <1>1 DEF KnownIn, Complaint, Frame
    <3> QED  BY <2>2, <2>4, <3>1 DEF Complain, Say
  <2>5. CASE wire # <<>> /\ wire' = Tail(wire)
    BY <1>2, <2>5 DEF SkipInv, WireInv, TypeOK
  <2>6. CASE wire' = <<>>
    BY <2>6 DEF WireInv
  <2> QED
    BY <2>1, <2>3, <2>4, <2>5, <2>6
    DEF Next, Application, Broker, Task, Subscribe, Unsubscribe, ReadError,
        HandleError, Reconnect, LoseConnection, vars, broker
<1>5. HandInv'
  <2>1. CASE UNCHANGED hand
    BY <1>2, <2>1 DEF SkipInv, HandInv
  <2>2. CASE hand' = None
    BY <2>2 DEF HandInv
  <2>3. CASE ReadError
    <3> DEFINE frame == Head(wire)
    <3>1. frame \in Frames /\ KnownIn(frame)
      BY <2>3 DEF ReadError, TypeOK, SkipInv, WireInv
    <3>2. FrameFacts(frame)
      BY <3>1, FramesAreHonest
    <3>3. Identified(frame) \in {None, frame.on}
      BY <3>2 DEF Identified, FrameFacts, TypeOK
    <3> QED  BY <1>2, <2>1, <2>3, <3>1, <3>3 DEF ReadError, HandInv
  <2> QED
    BY <2>1, <2>2, <2>3
    DEF Next, Application, Broker, Task, Subscribe, Unsubscribe, Refuse,
        Complain, Say, HandleError, Reconnect, LoseConnection, vars, task
<1>6. EndedInv'
  <2>1. CASE UNCHANGED abandoned
    BY <1>0, <2>1 DEF Stays, SkipInv, EndedInv
  <2>2. CASE HandleError /\ hand.dest # None
    <3> DEFINE e == hand.dest
               frame == hand.frame
    <3>1. e \in Dests /\ frame \in Frames /\ Count(e, frame)
      BY <2>2 DEF HandleError, TypeOK
    <3>2. e = frame.on /\ KnownIn(frame)
      BY <2>2 DEF HandleError, SkipInv, HandInv
    <3>3. frame.sub \in Subs \union {None} /\ (frame.sub \in Subs => Dest[frame.sub] = e)
      BY <3>1, <3>2, FramesWithoutProse
    <3>4. ASSUME abandoned' = abandoned \union Named(frame),
                 End(On(e), "abandoned"), frame.sub \in Subs
          PROVE  ended'[frame.sub] # "no"
      <4>1. CASE frame.sub \in registry
        BY <3>3, <3>4, <4>1, EndKeeps DEF On
      <4>2. CASE ended[frame.sub] # "no"
        BY <1>0, <3>4, <4>2 DEF Stays
      <4> QED  BY <3>2, <3>4, <4>1, <4>2 DEF KnownIn, Known
    <3>5. CASE abandoned' = abandoned \union Named(frame) /\ End(On(e), "abandoned")
      <4>1. \A s \in Named(frame) : s \in Subs /\ ended'[s] # "no"
        BY <3>3, <3>4, <3>5 DEF Named
      <4> QED  BY <1>0, <3>5, <4>1 DEF Stays, SkipInv, EndedInv
    <3> QED  BY <2>1, <3>1, <3>5 DEF Count
  <2> QED
    BY <2>1, <2>2
    DEF Next, Application, Broker, Task, Subscribe, Unsubscribe, Refuse,
        Complain, Say, ReadError, HandleError, Reconnect, LoseConnection,
        vars, task
<1>7. SkipsOnlyEnded'
  <2>1. CASE UNCHANGED missed
    BY <1>0, <1>1, <2>1 DEF Stays, SkipInv, SkipsOnlyEnded, TypeOK
  <2>2. CASE ReadError /\ Skipped(Head(wire))
    <3> DEFINE frame == Head(wire)
    <3>1. frame \in Frames
      BY <2>2 DEF ReadError, TypeOK
    <3>2. frame.sub \in Subs /\ ended[frame.sub] # "no" /\ frame.about = frame.sub
      BY <2>2, <3>1, FramesWithoutProse DEF Skipped, SkipInv, EndedInv
    <3>3. missed' = missed \union {frame.about} /\ UNCHANGED ended
      BY <2>2 DEF ReadError, handles
    <3> QED  BY <1>1, <3>2, <3>3 DEF SkipInv, SkipsOnlyEnded
  <2> QED
    BY <2>1, <2>2
    DEF Next, Application, Broker, Task, Subscribe, Unsubscribe, Refuse,
        Complain, Say, ReadError, HandleError, Reconnect, LoseConnection,
        vars, history
<1> QED  BY <1>3, <1>4, <1>5, <1>6, <1>7 DEF SkipInv

\* As long as no wording puts a word that is no id after "subscription ", the
\* only ERRORs that are neither counted nor handed on are about subscriptions
\* that have ended.  (With such a wording it is not so: README, Observations.)
THEOREM OnlyEndedAreSkipped ==
    ASSUME "prose" \notin Styles
    PROVE  Spec => []SkipsOnlyEnded
<1>1. TypeOK /\ SkipInv /\ [Next]_vars => TypeOK' /\ SkipInv'
  BY StepType, StepSkip
<1>2. SkipInv => SkipsOnlyEnded
  BY DEF SkipInv
<1> QED
  BY <1>1, <1>2, InitType, InitSkip, PTL DEF Spec
=============================================================================
