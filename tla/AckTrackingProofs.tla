------------------------- MODULE AckTrackingProofs -------------------------
(***************************************************************************)
(* Theorems about AckTracking, for any subscriptions, modes, tasks and     *)
(* bounds: the types; that an ACK names the connection it is made on; that *)
(* an ended subscription leaves nothing behind; and, each resting on the   *)
(* one before it, that only what was asked for is settled (ItemsInv), that *)
(* no delivery is forgotten (OrderInv) and that no acknowledgement goes    *)
(* astray (StrayInv).                                                      *)
(***************************************************************************)
EXTENDS AckTracking, SequenceTheorems, TLAPS

----------------------------------------------------------------------------
\* What the proofs need of a sequence used as a queue: what is in it, and that
\* nothing is in it twice, as elements are appended and its head is taken.

\* The elements of a sequence are the values at its positions.
LEMMA InRange ==
    ASSUME NEW s, NEW x
    PROVE  x \in Range(s) <=> \E i \in DOMAIN s : s[i] = x
BY DEF Range

\* Nothing is in an empty queue.
LEMMA EmptyQueue ==
    Range(<<>>) = {} /\ IsInjective(<<>>)
<1>1. DOMAIN <<>> = {}
  OBVIOUS
<1> QED
  BY <1>1 DEF Range, IsInjective

\* What a queue is after a frame is put at its end.
LEMMA AppendShape ==
    ASSUME NEW S, NEW s \in Seq(S), NEW x \in S
    PROVE  /\ Append(s, x) \in Seq(S)
           /\ Len(s) \in Nat
           /\ Len(Append(s, x)) = Len(s) + 1
           /\ DOMAIN s = 1..Len(s)
           /\ DOMAIN Append(s, x) = 1..(Len(s) + 1)
           /\ \A i \in 1..Len(s) : Append(s, x)[i] = s[i]
           /\ Append(s, x)[Len(s) + 1] = x
BY AppendProperties, LenProperties

\* What a queue is after its first frame is taken.
LEMMA TailShape ==
    ASSUME NEW S, NEW s \in Seq(S), s # <<>>
    PROVE  /\ Head(s) \in S /\ Tail(s) \in Seq(S)
           /\ Len(s) \in Nat \ {0}
           /\ Len(Tail(s)) = Len(s) - 1
           /\ DOMAIN s = 1..Len(s)
           /\ DOMAIN Tail(s) = 1..(Len(s) - 1)
           /\ Head(s) = s[1]
           /\ \A i \in 1..(Len(s) - 1) : Tail(s)[i] = s[i + 1]
<1>1. Len(s) \in Nat \ {0} /\ DOMAIN s = 1..Len(s)
  BY EmptySeq, LenProperties
<1>2. /\ Head(s) \in S /\ Tail(s) \in Seq(S) /\ Len(Tail(s)) = Len(s) - 1
      /\ \A i \in 1..Len(Tail(s)) : Tail(s)[i] = s[i + 1]
  BY HeadTailProperties
<1>3. DOMAIN Tail(s) = 1..Len(Tail(s))
  BY <1>2, LenProperties
<1>4. Head(s) = s[1]
  BY <1>1
<1> QED
  BY <1>1, <1>2, <1>3, <1>4

\* A frame put in a queue is in it, with the others.
LEMMA RangeOfAppend ==
    ASSUME NEW S, NEW s \in Seq(S), NEW x \in S
    PROVE  Range(Append(s, x)) = Range(s) \cup {x}
<1> DEFINE t == Append(s, x)
<1>1. /\ Len(s) \in Nat /\ DOMAIN s = 1..Len(s) /\ DOMAIN t = 1..(Len(s) + 1)
      /\ \A i \in 1..Len(s) : t[i] = s[i]
      /\ t[Len(s) + 1] = x
  BY AppendShape
<1> HIDE DEF t
<1>2. ASSUME NEW y PROVE y \in Range(t) <=> y \in Range(s) \cup {x}
  <2>1. ASSUME NEW i \in DOMAIN t, t[i] = y
        PROVE  y = x \/ \E j \in DOMAIN s : s[j] = y
    BY <1>1, <2>1
  <2>2. ASSUME NEW i \in DOMAIN s, s[i] = y
        PROVE  \E j \in DOMAIN t : t[j] = y
    BY <1>1, <2>2
  <2>3. \E j \in DOMAIN t : t[j] = x
    BY <1>1
  <2> QED
    BY <2>1, <2>2, <2>3, InRange
<1>3. Range(t) = Range(s) \cup {x}
  BY <1>2
<1> QED
  BY <1>3 DEF t

\* The first frame and the others are what is in a queue.
LEMMA RangeOfTail ==
    ASSUME NEW S, NEW s \in Seq(S), s # <<>>
    PROVE  Range(s) = {Head(s)} \cup Range(Tail(s))
<1> DEFINE t == Tail(s)
<1>1. /\ Len(s) \in Nat \ {0} /\ DOMAIN s = 1..Len(s)
      /\ DOMAIN t = 1..(Len(s) - 1) /\ Head(s) = s[1]
      /\ \A i \in 1..(Len(s) - 1) : t[i] = s[i + 1]
  BY TailShape
<1> HIDE DEF t
<1>2. ASSUME NEW y PROVE y \in Range(s) <=> y \in {Head(s)} \cup Range(t)
  <2>1. ASSUME NEW i \in DOMAIN s, s[i] = y
        PROVE  y = Head(s) \/ \E j \in DOMAIN t : t[j] = y
    <3>1. CASE i = 1
      BY <1>1, <2>1, <3>1
    <3>2. CASE i # 1
      <4>1. i - 1 \in DOMAIN t /\ (i - 1) + 1 = i
        BY <1>1, <3>2
      <4> QED
        BY <1>1, <2>1, <4>1
    <3> QED
      BY <3>1, <3>2
  <2>2. ASSUME NEW i \in DOMAIN t, t[i] = y
        PROVE  \E j \in DOMAIN s : s[j] = y
    <3>1. i + 1 \in DOMAIN s
      BY <1>1
    <3> QED
      BY <1>1, <2>2, <3>1
  <2>3. \E j \in DOMAIN s : s[j] = Head(s)
    BY <1>1
  <2> QED
    BY <2>1, <2>2, <2>3, InRange
<1>3. Range(s) = {Head(s)} \cup Range(t)
  BY <1>2
<1> QED
  BY <1>3 DEF t

\* A new frame in a queue without repetitions leaves it without.
LEMMA InjectiveAppend ==
    ASSUME NEW S, NEW s \in Seq(S), NEW x \in S,
           IsInjective(s), x \notin Range(s)
    PROVE  IsInjective(Append(s, x))
<1> DEFINE t == Append(s, x)
<1>1. /\ Len(s) \in Nat /\ DOMAIN s = 1..Len(s) /\ DOMAIN t = 1..(Len(s) + 1)
      /\ \A i \in 1..Len(s) : t[i] = s[i]
      /\ t[Len(s) + 1] = x
  BY AppendShape
<1>2. \A i \in DOMAIN s : s[i] # x
  BY InRange
<1>3. \A i, j \in DOMAIN s : s[i] = s[j] => i = j
  BY DEF IsInjective
<1> HIDE DEF t
<1>4. \A i, j \in DOMAIN t : t[i] = t[j] => i = j
  BY <1>1, <1>2, <1>3
<1> QED
  BY <1>4 DEF IsInjective, t

----------------------------------------------------------------------------
\* A lost connection leaves room for one more session (a bound of the model).
LostHasRoom == io.pc = "lost" => session < MaxSession

TypeInv == TypeOK /\ LostHasRoom

\* Removing an element leaves a sequence over the same set.
LEMMA RemoveAtType ==
    ASSUME NEW S, NEW q \in Seq(S), NEW i \in 1..Len(q)
    PROVE  RemoveAt(q, i) \in Seq(S)
<1>1. \A j \in 1..(i - 1) : q[j] \in S
  OBVIOUS
<1>2. \A j \in (i + 1)..Len(q) : q[j] \in S
  OBVIOUS
<1>3. SubSeq(q, 1, i - 1) \in Seq(S)
  BY <1>1, SubSeqProperties
<1>4. SubSeq(q, i + 1, Len(q)) \in Seq(S)
  BY <1>2, SubSeqProperties
<1> QED
  BY <1>3, <1>4, ConcatProperties DEF RemoveAt

\* What an acknowledgement leaves of a queue is a queue.
LEMMA RemainingType ==
    ASSUME NEW S, NEW q \in Seq(S), NEW i \in 1..Len(q), NEW mode
    PROVE  Remaining(q, i, mode) \in Seq(S)
<1>1. \A j \in (i + 1)..Len(q) : q[j] \in S
  OBVIOUS
<1>2. SubSeq(q, i + 1, Len(q)) \in Seq(S)
  BY <1>1, SubSeqProperties
<1> QED
  BY <1>2, RemoveAtType DEF Remaining

\* The types hold at the start, and each part of Next keeps them.
LEMMA InitTypeInv == Init => TypeInv
BY ConstantsAssumption
   DEF Init, TypeInv, TypeOK, LostHasRoom, Select, Idle, Tasks, Calls,
       Sessions,
       HandleStates

\* Every owner step keeps the types: it moves its handle, and queues a frame
\* or forgets a queue.
LEMMA OwnerTypeInv ==
    ASSUME TypeInv, NEW s \in Subs, Owner(s)
    PROVE  TypeInv'
<1> USE DEF TypeInv, TypeOK, LostHasRoom, HandleStates, appVars, brokerVars
<1>1. \A kind \in {"SUBSCRIBE", "UNSUBSCRIBE"} :
         Append(outbound, Frame(kind, s)) \in Seq(Item)
  BY AppendProperties DEF Frame, Item
<1>2. CASE SubscribeEnter(s)
  BY <1>2 DEF SubscribeEnter
<1>3. CASE SubscribeSend(s)
  BY <1>1, <1>3 DEF SubscribeSend
<1>4. CASE UnsubscribeRemove(s)
  BY <1>4 DEF UnsubscribeRemove
<1>5. CASE UnsubscribeForget(s)
  BY <1>5 DEF UnsubscribeForget
<1>6. CASE UnsubscribeSend(s)
  BY <1>1, <1>6 DEF UnsubscribeSend
<1>7. ASSUME NEW got \in BOOLEAN, DropRemove(s, got)
      PROVE  TypeInv'
  BY <1>7 DEF DropRemove
<1>8. ASSUME NEW got \in BOOLEAN, DropForget(s, got)
      PROVE  TypeInv'
  BY <1>8 DEF DropForget
<1>9. CASE DropSend(s)
  BY <1>1, <1>9 DEF DropSend
<1>10. CASE OwnerGivesUp(s)
  BY <1>10 DEF OwnerGivesUp
<1> QED
  BY <1>2, <1>3, <1>4, <1>5, <1>6, <1>7, <1>8, <1>9, <1>10 DEF Owner

\* So does every step of an acknowledging task.  What it carries is a call,
\* then a frame built from it.
LEMMA AckItemType ==
    ASSUME NEW call, call.about \in Delivery, call.managed \in ManagedModes,
           NEW id \in Name, NEW issued \in Sessions \cup {NoSession}
    PROVE  AckOf(call, id, issued) \in AckItem
BY DEF AckOf, AckItem, Delivery

\* An acknowledgement is named by a header of its message.
LEMMA NameOfType ==
    ASSUME NEW d \in Delivery, NEW by \in {"ack", "message-id"}
    PROVE  NameOf(d, by) \in Name
BY ConstantsAssumption DEF NameOf, Name, Delivery, Sessions

\* A call that has read its mode holds all that a frame needs.
LEMMA SettlingCall ==
    ASSUME TypeOK, NEW a \in Ackers, acker[a].pc = "settle"
    PROVE  /\ acker[a].about \in Delivery
           /\ acker[a].about.sub \in Subs
           /\ acker[a].id \in Name
           /\ acker[a].managed \in ManagedModes
BY DEF TypeOK, Calls, Delivery

LEMMA AcknowledgeTypeInv ==
    ASSUME TypeInv, NEW a \in Ackers, Acknowledge(a)
    PROVE  TypeInv'
<1> USE DEF TypeInv, LostHasRoom, appVars, brokerVars
<1>1. ASSUME NEW d \in held, NEW by \in Naming, AckCall(a, d, by)
      PROVE  TypeInv'
  <2>1. d \in Delivery /\ d.sub \in Subs /\ d.mid \in Mids
    BY DEF TypeOK, Delivery
  <2>2. NameOf(d, by) \in Name
    BY <2>1, NameOfType, ConstantsAssumption
  <2>3. acker' \in [Ackers -> Calls]
    <3>1. (IF d.sub \in registry THEN Mode[d.sub] ELSE Unmanaged) \in ManagedModes
      BY <2>1, ConstantsAssumption DEF ManagedModes
    <3> QED
      BY <1>1, <2>1, <2>2, <3>1 DEF AckCall, TypeOK, Calls
  <2>4. Covers(d) \subseteq Mids
    BY <2>1 DEF Covers, UpTo, TypeOK
  <2>5. asked' \in [Subs -> SUBSET Mids]
    BY <1>1, <2>1, <2>4 DEF AckCall, TypeOK
  <2> QED
    BY <1>1, <2>3, <2>5 DEF AckCall, TypeOK
<1>2. CASE AckSettle(a)
  <2> DEFINE call == acker[a]
             q == pending[call.about.sub]
  <2>1. PICK pos \in DOMAIN q :
           /\ pending' = [pending EXCEPT ![call.about.sub] =
                             Remaining(q, pos, call.managed)]
           /\ acker' = [acker EXCEPT ![a] =
                 [pc |-> "send",
                  item |-> AckOf(call, NameOf(q[pos], "ack"), q[pos].sess)]]
    BY <1>2 DEF AckSettle
  <2>2. call.about \in Delivery /\ call.about.sub \in Subs
        /\ call.managed \in ManagedModes
    BY <1>2, SettlingCall DEF AckSettle
  <2>3. q \in Seq(Delivery) /\ pos \in 1..Len(q) /\ q[pos] \in Delivery
    BY <2>2 DEF TypeOK
  <2>4. Remaining(q, pos, call.managed) \in Seq(Delivery)
    BY <2>3, RemainingType
  <2>5. AckOf(call, NameOf(q[pos], "ack"), q[pos].sess) \in AckItem
    <3>1. NameOf(q[pos], "ack") \in Name /\ q[pos].sess \in Sessions
      BY <2>3, NameOfType DEF Delivery
    <3> QED
      BY <2>2, <3>1, AckItemType
  <2>6. acker' \in [Ackers -> Calls]
    BY <2>1, <2>5 DEF TypeOK, Calls
  <2>7. pending' \in [Subs -> Seq(Delivery)]
    BY <2>1, <2>2, <2>4 DEF TypeOK
  <2> QED
    BY <1>2, <2>6, <2>7 DEF AckSettle, TypeOK
<1>3. CASE AckMiss(a)
  <2>1. AckOf(acker[a], acker[a].id, NoSession) \in AckItem
    BY <1>3, SettlingCall, AckItemType DEF AckMiss
  <2>2. acker' \in [Ackers -> Calls]
    BY <1>3, <2>1 DEF AckMiss, TypeOK, Calls, Idle
  <2> QED
    BY <1>3, <2>2 DEF AckMiss, TypeOK
<1>4. CASE AckSend(a)
  <2>1. acker[a].item \in AckItem
    BY <1>4 DEF AckSend, TypeOK, Calls
  <2>2. outbound' \in Seq(Item)
    BY <1>4, <2>1, AppendProperties DEF AckSend, TypeOK, Item
  <2>3. acker' \in [Ackers -> Calls]
    BY <1>4 DEF AckSend, TypeOK, Calls, Idle
  <2> QED
    BY <1>4, <2>2, <2>3 DEF AckSend, TypeOK
<1>5. CASE AckGivenUp(a)
  <2>1. acker[a].pc = "send" => acker[a].item \in AckItem
    BY <1>5 DEF TypeOK, Calls
  <2>2. lapsed' \in SUBSET AckItem
    BY <1>5, <2>1 DEF AckGivenUp, TypeOK
  <2>3. acker' \in [Ackers -> Calls]
    BY <1>5 DEF AckGivenUp, TypeOK, Calls, Idle
  <2> QED
    BY <1>5, <2>2, <2>3 DEF AckGivenUp, TypeOK
<1> QED
  BY <1>1, <1>2, <1>3, <1>4, <1>5 DEF Acknowledge

\* The frame at the head of the channel, and what is left behind it.
LEMMA HeadOfOutbound ==
    ASSUME TypeOK, outbound # <<>>
    PROVE  /\ Head(outbound) \in Item
           /\ Head(outbound).sub \in Subs
           /\ Head(outbound).kind = "ACK" => Head(outbound) \in AckItem
           /\ Tail(outbound) \in Seq(Item)
<1>1. Head(outbound) \in Item /\ Tail(outbound) \in Seq(Item)
  BY HeadTailProperties DEF TypeOK
<1> QED
  BY <1>1 DEF Item, AckItem

\* Forgetting for a frame leaves queues of deliveries.
LEMMA ForgetForType ==
    ASSUME TypeOK, NEW STATE item, ForgetFor(item)
    PROVE  pending' \in [Subs -> Seq(Delivery)]
<1>1. CASE item.kind = "UNSUBSCRIBE"
  <2>1. pending' = [pending EXCEPT ![item.sub] = <<>>]
    BY <1>1 DEF ForgetFor
  <2>2. pending \in [Subs -> Seq(Delivery)] /\ <<>> \in Seq(Delivery)
    BY DEF TypeOK
  <2> QED
    BY <2>1, <2>2
<1>2. CASE item.kind # "UNSUBSCRIBE"
  BY <1>2 DEF ForgetFor, TypeOK
<1> QED
  BY <1>1, <1>2

\* The broker's answer to a frame keeps the types of what it changes.
LEMMA BrokerTakesType ==
    ASSUME TypeOK, NEW STATE item, item \in Item, item.sub \in Subs,
           item.kind = "ACK" => item \in AckItem, BrokerTakes(item)
    PROVE  /\ bsubs' \in SUBSET Subs
           /\ settled' \in [Subs -> SUBSET Mids]
           /\ written' \in SUBSET [ack: AckItem, on: Sessions, hit: BOOLEAN]
<1>1. bsubs' \in SUBSET Subs
  BY DEF BrokerTakes, TypeOK, Item, AckItem
<1>2. Settles(item) \subseteq Mids
  BY DEF Settles, UpTo, Named, Outstanding, TypeOK
<1>3. CASE item.kind = "ACK"
  <2>1. [ack |-> item, on |-> session, hit |-> Named(item) # {}]
           \in [ack: AckItem, on: Sessions, hit: BOOLEAN]
    BY <1>3 DEF TypeOK
  <2>2. written' \in SUBSET [ack: AckItem, on: Sessions, hit: BOOLEAN]
    BY <1>3, <2>1 DEF BrokerTakes, TypeOK
  <2>3. settled' \in [Subs -> SUBSET Mids]
    <3>1. settled' = [settled EXCEPT ![item.sub] = @ \cup Settles(item)]
      BY <1>3 DEF BrokerTakes
    <3>2. settled \in [Subs -> SUBSET Mids]
      BY DEF TypeOK
    <3>3. settled[item.sub] \cup Settles(item) \in SUBSET Mids
      BY <1>2, <3>2
    <3> QED
      BY <3>1, <3>2, <3>3
  <2> QED
    BY <1>1, <2>2, <2>3
<1>4. CASE item.kind # "ACK"
  BY <1>1, <1>4 DEF BrokerTakes, TypeOK
<1> QED
  BY <1>3, <1>4

\* What the background task holds at each of its stages.
LEMMA TaskHolds ==
    ASSUME TypeOK
    PROVE  /\ io.pc \in {"push", "deliver", "fail", "sweep"} =>
                 io.msg \in Delivery /\ io.msg.sub \in Subs
           /\ io.pc = "sweep" => io.live \subseteq Subs /\ io.failed \in BOOLEAN
           /\ io.pc = "reap" => io.sub \in Subs
BY DEF TypeOK, Tasks, Delivery

LEMMA BackgroundTypeInv ==
    ASSUME TypeInv, Background
    PROVE  TypeInv'
<1> USE DEF TypeInv, LostHasRoom, appVars, brokerVars
<1>0. Select \in Tasks /\ [pc |-> "lost"] \in Tasks /\ [pc |-> "down"] \in Tasks
      /\ Select.pc = "select"
  BY DEF Select, Tasks
<1>1. CASE SkipStaleAck
  BY <1>1, HeadOfOutbound DEF SkipStaleAck, TypeOK
<1>2. CASE WriteOutbound
  <2>1. outbound # <<>> /\ ForgetFor(Head(outbound)) /\ BrokerTakes(Head(outbound))
        /\ outbound' = Tail(outbound)
    BY <1>2 DEF WriteOutbound
  <2>2. pending' \in [Subs -> Seq(Delivery)]
    BY <2>1, HeadOfOutbound, ForgetForType
  <2>3. /\ bsubs' \in SUBSET Subs
        /\ settled' \in [Subs -> SUBSET Mids]
        /\ written' \in SUBSET [ack: AckItem, on: Sessions, hit: BOOLEAN]
    BY <2>1, HeadOfOutbound, BrokerTakesType
  <2>4. outbound' \in Seq(Item)
    BY <2>1, HeadOfOutbound
  <2> QED
    BY <1>2, <2>2, <2>3, <2>4 DEF WriteOutbound, TypeOK
<1>3. CASE WriteFails
  <2>1. outbound # <<>> /\ ForgetFor(Head(outbound)) /\ outbound' = Tail(outbound)
    BY <1>3 DEF WriteFails
  <2>2. pending' \in [Subs -> Seq(Delivery)]
    BY <2>1, HeadOfOutbound, ForgetForType
  <2>3. outbound' \in Seq(Item)
    BY <2>1, HeadOfOutbound
  <2> QED
    BY <1>0, <1>3, <2>2, <2>3 DEF WriteFails, TypeOK
<1>4. CASE ReadMessage
  <2>1. Head(inflight) \in Delivery /\ inflight' \in Seq(Delivery)
    BY <1>4, HeadTailProperties DEF ReadMessage, TypeOK
  <2>2. io' \in Tasks /\ io'.pc # "lost"
    BY <1>0, <1>4, <2>1 DEF ReadMessage, Tasks
  <2> QED
    BY <1>4, <2>1, <2>2 DEF ReadMessage, TypeOK
<1>5. CASE PushPending
  <2>1. io.msg \in Delivery /\ io.msg.sub \in Subs
    BY <1>5, TaskHolds DEF PushPending
  <2>2. Append(pending[io.msg.sub], io.msg) \in Seq(Delivery)
    BY <2>1, AppendProperties DEF TypeOK
  <2>3. pending' \in [Subs -> Seq(Delivery)]
    BY <1>5, <2>1, <2>2 DEF PushPending, TypeOK
  <2>4. io' \in Tasks /\ io'.pc # "lost"
    BY <1>5, <2>1 DEF PushPending, Tasks
  <2> QED
    BY <1>5, <2>1, <2>3, <2>4 DEF PushPending, TypeOK
<1>6. CASE Sweep
  <2>1. io' \in Tasks /\ io'.pc # "lost"
    BY <1>0, <1>6, TaskHolds DEF Sweep, Tasks
  <2>2. pending' \in [Subs -> Seq(Delivery)]
    BY <1>6 DEF Sweep, TypeOK
  <2> QED
    BY <1>6, <2>1, <2>2 DEF Sweep, TypeOK
<1>7. ASSUME NEW verdict, Deliver(verdict)
      PROVE  TypeInv'
  <2>1. io.msg \in Delivery /\ io.msg.sub \in Subs
    BY <1>7, TaskHolds DEF Deliver
  <2>2. registry' \in SUBSET Subs
    BY <1>7 DEF Deliver, TypeOK
  <2>3. io' \in Tasks /\ io'.pc # "lost"
    BY <1>7, <2>1, <2>2 DEF Deliver, Tasks
  <2>4. held' \in SUBSET Delivery
    BY <1>7, <2>1 DEF Deliver, TypeOK
  <2> QED
    BY <1>7, <2>2, <2>3, <2>4 DEF Deliver, TypeOK
<1>8. ASSUME NEW ok \in BOOLEAN, FailOverflowed(ok)
      PROVE  TypeInv'
  <2>1. io.msg.sub \in Subs
    BY <1>8, TaskHolds DEF FailOverflowed
  <2>2. io' \in Tasks /\ (io'.pc = "lost" => session < MaxSession)
    BY <1>0, <1>8 DEF FailOverflowed
  <2> QED
    BY <1>8, <2>1, <2>2 DEF FailOverflowed, TypeOK
<1>9. ASSUME NEW d \in Dests, Abandon(d)
      PROVE  TypeInv'
  BY <1>9 DEF Abandon, TypeOK
<1>10. ASSUME NEW s \in Subs, ReapClosed(s)
       PROVE  TypeInv'
  <2>1. io' \in Tasks /\ io'.pc # "lost"
    BY <1>10 DEF ReapClosed, Tasks
  <2> QED
    BY <1>10, <2>1 DEF ReapClosed, TypeOK
<1>11. CASE ReapForget
  BY <1>0, <1>11, TaskHolds DEF ReapForget, TypeOK
<1>12. CASE LoseConnection
  BY <1>0, <1>12 DEF LoseConnection, TypeOK
<1>13. CASE ForgetSession
  <2>1. session' \in Sessions
    BY <1>13, ConstantsAssumption DEF ForgetSession, TypeOK, Sessions
  <2>2. pending' \in [Subs -> Seq(Delivery)]
    BY <1>13 DEF ForgetSession
  <2>3. io' \in Tasks /\ io'.pc # "lost"
    BY <1>0, <1>13 DEF ForgetSession
  <2> QED
    BY <1>13, <2>1, <2>2, <2>3 DEF ForgetSession, TypeOK
<1>14. CASE Reconnect
  BY <1>0, <1>14 DEF Reconnect, TypeOK
<1> QED
  BY <1>1, <1>2, <1>3, <1>4, <1>5, <1>6, <1>7, <1>8, <1>9, <1>10, <1>11,
     <1>12, <1>13, <1>14 DEF Background

LEMMA BrokerDeliversTypeInv ==
    ASSUME TypeInv, NEW s \in Subs, NEW mid \in Mids, BrokerDelivers(s, mid)
    PROVE  TypeInv'
<1> USE DEF TypeInv, LostHasRoom, appVars, brokerVars
<1>1. Append(sent[s], mid) \in Seq(Mids)
  BY AppendProperties DEF TypeOK
<1>2. [sub |-> s, mid |-> mid, sess |-> session] \in Delivery
  BY DEF Delivery, TypeOK
<1>3. inflight' \in Seq(Delivery)
  BY <1>2, AppendProperties DEF BrokerDelivers, TypeOK
<1> QED
  BY <1>1, <1>3 DEF BrokerDelivers, TypeOK

LEMMA StepTypeInv == TypeInv /\ [Next]_vars => TypeInv'
<1> SUFFICES ASSUME TypeInv, [Next]_vars
             PROVE  TypeInv'
  OBVIOUS
<1>1. CASE UNCHANGED vars
  BY <1>1 DEF vars, appVars, brokerVars, TypeInv, TypeOK, LostHasRoom
<1>2. CASE Next
  BY <1>2, OwnerTypeInv, AcknowledgeTypeInv, BackgroundTypeInv,
     BrokerDeliversTypeInv DEF Next
<1> QED
  BY <1>1, <1>2

\* Type correctness: every variable keeps its type in every behaviour.
THEOREM TypeCorrect == Spec => []TypeOK
<1>1. TypeInv => TypeOK
  BY DEF TypeInv
<1> QED
  BY <1>1, InitTypeInv, StepTypeInv, PTL DEF Spec

----------------------------------------------------------------------------
(***************************************************************************)
(* Session safety (#118).  The invariant AcksNameThisSession speaks of     *)
(* ACKs already written; what makes it inductive is AcksWellFormed: every  *)
(* such ACK in a task's hand or in the channel carries, next to its id,    *)
(* the session that issued the id, so the guard of WriteOutbound compares  *)
(* the right number.                                                       *)
(***************************************************************************)
SessionInv == TypeOK /\ AcksWellFormed /\ AcksNameThisSession

\* The session of an ACK: it holds at the start, and each part of Next keeps
\* it.
LEMMA InitSession == Init => AcksWellFormed /\ AcksNameThisSession
BY DEF Init, AcksWellFormed, AcksNameThisSession, Idle

\* Appending a well-formed frame, or one that is no ACK, keeps the channel.
LEMMA AppendWellFormed ==
    ASSUME TypeOK, AcksWellFormed, NEW STATE item, item \in Item,
           item.kind = "ACK" => WellFormed(item),
           outbound' = Append(outbound, item)
    PROVE  \A i \in DOMAIN outbound' :
              outbound'[i].kind = "ACK" => WellFormed(outbound'[i])
<1>1. \A i \in 1..Len(outbound') :
         \/ i \in 1..Len(outbound) /\ outbound'[i] = outbound[i]
         \/ outbound'[i] = item
  BY AppendProperties DEF TypeOK
<1>2. DOMAIN outbound' = 1..Len(outbound')
  BY AppendProperties DEF TypeOK
<1> QED
  BY <1>1, <1>2 DEF AcksWellFormed, TypeOK

\* Taking the first frame from the channel leaves its frames well-formed.
LEMMA TailWellFormed ==
    ASSUME TypeOK, AcksWellFormed, outbound # <<>>, outbound' = Tail(outbound)
    PROVE  \A i \in DOMAIN outbound' :
              outbound'[i].kind = "ACK" => WellFormed(outbound'[i])
<1>1. \A i \in 1..Len(outbound') : outbound'[i] = outbound[i + 1]
                                   /\ i + 1 \in 1..Len(outbound)
  BY HeadTailProperties DEF TypeOK
<1>2. DOMAIN outbound' = 1..Len(outbound') /\ DOMAIN outbound = 1..Len(outbound)
  BY HeadTailProperties DEF TypeOK
<1> QED
  BY <1>1, <1>2 DEF AcksWellFormed

LEMMA OwnerSession ==
    ASSUME SessionInv, NEW s \in Subs, Owner(s)
    PROVE  AcksWellFormed' /\ AcksNameThisSession'
<1> USE DEF SessionInv, appVars, brokerVars
<1>1. UNCHANGED <<acker, written>>
  BY DEF Owner, SubscribeEnter, SubscribeSend, UnsubscribeRemove,
         UnsubscribeForget, UnsubscribeSend, DropRemove, DropForget, DropSend,
         OwnerGivesUp
<1>2. \/ UNCHANGED outbound
      \/ \E kind \in {"SUBSCRIBE", "UNSUBSCRIBE"} :
            outbound' = Append(outbound, Frame(kind, s))
  BY DEF Owner, SubscribeEnter, SubscribeSend, UnsubscribeRemove,
         UnsubscribeForget, UnsubscribeSend, DropRemove, DropForget, DropSend,
         OwnerGivesUp
<1>3. ASSUME NEW kind \in {"SUBSCRIBE", "UNSUBSCRIBE"},
             outbound' = Append(outbound, Frame(kind, s))
      PROVE  AcksWellFormed'
  <2>1. Frame(kind, s) \in Item /\ Frame(kind, s).kind # "ACK"
    BY DEF Frame, Item
  <2> QED
    BY <1>1, <1>3, <2>1, AppendWellFormed DEF AcksWellFormed, WellFormed
<1> QED
  BY <1>1, <1>2, <1>3 DEF AcksWellFormed, WellFormed, AcksNameThisSession

LEMMA AcknowledgeSession ==
    ASSUME SessionInv, NEW a \in Ackers, Acknowledge(a)
    PROVE  AcksWellFormed' /\ AcksNameThisSession'
<1> USE DEF SessionInv, appVars, brokerVars
<1>0. UNCHANGED written
  BY DEF Acknowledge, AckCall, AckSettle, AckMiss, AckSend, AckGivenUp
<1>1. ASSUME NEW d \in held, NEW by \in Naming, AckCall(a, d, by)
      PROVE  AcksWellFormed'
  BY <1>1 DEF AckCall, AcksWellFormed, WellFormed, TypeOK
<1>2. CASE AckSettle(a)
  <2> DEFINE q == pending[acker[a].about.sub]
  <2>1. PICK pos \in DOMAIN q :
           acker' = [acker EXCEPT ![a] =
              [pc |-> "send",
               item |-> AckOf(acker[a], NameOf(q[pos], "ack"), q[pos].sess)]]
    BY <1>2 DEF AckSettle
  <2>2. WellFormed(AckOf(acker[a], NameOf(q[pos], "ack"), q[pos].sess))
    BY DEF WellFormed, AckOf, NameOf
  <2>3. acker'[a].item = AckOf(acker[a], NameOf(q[pos], "ack"), q[pos].sess)
        /\ \A b \in Ackers \ {a} : acker'[b] = acker[b]
    BY <2>1 DEF TypeOK
  <2>4. UNCHANGED outbound
    BY <1>2 DEF AckSettle
  <2> DEFINE new == AckOf(acker[a], NameOf(q[pos], "ack"), q[pos].sess)
  <2> HIDE DEF new
  <2>5. ASSUME NEW b \in Ackers, acker'[b].pc = "send"
        PROVE  WellFormed(acker'[b].item)
    <3>1. CASE b = a
      BY <2>2, <2>3, <3>1 DEF new
    <3>2. CASE b # a
      BY <2>3, <2>5, <3>2 DEF AcksWellFormed
    <3> QED
      BY <3>1, <3>2
  <2>6. AcksWellFormed'
    BY <1>0, <2>4, <2>5 DEF AcksWellFormed, WellFormed
  <2> QED
    BY <1>0, <2>4, <2>6 DEF AcksNameThisSession
<1>3. CASE AckMiss(a)
  <2>1. WellFormed(AckOf(acker[a], acker[a].id, NoSession))
        \/ acker[a].managed \in {"client", "individual"}
    BY DEF WellFormed, AckOf, InClientMode
  <2>2. UNCHANGED outbound
    BY <1>3 DEF AckMiss
  <2>3. \A b \in Ackers : acker'[b].pc = "send" =>
           WellFormed(acker'[b].item)
    BY <1>3, <2>1 DEF AckMiss, AcksWellFormed, TypeOK, Idle
  <2> QED
    BY <1>0, <2>2, <2>3 DEF AcksWellFormed, WellFormed, AcksNameThisSession
<1>4. CASE AckSend(a)
  <2>1. acker[a].item \in Item /\ WellFormed(acker[a].item)
    BY <1>4 DEF AckSend, TypeOK, Calls, Item, AcksWellFormed
  <2>2. \A i \in DOMAIN outbound' :
           outbound'[i].kind = "ACK" => WellFormed(outbound'[i])
    BY <1>4, <2>1, AppendWellFormed DEF AckSend
  <2>3. \A b \in Ackers : acker'[b].pc = "send" => acker'[b] = acker[b]
    BY <1>4 DEF AckSend, TypeOK, Idle
  <2> QED
    BY <1>0, <2>2, <2>3 DEF AcksWellFormed, WellFormed, AcksNameThisSession
<1>5. CASE AckGivenUp(a)
  BY <1>0, <1>5
     DEF AckGivenUp, Idle, TypeOK, AcksWellFormed, WellFormed,
         AcksNameThisSession
<1> QED
  BY <1>0, <1>1, <1>2, <1>3, <1>4, <1>5 DEF Acknowledge, AcksNameThisSession

LEMMA BackgroundSession ==
    ASSUME SessionInv, Background
    PROVE  AcksWellFormed' /\ AcksNameThisSession'
<1> USE DEF SessionInv, appVars, brokerVars
<1>1. CASE SkipStaleAck
  <2>1. outbound # <<>> /\ outbound' = Tail(outbound) /\ UNCHANGED <<acker, written>>
    BY <1>1 DEF SkipStaleAck
  <2> QED
    BY <2>1, TailWellFormed DEF AcksWellFormed, WellFormed, AcksNameThisSession
<1>2. CASE WriteFails
  <2>1. outbound # <<>> /\ outbound' = Tail(outbound) /\ UNCHANGED <<acker, written>>
    BY <1>2 DEF WriteFails
  <2> QED
    BY <2>1, TailWellFormed DEF AcksWellFormed, WellFormed, AcksNameThisSession
<1>3. CASE WriteOutbound
  <2> DEFINE item == Head(outbound)
  <2>1. /\ outbound # <<>> /\ outbound' = Tail(outbound) /\ UNCHANGED acker
        /\ WritableIn(item, session)
        /\ BrokerTakes(item)
    BY <1>3 DEF WriteOutbound
  <2>2. AcksWellFormed'
    BY <2>1, TailWellFormed DEF AcksWellFormed, WellFormed
  <2>3. CASE item.kind = "ACK"
    <3>1. item \in AckItem /\ WellFormed(item)
      BY <2>1, <2>3, HeadOfOutbound, HeadTailProperties
         DEF AcksWellFormed, TypeOK
    <3>2. InClientMode(item.managed) =>
             item.id.by = "ack" /\ item.id.sess = session
      \* the id's session is a session, so item is no plain frame
      BY <2>1, <2>3, <3>1 DEF WellFormed, WritableIn, AckItem, Name, Sessions,
                              NoSession
    <3>3. written' = written \cup
             {[ack |-> item, on |-> session, hit |-> Named(item) # {}]}
      BY <2>1, <2>3 DEF BrokerTakes
    <3> QED
      BY <2>2, <3>2, <3>3 DEF AcksNameThisSession
  <2>4. CASE item.kind # "ACK"
    BY <2>1, <2>2, <2>4 DEF BrokerTakes, AcksNameThisSession
  <2> QED
    BY <2>3, <2>4
<1>4. CASE ~(SkipStaleAck \/ WriteFails \/ WriteOutbound)
  <2>1. UNCHANGED <<acker, outbound, written>>
    BY <1>4 DEF Background, ReadMessage, PushPending, Sweep, Deliver,
                FailOverflowed, Abandon, ReapClosed, ReapForget,
                LoseConnection, ForgetSession, Reconnect
  <2> QED
    BY <2>1 DEF AcksWellFormed, WellFormed, AcksNameThisSession
<1> QED
  BY <1>1, <1>2, <1>3, <1>4

LEMMA StepSession ==
    SessionInv /\ [Next]_vars => AcksWellFormed' /\ AcksNameThisSession'
<1> SUFFICES ASSUME SessionInv, [Next]_vars
             PROVE  AcksWellFormed' /\ AcksNameThisSession'
  OBVIOUS
<1>1. CASE UNCHANGED vars
  BY <1>1 DEF vars, appVars, brokerVars, SessionInv, AcksWellFormed,
              WellFormed,
              AcksNameThisSession
<1>2. ASSUME NEW s \in Subs, NEW mid \in Mids, BrokerDelivers(s, mid)
      PROVE  AcksWellFormed' /\ AcksNameThisSession'
  BY <1>2 DEF BrokerDelivers, appVars, SessionInv, AcksWellFormed, WellFormed,
              AcksNameThisSession
<1> QED
  BY <1>1, <1>2, OwnerSession, AcknowledgeSession, BackgroundSession DEF Next

\* No acknowledgement crosses a reconnect: an ACK written for a managed
\* client-mode subscription carries an ack id of the connection it is written
\* to, for any number of tasks, subscriptions, messages and reconnects.
THEOREM NoAckCrossesSessions == Spec => []AcksNameThisSession
<1>1. TypeInv /\ AcksWellFormed /\ AcksNameThisSession /\ [Next]_vars
         => AcksWellFormed' /\ AcksNameThisSession'
  BY StepSession DEF SessionInv, TypeInv
<1> QED
  BY <1>1, InitTypeInv, StepTypeInv, InitSession, PTL DEF Spec

----------------------------------------------------------------------------
(* What an acknowledgement leaves of a queue. *)

Cumulative(mode) == mode \in {"client", Unmanaged}

\* Where in the queue the k-th of what is left was.
Was(k, pos, mode) ==
    IF Cumulative(mode) THEN pos + k ELSE IF k < pos THEN k ELSE k + 1

\* What an acknowledgement leaves of a queue: what is behind it in a cumulative
\* mode, all the others in the other; Was(k) says where the k-th of them stood.
LEMMA RemainingShape ==
    ASSUME NEW S, NEW q \in Seq(S), NEW pos \in DOMAIN q, NEW mode
    PROVE  LET r == Remaining(q, pos, mode)
           IN  /\ r \in Seq(S)
               /\ DOMAIN q = 1..Len(q) /\ DOMAIN r = 1..Len(r)
               /\ Len(q) \in Nat /\ pos \in 1..Len(q)
               /\ Len(r) = IF Cumulative(mode) THEN Len(q) - pos
                           ELSE Len(q) - 1
               /\ \A k \in 1..Len(r) : r[k] = q[Was(k, pos, mode)]
<1> DEFINE r == Remaining(q, pos, mode)
<1>1. DOMAIN q = 1..Len(q) /\ Len(q) \in Nat /\ pos \in 1..Len(q)
  BY LenProperties
<1>2. r \in Seq(S)
  BY <1>1, RemainingType
<1>3. DOMAIN r = 1..Len(r)
  BY <1>2, LenProperties
<1>4. /\ SubSeq(q, pos + 1, Len(q)) \in Seq(S)
      /\ Len(SubSeq(q, pos + 1, Len(q))) = Len(q) - pos
      /\ \A k \in 1..(Len(q) - pos) :
             SubSeq(q, pos + 1, Len(q))[k] = q[pos + k]
  <2>1. \A j \in (pos + 1)..Len(q) : q[j] \in S
    BY <1>1
  <2> DEFINE t == SubSeq(q, pos + 1, Len(q))
  <2>2. /\ t \in Seq(S)
        /\ Len(t) = IF pos + 1 <= Len(q) THEN Len(q) - (pos + 1) + 1 ELSE 0
        /\ \A i \in 1..(Len(q) - (pos + 1) + 1) : t[i] = q[(pos + 1) + i - 1]
    BY <1>1, <2>1, SubSeqProperties
  <2> HIDE DEF t
  <2>3. Len(t) = Len(q) - pos
    BY <1>1, <2>2
  <2>4. ASSUME NEW k \in 1..(Len(q) - pos) PROVE t[k] = q[pos + k]
    <3>1. k \in 1..(Len(q) - (pos + 1) + 1) /\ (pos + 1) + k - 1 = pos + k
      BY <1>1
    <3> QED
      BY <2>2, <3>1
  <2> QED
    BY <2>2, <2>3, <2>4 DEF t
<1>5. CASE Cumulative(mode)
  <2>1. r = SubSeq(q, pos + 1, Len(q))
    BY <1>5 DEF Remaining, Cumulative
  <2> HIDE DEF r
  <2>2. \A k \in 1..Len(r) : r[k] = q[Was(k, pos, mode)]
    BY <1>4, <1>5, <2>1 DEF Was
  <2> QED
    BY <1>1, <1>2, <1>3, <1>4, <1>5, <2>1, <2>2 DEF r
<1>6. CASE ~Cumulative(mode)
  <2> DEFINE b == SubSeq(q, 1, pos - 1)
             t == SubSeq(q, pos + 1, Len(q))
  <2>1. r = b \o t
    BY <1>6 DEF Remaining, Cumulative, RemoveAt
  <2>2. \A j \in 1..(pos - 1) : q[j] \in S
    BY <1>1
  <2>3. /\ b \in Seq(S)
        /\ Len(b) = IF 1 <= pos - 1 THEN (pos - 1) - 1 + 1 ELSE 0
        /\ \A i \in 1..((pos - 1) - 1 + 1) : b[i] = q[1 + i - 1]
    BY <1>1, <2>2, SubSeqProperties
  <2>4. t \in Seq(S) /\ Len(t) = Len(q) - pos
        /\ \A k \in 1..(Len(q) - pos) : t[k] = q[pos + k]
    BY <1>4
  <2> HIDE DEF r, b, t
  <2>5. Len(b) = pos - 1 /\ \A i \in 1..(pos - 1) : b[i] = q[i]
    <3>1. Len(b) = pos - 1
      BY <1>1, <2>3
    <3>2. ASSUME NEW i \in 1..(pos - 1) PROVE b[i] = q[i]
      <4>1. i \in 1..((pos - 1) - 1 + 1) /\ 1 + i - 1 = i
        BY <1>1
      <4> QED
        BY <2>3, <4>1
    <3> QED
      BY <3>1, <3>2
  <2>6. /\ Len(r) = Len(b) + Len(t)
        /\ \A i \in 1..(Len(b) + Len(t)) :
               r[i] = IF i <= Len(b) THEN b[i] ELSE t[i - Len(b)]
    BY <2>1, <2>3, <2>4, ConcatProperties
  <2>7. Len(r) = Len(q) - 1
    BY <1>1, <2>4, <2>5, <2>6
  <2>8. ASSUME NEW k \in 1..Len(r) PROVE r[k] = q[Was(k, pos, mode)]
    <3>1. k \in 1..(Len(b) + Len(t))
      BY <2>6
    <3>2. CASE k < pos
      <4>1. k \in 1..(pos - 1) /\ k <= Len(b)
        BY <1>1, <2>5, <3>2
      <4> QED
        BY <1>6, <2>5, <2>6, <3>1, <3>2, <4>1 DEF Was
    <3>3. CASE ~(k < pos)
      <4>1. /\ ~(k <= Len(b)) /\ k - Len(b) \in 1..(Len(q) - pos)
            /\ pos + (k - Len(b)) = k + 1
        BY <1>1, <2>5, <2>7, <3>3
      <4> QED
        BY <1>6, <2>4, <2>6, <3>1, <3>3, <4>1 DEF Was
    <3> QED
      BY <3>2, <3>3
  <2> QED
    BY <1>1, <1>2, <1>3, <1>6, <2>7, <2>8 DEF r
<1> QED
  BY <1>5, <1>6

\* What is left was there, in the same order, and is not what was taken; what
\* is gone was taken, or was in front of it and acknowledged with it.
LEMMA RemainingPart ==
    ASSUME NEW S, NEW q \in Seq(S), NEW pos \in DOMAIN q, NEW mode
    PROVE  LET r == Remaining(q, pos, mode)
           IN  /\ \A k \in DOMAIN r :
                      /\ Was(k, pos, mode) \in DOMAIN q \ {pos}
                      /\ r[k] = q[Was(k, pos, mode)]
               /\ \A k, l \in DOMAIN r :
                      k < l => Was(k, pos, mode) < Was(l, pos, mode)
               /\ \A i \in DOMAIN q :
                      \/ \E k \in DOMAIN r : r[k] = q[i]
                      \/ i = pos
                      \/ Cumulative(mode) /\ i < pos
<1> DEFINE r == Remaining(q, pos, mode)
<1>1. /\ DOMAIN q = 1..Len(q) /\ DOMAIN r = 1..Len(r)
      /\ Len(q) \in Nat /\ pos \in 1..Len(q)
      /\ Len(r) = IF Cumulative(mode) THEN Len(q) - pos ELSE Len(q) - 1
      /\ \A k \in 1..Len(r) : r[k] = q[Was(k, pos, mode)]
  BY RemainingShape
<1>0. \A k \in DOMAIN r : k \in Nat
  <2>1. r \in Seq(S)
    BY RemainingShape
  <2> HIDE DEF r
  <2> QED
    BY <2>1, LenProperties
<1> HIDE DEF r
<1>2. ASSUME NEW k \in DOMAIN r
      PROVE  Was(k, pos, mode) \in DOMAIN q \ {pos}
  <2>1. CASE Cumulative(mode)
    BY <1>1, <2>1 DEF Was
  <2>2. CASE ~Cumulative(mode)
    BY <1>1, <2>2 DEF Was
  <2> QED
    BY <2>1, <2>2
<1>3. ASSUME NEW k \in DOMAIN r, NEW l \in DOMAIN r, k < l
      PROVE  Was(k, pos, mode) < Was(l, pos, mode)
  <2>0. \A n : pos \in 1..n => pos \in Nat
    OBVIOUS
  <2>1. k \in Nat /\ l \in Nat /\ pos \in Nat
    BY <1>0, <1>1, <2>0
  <2>2. CASE Cumulative(mode)
    BY <1>3, <2>1, <2>2 DEF Was
  <2>3. CASE ~Cumulative(mode)
    BY <1>3, <2>1, <2>3 DEF Was
  <2> QED
    BY <2>2, <2>3
<1>4. ASSUME NEW i \in DOMAIN q, i # pos, ~(Cumulative(mode) /\ i < pos)
      PROVE  \E k \in DOMAIN r : r[k] = q[i]
  <2>1. CASE Cumulative(mode)
    <3>1. i - pos \in DOMAIN r /\ Was(i - pos, pos, mode) = i
      BY <1>1, <1>4, <2>1 DEF Was
    <3> QED
      BY <1>1, <3>1
  <2>2. CASE ~Cumulative(mode) /\ i < pos
    <3>1. i \in DOMAIN r /\ Was(i, pos, mode) = i
      BY <1>1, <2>2 DEF Was
    <3> QED
      BY <1>1, <3>1
  <2>3. CASE ~Cumulative(mode) /\ i > pos
    <3>1. i - 1 \in DOMAIN r /\ Was(i - 1, pos, mode) = i
      BY <1>1, <2>3 DEF Was
    <3> QED
      BY <1>1, <3>1
  <2>4. i < pos \/ i = pos \/ i > pos
    <3>1. i \in 1..Len(q) /\ pos \in 1..Len(q)
      BY <1>1
    <3>2. \A n : \A x, y \in 1..n : x < y \/ x = y \/ x > y
      OBVIOUS
    <3> QED
      BY <3>1, <3>2
  <2> QED
    BY <1>4, <2>1, <2>2, <2>3, <2>4
<1> QED
  BY <1>1, <1>2, <1>3, <1>4 DEF r

\* Nothing enters a queue by an acknowledgement.
LEMMA RemainingRange ==
    ASSUME NEW S, NEW q \in Seq(S), NEW pos \in DOMAIN q, NEW mode
    PROVE  Range(Remaining(q, pos, mode)) \subseteq Range(q)
<1> DEFINE r == Remaining(q, pos, mode)
<1>1. \A k \in DOMAIN r : /\ Was(k, pos, mode) \in DOMAIN q
                          /\ r[k] = q[Was(k, pos, mode)]
  BY RemainingPart
<1> HIDE DEF r
<1>2. Range(r) \subseteq Range(q)
  BY <1>1, InRange
<1> QED
  BY <1>2 DEF r

----------------------------------------------------------------------------
(***************************************************************************)
(* A closed subscription is forgotten.  From when its UNSUBSCRIBE has left *)
(* the channel there is nothing pending for it, but for the MESSAGE that   *)
(* is being delivered; the pass that finds its reader gone keeps it out of *)
(* the ids the sweep spares.                                               *)
(***************************************************************************)
Announced(s) == Frame("UNSUBSCRIBE", s) \in ToSet(outbound)

SweptSoon(s) ==
    /\ io.pc \in {"deliver", "sweep"}
    /\ io.msg.sub = s
    /\ io.pc = "sweep" => s \notin io.live

Forgotten ==
    \A s \in Subs :
        handle[s] = "closed" /\ ~Announced(s) => pending[s] = <<>> \/ SweptSoon(s)

\* The community modules have two names for the elements of a sequence.
LEMMA ToSetIsRange ==
    ASSUME NEW q PROVE ToSet(q) = Range(q)
BY DEF ToSet, Range

\* The channel, as frames enter and leave it.
LEMMA ChannelAppend ==
    ASSUME TypeOK, NEW STATE item, item \in Item,
           outbound' = Append(outbound, item)
    PROVE  ToSet(outbound') = ToSet(outbound) \cup {item}
<1>1. outbound \in Seq(Item)
  BY DEF TypeOK
<1>2. Range(Append(outbound, item)) = Range(outbound) \cup {item}
  BY <1>1, RangeOfAppend
<1> QED
  BY <1>2, ToSetIsRange

\* The first frame leaves the channel, the others stay.
LEMMA ChannelTail ==
    ASSUME TypeOK, outbound # <<>>, outbound' = Tail(outbound)
    PROVE  ToSet(outbound) = {Head(outbound)} \cup ToSet(outbound')
<1>1. outbound \in Seq(Item)
  BY DEF TypeOK
<1>2. Range(outbound) = {Head(outbound)} \cup Range(Tail(outbound))
  BY <1>1, RangeOfTail
<1> QED
  BY <1>2, ToSetIsRange

\* Who appends, and what.
LEMMA OwnerAppends ==
    ASSUME TypeOK, NEW t \in Subs, Owner(t)
    PROVE  \/ UNCHANGED outbound
           \/ /\ outbound' = Append(outbound, Frame("SUBSCRIBE", t))
              /\ ToSet(outbound') = ToSet(outbound) \cup {Frame("SUBSCRIBE", t)}
              /\ handle[t] = "entered" /\ handle'[t] = "open"
           \/ /\ outbound' = Append(outbound, Frame("UNSUBSCRIBE", t))
              /\ ToSet(outbound')
                    = ToSet(outbound) \cup {Frame("UNSUBSCRIBE", t)}
              /\ handle'[t] = "closed"
<1>1. \A kind \in {"SUBSCRIBE", "UNSUBSCRIBE"} : Frame(kind, t) \in Item
  BY DEF Frame, Item
<1>2. \/ UNCHANGED outbound
      \/ /\ outbound' = Append(outbound, Frame("SUBSCRIBE", t))
         /\ handle[t] = "entered" /\ handle'[t] = "open"
      \/ /\ outbound' = Append(outbound, Frame("UNSUBSCRIBE", t))
         /\ handle'[t] = "closed"
  BY DEF Owner, SubscribeEnter, SubscribeSend, UnsubscribeRemove,
         UnsubscribeForget, UnsubscribeSend, DropRemove, DropForget, DropSend,
         OwnerGivesUp, TypeOK
<1> QED
  BY <1>1, <1>2, ChannelAppend

\* ClosedIsForgotten under the steps of the handles, of the calls and of the
\* task.
LEMMA OwnerForgotten ==
    ASSUME TypeOK, Forgotten, NEW t \in Subs, Owner(t)
    PROVE  Forgotten'
<1>1. /\ UNCHANGED io
      /\ \A s \in Subs : pending'[s] \in {pending[s], <<>>}
      /\ \A s \in Subs \ {t} : handle'[s] = handle[s]
      /\ handle[t] # "closed"
  BY DEF Owner, SubscribeEnter, SubscribeSend, UnsubscribeRemove,
         UnsubscribeForget, UnsubscribeSend, DropRemove, DropForget, DropSend,
         OwnerGivesUp, TypeOK
<1>2. ToSet(outbound) \subseteq ToSet(outbound')
  BY OwnerAppends
<1>3. handle'[t] = "closed" => Announced(t)'
  <2>1. CASE outbound' = Append(outbound, Frame("UNSUBSCRIBE", t))
    <3>1. Frame("UNSUBSCRIBE", t) \in Item
      BY DEF Frame, Item
    <3> QED
      BY <2>1, <3>1, ChannelAppend DEF Announced
  <2>2. CASE outbound' # Append(outbound, Frame("UNSUBSCRIBE", t))
    BY <2>2 DEF Owner, SubscribeEnter, SubscribeSend, UnsubscribeRemove,
         UnsubscribeForget, UnsubscribeSend, DropRemove, DropForget, DropSend,
         OwnerGivesUp, TypeOK
  <2> QED
    BY <2>1, <2>2
<1> QED
  BY <1>1, <1>2, <1>3 DEF Forgotten, Announced, SweptSoon

LEMMA AcknowledgeForgotten ==
    ASSUME TypeOK, Forgotten, NEW a \in Ackers, Acknowledge(a)
    PROVE  Forgotten'
<1>1. UNCHANGED <<handle, io>>
  BY DEF Acknowledge, AckCall, AckSettle, AckMiss, AckSend, AckGivenUp, appVars
<1>2. \A s \in Subs : pending[s] = <<>> => pending'[s] = <<>>
  <2>1. CASE AckSettle(a)
    <3> DEFINE t == acker[a].about.sub
    <3>1. PICK pos \in DOMAIN pending[t] :
             pending' = [pending EXCEPT ![t] =
                            Remaining(pending[t], pos, acker[a].managed)]
      BY <2>1 DEF AckSettle
    <3>2. pending[t] # <<>>
      BY <3>1
    <3> QED
      BY <3>1, <3>2 DEF TypeOK
  <2>2. CASE UNCHANGED pending
    BY <2>2
  <2> QED
    BY <2>1, <2>2 DEF Acknowledge, AckCall, AckMiss, AckSend, AckGivenUp
<1>3. ToSet(outbound) \subseteq ToSet(outbound')
  <2>1. CASE AckSend(a)
    <3>1. acker[a].item \in Item /\ outbound' = Append(outbound, acker[a].item)
      BY <2>1 DEF AckSend, TypeOK, Calls, Item
    <3> QED
      BY <3>1, ChannelAppend
  <2>2. CASE UNCHANGED outbound
    BY <2>2
  <2> QED
    BY <2>1, <2>2 DEF Acknowledge, AckCall, AckSettle, AckMiss, AckGivenUp
<1> QED
  BY <1>1, <1>2, <1>3 DEF Forgotten, Announced, SweptSoon

\* A frame that leaves the channel takes what is pending for it along.
LEMMA TakenForgotten ==
    ASSUME TypeOK, Forgotten, outbound # <<>>, outbound' = Tail(outbound),
           ForgetFor(Head(outbound)), io = Select, UNCHANGED handle
    PROVE  Forgotten'
<1> DEFINE item == Head(outbound)
<1>1. item \in Item /\ item.sub \in Subs
  BY HeadOfOutbound
<1>2. ToSet(outbound) = {item} \cup ToSet(outbound')
  BY ChannelTail
<1>3. ASSUME NEW s \in Subs, handle[s] = "closed", ~Announced(s)'
      PROVE  pending'[s] = <<>>
  <2>1. CASE item = Frame("UNSUBSCRIBE", s)
    BY <2>1 DEF ForgetFor, Frame, TypeOK
  <2>2. CASE item # Frame("UNSUBSCRIBE", s)
    <3>1. ~Announced(s)
      BY <1>2, <1>3, <2>2 DEF Announced
    <3>2. pending[s] = <<>>
      BY <1>3, <3>1 DEF Forgotten, SweptSoon, Select
    <3> QED
      BY <1>1, <3>2 DEF ForgetFor, TypeOK
  <2> QED
    BY <2>1, <2>2
<1> QED
  BY <1>3 DEF Forgotten

LEMMA BackgroundForgotten ==
    ASSUME TypeOK, Forgotten, Background
    PROVE  Forgotten'
<1>1. UNCHANGED handle
  BY DEF Background, SkipStaleAck, WriteOutbound, WriteFails, ReadMessage,
         PushPending, Sweep, Deliver, FailOverflowed, Abandon, ReapClosed,
         ReapForget, LoseConnection, ForgetSession, Reconnect, appVars
<1>2. CASE SkipStaleAck
  <2>1. /\ outbound # <<>> /\ outbound' = Tail(outbound)
        /\ Head(outbound).kind = "ACK" /\ UNCHANGED <<io, pending>>
    BY <1>2 DEF SkipStaleAck, WritableIn
  <2>2. ToSet(outbound) = {Head(outbound)} \cup ToSet(outbound')
    BY <2>1, ChannelTail
  <2>3. \A s \in Subs : Head(outbound) # Frame("UNSUBSCRIBE", s)
    BY <2>1 DEF Frame
  <2> QED
    BY <1>1, <2>1, <2>2, <2>3 DEF Forgotten, Announced, SweptSoon
<1>3. CASE WriteOutbound \/ WriteFails
  BY <1>1, <1>3, TakenForgotten DEF WriteOutbound, WriteFails
<1>4. CASE PushPending
  <2>1. /\ io.pc = "push" /\ io'.pc = "deliver" /\ io'.msg = io.msg
        /\ UNCHANGED outbound
        /\ \A s \in Subs : s # io.msg.sub => pending'[s] = pending[s]
    BY <1>4 DEF PushPending, TypeOK
  <2> QED
    BY <1>1, <2>1 DEF Forgotten, Announced, SweptSoon
<1>5. ASSUME NEW verdict, Deliver(verdict)
      PROVE  Forgotten'
  <2>1. /\ io.pc = "deliver" /\ io'.pc = "sweep" /\ io'.msg = io.msg
        /\ io'.live = registry' /\ UNCHANGED <<outbound, pending>>
    BY <1>5 DEF Deliver
  <2>2. handle[io.msg.sub] = "closed" => io.msg.sub \notin registry'
    BY <1>5 DEF Deliver, Verdicts, Gone
  <2> QED
    BY <1>1, <2>1, <2>2 DEF Forgotten, Announced, SweptSoon
<1>6. CASE Sweep
  <2>1. /\ io.pc = "sweep" /\ UNCHANGED outbound
        /\ \A s \in Subs : pending'[s] = IF s \in io.live THEN pending[s]
                                         ELSE <<>>
    BY <1>6 DEF Sweep
  <2> QED
    BY <1>1, <2>1 DEF Forgotten, Announced, SweptSoon
<1>7. CASE /\ UNCHANGED <<outbound>> /\ io.pc \notin {"deliver", "sweep"}
           /\ \A s \in Subs : pending'[s] \in {pending[s], <<>>}
  BY <1>1, <1>7 DEF Forgotten, Announced, SweptSoon
<1> QED
  BY <1>2, <1>3, <1>4, <1>5, <1>6, <1>7
     DEF Background, ReadMessage, FailOverflowed, Abandon, ReapClosed,
         ReapForget, LoseConnection, ForgetSession, Reconnect, Select, TypeOK

\* ClosedIsForgotten with its strengthening is inductive.
LEMMA StepForgotten ==
    TypeInv /\ Forgotten /\ [Next]_vars => Forgotten'
<1> SUFFICES ASSUME TypeOK, Forgotten, [Next]_vars
             PROVE  Forgotten'
  BY DEF TypeInv
<1>1. CASE UNCHANGED <<handle, outbound, io, pending>>
  BY <1>1 DEF Forgotten, Announced, SweptSoon
<1>2. ASSUME NEW s \in Subs, NEW mid \in Mids, BrokerDelivers(s, mid)
      PROVE  Forgotten'
  BY <1>1, <1>2 DEF BrokerDelivers, appVars
<1>3. CASE UNCHANGED vars
  BY <1>1, <1>3 DEF vars, appVars
<1> QED
  BY <1>2, <1>3, OwnerForgotten, AcknowledgeForgotten, BackgroundForgotten
     DEF Next

\* What was pending for a closed subscription goes with its UNSUBSCRIBE, even
\* when the owner's cleanup lost a lock or raced a MESSAGE being delivered.
THEOREM ClosedForgets == Spec => []ClosedIsForgotten
<1>1. Init => Forgotten
  BY DEF Init, Forgotten
<1>2. Forgotten => ClosedIsForgotten
  BY DEF Forgotten, ClosedIsForgotten, Announced, SweptSoon, Select
<1> QED
  BY <1>1, <1>2, InitTypeInv, StepTypeInv, StepForgotten, PTL DEF Spec

----------------------------------------------------------------------------
(***************************************************************************)
(* What is settled was asked for.  ItemsInv follows a delivery from the    *)
(* broker to the frame that acknowledges it: what every copy of a MESSAGE  *)
(* says of the session it belongs to, and what a call, and the frame made  *)
(* of it, remember of the delivery the caller held.                        *)
(***************************************************************************)
Known == {s \in Subs : handle[s] # "new"}

\* The MESSAGE the task is handling, and that it is about to track.
InTask ==
    IF io.pc \in {"push", "deliver", "sweep", "fail"} THEN {io.msg} ELSE {}
Pushing == IF io.pc = "push" THEN {io.msg} ELSE {}

\* What can still be acknowledged, and every copy the client has.
Tracked == UNION {Range(pending[s]) : s \in Subs}
Due == Tracked \cup Pushing \cup Range(inflight)
Copies == held \cup Due \cup InTask

\* Calls between their locks, and every ACK there is or was.
Asking == {acker[a] : a \in {a \in Ackers : acker[a].pc = "settle"}}
AllAcks == OnItsWay \cup lapsed \cup {w.ack : w \in written}

\* A copy is of a subscription that was asked for, and the broker sent it: on
\* this connection, if it is of this session.
CopyOK(d) ==
    /\ d.sub \in Known
    /\ d.sess <= session
    /\ d.sess = session =>
           io.pc # "down" /\ d.mid \in Range(sent[d.sub])

AskedFor(d) ==
    /\ d.mid \in asked[d.sub]
    /\ Mode[d.sub] = "client" /\ d.sess = session =>
           UpTo(d.sub, d.mid) \subseteq asked[d.sub]

\* An id is registered once, so what was found unmanaged stays so.
ModeOK(s, managed) ==
    IF managed = Unmanaged THEN s \notin registry ELSE managed = Mode[s]

CallOK(d, id, managed) ==
    CopyOK(d) /\ AskedFor(d) /\ ModeOK(d.sub, managed) /\ id.mid = d.mid

\* The delivery that an ACK of a managed subscription names.
NamedBy(item) == [sub |-> item.sub, mid |-> item.id.mid, sess |-> item.id.sess]

ItemOK(item) ==
    /\ CallOK(item.about, item.id, item.managed)
    /\ item.sub = item.about.sub
    /\ InClientMode(item.managed) =>
           item.id.by = "ack" /\ item.id.sess = item.issued
           /\ CopyOK(NamedBy(item))

KnownOnly ==
    /\ registry \subseteq Known /\ bsubs \subseteq Known
    /\ overflowed \subseteq Known
    /\ \A s \in Subs : sent[s] # <<>> => s \in Known
    /\ io.pc = "sweep" => io.live \subseteq Known
    /\ \A item \in ToSet(outbound) : item.sub \in Known

WrittenInTime ==
    \A w \in written : w.on <= session /\ (w.on = session => io.pc # "down")

\* Each queue is of one subscription.
OwnQueues == \A s \in Subs : \A d \in Range(pending[s]) : d.sub = s

ItemsInv ==
    /\ TypeInv
    /\ OwnQueues
    /\ KnownOnly
    /\ \A d \in Copies : CopyOK(d)
    /\ \A item \in AllAcks : ItemOK(item)
    /\ \A c \in Asking : CallOK(c.about, c.id, c.managed)
    /\ WrittenInTime

\* A handle is new once.
LEMMA KnownStays ==
    ASSUME TypeOK, [Next]_vars
    PROVE  Known \subseteq Known'
<1>1. UNCHANGED handle \/ \E t \in Subs : Owner(t)
  BY DEF Next, Acknowledge, AckCall, AckSettle, AckMiss, AckSend, AckGivenUp,
         Background, SkipStaleAck, WriteOutbound, WriteFails, ReadMessage,
         PushPending, Sweep, Deliver, FailOverflowed, Abandon, ReapClosed,
         ReapForget, LoseConnection, ForgetSession, Reconnect, BrokerDelivers,
         vars, appVars
<1>2. ASSUME NEW t \in Subs, Owner(t), NEW s \in Subs
      PROVE  handle'[s] = handle[s] \/ handle'[s] # "new"
  BY <1>2 DEF Owner, SubscribeEnter, SubscribeSend, UnsubscribeRemove,
         UnsubscribeForget, UnsubscribeSend, DropRemove, DropForget, DropSend,
         OwnerGivesUp, TypeOK
<1> QED
  BY <1>1, <1>2 DEF Known

\* A subscription enters the registry once, as its handle ceases to be new.
LEMMA RegistryStays ==
    ASSUME TypeOK, [Next]_vars
    PROVE  /\ registry' \subseteq registry \cup (Known' \ Known)
           /\ registry' \subseteq registry
              \/ \E t \in Subs : SubscribeEnter(t)
<1>1. registry' \subseteq registry \/ \E t \in Subs : SubscribeEnter(t)
  BY DEF Next, Owner, SubscribeSend, UnsubscribeRemove,
         UnsubscribeForget, UnsubscribeSend, DropRemove, DropForget, DropSend,
         OwnerGivesUp,
         Acknowledge, AckCall, AckSettle, AckMiss, AckSend, AckGivenUp,
         Background, SkipStaleAck, WriteOutbound, WriteFails, ReadMessage,
         PushPending, Sweep, Deliver, FailOverflowed, Abandon, ReapClosed,
         ReapForget, LoseConnection, ForgetSession, Reconnect, BrokerDelivers,
         vars, appVars
<1>2. ASSUME NEW t \in Subs, SubscribeEnter(t)
      PROVE  registry' \subseteq registry \cup (Known' \ Known)
  BY <1>2 DEF SubscribeEnter, Known, TypeOK
<1> QED
  BY <1>1, <1>2

\* The three things a step can be to the session.
LEMMA Clock ==
    ASSUME TypeOK, [Next]_vars
    PROVE  \/ session' = session + 1 /\ ForgetSession
           \/ session' = session /\ io.pc = "down"
           \/ /\ session' = session /\ io.pc # "down" /\ io'.pc # "down"
              /\ \/ UNCHANGED sent
                 \/ \E s \in Subs, mid \in Mids : BrokerDelivers(s, mid)
<1>1. CASE UNCHANGED <<session, sent, io>>
  BY <1>1
<1>2. ASSUME NEW s \in Subs, NEW mid \in Mids, BrokerDelivers(s, mid)
      PROVE  session' = session /\ io.pc # "down" /\ io'.pc # "down"
  BY <1>2 DEF BrokerDelivers
<1>3. CASE ForgetSession
  BY <1>3 DEF ForgetSession
<1>4. CASE Reconnect
  BY <1>4 DEF Reconnect
<1>5. CASE UNCHANGED <<session, sent>> /\ io.pc # "down" /\ io'.pc # "down"
  BY <1>5
<1>6. CASE Background /\ ~ForgetSession /\ ~Reconnect
  BY <1>1, <1>5, <1>6
     DEF Background, SkipStaleAck, WriteOutbound, WriteFails, ReadMessage,
         PushPending, Sweep, Deliver, FailOverflowed, Abandon, ReapClosed,
         ReapForget, LoseConnection, brokerVars, Select
<1>7. ASSUME NEW t \in Subs, Owner(t)
      PROVE  UNCHANGED <<session, sent, io>>
  BY <1>7 DEF Owner, SubscribeEnter, SubscribeSend, UnsubscribeRemove,
         UnsubscribeForget, UnsubscribeSend, DropRemove, DropForget, DropSend,
         OwnerGivesUp, brokerVars
<1>8. ASSUME NEW a \in Ackers, Acknowledge(a)
      PROVE  UNCHANGED <<session, sent, io>>
  BY <1>8 DEF Acknowledge, AckCall, AckSettle, AckMiss, AckSend, AckGivenUp,
              brokerVars
<1> QED
  BY <1>1, <1>2, <1>3, <1>4, <1>6, <1>7, <1>8 DEF Next, vars, brokerVars

\* What the broker sends next.
LEMMA SentGrows ==
    ASSUME TypeOK, NEW s \in Subs, NEW mid \in Mids, BrokerDelivers(s, mid)
    PROVE  /\ mid \notin Range(sent[s]) /\ mid \notin settled[s]
           /\ \A t \in Subs \ {s} : sent'[t] = sent[t]
           /\ sent'[s] = Append(sent[s], mid)
           /\ Range(sent'[s]) = Range(sent[s]) \cup {mid}
           /\ sent[s] \in Seq(Mids)
<1>1. sent[s] \in Seq(Mids)
  BY DEF TypeOK
<1>2. /\ \A i \in DOMAIN sent[s] : sent[s][i] # mid
      /\ mid \notin settled[s]
      /\ sent'[s] = Append(sent[s], mid)
      /\ \A t \in Subs \ {s} : sent'[t] = sent[t]
  BY DEF BrokerDelivers, TypeOK
<1>3. Range(Append(sent[s], mid)) = Range(sent[s]) \cup {mid}
  BY <1>1, RangeOfAppend
<1> QED
  BY <1>1, <1>2, <1>3, InRange

\* A copy stays what it is: a session ends and its copies are old.
LEMMA CopyStays ==
    ASSUME TypeOK, [Next]_vars, NEW d \in Delivery, CopyOK(d)
    PROVE  CopyOK(d)'
<1>1. d.sub \in Known' /\ d.sub \in Subs
  BY KnownStays DEF CopyOK, Known
<1>2. d.sess \in Int /\ session \in Int /\ d.sess <= session
  BY DEF CopyOK, TypeOK, Delivery, Sessions
<1>3. CASE session' = session + 1
  BY <1>1, <1>2, <1>3 DEF CopyOK
<1>4. CASE session' = session /\ io.pc = "down"
  BY <1>1, <1>2, <1>4 DEF CopyOK
<1>5. CASE session' = session /\ io'.pc # "down"
           /\ (UNCHANGED sent \/ \E s \in Subs, mid \in Mids :
                                     BrokerDelivers(s, mid))
  <2>1. Range(sent[d.sub]) \subseteq Range(sent'[d.sub])
    BY <1>1, <1>5, SentGrows
  <2> QED
    BY <1>1, <1>2, <1>5, <2>1 DEF CopyOK
<1> QED
  BY <1>3, <1>4, <1>5, Clock

\* What was sent up to a MESSAGE does not change on its connection.
LEMMA UpToStays ==
    ASSUME TypeOK, NEW s \in Subs, NEW mid \in Mids, BrokerDelivers(s, mid),
           NEW t \in Subs, NEW m \in Range(sent[t])
    PROVE  UpTo(t, m)' = UpTo(t, m)
<1>1. CASE t # s
  <2>1. sent'[t] = sent[t]
    BY <1>1, SentGrows
  <2> QED
    BY <2>1 DEF UpTo
<1>2. CASE t = s
  <2>1. /\ sent'[t] = Append(sent[t], mid) /\ sent[t] \in Seq(Mids)
        /\ mid \notin Range(sent[t])
    BY <1>2, SentGrows
  <2> DEFINE f == sent[t]
             g == sent'[t]
  <2>2. /\ Len(f) \in Nat /\ DOMAIN f = 1..Len(f) /\ DOMAIN g = 1..(Len(f) + 1)
        /\ \A i \in 1..Len(f) : g[i] = f[i]
        /\ g[Len(f) + 1] = mid /\ mid # m
    <3>1. /\ Len(f) \in Nat /\ DOMAIN f = 1..Len(f)
          /\ DOMAIN Append(f, mid) = 1..(Len(f) + 1)
          /\ \A i \in 1..Len(f) : Append(f, mid)[i] = f[i]
          /\ Append(f, mid)[Len(f) + 1] = mid
      BY <2>1, AppendShape
    <3> QED
      BY <2>1, <3>1
  <2>3. UpTo(t, m)' = {g[i] : i \in {i \in DOMAIN g :
                           \E j \in DOMAIN g : i <= j /\ g[j] = m}}
    BY DEF UpTo
  <2>4. UpTo(t, m) = {f[i] : i \in {i \in DOMAIN f :
                           \E j \in DOMAIN f : i <= j /\ f[j] = m}}
    BY DEF UpTo
  <2> HIDE DEF f, g
  <2>5. ASSUME NEW i \in DOMAIN g, NEW j \in DOMAIN g, i <= j, g[j] = m
        PROVE  i \in DOMAIN f /\ j \in DOMAIN f /\ g[i] = f[i] /\ f[j] = m
    BY <2>2, <2>5
  <2>6. ASSUME NEW i \in DOMAIN f, NEW j \in DOMAIN f, i <= j, f[j] = m
        PROVE  i \in DOMAIN g /\ j \in DOMAIN g /\ g[i] = f[i] /\ g[j] = m
    BY <2>2, <2>6
  <2>7. \A x : x \in UpTo(t, m)' <=> x \in UpTo(t, m)
    BY <2>3, <2>4, <2>5, <2>6
  <2> QED
    BY <2>7
<1> QED
  BY <1>1, <1>2

\* Who asked for a delivery keeps having asked for it.
LEMMA AskedStays ==
    ASSUME TypeOK, [Next]_vars, NEW d \in Delivery, CopyOK(d), AskedFor(d)
    PROVE  AskedFor(d)'
<1>1. d.sub \in Subs /\ asked[d.sub] \subseteq asked'[d.sub]
  <2>1. d.sub \in Subs
    BY DEF Delivery
  <2>2. UNCHANGED asked
        \/ \E a \in Ackers : \E e \in held, by \in Naming : AckCall(a, e, by)
    BY DEF Next, Owner, SubscribeEnter, SubscribeSend, UnsubscribeRemove,
           UnsubscribeForget, UnsubscribeSend, DropRemove, DropForget,
           DropSend, OwnerGivesUp,
           Acknowledge, AckSettle, AckMiss, AckSend, AckGivenUp,
           Background, SkipStaleAck, WriteOutbound, WriteFails, ReadMessage,
           PushPending, Sweep, Deliver, FailOverflowed, Abandon, ReapClosed,
           ReapForget, LoseConnection, ForgetSession, Reconnect,
           BrokerDelivers, vars, appVars
  <2>3. ASSUME NEW a \in Ackers, NEW e \in held, NEW by \in Naming,
               AckCall(a, e, by)
        PROVE  asked[d.sub] \subseteq asked'[d.sub]
    BY <2>1, <2>3 DEF AckCall, TypeOK
  <2> QED
    BY <2>1, <2>2, <2>3
<1>2. CASE session' = session + 1
  <2>1. d.sess # session'
    BY <1>2 DEF CopyOK, Delivery, TypeOK, Sessions
  <2> QED
    BY <1>1, <2>1 DEF AskedFor
<1>3. CASE session' = session /\ io.pc = "down"
  BY <1>1, <1>3 DEF CopyOK, AskedFor
<1>4. CASE session' = session /\ UNCHANGED sent
  BY <1>1, <1>4 DEF AskedFor, UpTo
<1>5. ASSUME NEW s \in Subs, NEW mid \in Mids, BrokerDelivers(s, mid),
             d.sess = session'
      PROVE  UpTo(d.sub, d.mid)' = UpTo(d.sub, d.mid)
  <2>1. session' = session
    BY <1>5 DEF BrokerDelivers
  <2>2. d.mid \in Range(sent[d.sub])
    BY <1>5, <2>1 DEF CopyOK
  <2> QED
    BY <1>1, <1>5, <2>2, UpToStays
<1>6. ASSUME NEW s \in Subs, NEW mid \in Mids, BrokerDelivers(s, mid)
      PROVE  AskedFor(d)'
  <2>1. session' = session
    BY <1>6 DEF BrokerDelivers
  <2> QED
    BY <1>1, <1>5, <1>6, <2>1 DEF AskedFor
<1> QED
  BY <1>2, <1>3, <1>4, <1>6, Clock

\* The mode that a call has read remains right until the handle ends.
LEMMA ModeStays ==
    ASSUME TypeOK, [Next]_vars, NEW s \in Known, NEW managed,
           ModeOK(s, managed)
    PROVE  ModeOK(s, managed)'
BY RegistryStays DEF ModeOK

\* A call remains one that may be made of its delivery.
LEMMA CallStays ==
    ASSUME TypeOK, [Next]_vars, NEW d \in Delivery, NEW id, NEW managed,
           CallOK(d, id, managed)
    PROVE  CallOK(d, id, managed)'
<1>1. d.sub \in Known
  BY DEF CallOK, CopyOK
<1> QED
  BY <1>1, CopyStays, AskedStays, ModeStays DEF CallOK

\* An ACK remains one of a call.
LEMMA ItemStays ==
    ASSUME TypeOK, [Next]_vars, NEW item \in AckItem, ItemOK(item)
    PROVE  ItemOK(item)'
<1>1. item.about \in Delivery
  BY DEF AckItem
<1>2. CallOK(item.about, item.id, item.managed)'
  BY <1>1, CallStays DEF ItemOK
<1>3. ASSUME InClientMode(item.managed)
      PROVE  CopyOK(NamedBy(item))'
  <2>1. NamedBy(item) \in Delivery
    <3>1. item.id.sess \in Sessions /\ item.id.mid \in Mids /\ item.sub \in Subs
      BY DEF AckItem, Name
    <3> QED
      BY <3>1 DEF NamedBy, Delivery
  <2>2. CopyOK(NamedBy(item))
    BY <1>3 DEF ItemOK
  <2> DEFINE d == NamedBy(item)
  <2>3. d \in Delivery /\ CopyOK(d)
    BY <2>1, <2>2
  <2> HIDE DEF d
  <2>4. CopyOK(d)'
    BY <2>3, CopyStays
  <2> QED
    BY <2>4 DEF d
<1> QED
  BY <1>2, <1>3 DEF ItemOK

\* The elements of the sets of deliveries, before a step and after it.
LEMMA InTracked ==
    \A d : d \in Tracked <=> \E s \in Subs : d \in Range(pending[s])
<1> DEFINE R(s) == Range(pending[s])
<1> HIDE DEF R
<1>1. \A d : d \in UNION {R(s) : s \in Subs} <=> \E s \in Subs : d \in R(s)
  OBVIOUS
<1> QED
  BY <1>1 DEF R, Tracked

LEMMA InTrackedNext ==
    \A d : d \in Tracked' <=> \E s \in Subs : d \in Range(pending'[s])
<1> DEFINE R(s) == Range(pending'[s])
<1> HIDE DEF R
<1>1. \A d : d \in UNION {R(s) : s \in Subs} <=> \E s \in Subs : d \in R(s)
  OBVIOUS
<1> QED
  BY <1>1 DEF R, Tracked

LEMMA InDue ==
    \A d : d \in Due <=> \/ \E s \in Subs : d \in Range(pending[s])
                        \/ d \in Pushing
                        \/ d \in Range(inflight)
BY InTracked DEF Due

LEMMA InDueNext ==
    \A d : d \in Due' <=> \/ \E s \in Subs : d \in Range(pending'[s])
                         \/ d \in Pushing'
                         \/ d \in Range(inflight')
BY InTrackedNext DEF Due

\* Everything that is followed has its type.
LEMMA FollowedTypes ==
    ASSUME TypeOK
    PROVE  /\ Copies \subseteq Delivery
           /\ AllAcks \subseteq AckItem
           /\ \A c \in Asking : c.about \in Delivery
<1>1. \A s \in Subs : Range(pending[s]) \subseteq Delivery
  <2>1. \A s \in Subs : pending[s] \in Seq(Delivery)
    BY DEF TypeOK
  <2> QED
    BY <2>1, RangeOfSeq
<1>2. Range(inflight) \subseteq Delivery /\ held \subseteq Delivery
  BY RangeOfSeq DEF TypeOK
<1>3. InTask \subseteq Delivery /\ Pushing \subseteq Delivery
  BY TaskHolds DEF InTask, Pushing
<1>4. AllAcks \subseteq AckItem
  <2>1. \A item \in ToSet(outbound) : item.kind = "ACK" => item \in AckItem
    <3>1. Range(outbound) \subseteq Item
      BY RangeOfSeq DEF TypeOK
    <3> QED
      BY <3>1, ToSetIsRange DEF Item
  <2>2. \A a \in Ackers : acker[a].pc = "send" => acker[a].item \in AckItem
    BY DEF TypeOK, Calls
  <2>3. lapsed \subseteq AckItem /\ \A w \in written : w.ack \in AckItem
    BY DEF TypeOK
  <2> QED
    BY <2>1, <2>2, <2>3 DEF AllAcks, OnItsWay
<1>5. \A c \in Asking : c.about \in Delivery
  BY SettlingCall DEF Asking
<1>6. \A d \in Due : d \in Delivery
  BY <1>1, <1>2, <1>3, InDue
<1> QED
  BY <1>2, <1>3, <1>4, <1>5, <1>6 DEF Copies

\* Nothing joins a queue of deliveries but the MESSAGE the task tracks.
LEMMA PendingGrows ==
    ASSUME TypeOK, [Next]_vars, NEW s \in Subs
    PROVE  \A d \in Range(pending'[s]) :
               d \in Range(pending[s]) \/ (d \in Pushing /\ d.sub = s)
<1>0. pending \in [Subs -> Seq(Delivery)] /\ pending[s] \in Seq(Delivery)
  BY DEF TypeOK
<1>1. Range(<<>>) = {}
  BY EmptyQueue
<1>2. CASE pending'[s] \in {pending[s], <<>>}
  BY <1>1, <1>2
<1>3. CASE PushPending
  <2>1. io.msg \in Delivery /\ Pushing = {io.msg}
    BY <1>3, TaskHolds DEF PushPending, Pushing
  <2>2. pending'[s] = IF s = io.msg.sub THEN Append(pending[s], io.msg)
                      ELSE pending[s]
    BY <1>0, <1>3 DEF PushPending
  <2>3. Range(Append(pending[s], io.msg)) = Range(pending[s]) \cup {io.msg}
    BY <1>0, <2>1, RangeOfAppend
  <2> QED
    BY <2>1, <2>2, <2>3
<1>4. ASSUME NEW a \in Ackers, AckSettle(a)
      PROVE  Range(pending'[s]) \subseteq Range(pending[s])
  <2> DEFINE t == acker[a].about.sub
  <2>1. PICK pos \in DOMAIN pending[t] :
           pending' = [pending EXCEPT ![t] =
                          Remaining(pending[t], pos, acker[a].managed)]
    BY <1>4 DEF AckSettle
  <2>2. CASE s # t
    BY <1>0, <2>1, <2>2
  <2>3. CASE s = t
    <3>1. pending'[s] = Remaining(pending[s], pos, acker[a].managed)
          /\ pos \in DOMAIN pending[s]
      BY <1>0, <2>1, <2>3
    <3> QED
      BY <1>0, <3>1, RemainingRange
  <2> QED
    BY <2>2, <2>3
<1>5. ASSUME NEW t \in Subs, Owner(t)
      PROVE  pending'[s] \in {pending[s], <<>>}
  BY <1>0, <1>5
     DEF Owner, SubscribeEnter, SubscribeSend, UnsubscribeRemove,
         UnsubscribeForget, UnsubscribeSend, DropRemove, DropForget, DropSend,
         OwnerGivesUp
<1>6. ASSUME NEW a \in Ackers, Acknowledge(a), ~AckSettle(a)
      PROVE  pending'[s] \in {pending[s], <<>>}
  BY <1>0, <1>6 DEF Acknowledge, AckCall, AckMiss, AckSend, AckGivenUp
<1>7. CASE Background /\ ~PushPending
  BY <1>0, <1>2, <1>7
     DEF Background, SkipStaleAck, WriteOutbound, WriteFails, ForgetFor,
         ReadMessage, Sweep, Deliver, FailOverflowed, Abandon, ReapClosed,
         ReapForget, LoseConnection, ForgetSession, Reconnect
<1> QED
  BY <1>2, <1>3, <1>4, <1>5, <1>6, <1>7 DEF Next, BrokerDelivers, vars

\* Every copy there is comes from the broker.
NewCopy(d) ==
    \E s \in Subs, mid \in Mids :
        BrokerDelivers(s, mid) /\ d = [sub |-> s, mid |-> mid, sess |-> session]

\* A message moves from the connection to the task, and from there to the
\* application; only the broker puts new ones in.
LEMMA InflightGrows ==
    ASSUME TypeOK, [Next]_vars
    PROVE  /\ \A d \in Range(inflight') : d \in Range(inflight) \/ NewCopy(d)
           /\ Pushing' \subseteq Pushing \cup Range(inflight)
           /\ InTask' \subseteq InTask \cup Range(inflight)
           /\ held' \subseteq held \cup InTask
<1>0. inflight \in Seq(Delivery)
  BY DEF TypeOK
<1>1. CASE UNCHANGED <<inflight, io, held>>
  BY <1>1 DEF Pushing, InTask
<1>2. ASSUME NEW s \in Subs, NEW mid \in Mids, BrokerDelivers(s, mid)
      PROVE  /\ \A d \in Range(inflight') : d \in Range(inflight) \/ NewCopy(d)
             /\ UNCHANGED <<io, held>>
  <2> DEFINE e == [sub |-> s, mid |-> mid, sess |-> session]
  <2>1. e \in Delivery /\ inflight' = Append(inflight, e)
        /\ UNCHANGED <<io, held>>
    BY <1>2 DEF BrokerDelivers, Delivery, TypeOK, appVars
  <2>2. NewCopy(e)
    BY <1>2 DEF NewCopy
  <2> HIDE DEF e
  <2>3. Range(Append(inflight, e)) = Range(inflight) \cup {e}
    BY <1>0, <2>1, RangeOfAppend
  <2> QED
    BY <2>1, <2>2, <2>3
<1>3. CASE ReadMessage
  <2>1. /\ inflight # <<>> /\ inflight' = Tail(inflight) /\ UNCHANGED held
        /\ io' = Select \/ (io'.pc \in {"push", "deliver"}
                            /\ io'.msg = Head(inflight))
    BY <1>3 DEF ReadMessage, appVars
  <2>2. Range(inflight) = {Head(inflight)} \cup Range(Tail(inflight))
    BY <1>0, <2>1, RangeOfTail
  <2>3. /\ Pushing' \subseteq {Head(inflight)}
        /\ InTask' \subseteq {Head(inflight)}
    BY <2>1 DEF Pushing, InTask, Select
  <2> QED
    BY <2>1, <2>2, <2>3
<1>4. CASE Reconnect
  <2>1. Range(<<>>) = {}
    BY EmptyQueue
  <2> QED
    BY <1>4, <2>1 DEF Reconnect, Pushing, InTask, Select, appVars
<1>5. CASE /\ UNCHANGED inflight
           /\ io'.pc \in {"push", "deliver", "sweep", "fail"} =>
                  /\ io.pc \in {"push", "deliver", "sweep", "fail"}
                  /\ io'.msg = io.msg /\ io'.pc # "push"
           /\ UNCHANGED held
              \/ (io.pc = "deliver" /\ held' \subseteq held \cup {io.msg})
  BY <1>5 DEF Pushing, InTask
<1>6. CASE Background /\ ~ReadMessage /\ ~Reconnect
  <2>1. ASSUME NEW verdict, Deliver(verdict)
        PROVE  /\ UNCHANGED inflight
               /\ io.pc = "deliver" /\ io'.pc = "sweep" /\ io'.msg = io.msg
               /\ held' \subseteq held \cup {io.msg}
    <3>1. held' \in {held, held \cup {io.msg}}
      BY <2>1 DEF Deliver
    <3>2. /\ UNCHANGED inflight
          /\ io.pc = "deliver" /\ io'.pc = "sweep" /\ io'.msg = io.msg
      BY <2>1 DEF Deliver, brokerVars
    <3> QED
      BY <3>1, <3>2
  <2>2. (\A verdict : ~Deliver(verdict)) =>
           /\ UNCHANGED <<inflight, held>>
           /\ io'.pc \in {"push", "deliver", "sweep", "fail"} =>
                  /\ io.pc \in {"push", "deliver", "sweep", "fail"}
                  /\ io'.msg = io.msg
                  /\ io' = io \/ io'.pc # "push"
    BY <1>6
       DEF Background, SkipStaleAck, WriteOutbound, WriteFails,
           PushPending, Sweep, FailOverflowed, Abandon, ReapClosed,
           ReapForget, LoseConnection, ForgetSession, brokerVars, appVars,
           Select
  <2>3. CASE \E verdict : Deliver(verdict)
    BY <1>5, <2>1, <2>3
  <2>4. CASE \A verdict : ~Deliver(verdict)
    BY <2>2, <2>4 DEF Pushing, InTask
  <2> QED
    BY <2>3, <2>4
<1>7. ASSUME NEW t \in Subs, Owner(t)
      PROVE  UNCHANGED <<inflight, io, held>>
  BY <1>7 DEF Owner, SubscribeEnter, SubscribeSend, UnsubscribeRemove,
         UnsubscribeForget, UnsubscribeSend, DropRemove, DropForget, DropSend,
         OwnerGivesUp, brokerVars
<1>8. ASSUME NEW a \in Ackers, Acknowledge(a)
      PROVE  UNCHANGED <<inflight, io, held>>
  BY <1>8 DEF Acknowledge, AckCall, AckSettle, AckMiss, AckSend, AckGivenUp,
              brokerVars
<1>9. CASE \E s \in Subs, mid \in Mids : BrokerDelivers(s, mid)
  BY <1>2, <1>9 DEF Pushing, InTask
<1> QED
  BY <1>1, <1>3, <1>4, <1>6, <1>7, <1>8, <1>9 DEF Next, vars, appVars,
     brokerVars

\* What is due was due, or is new.
LEMMA DueGrows ==
    ASSUME TypeOK, [Next]_vars, NEW d \in Due'
    PROVE  d \in Due \/ NewCopy(d)
<1>1. \/ \E s \in Subs : d \in Range(pending'[s])
      \/ d \in Pushing'
      \/ d \in Range(inflight')
  BY InDueNext
<1>2. ASSUME NEW s \in Subs, d \in Range(pending'[s])
      PROVE  d \in Due
  BY <1>2, PendingGrows, InDue
<1>3. d \in Pushing' => d \in Due
  BY InflightGrows, InDue
<1>4. d \in Range(inflight') => d \in Due \/ NewCopy(d)
  BY InflightGrows, InDue
<1> QED
  BY <1>1, <1>2, <1>3, <1>4

\* A copy was there, or is new.
LEMMA CopiesGrow ==
    ASSUME TypeOK, [Next]_vars, NEW d \in Copies'
    PROVE  d \in Copies \/ NewCopy(d)
<1>1. d \in held' \/ d \in Due' \/ d \in InTask'
  BY DEF Copies
<1>2. /\ \A e \in Due : e \in Copies
      /\ \A e \in held : e \in Copies
      /\ \A e \in InTask : e \in Copies
      /\ \A e \in Range(inflight) : e \in Due
  BY InDue DEF Copies
<1>3. d \in held' \/ d \in InTask' => d \in Copies
  BY <1>2, InflightGrows
<1>4. d \in Due' => d \in Due \/ NewCopy(d)
  BY DueGrows
<1> QED
  BY <1>1, <1>2, <1>3, <1>4

\* Every call comes from AckCall, and every ACK from a call.
LEMMA AskingGrows ==
    ASSUME TypeOK, [Next]_vars, NEW c \in Asking'
    PROVE  \/ c \in Asking
           \/ \E a \in Ackers : \E d \in held, by \in Naming :
                  AckCall(a, d, by) /\ c = acker'[a]
<1>1. PICK b \in Ackers : acker'[b].pc = "settle" /\ c = acker'[b]
  BY DEF Asking
<1>2. CASE acker'[b] = acker[b]
  BY <1>1, <1>2 DEF Asking
<1>3. CASE acker'[b] # acker[b]
  <2>1. PICK a \in Ackers : Acknowledge(a)
    BY <1>3 DEF Next, Owner, SubscribeEnter, SubscribeSend, UnsubscribeRemove,
         UnsubscribeForget, UnsubscribeSend, DropRemove, DropForget, DropSend,
         OwnerGivesUp, Background, SkipStaleAck, WriteOutbound, WriteFails,
         ReadMessage, PushPending, Sweep, Deliver, FailOverflowed, Abandon,
         ReapClosed, ReapForget, LoseConnection, ForgetSession, Reconnect,
         BrokerDelivers, vars, appVars
  <2>2. b = a
    BY <1>3, <2>1 DEF Acknowledge, AckCall, AckSettle, AckMiss, AckSend,
                      AckGivenUp, TypeOK
  <2>3. ~AckSettle(a) /\ ~AckMiss(a) /\ ~AckSend(a) /\ ~AckGivenUp(a)
    BY <1>1, <2>2 DEF AckSettle, AckMiss, AckSend, AckGivenUp, TypeOK, Idle
  <2> QED
    BY <1>1, <2>1, <2>2, <2>3 DEF Acknowledge
<1> QED
  BY <1>2, <1>3

NewAck(item) ==
    \E a \in Ackers : /\ AckSettle(a) \/ AckMiss(a)
                      /\ acker'[a].pc = "send" /\ item = acker'[a].item

\* An ACK in the hands of a call was there, or the call has just made it.
LEMMA SendingGrows ==
    ASSUME TypeOK, [Next]_vars, NEW b \in Ackers, acker'[b].pc = "send"
    PROVE  \/ acker'[b] = acker[b]
           \/ (AckSettle(b) \/ AckMiss(b)) /\ NewAck(acker'[b].item)
<1>1. CASE acker'[b] # acker[b]
  <2>1. PICK a \in Ackers : Acknowledge(a)
    BY <1>1 DEF Next, Owner, SubscribeEnter, SubscribeSend, UnsubscribeRemove,
         UnsubscribeForget, UnsubscribeSend, DropRemove, DropForget, DropSend,
         OwnerGivesUp, Background, SkipStaleAck, WriteOutbound, WriteFails,
         ReadMessage, PushPending, Sweep, Deliver, FailOverflowed, Abandon,
         ReapClosed, ReapForget, LoseConnection, ForgetSession, Reconnect,
         BrokerDelivers, vars, appVars
  <2>2. b = a
    BY <1>1, <2>1 DEF Acknowledge, AckCall, AckSettle, AckMiss, AckSend,
                      AckGivenUp, TypeOK
  <2>3. ~AckSend(a) /\ ~AckGivenUp(a)
        /\ \A d \in held, by \in Naming : ~AckCall(a, d, by)
    BY <2>2 DEF AckSend, AckGivenUp, AckCall, TypeOK, Idle
  <2> QED
    BY <2>1, <2>2, <2>3 DEF Acknowledge, NewAck
<1> QED
  BY <1>1

\* What is in the channel was there, or a task or an owner put it there.
LEMMA ChannelGrows ==
    ASSUME TypeOK, [Next]_vars, NEW item \in ToSet(outbound')
    PROVE  \/ item \in ToSet(outbound)
           \/ \E t \in Subs : t \in Known' /\ item.sub = t /\ item.kind # "ACK"
           \/ \E a \in Ackers : acker[a].pc = "send" /\ item = acker[a].item
<1>1. CASE UNCHANGED outbound
  BY <1>1
<1>2. ASSUME NEW t \in Subs, Owner(t), outbound' # outbound
      PROVE  item \in ToSet(outbound)
             \/ (t \in Known' /\ item.sub = t /\ item.kind # "ACK")
  <2>1. t \in Known'
    BY <1>2 DEF Owner, SubscribeEnter, SubscribeSend, UnsubscribeRemove,
         UnsubscribeForget, UnsubscribeSend, DropRemove, DropForget, DropSend,
         OwnerGivesUp, Known, TypeOK
  <2>2. item \in ToSet(outbound)
        \/ item \in {Frame("SUBSCRIBE", t), Frame("UNSUBSCRIBE", t)}
    BY <1>2, OwnerAppends
  <2> QED
    BY <2>1, <2>2 DEF Frame
<1>3. ASSUME NEW a \in Ackers, AckSend(a)
      PROVE  item \in ToSet(outbound)
             \/ (acker[a].pc = "send" /\ item = acker[a].item)
  <2>1. acker[a].item \in Item /\ outbound' = Append(outbound, acker[a].item)
        /\ acker[a].pc = "send"
    BY <1>3 DEF AckSend, TypeOK, Calls, Item
  <2> QED
    BY <2>1, ChannelAppend
<1>4. CASE outbound # <<>> /\ outbound' = Tail(outbound)
  BY <1>4, ChannelTail
<1> QED
  BY <1>1, <1>2, <1>3, <1>4
     DEF Next, Acknowledge, AckCall, AckSettle, AckMiss, AckGivenUp,
         Background, SkipStaleAck, WriteOutbound, WriteFails, ReadMessage,
         PushPending, Sweep, Deliver, FailOverflowed, Abandon, ReapClosed,
         ReapForget, LoseConnection, ForgetSession, Reconnect, BrokerDelivers,
         vars

\* What was written stays in the record.
LEMMA WrittenStays ==
    ASSUME [Next]_vars
    PROVE  written \subseteq written'
<1>1. CASE WriteOutbound
  BY <1>1 DEF WriteOutbound, BrokerTakes
<1>2. UNCHANGED written \/ WriteOutbound
  BY DEF Next, Owner, SubscribeEnter, SubscribeSend, UnsubscribeRemove,
         UnsubscribeForget, UnsubscribeSend, DropRemove, DropForget, DropSend,
         OwnerGivesUp, Acknowledge, AckCall, AckSettle, AckMiss, AckSend,
         AckGivenUp, Background, SkipStaleAck, WriteFails, ReadMessage,
         PushPending, Sweep, Deliver, FailOverflowed, Abandon, ReapClosed,
         ReapForget, LoseConnection, ForgetSession, Reconnect, BrokerDelivers,
         vars, brokerVars
<1> QED
  BY <1>1, <1>2

\* An ACK is written from the head of the channel only.
LEMMA WrittenGrows ==
    ASSUME TypeOK, [Next]_vars, NEW w \in written'
    PROVE  \/ w \in written
           \/ /\ WriteOutbound /\ outbound # <<>>
              /\ Head(outbound).kind = "ACK"
              /\ Head(outbound) \in ToSet(outbound)
              /\ w = [ack |-> Head(outbound), on |-> session,
                      hit |-> Named(Head(outbound)) # {}]
<1>1. CASE UNCHANGED written
  BY <1>1
<1>2. CASE WriteOutbound
  <2>1. outbound # <<>> /\ Head(outbound) \in ToSet(outbound)
    <3>1. outbound # <<>> /\ outbound \in Seq(Item)
      BY <1>2 DEF WriteOutbound, TypeOK
    <3> QED
      BY <3>1, RangeOfTail, ToSetIsRange
  <2> QED
    BY <1>2, <2>1 DEF WriteOutbound, BrokerTakes
<1> QED
  BY <1>1, <1>2
     DEF Next, Owner, SubscribeEnter, SubscribeSend, UnsubscribeRemove,
         UnsubscribeForget, UnsubscribeSend, DropRemove, DropForget, DropSend,
         OwnerGivesUp, Acknowledge, AckCall, AckSettle, AckMiss, AckSend,
         AckGivenUp,
         Background, SkipStaleAck, WriteFails, ReadMessage,
         PushPending, Sweep, Deliver, FailOverflowed, Abandon, ReapClosed,
         ReapForget, LoseConnection, ForgetSession, Reconnect, BrokerDelivers,
         vars, brokerVars

\* An ACK lapses from the hands of a call only.
LEMMA LapsedGrows ==
    ASSUME TypeOK, [Next]_vars, NEW item \in lapsed'
    PROVE  \/ item \in lapsed
           \/ \E a \in Ackers : acker[a].pc = "send" /\ item = acker[a].item
BY DEF Next, Owner, SubscribeEnter, SubscribeSend, UnsubscribeRemove,
         UnsubscribeForget, UnsubscribeSend, DropRemove, DropForget, DropSend,
         OwnerGivesUp, Acknowledge, AckCall, AckSettle, AckMiss, AckSend,
         AckGivenUp,
         Background, SkipStaleAck, WriteOutbound, WriteFails, ReadMessage,
         PushPending, Sweep, Deliver, FailOverflowed, Abandon, ReapClosed,
         ReapForget, LoseConnection, ForgetSession, Reconnect, BrokerDelivers,
         vars, brokerVars

\* An ACK was there, or a call has just made it.
LEMMA AcksGrow ==
    ASSUME TypeOK, [Next]_vars, NEW item \in AllAcks'
    PROVE  item \in AllAcks \/ NewAck(item)
<1>1. \/ \E b \in Ackers : acker'[b].pc = "send" /\ item = acker'[b].item
      \/ item \in ToSet(outbound') /\ item.kind = "ACK"
      \/ item \in lapsed'
      \/ \E w \in written' : item = w.ack
  BY DEF AllAcks, OnItsWay
<1>2. ASSUME NEW a \in Ackers, acker[a].pc = "send", item = acker[a].item
      PROVE  item \in AllAcks
  BY <1>2 DEF AllAcks, OnItsWay
<1>3. ASSUME NEW b \in Ackers, acker'[b].pc = "send", item = acker'[b].item
      PROVE  item \in AllAcks \/ NewAck(item)
  BY <1>2, <1>3, SendingGrows
<1>4. ASSUME item \in ToSet(outbound'), item.kind = "ACK"
      PROVE  item \in AllAcks
  <2>1. item \in ToSet(outbound) => item \in AllAcks
    BY <1>4 DEF AllAcks, OnItsWay
  <2> QED
    BY <1>2, <1>4, <2>1, ChannelGrows
<1>5. ASSUME item \in lapsed'
      PROVE  item \in AllAcks
  <2>1. item \in lapsed => item \in AllAcks
    BY DEF AllAcks
  <2> QED
    BY <1>2, <1>5, <2>1, LapsedGrows
<1>6. ASSUME NEW w \in written', item = w.ack
      PROVE  item \in AllAcks
  <2>1. w \in written => item \in AllAcks
    BY <1>6 DEF AllAcks
  <2>2. \A x \in ToSet(outbound) : x.kind = "ACK" => x \in AllAcks
    BY DEF AllAcks, OnItsWay
  <2> QED
    BY <1>6, <2>1, <2>2, WrittenGrows
<1> QED
  BY <1>1, <1>3, <1>4, <1>5, <1>6

\* A queue of `pending` holds deliveries of its own subscription only.
LEMMA StepOwnQueues ==
    ASSUME TypeOK, OwnQueues, [Next]_vars
    PROVE  OwnQueues'
BY PendingGrows DEF OwnQueues

\* An ACK still to be written is one of all there are.
LEMMA InChannel ==
    /\ \A x \in ToSet(outbound) : x.kind = "ACK" => x \in AllAcks
    /\ \A a \in Ackers : acker[a].pc = "send" => acker[a].item \in AllAcks
    /\ \A x \in lapsed : x \in AllAcks
    /\ \A w \in written : w.ack \in AllAcks
    /\ \A a \in Ackers : acker[a].pc = "settle" => acker[a] \in Asking
BY DEF AllAcks, OnItsWay, Asking

\* Where the copies of a message may be.
LEMMA InCopies ==
    /\ \A d \in held : d \in Copies
    /\ \A d \in InTask : d \in Copies
    /\ \A d \in Due : d \in Copies
    /\ \A s \in Subs : \A d \in Range(pending[s]) : d \in Copies
BY InDue DEF Copies

\* Whatever is of a subscription is of one that entered.
LEMMA StepKnownOnly ==
    ASSUME ItemsInv, [Next]_vars
    PROVE  KnownOnly'
<1> USE DEF ItemsInv, TypeInv
<1>0. Known \subseteq Known' /\ registry' \subseteq Known'
  BY KnownStays, RegistryStays DEF KnownOnly
<1>1. \A d \in InTask : d.sub \in Known
  BY InCopies DEF CopyOK
<1>2. bsubs' \subseteq Known'
  <2>1. CASE WriteOutbound
    <3> DEFINE item == Head(outbound)
    <3>1. bsubs' \subseteq bsubs \cup {item.sub} /\ outbound # <<>>
      BY <2>1 DEF WriteOutbound, BrokerTakes
    <3>2. item \in ToSet(outbound)
      <4>1. outbound \in Seq(Item)
        BY DEF TypeOK
      <4> QED
        BY <3>1, <4>1, RangeOfTail, ToSetIsRange
    <3> QED
      BY <1>0, <3>1, <3>2 DEF KnownOnly
  <2>2. bsubs' \subseteq bsubs \/ bsubs' = registry \/ WriteOutbound
    BY DEF Next, Owner, SubscribeEnter, SubscribeSend, UnsubscribeRemove,
         UnsubscribeForget, UnsubscribeSend, DropRemove, DropForget, DropSend,
         OwnerGivesUp, Acknowledge, AckCall, AckSettle, AckMiss, AckSend,
         AckGivenUp, Background, SkipStaleAck, WriteFails, ReadMessage,
         PushPending, Sweep, Deliver, FailOverflowed, Abandon, ReapClosed,
         ReapForget, LoseConnection, ForgetSession, Reconnect, BrokerDelivers,
         vars, brokerVars
  <2> QED
    BY <1>0, <2>1, <2>2 DEF KnownOnly
<1>3. overflowed' \subseteq Known'
  <2>1. ASSUME NEW ok \in BOOLEAN, FailOverflowed(ok)
        PROVE  overflowed' \subseteq Known'
    <3>1. io.msg.sub \in Known /\ overflowed' = overflowed \cup {io.msg.sub}
      BY <1>1, <2>1 DEF FailOverflowed, InTask
    <3> QED
      BY <1>0, <3>1 DEF KnownOnly
  <2>2. UNCHANGED overflowed \/ \E ok \in BOOLEAN : FailOverflowed(ok)
    BY DEF Next, Owner, SubscribeEnter, SubscribeSend, UnsubscribeRemove,
         UnsubscribeForget, UnsubscribeSend, DropRemove, DropForget, DropSend,
         OwnerGivesUp, Acknowledge, AckCall, AckSettle, AckMiss, AckSend,
         AckGivenUp, Background, SkipStaleAck, WriteOutbound, WriteFails,
         ReadMessage, PushPending, Sweep, Deliver, Abandon, ReapClosed,
         ReapForget, LoseConnection, ForgetSession, Reconnect, BrokerDelivers,
         vars
  <2> QED
    BY <1>0, <2>1, <2>2 DEF KnownOnly
<1>4. ASSUME NEW s \in Subs, sent'[s] # <<>>
      PROVE  s \in Known'
  <2>1. ASSUME NEW t \in Subs, NEW mid \in Mids, BrokerDelivers(t, mid)
        PROVE  sent'[s] = sent[s] \/ s \in bsubs
    BY <2>1, SentGrows DEF BrokerDelivers
  <2>2. \/ UNCHANGED sent \/ sent' = [t \in Subs |-> <<>>]
        \/ \E t \in Subs, mid \in Mids : BrokerDelivers(t, mid)
    BY DEF Next, Owner, SubscribeEnter, SubscribeSend, UnsubscribeRemove,
         UnsubscribeForget, UnsubscribeSend, DropRemove, DropForget, DropSend,
         OwnerGivesUp, Acknowledge, AckCall, AckSettle, AckMiss, AckSend,
         AckGivenUp, Background, SkipStaleAck, WriteOutbound, WriteFails,
         ReadMessage, PushPending, Sweep, Deliver, FailOverflowed, Abandon,
         ReapClosed, ReapForget, LoseConnection, ForgetSession, Reconnect,
         vars, brokerVars
  <2> QED
    BY <1>0, <1>4, <2>1, <2>2 DEF KnownOnly
<1>5. ASSUME io'.pc = "sweep" PROVE io'.live \subseteq Known'
  <2>1. ASSUME NEW verdict, Deliver(verdict)
        PROVE  io'.live = registry'
    BY <2>1 DEF Deliver
  <2>2. CASE Background /\ \A verdict : ~Deliver(verdict)
    BY <1>5, <2>2
     DEF Background, SkipStaleAck, WriteOutbound, WriteFails,
         ReadMessage, PushPending, Sweep, FailOverflowed, Abandon,
         ReapClosed, ReapForget, LoseConnection, ForgetSession, Reconnect,
         Select
  <2>3. CASE UNCHANGED io
    BY <1>0, <1>5, <2>3 DEF KnownOnly
  <2>4. UNCHANGED io \/ Background
    BY DEF Next, Owner, SubscribeEnter, SubscribeSend, UnsubscribeRemove,
         UnsubscribeForget, UnsubscribeSend, DropRemove, DropForget, DropSend,
         OwnerGivesUp, Acknowledge, AckCall, AckSettle, AckMiss, AckSend,
         AckGivenUp, BrokerDelivers, vars
  <2> QED
    BY <1>0, <2>1, <2>2, <2>3, <2>4
<1>6. ASSUME NEW item \in ToSet(outbound')
      PROVE  item.sub \in Known'
  <2>1. ASSUME NEW a \in Ackers, acker[a].pc = "send", item = acker[a].item
        PROVE  item.sub \in Known
    <3>1. ItemOK(item)
      BY <2>1, InChannel
    <3> QED
      BY <3>1 DEF ItemOK, CallOK, CopyOK
  <2> QED
    BY <1>0, <2>1, ChannelGrows DEF KnownOnly
<1> QED
  BY <1>0, <1>2, <1>3, <1>4, <1>5, <1>6 DEF KnownOnly

\* A MESSAGE the broker writes is of this connection and its session.
LEMMA StepCopies ==
    ASSUME ItemsInv, [Next]_vars, NEW d \in Copies'
    PROVE  CopyOK(d)'
<1> USE DEF ItemsInv, TypeInv
<1>1. ASSUME d \in Copies
      PROVE  CopyOK(d)'
  <2>1. d \in Delivery
    BY <1>1, FollowedTypes
  <2> QED
    BY <1>1, <2>1, CopyStays
<1>2. ASSUME NEW s \in Subs, NEW mid \in Mids, BrokerDelivers(s, mid),
             d = [sub |-> s, mid |-> mid, sess |-> session]
      PROVE  CopyOK(d)'
  <2>1. s \in Known /\ session' = session /\ session \in Int
        /\ UNCHANGED <<io, handle>> /\ io.pc # "down"
    BY <1>2 DEF BrokerDelivers, KnownOnly, appVars, TypeOK, Sessions
  <2>2. mid \in Range(sent'[s])
    BY <1>2, SentGrows
  <2> QED
    BY <1>2, <2>1, <2>2 DEF CopyOK, Known
<1> QED
  BY <1>1, <1>2, CopiesGrow DEF NewCopy

\* A call asks for the delivery in the caller's hand, and for all that an
\* acknowledgement of it covers.
LEMMA StepAsking ==
    ASSUME ItemsInv, [Next]_vars, NEW c \in Asking'
    PROVE  CallOK(c.about, c.id, c.managed)'
<1> USE DEF ItemsInv, TypeInv
<1>1. ASSUME c \in Asking
      PROVE  CallOK(c.about, c.id, c.managed)'
  <2>1. c.about \in Delivery
    BY <1>1, FollowedTypes
  <2> DEFINE d == c.about
             id == c.id
             managed == c.managed
  <2>2. CallOK(d, id, managed) /\ d \in Delivery
    BY <1>1, <2>1
  <2> HIDE DEF d, id, managed
  <2>3. CallOK(d, id, managed)'
    <3>1. d = c.about
      BY DEF d
    <3> QED
      BY <2>2, CallStays
  <2> QED
    BY <2>3 DEF d, id, managed
<1>2. ASSUME NEW a \in Ackers, NEW d \in held, NEW by \in Naming,
             AckCall(a, d, by), c = acker'[a]
      PROVE  CallOK(c.about, c.id, c.managed)'
  <2>1. d \in Delivery /\ d.sub \in Subs /\ CopyOK(d)
    BY InCopies DEF TypeOK, Delivery
  <2>2. CopyOK(d)'
    BY <2>1, CopyStays
  <2>3. c = [pc |-> "settle", about |-> d, id |-> NameOf(d, by),
             managed |-> IF d.sub \in registry THEN Mode[d.sub]
                         ELSE Unmanaged]
    BY <1>2 DEF AckCall, TypeOK
  <2>4. UNCHANGED <<session, sent, registry>>
    BY <1>2 DEF AckCall, brokerVars
  <2>5. AskedFor(d)'
    <3>1. Covers(d) \subseteq asked'[d.sub]
      BY <1>2, <2>1 DEF AckCall, TypeOK
    <3>2. d.mid \in Covers(d)
          /\ (Mode[d.sub] = "client" /\ d.sess = session =>
                 UpTo(d.sub, d.mid) \subseteq Covers(d))
      BY DEF Covers
    <3>3. UpTo(d.sub, d.mid)' = UpTo(d.sub, d.mid)
      BY <2>4 DEF UpTo
    <3> QED
      BY <2>4, <3>1, <3>2, <3>3 DEF AskedFor
  <2>6. ModeOK(c.about.sub, c.managed)'
    BY <2>1, <2>3, <2>4, ConstantsAssumption
       DEF ModeOK, Unmanaged, AckModes
  <2> QED
    BY <2>2, <2>3, <2>5, <2>6 DEF CallOK, NameOf
<1> QED
  BY <1>1, <1>2, AskingGrows

\* The frame is made of the call, and names the delivery it took.
LEMMA NewAckOK ==
    ASSUME ItemsInv, NEW a \in Ackers, AckSettle(a) \/ AckMiss(a),
           acker'[a].pc = "send"
    PROVE  ItemOK(acker'[a].item) /\ acker'[a].item \in AckItem
<1> USE DEF ItemsInv, TypeInv
<1> DEFINE call == acker[a]
           s == call.about.sub
           q == pending[s]
<1>1. call.pc = "settle" /\ CallOK(call.about, call.id, call.managed)
  BY InChannel DEF AckSettle, AckMiss
<1>2. call.about \in Delivery /\ s \in Subs /\ call.id \in Name
      /\ call.managed \in ManagedModes
  BY <1>1, SettlingCall
<1>3. CASE AckSettle(a)
  <2>1. PICK pos \in DOMAIN q :
           /\ FirstMatch(q, call.id, pos)
           /\ acker' = [acker EXCEPT ![a] =
                 [pc |-> "send",
                  item |-> AckOf(call, NameOf(q[pos], "ack"), q[pos].sess)]]
    BY <1>3 DEF AckSettle
  <2> DEFINE item == AckOf(call, NameOf(q[pos], "ack"), q[pos].sess)
             e == q[pos]
  <2>2. acker'[a].item = item
    BY <2>1 DEF TypeOK
  <2>3. e \in Range(q) /\ e \in Delivery
    <3>1. q \in Seq(Delivery)
      BY <1>2 DEF TypeOK
    <3> QED
      BY <3>1, RangeOfSeq, InRange
  <2>4. CopyOK(e) /\ e.sub = s /\ e.mid = call.id.mid
    BY <1>2, <2>1, <2>3, InCopies DEF OwnQueues, FirstMatch, Matches
  <2>5. NamedBy(item) = e
    BY <2>3, <2>4 DEF NamedBy, AckOf, NameOf, Delivery
  <2>6. item \in AckItem
    BY <1>2, <2>3, NameOfType, AckItemType DEF Delivery
  <2>7. CallOK(item.about, item.id, item.managed)
    BY <1>1, <2>4 DEF CallOK, AckOf, NameOf
  <2>8. /\ item.sub = item.about.sub
        /\ item.id.by = "ack" /\ item.id.sess = item.issued
    BY DEF AckOf, NameOf
  <2>9. CopyOK(NamedBy(item))
    BY <2>4, <2>5
  <2> HIDE DEF item
  <2>10. ItemOK(item)
    BY <2>7, <2>8, <2>9 DEF ItemOK
  <2> QED
    BY <2>2, <2>6, <2>10
<1>4. CASE AckMiss(a)
  <2> DEFINE item == AckOf(call, call.id, NoSession)
  <2>1. call.managed \notin {"client", "individual"} /\ acker'[a].item = item
    BY <1>4 DEF AckMiss, TypeOK, Idle
  <2>2. item \in AckItem
    BY <1>2, AckItemType
  <2>3. ItemOK(item)
    BY <1>1, <2>1 DEF ItemOK, AckOf, InClientMode
  <2> QED
    BY <2>1, <2>2, <2>3
<1> QED
  BY <1>3, <1>4

\* Each ACK remains one that the application asked for.
LEMMA StepAcks ==
    ASSUME ItemsInv, [Next]_vars, NEW item \in AllAcks'
    PROVE  ItemOK(item)'
<1> USE DEF ItemsInv, TypeInv
<1>1. item \in AckItem /\ ItemOK(item)
  <2>1. CASE item \in AllAcks
    BY <2>1, FollowedTypes
  <2>2. CASE NewAck(item)
    BY <2>2, NewAckOK DEF NewAck
  <2> QED
    BY <2>1, <2>2, AcksGrow
<1> QED
  BY <1>1, ItemStays

\* What was written was written on a session that has begun.
LEMMA StepWrittenInTime ==
    ASSUME TypeOK, WrittenInTime, [Next]_vars
    PROVE  WrittenInTime'
<1> SUFFICES ASSUME NEW w \in written'
             PROVE  w.on <= session' /\ (w.on = session' => io'.pc # "down")
  BY DEF WrittenInTime
<1>1. session \in Int
  BY DEF TypeOK, Sessions
<1>2. CASE WriteOutbound
  <2>1. io = Select /\ UNCHANGED <<io, session>>
    BY <1>2 DEF WriteOutbound
  <2> QED
    BY <1>1, <2>1, WrittenGrows DEF WrittenInTime, Select
<1>3. CASE ~WriteOutbound
  <2>1. w \in written /\ w.on \in Int
    BY <1>3, WrittenGrows DEF TypeOK, Sessions
  <2> QED
    BY <1>1, <2>1, Clock DEF WrittenInTime
<1> QED
  BY <1>2, <1>3

\* ItemsInv is inductive.
LEMMA StepItems == ItemsInv /\ [Next]_vars => ItemsInv'
<1> SUFFICES ASSUME ItemsInv, [Next]_vars
             PROVE  ItemsInv'
  OBVIOUS
<1>1. TypeInv'
  BY StepTypeInv DEF ItemsInv
<1>2. OwnQueues' /\ WrittenInTime'
  BY StepOwnQueues, StepWrittenInTime DEF ItemsInv, TypeInv
<1> QED
  BY <1>1, <1>2, StepKnownOnly, StepCopies, StepAsking, StepAcks DEF ItemsInv

LEMMA InitItems == Init => ItemsInv
<1> SUFFICES ASSUME Init PROVE ItemsInv
  OBVIOUS
<1>1. TypeInv
  BY InitTypeInv
<1>2. /\ ToSet(outbound) = {}
      /\ \A s \in Subs : Range(pending[s]) = {}
      /\ Range(inflight) = {}
  BY EmptyQueue, ToSetIsRange DEF Init
<1>3. \A d : d \notin Copies
  <2>1. InTask = {} /\ Pushing = {} /\ held = {}
    BY DEF Init, InTask, Pushing, Select
  <2>2. \A d : d \notin Due
    BY <1>2, <2>1, InDue
  <2> QED
    BY <2>1, <2>2 DEF Copies
<1>4. \A x : x \notin AllAcks /\ x \notin Asking
  BY <1>2 DEF Init, AllAcks, OnItsWay, Asking, Idle
<1>5. OwnQueues
  BY <1>2 DEF OwnQueues
<1>6. KnownOnly /\ WrittenInTime
  BY <1>2 DEF Init, KnownOnly, WrittenInTime, Select
<1> QED
  BY <1>1, <1>3, <1>4, <1>5, <1>6 DEF ItemsInv

\* What a frame settles was asked for when the call was made.
LEMMA StepAsked ==
    ItemsInv /\ SettledOnlyIfAsked /\ [Next]_vars => SettledOnlyIfAsked'
<1> SUFFICES ASSUME ItemsInv, SettledOnlyIfAsked, [Next]_vars,
                    NEW s \in Subs, InClientMode(Mode[s]),
                    \A w \in written' : w.ack.sub = s => w.ack.about.sess = w.on,
                    NEW m \in settled'[s]
             PROVE  m \in asked'[s]
  BY DEF SettledOnlyIfAsked
<1> USE DEF ItemsInv, TypeInv
<1>1. asked[s] \subseteq asked'[s]
  <2>1. ASSUME NEW a \in Ackers, NEW d \in held, NEW by \in Naming,
               AckCall(a, d, by)
        PROVE  asked[s] \subseteq asked'[s]
    BY <2>1 DEF AckCall, TypeOK
  <2>2. UNCHANGED asked
        \/ \E a \in Ackers : \E d \in held, by \in Naming : AckCall(a, d, by)
    BY DEF Next, Owner, SubscribeEnter, SubscribeSend, UnsubscribeRemove,
           UnsubscribeForget, UnsubscribeSend, DropRemove, DropForget,
           DropSend, OwnerGivesUp,
           Acknowledge, AckSettle, AckMiss, AckSend, AckGivenUp,
           Background, SkipStaleAck, WriteOutbound, WriteFails, ReadMessage,
           PushPending, Sweep, Deliver, FailOverflowed, Abandon, ReapClosed,
           ReapForget, LoseConnection, ForgetSession, Reconnect,
           BrokerDelivers, vars, appVars
  <2> QED
    BY <2>1, <2>2
<1>2. CASE WriteOutbound
  <2> DEFINE item == Head(outbound)
  <2>1. outbound # <<>> /\ BrokerTakes(item)
    BY <1>2 DEF WriteOutbound
  <2>2. item \in ToSet(outbound) /\ item.sub \in Subs
    <3>1. outbound \in Seq(Item)
      BY DEF TypeOK
    <3> QED
      BY <2>1, <3>1, RangeOfTail, ToSetIsRange, HeadOfOutbound
  <2>3. written \subseteq written'
    BY <2>1 DEF BrokerTakes
  <2>4. settled[s] \subseteq asked[s]
    BY <2>3 DEF SettledOnlyIfAsked
  <2>5. CASE item.kind = "ACK" /\ item.sub = s
    <3>1. ItemOK(item)
      BY <2>2, <2>5, InChannel
    <3>2. settled'[s] = settled[s] \cup Settles(item)
      BY <2>1, <2>5 DEF BrokerTakes, TypeOK
    <3>3. item.about.sess = session
      <4>1. [ack |-> item, on |-> session, hit |-> Named(item) # {}]
              \in written'
        BY <2>1, <2>5 DEF BrokerTakes
      <4> QED
        BY <2>5, <4>1
    <3>4. item.id.mid \in asked[s]
          /\ (Mode[s] = "client" => UpTo(s, item.id.mid) \subseteq asked[s])
      BY <2>5, <3>1, <3>3 DEF ItemOK, CallOK, AskedFor
    <3>5. Named(item) \subseteq {item.id.mid}
      BY DEF Named, Matches
    <3>6. Settles(item) \subseteq asked[s]
      BY <2>5, <3>4, <3>5 DEF Settles
    <3> QED
      BY <1>1, <2>4, <3>2, <3>6
  <2>6. CASE ~(item.kind = "ACK" /\ item.sub = s)
    <3>1. settled'[s] = settled[s]
      BY <2>1, <2>2, <2>6 DEF BrokerTakes, TypeOK
    <3> QED
      BY <1>1, <2>4, <3>1
  <2> QED
    BY <2>5, <2>6
<1>3. CASE UNCHANGED <<settled, written>>
  BY <1>1, <1>3 DEF SettledOnlyIfAsked
<1> QED
  BY <1>2, <1>3
     DEF Next, Owner, SubscribeEnter, SubscribeSend, UnsubscribeRemove,
         UnsubscribeForget, UnsubscribeSend, DropRemove, DropForget, DropSend,
         OwnerGivesUp, Acknowledge, AckCall, AckSettle, AckMiss, AckSend,
         AckGivenUp, Background, SkipStaleAck, WriteFails, ReadMessage,
         PushPending, Sweep, Deliver, FailOverflowed, Abandon, ReapClosed,
         ReapForget, LoseConnection, ForgetSession, Reconnect, BrokerDelivers,
         vars, brokerVars

\* The broker settles only what the application asked to acknowledge, through
\* whichever tasks, header and order the asking went.
THEOREM AskedBeforeSettled == Spec => []SettledOnlyIfAsked
<1>1. Init => SettledOnlyIfAsked
  BY DEF Init, SettledOnlyIfAsked
<1> QED
  BY <1>1, InitItems, StepItems, StepAsked, PTL DEF Spec

----------------------------------------------------------------------------
(***************************************************************************)
(* No delivery is forgotten.  OrderInv says where the deliveries of the    *)
(* current connection stand: all that is due is of this session, and       *)
(* reaches the queue of its subscription in the order the broker sent it,  *)
(* so that a cumulative acknowledgement takes from the queue what the      *)
(* broker will settle; and what empties a queue meets only subscriptions   *)
(* that have ended, or that the broker has not sent anything yet.          *)
(***************************************************************************)
ThisSession == io.pc # "down" => \A d \in Due : d.sess = session
DownIsEmpty == io.pc = "down" => \A d : d \notin Tracked

SentOnce == \A s \in Subs : IsInjective(sent[s])

\* The broker sent x, and then y.
Before(s, x, y) ==
    \E i, j \in DOMAIN sent[s] : i < j /\ sent[s][i] = x /\ sent[s][j] = y
Older(d, e) == d.sub = e.sub => Before(d.sub, d.mid, e.mid)
InOrder(q) == \A i, j \in DOMAIN q : i < j => Older(q[i], q[j])
Precede(P, Q) == \A d \in P, e \in Q : Older(d, e)

Ordered ==
    io.pc # "down" =>
        /\ \A s \in Subs : InOrder(pending[s])
        /\ InOrder(inflight)
        /\ Precede(Tracked, Pushing) /\ Precede(Tracked, Range(inflight))
        /\ Precede(Pushing, Range(inflight))

\* A cumulative mode settles a front of what was sent.
FrontSettled ==
    \A s \in Subs : Mode[s] = "client" =>
        \A m \in settled[s] : UpTo(s, m) \subseteq settled[s]

\* An UNSUBSCRIBE in the channel is of a handle that is closed.
SaidByClosed ==
    \A item \in ToSet(outbound) :
        item.kind = "UNSUBSCRIBE" => handle[item.sub] = "closed"

OverflowedLeft ==
    /\ overflowed \cap registry = {}
    /\ io.pc = "fail" \/ (io.pc = "sweep" /\ io.failed) =>
           io.msg.sub \notin registry

ReapsTheGone == io.pc = "reap" => Gone(io.sub)

\* Whoever the sweep does not know entered after the pass, and has not been
\* sent anything.
NewcomersBare ==
    io.pc = "sweep" =>
        \A s \in registry \ io.live : s \notin bsubs /\ sent[s] = <<>>

OrderInv ==
    /\ ItemsInv
    /\ ThisSession /\ DownIsEmpty /\ SentOnce /\ Ordered /\ FrontSettled
    /\ SaidByClosed /\ OverflowedLeft /\ ReapsTheGone /\ NewcomersBare

\* What the broker has sent changes in two ways.
LEMMA SentSteps ==
    ASSUME [Next]_vars
    PROVE  \/ UNCHANGED sent
           \/ Reconnect
           \/ \E s \in Subs, mid \in Mids : BrokerDelivers(s, mid)
BY DEF Next, Owner, SubscribeEnter, SubscribeSend, UnsubscribeRemove,
       UnsubscribeForget, UnsubscribeSend, DropRemove, DropForget, DropSend,
       OwnerGivesUp, Acknowledge, AckCall, AckSettle, AckMiss, AckSend,
       AckGivenUp, Background, SkipStaleAck, WriteOutbound, WriteFails,
       ReadMessage, PushPending, Sweep, Deliver, FailOverflowed, Abandon,
       ReapClosed, ReapForget, LoseConnection, ForgetSession, vars,
       brokerVars

\* A handle that is gone stays gone; one that is open was new, or open.
LEMMA HandleSteps ==
    ASSUME TypeOK, [Next]_vars, NEW s \in Subs
    PROVE  /\ Gone(s) => Gone(s)'
           /\ handle[s] = "closed" => handle'[s] = "closed"
           /\ handle'[s] \in {"entered", "open"} =>
                  \/ handle[s] \in {"entered", "open"}
                  \/ handle[s] = "new" /\ SubscribeEnter(s)
<1>1. UNCHANGED handle \/ \E t \in Subs : Owner(t)
  BY DEF Next, Acknowledge, AckCall, AckSettle, AckMiss, AckSend, AckGivenUp,
         Background, SkipStaleAck, WriteOutbound, WriteFails, ReadMessage,
         PushPending, Sweep, Deliver, FailOverflowed, Abandon, ReapClosed,
         ReapForget, LoseConnection, ForgetSession, Reconnect, BrokerDelivers,
         vars, appVars
<1>2. ASSUME NEW t \in Subs, Owner(t)
      PROVE  /\ handle[s] \in {"closed", "leaked", "ended"} =>
                    handle'[s] = handle[s]
             /\ handle'[s] \in {"entered", "open"} =>
                    \/ handle[s] \in {"entered", "open"}
                    \/ handle[s] = "new" /\ SubscribeEnter(s)
  BY <1>2 DEF Owner, SubscribeEnter, SubscribeSend, UnsubscribeRemove,
         UnsubscribeForget, UnsubscribeSend, DropRemove, DropForget, DropSend,
         OwnerGivesUp, TypeOK
<1> QED
  BY <1>1, <1>2 DEF Gone

\* What is due is of this session, and nothing is while the connection is down:
\* a session that ends empties the queues.
LEMMA StepThisSession ==
    ASSUME ItemsInv, ThisSession, DownIsEmpty, [Next]_vars
    PROVE  ThisSession' /\ DownIsEmpty'
<1> USE DEF ItemsInv, TypeInv
<1>1. CASE Reconnect
  <2>1. io.pc = "down" /\ io' = Select /\ inflight' = <<>> /\ UNCHANGED pending
    BY <1>1 DEF Reconnect
  <2>2. Range(inflight') = {} /\ Pushing' = {}
    BY <2>1, EmptyQueue DEF Pushing, Select
  <2>3. \A d : d \notin Due'
    BY <2>1, <2>2, InDueNext, InTracked DEF DownIsEmpty
  <2> QED
    BY <2>1, <2>3 DEF ThisSession, DownIsEmpty, Select
<1>2. CASE ForgetSession
  <2>1. io'.pc = "down" /\ \A s \in Subs : pending'[s] = <<>>
    BY <1>2 DEF ForgetSession
  <2>2. \A s \in Subs : Range(pending'[s]) = {}
    BY <2>1, EmptyQueue
  <2> QED
    BY <2>1, <2>2, InTrackedNext DEF ThisSession, DownIsEmpty
<1>3. CASE ~Reconnect /\ ~ForgetSession
  <2>1. session' = session
    BY <1>3, Clock
  <2>2. io'.pc = "down" <=> io.pc = "down"
    <3>1. CASE io.pc = "down"
      <4>1. ~Background
        BY <1>3, <3>1
     DEF Background, SkipStaleAck, WriteOutbound, WriteFails, ReadMessage,
         PushPending, Sweep, Deliver, FailOverflowed, Abandon, ReapClosed,
         ReapForget, LoseConnection, Select
      <4> QED
        BY <4>1, <3>1
     DEF Next, Owner, SubscribeEnter, SubscribeSend, UnsubscribeRemove,
         UnsubscribeForget, UnsubscribeSend, DropRemove, DropForget, DropSend,
         OwnerGivesUp, Acknowledge, AckCall, AckSettle, AckMiss, AckSend,
         AckGivenUp, BrokerDelivers, vars
    <3> QED
      BY <1>3, <3>1, Clock
  <2>3. ASSUME io'.pc # "down", NEW d \in Due'
        PROVE  d.sess = session'
    BY <2>1, <2>2, <2>3, DueGrows DEF ThisSession, NewCopy
  <2>4. ASSUME io'.pc = "down", NEW d \in Tracked'
        PROVE  FALSE
    <3>1. PICK s \in Subs : d \in Range(pending'[s])
      BY InTrackedNext
    <3>2. Pushing = {} /\ d \notin Range(pending[s])
      BY <2>2, <2>4, InTracked DEF Pushing, DownIsEmpty
    <3> QED
      BY <3>1, <3>2, PendingGrows
  <2> QED
    BY <2>3, <2>4 DEF ThisSession, DownIsEmpty
<1> QED
  BY <1>1, <1>2, <1>3

\* The broker sends a message once on a connection.
LEMMA StepSentOnce ==
    ASSUME TypeOK, SentOnce, [Next]_vars
    PROVE  SentOnce'
<1>1. CASE UNCHANGED sent
  BY <1>1 DEF SentOnce
<1>2. CASE Reconnect
  BY <1>2, EmptyQueue DEF Reconnect, SentOnce
<1>3. ASSUME NEW t \in Subs, NEW mid \in Mids, BrokerDelivers(t, mid),
             NEW s \in Subs
      PROVE  IsInjective(sent'[s])
  <2>1. CASE s # t
    BY <1>3, <2>1, SentGrows DEF SentOnce
  <2>2. CASE s = t
    <3>1. /\ sent'[s] = Append(sent[s], mid) /\ sent[s] \in Seq(Mids)
          /\ mid \notin Range(sent[s])
      BY <1>3, <2>2, SentGrows
    <3>2. IsInjective(sent[s])
      BY DEF SentOnce
    <3> QED
      BY <3>1, <3>2, InjectiveAppend
  <2> QED
    BY <2>1, <2>2
<1> QED
  BY <1>1, <1>2, <1>3, SentSteps DEF SentOnce

\* The order of what was sent stays, and what is sent next is the newest.
LEMMA OlderStays ==
    ASSUME TypeOK, [Next]_vars, ~Reconnect, NEW d, NEW e, d.sub \in Subs,
           Older(d, e)
    PROVE  Older(d, e)'
<1>1. CASE UNCHANGED sent
  BY <1>1 DEF Older, Before
<1>2. ASSUME NEW t \in Subs, NEW mid \in Mids, BrokerDelivers(t, mid)
      PROVE  Older(d, e)'
  <2> DEFINE f == sent[d.sub]
             g == sent'[d.sub]
  <2>1. CASE d.sub # t
    <3>1. sent'[d.sub] = sent[d.sub]
      BY <1>2, <2>1, SentGrows
    <3> QED
      BY <3>1 DEF Older, Before
  <2>2. CASE d.sub = t
    <3>1. g = Append(f, mid) /\ f \in Seq(Mids)
      BY <1>2, <2>2, SentGrows
    <3>2. /\ Len(f) \in Nat /\ DOMAIN f = 1..Len(f)
          /\ DOMAIN g = 1..(Len(f) + 1)
          /\ \A i \in 1..Len(f) : g[i] = f[i]
      BY <3>1, AppendShape
    <3>3. \A i \in DOMAIN f : i \in DOMAIN g /\ g[i] = f[i]
      BY <3>2
    <3> QED
      BY <3>3 DEF Older, Before
  <2> QED
    BY <2>1, <2>2
<1> QED
  BY <1>1, <1>2, SentSteps

\* What the broker sends is behind all that it has sent.
LEMMA NewestIsLast ==
    ASSUME TypeOK, NEW s \in Subs, NEW mid \in Mids, BrokerDelivers(s, mid),
           NEW d \in Delivery, d.mid \in Range(sent[d.sub]),
           NEW e, e.sub = s, e.mid = mid
    PROVE  Older(d, e)'
<1> SUFFICES ASSUME d.sub = s
             PROVE  Before(s, d.mid, mid)'
  BY DEF Older
<1> DEFINE f == sent[s]
           g == sent'[s]
<1>1. g = Append(f, mid) /\ f \in Seq(Mids)
  BY SentGrows
<1>2. /\ Len(f) \in Nat /\ DOMAIN f = 1..Len(f)
      /\ DOMAIN g = 1..(Len(f) + 1)
      /\ \A i \in 1..Len(f) : g[i] = f[i]
      /\ g[Len(f) + 1] = mid
  BY <1>1, AppendShape
<1>3. PICK i \in DOMAIN f : f[i] = d.mid
  BY InRange
<1>4. i \in DOMAIN g /\ Len(f) + 1 \in DOMAIN g /\ i < Len(f) + 1
      /\ g[i] = d.mid
  BY <1>2, <1>3
<1> QED
  BY <1>2, <1>4 DEF Before

\* Queues in order, as they grow and shrink.
LEMMA OrderAppend ==
    ASSUME NEW q \in Seq(Delivery), NEW e \in Delivery, InOrder(q),
           \A d \in Range(q) : Older(d, e)
    PROVE  InOrder(Append(q, e))
<1> DEFINE t == Append(q, e)
<1>1. /\ Len(q) \in Nat /\ DOMAIN q = 1..Len(q)
      /\ DOMAIN t = 1..(Len(q) + 1)
      /\ \A i \in 1..Len(q) : t[i] = q[i]
      /\ t[Len(q) + 1] = e
  BY AppendShape
<1> HIDE DEF t
<1>2. ASSUME NEW i \in DOMAIN t, NEW j \in DOMAIN t, i < j
      PROVE  Older(t[i], t[j])
  <2>1. i \in DOMAIN q /\ t[i] = q[i]
    BY <1>1, <1>2
  <2>2. CASE j \in DOMAIN q
    BY <1>1, <1>2, <2>1, <2>2 DEF InOrder
  <2>3. CASE j \notin DOMAIN q
    <3>1. t[j] = e
      BY <1>1, <2>3
    <3>2. q[i] \in Range(q)
      BY <2>1, InRange
    <3> QED
      BY <2>1, <3>1, <3>2
  <2> QED
    BY <2>2, <2>3
<1>3. InOrder(t)
  BY <1>2 DEF InOrder
<1> QED
  BY <1>3 DEF t

\* Taking from the front, or out of a queue by an acknowledgement, keeps the
\* order.
LEMMA OrderTail ==
    ASSUME NEW q \in Seq(Delivery), q # <<>>, InOrder(q)
    PROVE  /\ InOrder(Tail(q))
           /\ \A e \in Range(Tail(q)) : Older(Head(q), e)
<1> DEFINE t == Tail(q)
<1>1. /\ Len(q) \in Nat \ {0} /\ DOMAIN q = 1..Len(q)
      /\ DOMAIN t = 1..(Len(q) - 1) /\ Head(q) = q[1]
      /\ \A i \in 1..(Len(q) - 1) : t[i] = q[i + 1]
  BY TailShape
<1> HIDE DEF t
<1>2. ASSUME NEW i \in DOMAIN t, NEW j \in DOMAIN t, i < j
      PROVE  Older(t[i], t[j])
  <2>1. i + 1 \in DOMAIN q /\ j + 1 \in DOMAIN q /\ i + 1 < j + 1
        /\ t[i] = q[i + 1] /\ t[j] = q[j + 1]
    BY <1>1, <1>2
  <2> QED
    BY <2>1 DEF InOrder
<1>3. ASSUME NEW e \in Range(t)
      PROVE  Older(Head(q), e)
  <2>1. PICK i \in DOMAIN t : t[i] = e
    BY InRange
  <2>2. 1 \in DOMAIN q /\ i + 1 \in DOMAIN q /\ 1 < i + 1
        /\ Head(q) = q[1] /\ e = q[i + 1]
    BY <1>1, <2>1
  <2> QED
    BY <2>2 DEF InOrder
<1>4. InOrder(t)
  BY <1>2 DEF InOrder
<1> QED
  BY <1>3, <1>4 DEF t

\* What an acknowledgement leaves of a queue is still in order.
LEMMA OrderRemaining ==
    ASSUME NEW q \in Seq(Delivery), NEW pos \in DOMAIN q, NEW mode, InOrder(q)
    PROVE  InOrder(Remaining(q, pos, mode))
<1> DEFINE r == Remaining(q, pos, mode)
<1>1. /\ \A k \in DOMAIN r : /\ Was(k, pos, mode) \in DOMAIN q
                             /\ r[k] = q[Was(k, pos, mode)]
      /\ \A k, l \in DOMAIN r :
             k < l => Was(k, pos, mode) < Was(l, pos, mode)
  BY RemainingPart
<1> HIDE DEF r
<1>2. InOrder(r)
  BY <1>1 DEF InOrder
<1> QED
  BY <1>2 DEF r

\* While the connection is down the task only reconnects.
LEMMA DownWaits ==
    ASSUME [Next]_vars, io.pc = "down", ~Reconnect
    PROVE  UNCHANGED io
<1>1. ~Background \/ ForgetSession
  BY DEF Background, SkipStaleAck, WriteOutbound, WriteFails, ReadMessage,
         PushPending, Sweep, Deliver, FailOverflowed, Abandon, ReapClosed,
         ReapForget, LoseConnection, Select
<1>2. ~ForgetSession
  BY DEF ForgetSession
<1> QED
  BY <1>1, <1>2
     DEF Next, Owner, SubscribeEnter, SubscribeSend, UnsubscribeRemove,
         UnsubscribeForget, UnsubscribeSend, DropRemove, DropForget, DropSend,
         OwnerGivesUp, Acknowledge, AckCall, AckSettle, AckMiss, AckSend,
         AckGivenUp, BrokerDelivers, vars

\* What a step can do to a queue of deliveries, and to what is read.
LEMMA QueueSteps ==
    ASSUME TypeOK, [Next]_vars
    PROVE  \/ \A s \in Subs : pending'[s] \in {pending[s], <<>>}
           \/ PushPending
           \/ \E a \in Ackers : AckSettle(a)
<1>0. pending \in [Subs -> Seq(Delivery)]
  BY DEF TypeOK
<1>1. ASSUME NEW t \in Subs, Owner(t), NEW s \in Subs
      PROVE  pending'[s] \in {pending[s], <<>>}
  BY <1>0, <1>1
     DEF Owner, SubscribeEnter, SubscribeSend, UnsubscribeRemove,
         UnsubscribeForget, UnsubscribeSend, DropRemove, DropForget, DropSend,
         OwnerGivesUp
<1>2. ASSUME NEW a \in Ackers, Acknowledge(a), ~AckSettle(a), NEW s \in Subs
      PROVE  pending'[s] \in {pending[s], <<>>}
  BY <1>0, <1>2 DEF Acknowledge, AckCall, AckMiss, AckSend, AckGivenUp
<1>3. ASSUME Background, ~PushPending, NEW s \in Subs
      PROVE  pending'[s] \in {pending[s], <<>>}
  BY <1>0, <1>3
     DEF Background, SkipStaleAck, WriteOutbound, WriteFails, ForgetFor,
         ReadMessage, Sweep, Deliver, FailOverflowed, Abandon, ReapClosed,
         ReapForget, LoseConnection, ForgetSession, Reconnect
<1> QED
  BY <1>1, <1>2, <1>3 DEF Next, BrokerDelivers, vars

\* How the connection's queue and the task's hand change.
LEMMA ReadSteps ==
    ASSUME TypeOK, [Next]_vars
    PROVE  \/ UNCHANGED inflight /\ Pushing' \subseteq Pushing
           \/ ReadMessage
           \/ Reconnect
           \/ \E s \in Subs, mid \in Mids : BrokerDelivers(s, mid)
<1>1. CASE UNCHANGED <<inflight, io>>
  BY <1>1 DEF Pushing
<1>2. ASSUME NEW verdict, Deliver(verdict)
      PROVE  UNCHANGED inflight /\ Pushing' \subseteq Pushing
  BY <1>2 DEF Deliver, brokerVars, Pushing
<1>3. CASE Sweep
  BY <1>3 DEF Sweep, brokerVars, Pushing, Select
<1>4. CASE Background /\ (\A verdict : ~Deliver(verdict)) /\ ~Sweep
  BY <1>4 DEF Background, SkipStaleAck, WriteOutbound, WriteFails,
         PushPending, FailOverflowed, Abandon, ReapClosed,
         ReapForget, LoseConnection, ForgetSession, brokerVars, Pushing, Select
<1> QED
  BY <1>1, <1>2, <1>3, <1>4
     DEF Next, Owner, SubscribeEnter, SubscribeSend, UnsubscribeRemove,
         UnsubscribeForget, UnsubscribeSend, DropRemove, DropForget, DropSend,
         OwnerGivesUp, Acknowledge, AckCall, AckSettle, AckMiss, AckSend,
         AckGivenUp, vars, brokerVars

\* A queue after a step: as before, or emptied, or what the caller left of it,
\* or with the MESSAGE behind it that the task tracks.
LEMMA PendingOrder ==
    ASSUME TypeOK, [Next]_vars, Ordered, io.pc # "down", NEW s \in Subs
    PROVE  InOrder(pending'[s])
<1>0. pending \in [Subs -> Seq(Delivery)] /\ pending[s] \in Seq(Delivery)
      /\ InOrder(pending[s])
  BY DEF TypeOK, Ordered
<1>1. CASE pending'[s] \in {pending[s], <<>>}
  BY <1>0, <1>1 DEF InOrder
<1>2. CASE PushPending
  <2>1. /\ io.msg \in Delivery /\ Pushing = {io.msg}
        /\ pending'[s] = IF s = io.msg.sub THEN Append(pending[s], io.msg)
                         ELSE pending[s]
    BY <1>0, <1>2, TaskHolds DEF PushPending, Pushing
  <2>2. \A d \in Range(pending[s]) : Older(d, io.msg)
    BY <2>1, InTracked DEF Ordered, Precede
  <2>3. InOrder(Append(pending[s], io.msg))
    BY <1>0, <2>1, <2>2, OrderAppend
  <2> QED
    BY <1>0, <2>1, <2>3
<1>3. ASSUME NEW a \in Ackers, AckSettle(a)
      PROVE  InOrder(pending'[s])
  <2> DEFINE t == acker[a].about.sub
  <2>1. PICK pos \in DOMAIN pending[t] :
           pending' = [pending EXCEPT ![t] =
                          Remaining(pending[t], pos, acker[a].managed)]
    BY <1>3 DEF AckSettle
  <2>2. CASE s # t
    BY <1>0, <2>1, <2>2
  <2>3. CASE s = t
    <3>1. pending'[s] = Remaining(pending[s], pos, acker[a].managed)
          /\ pos \in DOMAIN pending[s]
      BY <1>0, <2>1, <2>3
    <3> QED
      BY <1>0, <3>1, OrderRemaining
  <2> QED
    BY <2>2, <2>3
<1> QED
  BY <1>1, <1>2, <1>3, QueueSteps

\* Nothing becomes tracked but what the task was pushing.
LEMMA TrackedGrows ==
    ASSUME TypeOK, [Next]_vars, NEW d \in Tracked'
    PROVE  d \in Tracked \/ (d \in Pushing /\ PushPending)
<1>1. PICK s \in Subs : d \in Range(pending'[s])
  BY InTrackedNext
<1>2. CASE PushPending
  BY <1>1, <1>2, PendingGrows, InTracked
<1>3. ASSUME NEW a \in Ackers, AckSettle(a)
      PROVE  d \in Range(pending[s])
  <2>1. pending \in [Subs -> Seq(Delivery)] /\ pending[s] \in Seq(Delivery)
    BY DEF TypeOK
  <2> DEFINE t == acker[a].about.sub
  <2>2. PICK pos \in DOMAIN pending[t] :
           pending' = [pending EXCEPT ![t] =
                          Remaining(pending[t], pos, acker[a].managed)]
    BY <1>3 DEF AckSettle
  <2>3. CASE s # t
    BY <1>1, <2>1, <2>2, <2>3
  <2>4. CASE s = t
    <3>1. pending'[s] = Remaining(pending[s], pos, acker[a].managed)
          /\ pos \in DOMAIN pending[s]
      BY <2>1, <2>2, <2>4
    <3> QED
      BY <1>1, <2>1, <3>1, RemainingRange
  <2> QED
    BY <2>3, <2>4
<1>4. CASE \A t \in Subs : pending'[t] \in {pending[t], <<>>}
  <2>1. Range(<<>>) = {}
    BY EmptyQueue
  <2> QED
    BY <1>1, <1>4, <2>1, InTracked
<1> QED
  BY <1>1, <1>2, <1>3, <1>4, QueueSteps, InTracked

\* The order of the three places, as long as the broker sends nothing.
LEMMA PlacesOrder ==
    ASSUME TypeOK, [Next]_vars, Ordered, io.pc # "down", UNCHANGED sent,
           ~Reconnect
    PROVE  /\ InOrder(inflight')
           /\ Precede(Tracked', Pushing')
           /\ Precede(Tracked', Range(inflight'))
           /\ Precede(Pushing', Range(inflight'))
<1>0. /\ InOrder(inflight) /\ inflight \in Seq(Delivery)
      /\ Precede(Tracked, Pushing) /\ Precede(Tracked, Range(inflight))
      /\ Precede(Pushing, Range(inflight))
  BY DEF Ordered, TypeOK
<1>1. CASE PushPending
  <2>1. Pushing' = {} /\ UNCHANGED inflight
    BY <1>1 DEF PushPending, Pushing
  <2>2. \A d \in Tracked' : d \in Tracked \/ d \in Pushing
    BY TrackedGrows
  <2> QED
    BY <1>0, <2>1, <2>2 DEF Precede
<1>2. CASE ReadMessage
  <2>1. Pushing = {} /\ inflight # <<>> /\ inflight' = Tail(inflight)
        /\ Pushing' \subseteq {Head(inflight)}
    BY <1>2 DEF ReadMessage, Pushing, Select
  <2>2. \A d \in Tracked' : d \in Tracked
    BY <2>1, TrackedGrows
  <2>3. Range(inflight) = {Head(inflight)} \cup Range(inflight')
    BY <1>0, <2>1, RangeOfTail
  <2>4. InOrder(inflight') /\ \A e \in Range(inflight') :
                                  Older(Head(inflight), e)
    BY <1>0, <2>1, OrderTail
  <2> QED
    BY <1>0, <2>1, <2>2, <2>3, <2>4 DEF Precede
<1>3. CASE UNCHANGED inflight /\ Pushing' \subseteq Pushing /\ ~PushPending
  <2>1. \A d \in Tracked' : d \in Tracked
    BY <1>3, TrackedGrows
  <2> QED
    BY <1>0, <1>3, <2>1 DEF Precede
<1>4. ASSUME NEW s \in Subs, NEW mid \in Mids, BrokerDelivers(s, mid)
      PROVE  FALSE
  <2>1. mid \notin Range(sent[s]) /\ mid \in Range(sent'[s])
    BY <1>4, SentGrows
  <2> QED
    BY <2>1
<1> QED
  BY <1>1, <1>2, <1>3, <1>4, ReadSteps

\* The deliveries that are due stay in the order the broker sent them, wherever
\* they stand.
LEMMA StepOrdered ==
    ASSUME ItemsInv, ThisSession, DownIsEmpty, Ordered, [Next]_vars
    PROVE  Ordered'
<1> USE DEF ItemsInv, TypeInv
<1>1. CASE Reconnect
  <2>1. io.pc = "down" /\ io' = Select /\ inflight' = <<>> /\ UNCHANGED pending
    BY <1>1 DEF Reconnect
  <2>2. Range(inflight') = {} /\ Pushing' = {}
    BY <2>1, EmptyQueue DEF Pushing, Select
  <2>3. \A d : d \notin Tracked'
    BY <2>1, InTracked, InTrackedNext DEF DownIsEmpty
  <2>4. ASSUME NEW s \in Subs PROVE InOrder(pending[s])'
    <3>1. \A i \in DOMAIN pending'[s] : pending'[s][i] \in Range(pending'[s])
      BY InRange
    <3>2. \A i : i \notin DOMAIN pending'[s]
      BY <2>3, <3>1, InTrackedNext
    <3> QED
      BY <3>2 DEF InOrder
  <2>5. InOrder(inflight)'
    BY <2>1 DEF InOrder
  <2> QED
    BY <2>2, <2>3, <2>4, <2>5 DEF Ordered, Precede
<1>2. CASE io.pc = "down" /\ ~Reconnect
  BY <1>2, DownWaits DEF Ordered
<1>3. CASE io.pc # "down" /\ UNCHANGED sent /\ ~Reconnect
  <2>1. \A d, e : Older(d, e) => Older(d, e)'
    BY <1>3 DEF Older, Before
  <2>2. ASSUME NEW s \in Subs PROVE InOrder(pending[s])'
    <3>1. InOrder(pending'[s])
      BY <1>3, PendingOrder
    <3> QED
      BY <2>1, <3>1 DEF InOrder
  <2>3. /\ InOrder(inflight')
        /\ Precede(Tracked', Pushing')
        /\ Precede(Tracked', Range(inflight'))
        /\ Precede(Pushing', Range(inflight'))
    BY <1>3, PlacesOrder
  <2>4. InOrder(inflight)'
    BY <2>1, <2>3 DEF InOrder
  <2>5. /\ Precede(Tracked, Pushing)' /\ Precede(Tracked, Range(inflight))'
        /\ Precede(Pushing, Range(inflight))'
    BY <2>1, <2>3 DEF Precede
  <2> QED
    BY <2>2, <2>4, <2>5 DEF Ordered
<1>4. ASSUME NEW s \in Subs, NEW mid \in Mids, BrokerDelivers(s, mid)
      PROVE  Ordered'
  <2>0. PICK x \in Delivery : x = [sub |-> s, mid |-> mid, sess |-> session]
    BY DEF TypeOK, Delivery
  <2>1. /\ x.sub = s /\ x.mid = mid
        /\ inflight' = Append(inflight, x)
        /\ inflight \in Seq(Delivery)
        /\ UNCHANGED <<io, pending>> /\ io.pc # "down"
    BY <1>4, <2>0 DEF BrokerDelivers, TypeOK
  <2>2. ~Reconnect
    BY <2>1 DEF Reconnect, Select
  <2>3. \A d \in Due : d \in Delivery /\ d.sub \in Subs
    <3>1. \A d \in Due : d \in Delivery
      BY FollowedTypes, InCopies
    <3> QED
      BY <3>1 DEF Delivery
  <2>4. ASSUME NEW d \in Due, NEW e, Older(d, e)
        PROVE  Older(d, e)'
    BY <2>2, <2>3, <2>4, OlderStays
  <2>5. ASSUME NEW d \in Due PROVE Older(d, x)'
    <3>1. d.sess = session
      BY <2>1 DEF ThisSession
    <3>2. d.mid \in Range(sent[d.sub])
      BY <3>1, InCopies DEF CopyOK
    <3> QED
      BY <1>4, <2>1, <2>3, <3>2, NewestIsLast
  <2>6. /\ \A d \in Tracked : d \in Due
        /\ \A d \in Pushing : d \in Due
        /\ \A d \in Range(inflight) : d \in Due
    BY InDue, InTracked
  <2>7. Tracked' = Tracked /\ Pushing' = Pushing
    BY <2>1 DEF Tracked, Pushing
  <2>8. Range(inflight') = Range(inflight) \cup {x}
    BY <2>1, RangeOfAppend
  <2>9. ASSUME NEW t \in Subs PROVE InOrder(pending[t])'
    <3>1. \A i \in DOMAIN pending[t] : pending[t][i] \in Due
      BY InRange, InDue
    <3>2. InOrder(pending[t])
      BY <2>1 DEF Ordered
    <3> QED
      BY <2>1, <2>4, <3>1, <3>2 DEF InOrder
  <2>10. InOrder(inflight)'
    <3>1. /\ Len(inflight) \in Nat /\ DOMAIN inflight = 1..Len(inflight)
          /\ DOMAIN inflight' = 1..(Len(inflight) + 1)
          /\ \A i \in 1..Len(inflight) : inflight'[i] = inflight[i]
          /\ inflight'[Len(inflight) + 1] = x
      BY <2>1, AppendShape
    <3>2. \A i \in DOMAIN inflight : inflight[i] \in Due
      BY InRange, InDue
    <3>3. InOrder(inflight)
      BY <2>1 DEF Ordered
    <3>4. ASSUME NEW i \in DOMAIN inflight', NEW j \in DOMAIN inflight', i < j,
                 NEW y, y = inflight'[i], NEW z, z = inflight'[j]
          PROVE  Older(y, z)'
      <4>1. i \in DOMAIN inflight /\ y = inflight[i] /\ y \in Due
        BY <3>1, <3>2, <3>4
      <4>2. CASE j \in DOMAIN inflight
        <5>1. z = inflight[j] /\ Older(y, z)
          BY <3>1, <3>3, <3>4, <4>1, <4>2 DEF InOrder
        <5> QED
          BY <2>4, <4>1, <5>1
      <4>3. CASE j \notin DOMAIN inflight
        <5>1. z = x
          BY <3>1, <3>4, <4>3
        <5> QED
          BY <2>5, <4>1, <5>1
      <4> QED
        BY <4>2, <4>3
    <3> QED
      BY <3>4 DEF InOrder
  <2>11. /\ Precede(Tracked, Pushing)' /\ Precede(Tracked, Range(inflight))'
         /\ Precede(Pushing, Range(inflight))'
    BY <2>1, <2>4, <2>5, <2>6, <2>7, <2>8 DEF Ordered, Precede
  <2> QED
    BY <2>9, <2>10, <2>11 DEF Ordered
<1> QED
  BY <1>1, <1>2, <1>3, <1>4, SentSteps

\* What precedes a MESSAGE that precedes another precedes that one.
LEMMA UpToNests ==
    ASSUME TypeOK, NEW s \in Subs, IsInjective(sent[s]), NEW k,
           NEW m \in UpTo(s, k)
    PROVE  UpTo(s, m) \subseteq UpTo(s, k)
<1> DEFINE f == sent[s]
<1>1. DOMAIN f \subseteq Nat
  <2>1. f \in Seq(Mids)
    BY DEF TypeOK
  <2> QED
    BY <2>1
<1>2. PICK i, j \in DOMAIN f : i <= j /\ f[i] = m /\ f[j] = k
  BY DEF UpTo
<1>3. ASSUME NEW x \in UpTo(s, m)
      PROVE  x \in UpTo(s, k)
  <2>1. PICK g, h \in DOMAIN f : g <= h /\ f[g] = x /\ f[h] = m
    BY <1>3 DEF UpTo
  <2>2. h = i
    BY <1>2, <2>1 DEF IsInjective
  <2>3. g <= j
    BY <1>1, <1>2, <2>1, <2>2
  <2> QED
    BY <1>2, <2>1, <2>3 DEF UpTo
<1> QED
  BY <1>3

\* What was not sent covers nothing; what was covers itself.
LEMMA UpToUnsent ==
    ASSUME NEW s, NEW m, m \notin Range(sent[s])
    PROVE  UpTo(s, m) = {}
BY InRange DEF UpTo

\* What was sent is among what it covers.
LEMMA UpToSelf ==
    ASSUME TypeOK, NEW s \in Subs, NEW m \in Range(sent[s])
    PROVE  m \in UpTo(s, m)
<1>1. DOMAIN sent[s] \subseteq Nat
  <2>1. sent[s] \in Seq(Mids)
    BY DEF TypeOK
  <2> QED
    BY <2>1
<1>2. PICK i \in DOMAIN sent[s] : sent[s][i] = m
  BY InRange
<1>3. i <= i
  BY <1>1
<1> QED
  BY <1>2, <1>3 DEF UpTo

\* What an ACK settles, or nothing changes.
LEMMA SettledSteps ==
    ASSUME TypeOK, [Next]_vars
    PROVE  \/ UNCHANGED settled
           \/ /\ WriteOutbound /\ outbound # <<>> /\ UNCHANGED sent
              /\ Head(outbound).kind = "ACK" /\ Head(outbound) \in AckItem
              /\ Head(outbound) \in AllAcks
              /\ Head(outbound).sub \in Subs
              /\ \A s \in Subs :
                     settled'[s] = settled[s] \cup
                         (IF s = Head(outbound).sub
                          THEN Settles(Head(outbound)) ELSE {})
<1>1. CASE WriteOutbound
  <2>1. outbound # <<>> /\ UNCHANGED sent /\ BrokerTakes(Head(outbound))
    BY <1>1 DEF WriteOutbound
  <2>2. Head(outbound) \in ToSet(outbound) /\ Head(outbound).sub \in Subs
        /\ (Head(outbound).kind = "ACK" => Head(outbound) \in AckItem)
    <3>1. outbound \in Seq(Item)
      BY DEF TypeOK
    <3> QED
      BY <2>1, <3>1, RangeOfTail, ToSetIsRange, HeadOfOutbound
  <2>3. CASE Head(outbound).kind = "ACK"
    <3>1. Head(outbound) \in AllAcks
      BY <2>2, <2>3, InChannel
    <3>2. \A s \in Subs :
             settled'[s] = settled[s] \cup
                 (IF s = Head(outbound).sub
                  THEN Settles(Head(outbound)) ELSE {})
      BY <2>1, <2>2, <2>3 DEF BrokerTakes, TypeOK
    <3> QED
      BY <1>1, <2>1, <2>2, <2>3, <3>1, <3>2
  <2>4. CASE Head(outbound).kind # "ACK"
    BY <2>1, <2>4 DEF BrokerTakes
  <2> QED
    BY <2>3, <2>4
<1> QED
  BY <1>1
     DEF Next, Owner, SubscribeEnter, SubscribeSend, UnsubscribeRemove,
         UnsubscribeForget, UnsubscribeSend, DropRemove, DropForget, DropSend,
         OwnerGivesUp, Acknowledge, AckCall, AckSettle, AckMiss, AckSend,
         AckGivenUp, Background, SkipStaleAck, WriteFails, ReadMessage,
         PushPending, Sweep, Deliver, FailOverflowed, Abandon, ReapClosed,
         ReapForget, LoseConnection, ForgetSession, Reconnect, BrokerDelivers,
         vars, brokerVars

\* A cumulative ACK settles a front of what was sent, and more sending leaves
\* it a front.
LEMMA StepFrontSettled ==
    ASSUME TypeOK, SentOnce, FrontSettled, [Next]_vars
    PROVE  FrontSettled'
<1> SUFFICES ASSUME NEW s \in Subs, Mode[s] = "client", NEW m \in settled'[s]
             PROVE  UpTo(s, m)' \subseteq settled'[s]
  BY DEF FrontSettled
<1>1. CASE UNCHANGED <<settled, sent>>
  BY <1>1 DEF FrontSettled, UpTo
<1>2. CASE Reconnect
  <2>1. Range(sent'[s]) = {}
    BY <1>2, EmptyQueue DEF Reconnect
  <2>2. DOMAIN sent'[s] = {}
    BY <1>2 DEF Reconnect
  <2>3. UpTo(s, m)' = {}
    BY <2>2 DEF UpTo
  <2> QED
    BY <2>3
<1>3. ASSUME NEW t \in Subs, NEW mid \in Mids, BrokerDelivers(t, mid)
      PROVE  UpTo(s, m)' \subseteq settled'[s]
  <2>1. UNCHANGED settled
    BY <1>3 DEF BrokerDelivers
  <2>2. CASE m \in Range(sent[s])
    <3>1. UpTo(s, m)' = UpTo(s, m)
      BY <1>3, <2>2, UpToStays
    <3> QED
      BY <2>1, <3>1 DEF FrontSettled
  <2>3. CASE m \notin Range(sent[s])
    <3>1. m \notin Range(sent'[s])
      <4>1. t = s => m # mid
        BY <1>3, <2>1, SentGrows
      <4> QED
        BY <1>3, <2>3, <4>1, SentGrows
    <3>2. \A i \in DOMAIN sent'[s] : sent'[s][i] # m
      BY <3>1, InRange
    <3>3. UpTo(s, m)' = {}
      BY <3>2 DEF UpTo
    <3> QED
      BY <3>3
  <2> QED
    BY <2>2, <2>3
<1>4. CASE UNCHANGED sent /\ ~UNCHANGED settled
  <2> DEFINE item == Head(outbound)
  <2>1. settled'[s] = settled[s] \cup
            (IF s = item.sub THEN Settles(item) ELSE {})
    BY <1>4, SettledSteps
  <2>2. UpTo(s, m)' = UpTo(s, m)
    BY <1>4 DEF UpTo
  <2>3. CASE m \in settled[s]
    BY <2>1, <2>2, <2>3 DEF FrontSettled
  <2>4. CASE m \notin settled[s]
    <3>1. s = item.sub /\ m \in Settles(item)
      BY <2>1, <2>4
    <3>2. Settles(item) = UpTo(s, item.id.mid)
      BY <3>1 DEF Settles
    <3>3. UpTo(s, m) \subseteq UpTo(s, item.id.mid)
      <4>1. IsInjective(sent[s])
        BY DEF SentOnce
      <4> QED
        BY <3>1, <3>2, <4>1, UpToNests
    <3> QED
      BY <2>1, <2>2, <3>1, <3>2, <3>3
  <2> QED
    BY <2>3, <2>4
<1>5. CASE UNCHANGED settled /\ ~UNCHANGED sent
  BY <1>2, <1>3, <1>5, SentSteps
<1> QED
  BY <1>1, <1>2, <1>3, <1>4, <1>5, SentSteps

\* Only a handle that is closed has an UNSUBSCRIBE in the channel.
LEMMA StepSaidByClosed ==
    ASSUME TypeInv, SaidByClosed, [Next]_vars
    PROVE  SaidByClosed'
<1> USE DEF TypeInv
<1> SUFFICES ASSUME NEW item \in ToSet(outbound'), item.kind = "UNSUBSCRIBE"
             PROVE  handle'[item.sub] = "closed"
  BY DEF SaidByClosed
<1>1. CASE item \in ToSet(outbound)
  <2>1. item.sub \in Subs
    <3>1. Range(outbound) \subseteq Item
      BY RangeOfSeq DEF TypeOK
    <3> QED
      BY <1>1, <3>1, ToSetIsRange DEF Item, AckItem
  <2> QED
    BY <1>1, <2>1, HandleSteps DEF SaidByClosed
<1>2. CASE item \notin ToSet(outbound)
  <2>1. ASSUME NEW t \in Subs, Owner(t)
        PROVE  handle'[item.sub] = "closed"
    <3>1. /\ Frame("SUBSCRIBE", t).kind = "SUBSCRIBE"
          /\ Frame("UNSUBSCRIBE", t).sub = t
      BY DEF Frame
    <3>2. item \in {Frame("SUBSCRIBE", t)}
          \/ (item \in {Frame("UNSUBSCRIBE", t)} /\ handle'[t] = "closed")
      BY <1>2, <2>1, OwnerAppends
    <3> QED
      BY <3>1, <3>2
  <2>2. ASSUME NEW a \in Ackers, AckSend(a)
        PROVE  FALSE
    <3>1. acker[a].item \in AckItem /\ outbound' = Append(outbound, acker[a].item)
      BY <2>2 DEF AckSend, TypeOK, Calls
    <3>2. acker[a].item \in Item /\ acker[a].item.kind = "ACK"
      BY <3>1 DEF Item, AckItem
    <3> QED
      BY <1>2, <3>1, <3>2, ChannelAppend
  <2>3. CASE outbound # <<>> /\ outbound' = Tail(outbound)
    BY <1>2, <2>3, ChannelTail
  <2>4. CASE UNCHANGED outbound
    BY <1>2, <2>4
  <2> QED
    BY <2>1, <2>2, <2>3, <2>4
     DEF Next, Acknowledge, AckCall, AckSettle, AckMiss, AckGivenUp,
         Background, SkipStaleAck, WriteOutbound, WriteFails, ReadMessage,
         PushPending, Sweep, Deliver, FailOverflowed, Abandon, ReapClosed,
         ReapForget, LoseConnection, ForgetSession, Reconnect, BrokerDelivers,
         vars
<1> QED
  BY <1>1, <1>2

\* Who enters is new to everybody.
LEMMA Entering ==
    ASSUME ItemsInv, [Next]_vars, NEW s \in registry' \ registry
    PROVE  /\ s \in Subs /\ handle[s] = "new" /\ s \notin Known
           /\ s \notin bsubs /\ s \notin overflowed /\ sent[s] = <<>>
           /\ \A d \in Copies : d.sub # s
           /\ SubscribeEnter(s)
<1> USE DEF ItemsInv, TypeInv
<1>1. PICK t \in Subs : SubscribeEnter(t)
  BY RegistryStays
<1>2. s = t
  BY <1>1 DEF SubscribeEnter
<1>3. s \in Subs /\ handle[s] = "new" /\ SubscribeEnter(s)
  BY <1>1, <1>2 DEF SubscribeEnter
<1>4. s \notin Known
  BY <1>3 DEF Known
<1> QED
  BY <1>3, <1>4 DEF KnownOnly, CopyOK

\* What is swept for its overflow has left the registry.
LEMMA StepOverflowedLeft ==
    ASSUME ItemsInv, OverflowedLeft, [Next]_vars
    PROVE  OverflowedLeft'
<1> USE DEF ItemsInv, TypeInv
<1>1. \A s \in registry' : s \in registry \/ (s \notin overflowed /\ SubscribeEnter(s)
                                        /\ \A d \in InTask : d.sub # s)
  BY Entering, InCopies
<1>2. CASE UNCHANGED <<overflowed, io>>
  <2>1. io.pc \in {"fail", "sweep"} => io.msg \in InTask
    BY DEF InTask
  <2> QED
    BY <1>1, <1>2, <2>1 DEF OverflowedLeft
<1>3. ASSUME NEW ok \in BOOLEAN, FailOverflowed(ok)
      PROVE  OverflowedLeft'
  BY <1>3 DEF FailOverflowed, OverflowedLeft, Select
<1>4. ASSUME NEW verdict, Deliver(verdict)
      PROVE  OverflowedLeft'
  <2>1. /\ UNCHANGED overflowed /\ registry' \subseteq registry
        /\ io'.pc = "sweep" /\ io'.msg = io.msg
        /\ io'.failed = (verdict = "overflowed")
        /\ verdict = "overflowed" => io.msg.sub \notin registry'
    BY <1>4 DEF Deliver
  <2> QED
    BY <2>1 DEF OverflowedLeft
<1>5. CASE Sweep
  <2>1. CASE io.failed
    <3>1. io' = [pc |-> "fail", msg |-> io.msg]
          /\ UNCHANGED <<overflowed, registry>> /\ io.pc = "sweep"
      BY <1>5, <2>1 DEF Sweep
    <3> QED
      BY <2>1, <3>1 DEF OverflowedLeft
  <2>2. CASE ~io.failed
    BY <1>5, <2>2 DEF Sweep, OverflowedLeft, Select
  <2> QED
    BY <2>1, <2>2
<1>6. CASE /\ UNCHANGED overflowed /\ io'.pc \notin {"fail", "sweep"}
           /\ registry' \subseteq registry
  BY <1>6 DEF OverflowedLeft
<1>7. CASE ReadMessage
  <2>1. UNCHANGED <<overflowed, registry>> /\ io'.pc \notin {"fail", "sweep"}
    BY <1>7 DEF ReadMessage, Select
  <2> QED
    BY <1>6, <2>1
<1>8. CASE /\ Background /\ ~Sweep /\ ~ReadMessage
           /\ \A verdict : ~Deliver(verdict)
           /\ \A ok \in BOOLEAN : ~FailOverflowed(ok)
  <2>1. CASE UNCHANGED io
    <3>1. UNCHANGED overflowed
      BY <1>8 DEF Background, SkipStaleAck, WriteOutbound, WriteFails,
         PushPending, Abandon, ReapClosed,
         ReapForget, LoseConnection, ForgetSession, Reconnect
    <3> QED
      BY <1>2, <2>1, <3>1
  <2>2. CASE ~UNCHANGED io
    BY <1>6, <1>8, <2>2 DEF Background, SkipStaleAck, WriteOutbound,
                            WriteFails,
         PushPending, Abandon, ReapClosed,
         ReapForget, LoseConnection, ForgetSession, Reconnect, Select
  <2> QED
    BY <2>1, <2>2
<1> QED
  BY <1>2, <1>3, <1>4, <1>5, <1>7, <1>8
     DEF Next, Owner, SubscribeEnter, SubscribeSend, UnsubscribeRemove,
         UnsubscribeForget, UnsubscribeSend, DropRemove, DropForget, DropSend,
         OwnerGivesUp, Acknowledge, AckCall, AckSettle, AckMiss, AckSend,
         AckGivenUp, BrokerDelivers, vars

\* The task reaps only subscriptions whose handle is gone.
LEMMA StepReapsTheGone ==
    ASSUME TypeOK, ReapsTheGone, [Next]_vars
    PROVE  ReapsTheGone'
<1>1. CASE UNCHANGED io
  BY <1>1, TaskHolds, HandleSteps DEF ReapsTheGone
<1>2. ASSUME NEW s \in Subs, ReapClosed(s)
      PROVE  ReapsTheGone'
  <2>1. io'.pc = "reap" /\ io'.sub = s /\ Gone(s)
    BY <1>2 DEF ReapClosed
  <2> QED
    BY <2>1, HandleSteps DEF ReapsTheGone
<1>3. CASE io'.pc # "reap"
  BY <1>3 DEF ReapsTheGone
<1>4. CASE Sweep
  BY <1>3, <1>4 DEF Sweep, Select
<1>5. CASE ReadMessage
  BY <1>3, <1>5 DEF ReadMessage, Select
<1>6. ASSUME NEW ok \in BOOLEAN, FailOverflowed(ok)
      PROVE  ReapsTheGone'
  BY <1>3, <1>6 DEF FailOverflowed, Select
<1>7. ASSUME NEW verdict, Deliver(verdict)
      PROVE  ReapsTheGone'
  BY <1>3, <1>7 DEF Deliver
<1>8. UNCHANGED io \/ Background
  BY DEF Next, Owner, SubscribeEnter, SubscribeSend, UnsubscribeRemove,
         UnsubscribeForget, UnsubscribeSend, DropRemove, DropForget, DropSend,
         OwnerGivesUp, Acknowledge, AckCall, AckSettle, AckMiss, AckSend,
         AckGivenUp, BrokerDelivers, vars
<1>9. CASE SkipStaleAck \/ WriteOutbound \/ WriteFails \/ PushPending
           \/ ReapForget \/ LoseConnection \/ ForgetSession \/ Reconnect
  BY <1>1, <1>3, <1>9
     DEF SkipStaleAck, WriteOutbound, WriteFails, PushPending, ReapForget,
         LoseConnection, ForgetSession, Reconnect, Select
<1>10. ASSUME NEW d \in Dests, Abandon(d)
       PROVE  ReapsTheGone'
  BY <1>1, <1>10 DEF Abandon
<1> QED
  BY <1>1, <1>2, <1>4, <1>5, <1>6, <1>7, <1>8, <1>9, <1>10 DEF Background

\* Who enters after the pass has not been sent anything.
LEMMA StepNewcomersBare ==
    ASSUME ItemsInv, NewcomersBare, [Next]_vars
    PROVE  NewcomersBare'
<1> USE DEF ItemsInv, TypeInv
<1> SUFFICES ASSUME io'.pc = "sweep", NEW s \in registry', s \notin io'.live
             PROVE  s \notin bsubs' /\ sent'[s] = <<>>
  BY DEF NewcomersBare
<1>1. ASSUME NEW verdict, Deliver(verdict)
      PROVE  FALSE
  BY <1>1 DEF Deliver
<1>2. CASE UNCHANGED io /\ io.pc = "sweep"
  <2>1. s \notin bsubs /\ sent[s] = <<>>
    BY <1>2, Entering DEF NewcomersBare
  <2>2. ASSUME NEW t \in Subs, NEW mid \in Mids, BrokerDelivers(t, mid)
        PROVE  s \notin bsubs' /\ sent'[s] = <<>>
    <3>1. t \in bsubs /\ UNCHANGED bsubs
      BY <2>2 DEF BrokerDelivers
    <3>2. s \in Subs
      BY StepTypeInv DEF TypeOK
    <3> QED
      BY <2>1, <2>2, <3>1, <3>2, SentGrows
  <2>3. ~Background \/ Sweep \/ \E verdict : Deliver(verdict)
    BY <1>2
     DEF Background, SkipStaleAck, WriteOutbound, WriteFails, ReadMessage,
         PushPending, Deliver, FailOverflowed, Abandon, ReapClosed,
         ReapForget, LoseConnection, ForgetSession, Reconnect, Select
  <2>4. ~Sweep
    BY <1>2 DEF Sweep, Select
  <2>5. UNCHANGED <<bsubs, sent>>
        \/ \E t \in Subs, mid \in Mids : BrokerDelivers(t, mid)
    BY <1>1, <2>3, <2>4
     DEF Next, Owner, SubscribeEnter, SubscribeSend, UnsubscribeRemove,
         UnsubscribeForget, UnsubscribeSend, DropRemove, DropForget, DropSend,
         OwnerGivesUp, Acknowledge, AckCall, AckSettle, AckMiss, AckSend,
         AckGivenUp, vars, brokerVars
  <2> QED
    BY <2>1, <2>2, <2>5
<1>3. UNCHANGED io \/ \E verdict : Deliver(verdict)
  <2>1. ~Sweep
    BY DEF Sweep, Select
  <2>2. ~ReadMessage
    BY DEF ReadMessage, Select
  <2>3. \A ok : ~FailOverflowed(ok)
    BY DEF FailOverflowed, Select
  <2>4. \A t : ~ReapClosed(t)
    BY DEF ReapClosed
  <2>5. ~WriteFails /\ ~PushPending /\ ~ReapForget /\ ~LoseConnection
        /\ ~ForgetSession /\ ~Reconnect
    BY DEF WriteFails, PushPending, ReapForget, LoseConnection, ForgetSession,
           Reconnect, Select
  <2>6. SkipStaleAck \/ WriteOutbound \/ (\E d \in Dests : Abandon(d))
            => UNCHANGED io
    BY DEF SkipStaleAck, WriteOutbound, Abandon
  <2>7. UNCHANGED io \/ Background
    BY DEF Next, Owner, SubscribeEnter, SubscribeSend, UnsubscribeRemove,
         UnsubscribeForget, UnsubscribeSend, DropRemove, DropForget, DropSend,
         OwnerGivesUp, Acknowledge, AckCall, AckSettle, AckMiss, AckSend,
         AckGivenUp, BrokerDelivers, vars
  <2> QED
    BY <2>1, <2>2, <2>3, <2>4, <2>5, <2>6, <2>7 DEF Background
<1> QED
  BY <1>1, <1>2, <1>3

\* OrderInv is inductive.
LEMMA StepOrder == OrderInv /\ [Next]_vars => OrderInv'
<1> SUFFICES ASSUME OrderInv, [Next]_vars
             PROVE  OrderInv'
  OBVIOUS
<1>1. ItemsInv /\ TypeInv /\ TypeOK
  BY DEF OrderInv, ItemsInv, TypeInv
<1>2. ItemsInv'
  BY <1>1, StepItems
<1>3. ThisSession' /\ DownIsEmpty' /\ SentOnce' /\ Ordered'
  BY <1>1, StepThisSession, StepSentOnce, StepOrdered DEF OrderInv
<1>4. FrontSettled' /\ SaidByClosed' /\ OverflowedLeft'
  BY <1>1, StepFrontSettled, StepSaidByClosed, StepOverflowedLeft
     DEF OrderInv
<1>5. ReapsTheGone' /\ NewcomersBare'
  BY <1>1, StepReapsTheGone, StepNewcomersBare DEF OrderInv
<1> QED
  BY <1>2, <1>3, <1>4, <1>5 DEF OrderInv

LEMMA InitOrder == Init => OrderInv
<1> SUFFICES ASSUME Init PROVE OrderInv
  OBVIOUS
<1>1. ItemsInv
  BY InitItems
<1>2. /\ ToSet(outbound) = {}
      /\ \A s \in Subs : Range(pending[s]) = {}
      /\ Range(inflight) = {}
      /\ IsInjective(<<>>)
  BY EmptyQueue, ToSetIsRange DEF Init
<1>3. Pushing = {}
  BY DEF Init, Pushing, Select
<1>4. \A d : d \notin Tracked
  BY <1>2, InTracked
<1>5. \A d : d \notin Due
  BY <1>2, <1>3, InDue
<1>6. ThisSession /\ DownIsEmpty /\ SentOnce
  BY <1>2, <1>4, <1>5 DEF Init, ThisSession, DownIsEmpty, SentOnce
<1>7. Ordered
  <2>1. InOrder(<<>>)
    BY DEF InOrder
  <2> QED
    BY <1>2, <1>3, <1>4, <2>1 DEF Init, Ordered, Precede
<1>8. FrontSettled /\ SaidByClosed /\ OverflowedLeft /\ ReapsTheGone
      /\ NewcomersBare
  BY <1>2 DEF Init, FrontSettled, SaidByClosed, OverflowedLeft, ReapsTheGone,
              NewcomersBare, Select
<1> QED
  BY <1>1, <1>6, <1>7, <1>8 DEF OrderInv

\* An ACK that is on its way, or given up, and where it is.
LEMMA OnTheWay ==
    \A x : x \in OnItsWay \cup lapsed <=>
        \/ \E a \in Ackers : acker[a].pc = "send" /\ x = acker[a].item
        \/ x \in ToSet(outbound) /\ x.kind = "ACK"
        \/ x \in lapsed
BY DEF OnItsWay

\* The ACKs on their way after a step.
LEMMA OnTheWayNext ==
    \A x : x \in OnItsWay' \cup lapsed' <=>
        \/ \E a \in Ackers : acker'[a].pc = "send" /\ x = acker'[a].item
        \/ x \in ToSet(outbound') /\ x.kind = "ACK"
        \/ x \in lapsed'
BY DEF OnItsWay

\* It leaves by the head of the channel, or with its session.
LEMMA WayStays ==
    ASSUME TypeOK, [Next]_vars, NEW x \in OnItsWay \cup lapsed
    PROVE  \/ x \in OnItsWay' \cup lapsed'
           \/ ForgetSession
           \/ /\ SkipStaleAck \/ WriteOutbound \/ WriteFails
              /\ outbound # <<>> /\ x = Head(outbound) /\ x.kind = "ACK"
<1>1. ASSUME NEW a \in Ackers, acker[a].pc = "send", x = acker[a].item,
             acker'[a] # acker[a]
      PROVE  x \in OnItsWay' \cup lapsed'
  <2>1. PICK b \in Ackers : Acknowledge(b)
    BY <1>1 DEF Next, Owner, SubscribeEnter, SubscribeSend, UnsubscribeRemove,
         UnsubscribeForget, UnsubscribeSend, DropRemove, DropForget, DropSend,
         OwnerGivesUp, Background, SkipStaleAck, WriteOutbound, WriteFails,
         ReadMessage, PushPending, Sweep, Deliver, FailOverflowed, Abandon,
         ReapClosed, ReapForget, LoseConnection, ForgetSession, Reconnect,
         BrokerDelivers, vars, appVars
  <2>2. b = a
    BY <1>1, <2>1 DEF Acknowledge, AckCall, AckSettle, AckMiss, AckSend,
                      AckGivenUp, TypeOK
  <2>3. AckSend(a) \/ AckGivenUp(a)
    <3>1. \A d \in held, by \in Naming : ~AckCall(a, d, by)
      BY <1>1 DEF AckCall, Idle
    <3>2. ~AckSettle(a) /\ ~AckMiss(a)
      BY <1>1 DEF AckSettle, AckMiss
    <3> QED
      BY <2>1, <2>2, <3>1, <3>2 DEF Acknowledge
  <2>4. x \in Item /\ x.kind = "ACK"
    BY <1>1 DEF TypeOK, Calls, Item, AckItem
  <2>5. CASE AckSend(a)
    <3>1. outbound' = Append(outbound, acker[a].item)
      BY <2>5 DEF AckSend
    <3>2. x \in ToSet(outbound')
      BY <1>1, <2>4, <3>1, ChannelAppend
    <3> QED
      BY <2>4, <3>2, OnTheWayNext
  <2>6. CASE AckGivenUp(a)
    <3>1. x \in lapsed'
      BY <1>1, <2>6 DEF AckGivenUp
    <3> QED
      BY <3>1
  <2> QED
    BY <2>3, <2>5, <2>6
<1>2. ASSUME x \in ToSet(outbound), x.kind = "ACK"
      PROVE  \/ x \in OnItsWay' \cup lapsed'
             \/ /\ SkipStaleAck \/ WriteOutbound \/ WriteFails
                /\ outbound # <<>> /\ x = Head(outbound)
  <2>1. CASE ToSet(outbound) \subseteq ToSet(outbound')
    BY <1>2, <2>1, OnTheWayNext
  <2>2. CASE /\ SkipStaleAck \/ WriteOutbound \/ WriteFails
             /\ outbound # <<>> /\ outbound' = Tail(outbound)
    <3>1. x = Head(outbound) \/ x \in ToSet(outbound')
      BY <1>2, <2>2, ChannelTail
    <3> QED
      BY <1>2, <2>2, <3>1, OnTheWayNext
  <2>3. ASSUME NEW t \in Subs, Owner(t)
        PROVE  ToSet(outbound) \subseteq ToSet(outbound')
    BY <2>3, OwnerAppends
  <2>4. ASSUME NEW a \in Ackers, AckSend(a)
        PROVE  ToSet(outbound) \subseteq ToSet(outbound')
    <3>1. acker[a].item \in Item /\ outbound' = Append(outbound, acker[a].item)
      BY <2>4 DEF AckSend, TypeOK, Calls, Item
    <3> QED
      BY <3>1, ChannelAppend
  <2>5. CASE UNCHANGED outbound
    BY <2>1, <2>5
  <2> QED
    BY <2>1, <2>2, <2>3, <2>4, <2>5
     DEF Next, Acknowledge, AckCall, AckSettle, AckMiss, AckGivenUp,
         Background, SkipStaleAck, WriteOutbound, WriteFails, ReadMessage,
         PushPending, Sweep, Deliver, FailOverflowed, Abandon, ReapClosed,
         ReapForget, LoseConnection, ForgetSession, Reconnect, BrokerDelivers,
         vars
<1>3. ASSUME x \in lapsed
      PROVE  x \in lapsed' \/ ForgetSession
  BY <1>3 DEF Next, Owner, SubscribeEnter, SubscribeSend, UnsubscribeRemove,
         UnsubscribeForget, UnsubscribeSend, DropRemove, DropForget, DropSend,
         OwnerGivesUp, Acknowledge, AckCall, AckSettle, AckMiss, AckSend,
         AckGivenUp,
         Background, SkipStaleAck, WriteOutbound, WriteFails, ReadMessage,
         PushPending, Sweep, Deliver, FailOverflowed, Abandon, ReapClosed,
         ReapForget, LoseConnection, Reconnect, BrokerDelivers,
         vars, brokerVars
<1>4. ASSUME NEW a \in Ackers, acker[a].pc = "send", x = acker[a].item
      PROVE  x \in OnItsWay' \cup lapsed'
  BY <1>1, <1>4, OnTheWayNext
<1> QED
  BY <1>2, <1>3, <1>4, OnTheWay

\* What the broker holds as outstanding was, or has just been sent.
LEMMA OutstandingSteps ==
    ASSUME TypeOK, [Next]_vars, ~Reconnect, NEW s \in Subs,
           NEW mid \in Outstanding(s)'
    PROVE  /\ mid \in Mids /\ mid \notin settled[s]
           /\ \/ mid \in Outstanding(s) /\ mid \in Range(sent[s])
              \/ BrokerDelivers(s, mid)
<1>1. mid \in Mids /\ mid \notin settled'[s] /\ mid \in Range(sent'[s])
  BY InRange DEF Outstanding
<1>2. settled[s] \subseteq settled'[s]
  BY SettledSteps
<1>3. mid \in Range(sent[s]) => mid \in Outstanding(s)
  BY <1>1, <1>2, InRange DEF Outstanding
<1>4. ASSUME NEW t \in Subs, NEW m \in Mids, BrokerDelivers(t, m)
      PROVE  mid \in Range(sent[s]) \/ BrokerDelivers(s, mid)
  BY <1>1, <1>4, SentGrows
<1> QED
  BY <1>1, <1>2, <1>3, <1>4, SentSteps

\* What is pending for an open subscription is tracked until a call takes it.
LEMMA PendingKept ==
    ASSUME OrderInv, [Next]_vars, ~ForgetSession, NEW s \in registry,
           handle[s] \in {"entered", "open"}, sent[s] # <<>>,
           ~ \E a \in Ackers : AckSettle(a)
    PROVE  Range(pending[s]) \subseteq Range(pending'[s])
<1> USE DEF OrderInv, ItemsInv, TypeInv
<1>0. s \in Subs /\ pending \in [Subs -> Seq(Delivery)]
      /\ pending[s] \in Seq(Delivery)
  BY DEF TypeOK
<1>1. CASE pending'[s] = pending[s]
  BY <1>1
<1>2. CASE PushPending
  <2>1. /\ io.msg \in Delivery
        /\ pending'[s] = IF s = io.msg.sub THEN Append(pending[s], io.msg)
                         ELSE pending[s]
    BY <1>0, <1>2, TaskHolds DEF PushPending
  <2>2. Range(Append(pending[s], io.msg)) = Range(pending[s]) \cup {io.msg}
    BY <1>0, <2>1, RangeOfAppend
  <2> QED
    BY <2>1, <2>2
<1>3. CASE Sweep
  <2>1. s \in io.live
    BY <1>3 DEF Sweep, NewcomersBare
  <2> QED
    BY <1>0, <1>3, <2>1 DEF Sweep
<1>4. CASE ReapForget
  <2>1. io.sub # s
    BY <1>4 DEF ReapForget, ReapsTheGone, Gone
  <2> QED
    BY <1>0, <1>4, <2>1 DEF ReapForget
<1>5. CASE WriteOutbound \/ WriteFails
  <2>1. outbound # <<>> /\ ForgetFor(Head(outbound))
    BY <1>5 DEF WriteOutbound, WriteFails
  <2>2. Head(outbound) \in ToSet(outbound)
    <3>1. outbound \in Seq(Item)
      BY DEF TypeOK
    <3> QED
      BY <2>1, <3>1, RangeOfTail, ToSetIsRange
  <2>3. Head(outbound).kind = "UNSUBSCRIBE" => Head(outbound).sub # s
    BY <2>2 DEF SaidByClosed
  <2> QED
    BY <1>0, <2>1, <2>3 DEF ForgetFor
<1>6. ASSUME NEW t \in Subs, Owner(t)
      PROVE  pending'[s] = pending[s]
  BY <1>0, <1>6 DEF Owner, SubscribeEnter, SubscribeSend, UnsubscribeRemove,
         UnsubscribeForget, UnsubscribeSend, DropRemove, DropForget, DropSend,
         OwnerGivesUp
<1>7. ASSUME NEW a \in Ackers, Acknowledge(a)
      PROVE  pending'[s] = pending[s]
  BY <1>7 DEF Acknowledge, AckCall, AckMiss, AckSend, AckGivenUp
<1> QED
  BY <1>1, <1>2, <1>3, <1>4, <1>5, <1>6, <1>7
     DEF Next, Background, SkipStaleAck, ReadMessage,
         Deliver, FailOverflowed, Abandon, ReapClosed,
         LoseConnection, Reconnect, BrokerDelivers, vars

\* What a call takes from the queue, its frame settles.
LEMMA TakenWillSettle ==
    ASSUME OrderInv, [Next]_vars, NEW a \in Ackers, AckSettle(a),
           io.pc # "down", NEW s \in registry, InClientMode(Mode[s]),
           NEW d \in Range(pending[s])
    PROVE  \/ d \in Range(pending'[s])
           \/ acker'[a].pc = "send" /\ WillSettle(acker[a].item, d)'
<1> USE DEF OrderInv, ItemsInv, TypeInv
<1>0. s \in Subs /\ pending \in [Subs -> Seq(Delivery)]
      /\ pending[s] \in Seq(Delivery)
  BY DEF TypeOK
<1> DEFINE call == acker[a]
           t == call.about.sub
           q == pending[t]
<1>1. PICK pos \in DOMAIN q :
         /\ FirstMatch(q, call.id, pos)
         /\ pending' = [pending EXCEPT ![t] =
                           Remaining(q, pos, call.managed)]
         /\ acker' = [acker EXCEPT ![a] =
               [pc |-> "send",
                item |-> AckOf(call, NameOf(q[pos], "ack"), q[pos].sess)]]
  BY DEF AckSettle
<1>2. CASE t # s
  BY <1>0, <1>1, <1>2
<1>3. CASE t = s
  <2>1. call.managed = Mode[s]
    <3>1. CallOK(call.about, call.id, call.managed)
      BY InChannel DEF AckSettle
    <3> QED
      BY <1>3, <3>1 DEF CallOK, ModeOK
  <2>2. pending'[s] = Remaining(q, pos, call.managed)
    BY <1>0, <1>1, <1>3
  <2>3. PICK i \in DOMAIN q : q[i] = d
    BY <1>3, InRange
  <2> DEFINE r == Remaining(q, pos, call.managed)
  <2>4. \/ \E k \in DOMAIN r : r[k] = q[i]
        \/ i = pos
        \/ Cumulative(call.managed) /\ i < pos
    <3>1. q \in Seq(Delivery)
      BY <1>0, <1>3
    <3> HIDE DEF q
    <3>2. \A n \in DOMAIN q :
             \/ \E k \in DOMAIN r : r[k] = q[n]
             \/ n = pos
             \/ Cumulative(call.managed) /\ n < pos
      BY <3>1, RemainingPart
    <3> HIDE DEF r
    <3> QED
      BY <2>3, <3>2
  <2> HIDE DEF r
  <2>5. CASE \E k \in DOMAIN r : r[k] = q[i]
    <3>1. d \in Range(r)
      BY <2>3, <2>5, InRange
    <3> QED
      BY <2>2, <3>1 DEF r
  <2>6. CASE i = pos \/ (Cumulative(call.managed) /\ i < pos)
    <3>1. /\ acker'[a].pc = "send"
          /\ acker'[a].item = AckOf(call, NameOf(q[pos], "ack"), q[pos].sess)
      BY <1>1 DEF TypeOK
    <3>2. /\ acker'[a].item.sub = s
          /\ acker'[a].item.id.mid = q[pos].mid
          /\ acker'[a].item.id.sess = q[pos].sess
      BY <1>3, <3>1 DEF AckOf, NameOf
    <3>3. q[pos] \in Range(pending[s]) /\ q[i] = d
      BY <1>3, <2>3, InRange
    <3>4. q[pos] \in Due /\ d \in Due
      BY <1>0, <3>3, InDue
    <3>5. d.sub = s /\ q[pos].sub = s /\ q[pos].sess = session
          /\ d.sess = session
      BY <1>0, <3>3, <3>4 DEF OwnQueues, ThisSession
    <3>6. q[pos].mid \in Range(sent[s])
      BY <1>0, <3>3, <3>5, InCopies DEF CopyOK
    <3>7. CASE i = pos
      <4>1. d.mid \in UpTo(s, d.mid)
        BY <1>0, <3>3, <3>6, <3>7, UpToSelf
      <4>2. UpTo(s, d.mid)' = UpTo(s, d.mid)
        BY DEF AckSettle, brokerVars, UpTo
      <4> QED
        BY <3>1, <3>2, <3>3, <3>5, <3>7, <4>1, <4>2 DEF WillSettle
    <3>8. CASE Cumulative(call.managed) /\ i < pos
      <4>1. Mode[s] = "client"
        BY <2>1, <3>8 DEF Cumulative, InClientMode, Unmanaged
      <4>2. Older(d, q[pos])
        BY <1>0, <1>3, <2>3, <3>8 DEF Ordered, InOrder
      <4>3. Before(s, d.mid, q[pos].mid)
        BY <3>5, <4>2 DEF Older
      <4>4. d.mid \in UpTo(s, q[pos].mid)
        <5>1. DOMAIN sent[s] \subseteq Nat
          <6>1. sent[s] \in Seq(Mids)
            BY <1>0 DEF TypeOK
          <6> QED
            BY <6>1
        <5>2. PICK k, l \in DOMAIN sent[s] :
                 k < l /\ sent[s][k] = d.mid /\ sent[s][l] = q[pos].mid
          BY <4>3 DEF Before
        <5>3. k <= l
          BY <5>1, <5>2
        <5> QED
          BY <5>2, <5>3 DEF UpTo
      <4>5. \A k : UpTo(s, k)' = UpTo(s, k)
        BY DEF AckSettle, brokerVars, UpTo
      <4> QED
        BY <3>1, <3>2, <3>5, <4>1, <4>4, <4>5 DEF WillSettle
    <3> QED
      BY <2>6, <3>7, <3>8
  <2> QED
    BY <2>4, <2>5, <2>6
<1> QED
  BY <1>2, <1>3

\* What a message covers, it covers until the next connection.
LEMMA UpToGrows ==
    ASSUME TypeOK, [Next]_vars, ~Reconnect, NEW s \in Subs, NEW k,
           NEW m \in UpTo(s, k)
    PROVE  m \in UpTo(s, k)'
<1>1. CASE UNCHANGED sent
  BY <1>1 DEF UpTo
<1>2. ASSUME NEW t \in Subs, NEW mid \in Mids, BrokerDelivers(t, mid)
      PROVE  m \in UpTo(s, k)'
  <2>1. k \in Range(sent[s])
    BY InRange DEF UpTo
  <2> QED
    BY <1>2, <2>1, UpToStays
<1> QED
  BY <1>1, <1>2, SentSteps

\* An ACK at the head of the channel that will settle d: it is of this
\* session, so it is not skipped, and the broker settles d with it.
LEMMA HeadSettles ==
    ASSUME OrderInv, [Next]_vars, outbound # <<>>, NEW s \in registry,
           InClientMode(Mode[s]),
           NEW d \in Delivery, d.sub = s, d.sess = session,
           d.mid \in Outstanding(s),
           Head(outbound).kind = "ACK", WillSettle(Head(outbound), d)
    PROVE  ~SkipStaleAck /\ (WriteOutbound => d.mid \in settled'[s])
<1> USE DEF OrderInv, ItemsInv, TypeInv
<1> DEFINE item == Head(outbound)
<1>0. s \in Subs
  BY DEF TypeOK
<1>1. item \in AckItem /\ ItemOK(item)
  <2>1. item \in ToSet(outbound)
    <3>1. outbound \in Seq(Item)
      BY DEF TypeOK
    <3> QED
      BY <3>1, RangeOfTail, ToSetIsRange
  <2> QED
    BY <2>1, InChannel, HeadOfOutbound
<1>2. item.sub = s /\ item.id.sess = session
  BY DEF WillSettle
<1>3. InClientMode(item.managed)
  BY <1>1, <1>2 DEF ItemOK, CallOK, ModeOK
<1>4. item.id.by = "ack" /\ item.issued = session /\ CopyOK(NamedBy(item))
  BY <1>1, <1>2, <1>3 DEF ItemOK
<1>5. item.id.mid \in Range(sent[s]) /\ item.id.mid \in Mids
  BY <1>1, <1>2, <1>4 DEF CopyOK, NamedBy, AckItem, Name
<1>6. item.id.mid \notin settled[s]
  <2>1. CASE Mode[s] = "client"
    <3>1. d.mid \in UpTo(s, item.id.mid) /\ d.mid \notin settled[s]
      BY <1>2, <2>1 DEF WillSettle, Outstanding
    <3> QED
      BY <1>0, <2>1, <3>1 DEF FrontSettled
  <2>2. CASE Mode[s] # "client"
    BY <1>2, <2>2 DEF WillSettle, Outstanding
  <2> QED
    BY <2>1, <2>2
<1>7. item.id.mid \in Named(item)
  BY <1>2, <1>4, <1>5, <1>6, InRange DEF Named, Outstanding, Matches
<1>8. d.mid \in Settles(item)
  BY <1>2, <1>7 DEF Settles, WillSettle
<1>9. ~SkipStaleAck
  BY <1>4 DEF SkipStaleAck, WritableIn
<1>10. ASSUME WriteOutbound PROVE d.mid \in settled'[s]
  <2>1. BrokerTakes(item)
    BY <1>10 DEF WriteOutbound
  <2> QED
    BY <1>0, <1>2, <1>8, <2>1 DEF BrokerTakes, TypeOK
<1> QED
  BY <1>9, <1>10

\* What becomes of a delivery from one step to the next.
Kept(d) ==
    \/ d \in ToSet(inflight)
    \/ io = [pc |-> "push", msg |-> d]
    \/ d \in ToSet(pending[d.sub])
    \/ \E item \in OnItsWay \cup lapsed : WillSettle(item, d)

\* A delivery that is tracked, or that an ACK on its way will settle, is one or
\* the other after a step that does not lose the connection.
LEMMA KeptStays ==
    ASSUME OrderInv, [Next]_vars, ~ForgetSession, ~Reconnect,
           io.pc # "down", io'.pc # "lost", NEW s \in registry,
           handle[s] \in {"entered", "open"}, InClientMode(Mode[s]),
           NEW d \in Delivery, d.sub = s, d.sess = session,
           d.mid \in Outstanding(s), d.mid \notin settled'[s], Kept(d)
    PROVE  Kept(d)'
<1> USE DEF OrderInv, ItemsInv, TypeInv
<1>0. s \in Subs
  BY DEF TypeOK
<1>1. ASSUME d \in ToSet(inflight)
      PROVE  Kept(d)'
  <2>1. d \in Range(inflight) /\ inflight \in Seq(Delivery)
    BY <1>1, ToSetIsRange DEF TypeOK
  <2>2. CASE UNCHANGED inflight
    BY <1>1, <2>2 DEF Kept
  <2>3. CASE ReadMessage
    <3>1. Range(inflight) = {Head(inflight)} \cup Range(Tail(inflight))
          /\ inflight' = Tail(inflight)
      BY <2>1, <2>3, RangeOfTail DEF ReadMessage
    <3>2. CASE d = Head(inflight)
      <4>1. s \notin overflowed /\ Mode[s] # "auto"
        BY DEF OverflowedLeft, InClientMode
      <4>2. io' = [pc |-> "push", msg |-> d]
        BY <2>3, <3>2, <4>1 DEF ReadMessage
      <4> QED
        BY <4>2 DEF Kept
    <3>3. CASE d \in Range(Tail(inflight))
      BY <3>1, <3>3, ToSetIsRange DEF Kept
    <3> QED
      BY <2>1, <3>1, <3>2, <3>3
  <2>4. ASSUME NEW t \in Subs, NEW mid \in Mids, BrokerDelivers(t, mid)
        PROVE  Kept(d)'
    <3> DEFINE x == [sub |-> t, mid |-> mid, sess |-> session]
    <3>1. x \in Delivery /\ inflight' = Append(inflight, x)
      BY <2>4 DEF BrokerDelivers, TypeOK, Delivery
    <3>2. Range(inflight') = Range(inflight) \cup {x}
      BY <2>1, <3>1, RangeOfAppend
    <3> QED
      BY <2>1, <3>2, ToSetIsRange DEF Kept
  <2> QED
    BY <2>2, <2>3, <2>4, ReadSteps
<1>2. ASSUME io = [pc |-> "push", msg |-> d]
      PROVE  Kept(d)'
  <2>1. CASE UNCHANGED io
    BY <1>2, <2>1 DEF Kept
  <2>2. CASE PushPending
    <3>1. pending'[s] = Append(pending[s], d) /\ pending[s] \in Seq(Delivery)
      BY <1>0, <1>2, <2>2 DEF PushPending, TypeOK
    <3>2. d \in Range(pending'[s])
      BY <3>1, RangeOfAppend
    <3> QED
      BY <3>2, ToSetIsRange DEF Kept
  <2>3. Background => PushPending
    BY <1>2 DEF Background, SkipStaleAck, WriteOutbound, WriteFails,
         ReadMessage, Sweep, Deliver, FailOverflowed, Abandon, ReapClosed,
         ReapForget, LoseConnection, ForgetSession, Reconnect, Select
  <2> QED
    BY <2>1, <2>2, <2>3
     DEF Next, Owner, SubscribeEnter, SubscribeSend, UnsubscribeRemove,
         UnsubscribeForget, UnsubscribeSend, DropRemove, DropForget, DropSend,
         OwnerGivesUp, Acknowledge, AckCall, AckSettle, AckMiss, AckSend,
         AckGivenUp, BrokerDelivers, vars
<1>3. ASSUME d \in ToSet(pending[d.sub])
      PROVE  Kept(d)'
  <2>1. d \in Range(pending[s])
    BY <1>3, ToSetIsRange
  <2>2. d \in Range(pending'[s]) => Kept(d)'
    BY ToSetIsRange DEF Kept
  <2>3. ASSUME NEW a \in Ackers, AckSettle(a)
        PROVE  Kept(d)'
    <3>1. CASE acker'[a].pc = "send" /\ WillSettle(acker[a].item, d)'
      <4>1. acker'[a].item \in OnItsWay' \cup lapsed'
        BY <3>1, OnTheWayNext
      <4> QED
        BY <3>1, <4>1 DEF Kept
    <3> QED
      BY <2>1, <2>2, <2>3, <3>1, TakenWillSettle
  <2>4. ASSUME ~ \E a \in Ackers : AckSettle(a)
        PROVE  Kept(d)'
    <3>1. sent[s] # <<>>
      BY <1>0 DEF Outstanding
    <3> QED
      BY <2>1, <2>2, <2>4, <3>1, PendingKept
  <2> QED
    BY <2>3, <2>4
<1>4. ASSUME NEW item \in OnItsWay \cup lapsed, WillSettle(item, d)
      PROVE  Kept(d)'
  <2>1. WillSettle(item, d)'
    BY <1>0, <1>4, UpToGrows DEF WillSettle
  <2>2. CASE item \in OnItsWay' \cup lapsed'
    BY <2>1, <2>2 DEF Kept
  <2>3. CASE /\ SkipStaleAck \/ WriteOutbound \/ WriteFails
             /\ outbound # <<>> /\ item = Head(outbound) /\ item.kind = "ACK"
    <3>1. ~WriteFails
      BY DEF WriteFails
    <3> QED
      BY <1>4, <2>3, <3>1, HeadSettles
  <2> QED
    BY <1>4, <2>2, <2>3, WayStays
<1> QED
  BY <1>1, <1>2, <1>3, <1>4 DEF Kept

\* NothingForgotten is kept by every step, given the order.
LEMMA StepNothingForgotten ==
    OrderInv /\ NothingForgotten /\ [Next]_vars => NothingForgotten'
<1> USE DEF OrderInv, ItemsInv, TypeInv
<1> SUFFICES ASSUME OrderInv, NothingForgotten, [Next]_vars,
                    NEW s \in registry',
                    handle'[s] \in {"entered", "open"},
                    InClientMode(Mode[s]), io'.pc \notin {"lost", "down"},
                    NEW mid \in Outstanding(s)',
                    NEW d, d = [sub |-> s, mid |-> mid, sess |-> session']
             PROVE  Kept(d)'
  BY DEF NothingForgotten, Kept
<1>1. ~Reconnect
  <2>1. ASSUME Reconnect PROVE Outstanding(s)' = {}
    <3>1. s \in Subs
      BY StepTypeInv DEF TypeOK
    <3>2. sent'[s] = <<>>
      BY <2>1, <3>1 DEF Reconnect
    <3> QED
      BY <3>2 DEF Outstanding
  <2> QED
    BY <2>1
<1>2. io.pc # "down" /\ ~ForgetSession
  BY <1>1, DownWaits DEF ForgetSession
<1>3. session' = session
  BY <1>1, <1>2, Clock
<1>4. s \in registry
  <2>1. ASSUME s \notin registry PROVE FALSE
    <3>1. s \in Subs /\ sent[s] = <<>> /\ SubscribeEnter(s)
      BY <2>1, Entering
    <3>2. sent'[s] = <<>>
      BY <3>1 DEF SubscribeEnter, brokerVars
    <3> QED
      BY <3>2 DEF Outstanding
  <2> QED
    BY <2>1
<1>5. s \in Subs /\ handle[s] \in {"entered", "open"}
  <2>1. s \in Subs /\ s \in Known
    BY <1>4 DEF KnownOnly, Known
  <2> QED
    BY <2>1, HandleSteps DEF Known
<1>6. mid \in Mids /\ mid \notin settled'[s]
      /\ (mid \in Outstanding(s) \/ BrokerDelivers(s, mid))
  <2>1. mid \notin settled'[s]
    BY DEF Outstanding
  <2> QED
    BY <1>1, <1>5, <2>1, OutstandingSteps
<1>7. d \in Delivery /\ d.sub = s /\ d.mid = mid /\ d.sess = session
  BY <1>3, <1>5, <1>6 DEF TypeOK, Delivery
<1>8. CASE BrokerDelivers(s, mid)
  <2>1. inflight' = Append(inflight, d) /\ inflight \in Seq(Delivery)
    BY <1>3, <1>8 DEF BrokerDelivers, TypeOK
  <2>2. d \in Range(inflight')
    BY <1>7, <2>1, RangeOfAppend
  <2> QED
    BY <2>2, ToSetIsRange DEF Kept
<1>9. CASE mid \in Outstanding(s)
  <2>1. io.pc # "lost"
    <3>1. ASSUME io.pc = "lost" PROVE UNCHANGED io \/ ForgetSession
      <4>1. Background => ForgetSession
        BY <3>1 DEF Background, SkipStaleAck, WriteOutbound, WriteFails,
         ReadMessage, PushPending, Sweep, Deliver, FailOverflowed, Abandon,
         ReapClosed, ReapForget, LoseConnection, Reconnect, Select
      <4> QED
        BY <4>1
     DEF Next, Owner, SubscribeEnter, SubscribeSend, UnsubscribeRemove,
         UnsubscribeForget, UnsubscribeSend, DropRemove, DropForget, DropSend,
         OwnerGivesUp, Acknowledge, AckCall, AckSettle, AckMiss, AckSend,
         AckGivenUp, BrokerDelivers, vars
    <3> QED
      BY <1>2, <3>1
  <2>2. Kept(d)
    <3>1. d = [sub |-> s, mid |-> mid, sess |-> session]
      BY <1>3
    <3> QED
      BY <1>2, <1>4, <1>5, <1>9, <2>1, <3>1 DEF NothingForgotten, Kept
  <2> QED
    BY <1>1, <1>2, <1>4, <1>5, <1>6, <1>7, <1>9, <2>2, KeptStays
<1> QED
  BY <1>6, <1>8, <1>9

\* No delivery is forgotten while its subscription is open: what the broker
\* holds as outstanding is still to be read, tracked, or settled by an ACK on
\* its way, whatever tasks acknowledge, in whichever order, and however often
\* the connection is lost.
THEOREM DeliveriesKept == Spec => []NothingForgotten
<1>1. Init => NothingForgotten
  BY DEF Init, NothingForgotten
<1> QED
  BY <1>1, InitOrder, StepOrder, StepNothingForgotten, PTL DEF Spec

----------------------------------------------------------------------------
(***************************************************************************)
(* No acknowledgement goes astray.  Of a delivery of the current           *)
(* connection at most one ACK is made: the call that makes it takes the    *)
(* delivery from the queue, where it stood once (DoneWith), so that no two *)
(* ACKs still to be written, or one of them and one written, name the same *)
(* (AcksApart).  And what the broker has settled of this connection an ACK *)
(* written to it has named, or a later one has covered (Explained).        *)
(***************************************************************************)
Current(item) ==
    item.kind = "ACK" /\ InClientMode(item.managed) /\ item.id.sess = session
Apart(x, y) ==
    Current(x) /\ Current(y) /\ x.sub = y.sub => x.id.mid # y.id.mid
AllApart(q) == \A i, j \in DOMAIN q : i # j => Apart(q[i], q[j])
Sending == {a \in Ackers : acker[a].pc = "send"}

DoneWith ==
    \A item \in AllAcks, d \in Due :
        Current(item) /\ d.sub = item.sub => d.mid # item.id.mid

AcksApart ==
    /\ \A a, b \in Sending : a # b => Apart(acker[a].item, acker[b].item)
    /\ \A a \in Sending, x \in ToSet(outbound) : Apart(acker[a].item, x)
    /\ AllApart(outbound)
    /\ \A w \in written : \A a \in Sending : Apart(acker[a].item, w.ack)
    /\ \A w \in written : \A x \in ToSet(outbound) : Apart(x, w.ack)

Explains(w, s, m) ==
    /\ w.hit /\ w.on = session /\ w.ack.sub = s
    /\ IF Mode[s] = "client" THEN m \in UpTo(s, w.ack.id.mid)
       ELSE m = w.ack.id.mid
Explained ==
    io.pc # "down" =>
        \A s \in Subs : \A m \in Range(sent[s]) \cap settled[s] :
            \E w \in written : Explains(w, s, m)

StrayInv ==
    /\ OrderInv /\ AcksWellFormed /\ AcksNameThisSession
    /\ DoneWith /\ AcksApart /\ Explained /\ NoStrayAck

\* That two ACKs name different messages is mutual.
LEMMA ApartIsMutual ==
    ASSUME NEW x, NEW y, Apart(x, y)
    PROVE  Apart(y, x)
BY DEF Apart

\* What is before another is not the other.
LEMMA OlderDiffers ==
    ASSUME TypeOK, SentOnce, NEW d, NEW e, d.sub \in Subs, d.sub = e.sub,
           Older(d, e)
    PROVE  d.mid # e.mid
<1> DEFINE f == sent[d.sub]
<1>1. DOMAIN f \subseteq Nat
  <2>1. f \in Seq(Mids)
    BY DEF TypeOK
  <2> QED
    BY <2>1
<1>2. PICK i, j \in DOMAIN f : i < j /\ f[i] = d.mid /\ f[j] = e.mid
  BY DEF Older, Before
<1>3. i # j
  BY <1>1, <1>2
<1>4. \A k, l \in DOMAIN f : f[k] = f[l] => k = l
  BY DEF SentOnce, IsInjective
<1> QED
  BY <1>2, <1>3, <1>4

\* An ACK of this session names a MESSAGE of this connection.
LEMMA CurrentIsSent ==
    ASSUME ItemsInv, NEW x \in AllAcks, Current(x)
    PROVE  x.sub \in Subs /\ x.id.mid \in Range(sent[x.sub]) /\ io.pc # "down"
           /\ x.id.by = "ack" /\ x.id.mid \in Mids
<1>1. x \in AckItem /\ ItemOK(x)
  BY FollowedTypes DEF ItemsInv, TypeInv
<1> QED
  BY <1>1 DEF ItemOK, Current, CopyOK, NamedBy, AckItem, Name

\* A session that begins has no ACKs yet.
LEMMA NoneCurrent ==
    ASSUME ItemsInv, [Next]_vars, ForgetSession, NEW x \in AllAcks
    PROVE  ~Current(x)'
<1>1. x \in AckItem /\ ItemOK(x)
  BY FollowedTypes DEF ItemsInv, TypeInv
<1>2. InClientMode(x.managed) => x.id.sess <= session
  BY <1>1 DEF ItemOK, CopyOK, NamedBy
<1>3. session' = session + 1 /\ session \in Int /\ x.id.sess \in Int
  BY <1>1 DEF ForgetSession, AckItem, Name, Sessions, ItemsInv, TypeInv, TypeOK
<1> QED
  BY <1>2, <1>3 DEF Current

\* What an ACK and its name keep of the call and of the message.
LEMMA FieldsOfAck ==
    ASSUME NEW call, NEW id, NEW issued
    PROVE  /\ AckOf(call, id, issued).sub = call.about.sub
           /\ AckOf(call, id, issued).id = id
BY DEF AckOf

LEMMA FieldsOfName ==
    ASSUME NEW d
    PROVE  NameOf(d, "ack").mid = d.mid /\ NameOf(d, "ack").sess = d.sess
BY DEF NameOf

\* The delivery that a call takes, and the ACK made of it: what else is due
\* is another one.
LEMMA TakenOnce ==
    ASSUME OrderInv, [Next]_vars, NEW a \in Ackers, AckSettle(a) \/ AckMiss(a),
           acker'[a].pc = "send", NEW item, item = acker'[a].item,
           Current(item)
    PROVE  \E e \in Due :
              /\ e.sub = item.sub /\ e.mid = item.id.mid
              /\ \A d \in Due' : d.sub = e.sub => d.mid # e.mid
<1> USE DEF OrderInv, ItemsInv, TypeInv
<1> DEFINE call == acker[a]
           s == call.about.sub
           q == pending[s]
<1>1. AckSettle(a)
  <2>1. ASSUME AckMiss(a) PROVE FALSE
    <3>1. call.managed \notin {"client", "individual"}
          /\ item = AckOf(call, call.id, NoSession)
      BY <2>1 DEF AckMiss, TypeOK, Idle
    <3> QED
      BY <3>1 DEF Current, AckOf, InClientMode
  <2> QED
    BY <2>1
<1>2. PICK pos \in DOMAIN q :
         /\ pending' = [pending EXCEPT ![s] =
                           Remaining(q, pos, call.managed)]
         /\ acker' = [acker EXCEPT ![a] =
               [pc |-> "send",
                item |-> AckOf(call, NameOf(q[pos], "ack"), q[pos].sess)]]
  BY <1>1 DEF AckSettle
<1>3. s \in Subs /\ q \in Seq(Delivery) /\ pending \in [Subs -> Seq(Delivery)]
  BY <1>1, SettlingCall DEF AckSettle, TypeOK
<1>4. item = AckOf(call, NameOf(q[pos], "ack"), q[pos].sess)
  BY <1>2 DEF TypeOK
<1>5. PICK e : e = q[pos]
  OBVIOUS
<1>6. e \in Range(q) /\ e \in Tracked /\ e \in Due /\ e.sub = s
  <2>1. e \in Range(q)
    BY <1>5, InRange
  <2> QED
    BY <1>3, <2>1, InTracked, InDue DEF OwnQueues
<1>7. item.sub = s /\ item.id.mid = e.mid /\ item.id.sess = e.sess
  <2>1. item = AckOf(call, NameOf(e, "ack"), e.sess)
    BY <1>4, <1>5
  <2>2. item.sub = call.about.sub /\ item.id = NameOf(e, "ack")
    BY <2>1, FieldsOfAck
  <2>3. NameOf(e, "ack").mid = e.mid /\ NameOf(e, "ack").sess = e.sess
    BY FieldsOfName
  <2> QED
    BY <2>2, <2>3
<1>8. e.sess = session /\ io.pc # "down"
  BY <1>6, <1>7, InCopies DEF Current, CopyOK
<1>9. UNCHANGED <<io, inflight>>
  BY <1>1 DEF AckSettle, brokerVars
<1>10. ASSUME NEW d \in Due', d.sub = s
       PROVE  d.mid # e.mid
  <2>1. CASE d \in Pushing' \/ d \in Range(inflight')
    <3>1. d \in Pushing \/ d \in Range(inflight)
      BY <1>9, <2>1 DEF Pushing
    <3>2. Older(e, d)
      BY <1>6, <1>8, <3>1 DEF Ordered, Precede
    <3> QED
      BY <1>3, <1>6, <1>10, <3>2, OlderDiffers
  <2>2. ASSUME NEW t \in Subs, d \in Range(pending'[t])
        PROVE  d.mid # e.mid
    <3>1. CASE t # s
      <4>1. d \in Range(pending[t])
        BY <1>2, <1>3, <2>2, <3>1
      <4>2. d.sub = t
        BY <4>1 DEF OwnQueues
      <4> QED
        BY <1>10, <3>1, <4>2
    <3>2. CASE t = s
      <4> DEFINE r == Remaining(q, pos, call.managed)
      <4>1. pending'[s] = r
        BY <1>2, <1>3
      <4>2. \A k \in DOMAIN r : /\ Was(k, pos, call.managed) \in DOMAIN q \ {pos}
                                /\ r[k] = q[Was(k, pos, call.managed)]
        BY <1>3, RemainingPart
      <4> HIDE DEF r
      <4>3. PICK k \in DOMAIN r : r[k] = d
        BY <2>2, <3>2, <4>1, InRange
      <4>4. PICK i \in DOMAIN q \ {pos} : q[i] = d
        BY <4>2, <4>3
      <4>5. i < pos \/ pos < i
        <5>1. DOMAIN q \subseteq Int
          BY <1>3
        <5> QED
          BY <4>4, <5>1
      <4>6. InOrder(q)
        BY <1>3, <1>8 DEF Ordered
      <4>7. Older(d, e) \/ Older(e, d)
        BY <1>5, <4>4, <4>5, <4>6 DEF InOrder
      <4> QED
        BY <1>3, <1>6, <1>10, <4>7, OlderDiffers
    <3> QED
      BY <3>1, <3>2
  <2> QED
    BY <2>1, <2>2, InDueNext
<1> QED
  BY <1>6, <1>7, <1>10

\* No ACK of this session names what is still due.
LEMMA StepDoneWith ==
    ASSUME OrderInv, DoneWith, [Next]_vars
    PROVE  DoneWith'
<1> USE DEF OrderInv, ItemsInv, TypeInv
<1> SUFFICES ASSUME NEW item \in AllAcks', NEW d \in Due', Current(item)',
                    d.sub = item.sub
             PROVE  d.mid # item.id.mid
  BY DEF DoneWith
<1>1. item \in AllAcks \/ NewAck(item)
  BY AcksGrow
<1>2. ~ForgetSession
  <2>1. ASSUME ForgetSession PROVE FALSE
    <3>1. ~NewAck(item)
      BY <2>1 DEF NewAck, AckSettle, AckMiss, ForgetSession, appVars, TypeOK
    <3> QED
      BY <1>1, <2>1, <3>1, NoneCurrent
  <2> QED
    BY <2>1
<1>3. Current(item)
  BY <1>2, Clock DEF Current
<1>4. CASE NewAck(item)
  <2>1. PICK a \in Ackers : /\ AckSettle(a) \/ AckMiss(a)
                            /\ acker'[a].pc = "send" /\ item = acker'[a].item
    BY <1>4 DEF NewAck
  <2>2. PICK e \in Due :
              /\ e.sub = item.sub /\ e.mid = item.id.mid
              /\ \A x \in Due' : x.sub = e.sub => x.mid # e.mid
    BY <1>3, <2>1, TakenOnce
  <2> QED
    BY <2>2
<1>5. CASE item \in AllAcks /\ d \in Due
  BY <1>3, <1>5 DEF DoneWith
<1>6. ASSUME item \in AllAcks, NewCopy(d)
      PROVE  d.mid # item.id.mid
  <2>1. PICK s \in Subs, mid \in Mids :
           BrokerDelivers(s, mid) /\ d.sub = s /\ d.mid = mid
    BY <1>6 DEF NewCopy
  <2>2. item.id.mid \in Range(sent[s])
    BY <1>3, <1>6, <2>1, CurrentIsSent
  <2>3. mid \notin Range(sent[s])
    BY <2>1, SentGrows
  <2> QED
    BY <2>1, <2>2, <2>3
<1> QED
  BY <1>1, <1>4, <1>5, <1>6, DueGrows

\* An ACK that is apart from all in the channel enters it, and one leaves.
LEMMA ApartAppend ==
    ASSUME NEW q \in Seq(Item), NEW x \in Item, AllApart(q),
           \A y \in ToSet(q) : Apart(y, x)
    PROVE  AllApart(Append(q, x))
<1> DEFINE t == Append(q, x)
<1>1. /\ Len(q) \in Nat /\ DOMAIN q = 1..Len(q)
      /\ DOMAIN t = 1..(Len(q) + 1)
      /\ \A i \in 1..Len(q) : t[i] = q[i]
      /\ t[Len(q) + 1] = x
  BY AppendShape
<1>2. \A i \in DOMAIN q : Apart(q[i], x) /\ Apart(x, q[i])
  BY InRange, ToSetIsRange, ApartIsMutual
<1> HIDE DEF t
<1>3. ASSUME NEW i \in DOMAIN t, NEW j \in DOMAIN t, i # j
      PROVE  Apart(t[i], t[j])
  <2>1. i \in DOMAIN q \/ i = Len(q) + 1
    BY <1>1
  <2>2. j \in DOMAIN q \/ j = Len(q) + 1
    BY <1>1
  <2> QED
    BY <1>1, <1>2, <1>3, <2>1, <2>2 DEF AllApart
<1>4. AllApart(t)
  BY <1>3 DEF AllApart
<1> QED
  BY <1>4 DEF t

\* What leaves the channel is apart from what stays.
LEMMA ApartTail ==
    ASSUME NEW q \in Seq(Item), q # <<>>, AllApart(q)
    PROVE  /\ AllApart(Tail(q))
           /\ \A x \in ToSet(Tail(q)) : Apart(x, Head(q))
<1> DEFINE t == Tail(q)
<1>1. /\ Len(q) \in Nat \ {0} /\ DOMAIN q = 1..Len(q)
      /\ DOMAIN t = 1..(Len(q) - 1) /\ Head(q) = q[1]
      /\ \A i \in 1..(Len(q) - 1) : t[i] = q[i + 1]
  BY TailShape
<1> HIDE DEF t
<1>2. ASSUME NEW i \in DOMAIN t, NEW j \in DOMAIN t, i # j
      PROVE  Apart(t[i], t[j])
  <2>1. i + 1 \in DOMAIN q /\ j + 1 \in DOMAIN q /\ i + 1 # j + 1
        /\ t[i] = q[i + 1] /\ t[j] = q[j + 1]
    BY <1>1, <1>2
  <2> QED
    BY <2>1 DEF AllApart
<1>3. ASSUME NEW x \in ToSet(t)
      PROVE  Apart(x, Head(q))
  <2>1. PICK i \in DOMAIN t : t[i] = x
    BY InRange, ToSetIsRange
  <2>2. 1 \in DOMAIN q /\ i + 1 \in DOMAIN q /\ 1 # i + 1
        /\ Head(q) = q[1] /\ x = q[i + 1]
    BY <1>1, <2>1
  <2> QED
    BY <2>2 DEF AllApart
<1>4. AllApart(t)
  BY <1>2 DEF AllApart
<1> QED
  BY <1>3, <1>4 DEF t

\* A new ACK is the first of its delivery.
LEMMA NewIsApart ==
    ASSUME OrderInv, DoneWith, [Next]_vars, NEW a \in Ackers,
           AckSettle(a) \/ AckMiss(a), acker'[a].pc = "send",
           NEW item, item = acker'[a].item, NEW x \in AllAcks
    PROVE  Apart(item, x)
<1>1. ASSUME Current(item) PROVE Apart(item, x)
  <2>1. PICK e \in Due : e.sub = item.sub /\ e.mid = item.id.mid
    BY <1>1, TakenOnce
  <2>2. Current(x) /\ e.sub = x.sub => e.mid # x.id.mid
    BY DEF DoneWith
  <2> QED
    BY <2>1, <2>2 DEF Apart
<1> QED
  BY <1>1 DEF Apart

\* Where the ACKs still to be written are after a step.
LEMMA ApartSteps ==
    ASSUME TypeOK, [Next]_vars
    PROVE  \/ ForgetSession
           \/ UNCHANGED <<acker, outbound, written>>
           \/ \E a \in Ackers : AckSettle(a) \/ AckMiss(a)
           \/ \E a \in Ackers : AckSend(a)
           \/ /\ UNCHANGED <<outbound, written>>
              /\ \A b \in Ackers : acker'[b].pc = "send" => acker'[b] = acker[b]
           \/ /\ UNCHANGED <<acker, written>>
              /\ \E x \in Item : x.kind # "ACK" /\ outbound' = Append(outbound, x)
           \/ /\ UNCHANGED acker /\ outbound # <<>>
              /\ outbound' = Tail(outbound)
              /\ \A w \in written' : w \in written \/ w.ack = Head(outbound)
<1>1. ASSUME NEW t \in Subs, Owner(t)
      PROVE  /\ UNCHANGED <<acker, written>>
             /\ \/ UNCHANGED outbound
                \/ \E x \in Item : x.kind # "ACK" /\ outbound' = Append(outbound, x)
  <2>1. UNCHANGED <<acker, written>>
    BY <1>1 DEF Owner, SubscribeEnter, SubscribeSend, UnsubscribeRemove,
         UnsubscribeForget, UnsubscribeSend, DropRemove, DropForget, DropSend,
         OwnerGivesUp, brokerVars
  <2>2. /\ Frame("SUBSCRIBE", t) \in Item /\ Frame("SUBSCRIBE", t).kind # "ACK"
        /\ Frame("UNSUBSCRIBE", t) \in Item
        /\ Frame("UNSUBSCRIBE", t).kind # "ACK"
    BY DEF Frame, Item
  <2> QED
    BY <1>1, <2>1, <2>2, OwnerAppends
<1>2. ASSUME NEW a \in Ackers, AckGivenUp(a)
      PROVE  /\ UNCHANGED <<outbound, written>>
             /\ \A b \in Ackers : acker'[b].pc = "send" => acker'[b] = acker[b]
  BY <1>2 DEF AckGivenUp, TypeOK, Idle
<1>3. ASSUME NEW a \in Ackers, NEW d \in held, NEW by \in Naming,
             AckCall(a, d, by)
      PROVE  /\ UNCHANGED <<outbound, written>>
             /\ \A b \in Ackers : acker'[b].pc = "send" => acker'[b] = acker[b]
  BY <1>3 DEF AckCall, TypeOK, Idle, brokerVars
<1>4. CASE WriteOutbound
  <2>1. outbound # <<>> /\ outbound' = Tail(outbound) /\ UNCHANGED acker
    BY <1>4 DEF WriteOutbound, appVars
  <2>2. \A w \in written' : w \in written \/ w.ack = Head(outbound)
    BY WrittenGrows
  <2> QED
    BY <2>1, <2>2
<1>5. CASE SkipStaleAck \/ WriteFails
  BY <1>5 DEF SkipStaleAck, WriteFails, appVars, brokerVars
<1>6. CASE Background /\ ~WriteOutbound /\ ~SkipStaleAck /\ ~WriteFails
           /\ ~ForgetSession
  BY <1>6 DEF Background, ReadMessage,
         PushPending, Sweep, Deliver, FailOverflowed, Abandon, ReapClosed,
         ReapForget, LoseConnection, Reconnect, appVars, brokerVars
<1>7. ASSUME NEW s \in Subs, NEW mid \in Mids, BrokerDelivers(s, mid)
      PROVE  UNCHANGED <<acker, outbound, written>>
  BY <1>7 DEF BrokerDelivers, appVars
<1>8. CASE UNCHANGED vars
  BY <1>8 DEF vars, appVars, brokerVars
<1> QED
  BY <1>1, <1>2, <1>3, <1>4, <1>5, <1>6, <1>7, <1>8 DEF Next, Acknowledge

\* The next state's ACKs, apart by this state's session.
ApartNext ==
    /\ \A a, b \in Sending' : a # b => Apart(acker'[a].item, acker'[b].item)
    /\ \A a \in Sending', x \in ToSet(outbound') : Apart(acker'[a].item, x)
    /\ AllApart(outbound')
    /\ \A w \in written' : \A a \in Sending' : Apart(acker'[a].item, w.ack)
    /\ \A w \in written' : \A x \in ToSet(outbound') : Apart(x, w.ack)

\* No step that keeps the session brings two ACKs of one message together.
LEMMA ApartStep ==
    ASSUME OrderInv, DoneWith, AcksApart, [Next]_vars, ~ForgetSession
    PROVE  ApartNext
<1> USE DEF OrderInv, ItemsInv, TypeInv
<1>0. /\ \A a \in Sending : acker[a].item \in AllAcks
      /\ \A w \in written : w.ack \in AllAcks
      /\ \A x \in ToSet(outbound) : Current(x) => x \in AllAcks
      /\ outbound \in Seq(Item)
  BY InChannel DEF Sending, Current, TypeOK
<1>1. CASE UNCHANGED <<acker, outbound, written>>
  BY <1>1 DEF AcksApart, Sending, ApartNext
<1>2. ASSUME NEW a \in Ackers, AckSettle(a) \/ AckMiss(a)
      PROVE  ApartNext
  <2>1. UNCHANGED <<outbound, written>>
    BY <1>2 DEF AckSettle, AckMiss, brokerVars
  <2>2. \A b \in Sending' : b = a \/ (b \in Sending /\ acker'[b] = acker[b])
    BY <1>2 DEF AckSettle, AckMiss, Sending, TypeOK
  <2>3. ASSUME a \in Sending', NEW x \in AllAcks
        PROVE  Apart(acker'[a].item, x) /\ Apart(x, acker'[a].item)
    <3>1. acker'[a].pc = "send"
      BY <2>3 DEF Sending
    <3> QED
      BY <1>2, <3>1, NewIsApart, ApartIsMutual
  <2>4. ASSUME a \in Sending', NEW x \in ToSet(outbound)
        PROVE  Apart(acker'[a].item, x)
    <3>1. CASE Current(x)
      BY <1>0, <2>3, <2>4, <3>1
    <3>2. CASE ~Current(x)
      BY <3>2 DEF Apart
    <3> QED
      BY <3>1, <3>2
  <2>5. ASSUME NEW b \in Sending', NEW c \in Sending', b # c
        PROVE  Apart(acker'[b].item, acker'[c].item)
    <3>1. CASE b = a
      <4>1. c \in Sending /\ acker'[c] = acker[c]
        BY <2>2, <2>5, <3>1
      <4> QED
        BY <1>0, <2>3, <3>1, <4>1
    <3>2. CASE c = a
      <4>1. b \in Sending /\ acker'[b] = acker[b]
        BY <2>2, <2>5, <3>2
      <4> QED
        BY <1>0, <2>3, <3>2, <4>1
    <3>3. CASE b # a /\ c # a
      BY <2>2, <2>5, <3>3 DEF AcksApart
    <3> QED
      BY <3>1, <3>2, <3>3
  <2>6. ASSUME NEW b \in Sending', NEW x \in ToSet(outbound)
        PROVE  Apart(acker'[b].item, x)
    BY <2>2, <2>4 DEF AcksApart
  <2>7. ASSUME NEW w \in written, NEW b \in Sending'
        PROVE  Apart(acker'[b].item, w.ack)
    BY <1>0, <2>2, <2>3 DEF AcksApart
  <2> QED
    BY <2>1, <2>5, <2>6, <2>7 DEF ApartNext, AcksApart
<1>3. ASSUME NEW a \in Ackers, AckSend(a)
      PROVE  ApartNext
  <2> DEFINE item == acker[a].item
  <2>1. item \in Item /\ outbound' = Append(outbound, item) /\ a \in Sending
        /\ UNCHANGED written
    BY <1>3 DEF AckSend, TypeOK, Calls, Item, Sending, brokerVars
  <2>2. \A b \in Sending' : b # a /\ b \in Sending /\ acker'[b] = acker[b]
    BY <1>3 DEF AckSend, Sending, TypeOK, Idle
  <2>3. ToSet(outbound') = ToSet(outbound) \cup {item}
    BY <2>1, ChannelAppend
  <2>4. \A y \in ToSet(outbound) : Apart(y, item)
    BY <2>1, ApartIsMutual DEF AcksApart
  <2>5. AllApart(outbound')
    BY <1>0, <2>1, <2>4, ApartAppend DEF AcksApart
  <2>6. ASSUME NEW b \in Sending', NEW x \in ToSet(outbound')
        PROVE  Apart(acker'[b].item, x)
    BY <2>1, <2>2, <2>3 DEF AcksApart
  <2>7. ASSUME NEW w \in written, NEW x \in ToSet(outbound')
        PROVE  Apart(x, w.ack)
    BY <2>1, <2>3 DEF AcksApart
  <2>8. \A b, c \in Sending' : b # c => Apart(acker'[b].item, acker'[c].item)
    BY <2>2 DEF AcksApart
  <2>9. \A w \in written : \A b \in Sending' : Apart(acker'[b].item, w.ack)
    BY <2>2 DEF AcksApart
  <2> QED
    BY <2>1, <2>5, <2>6, <2>7, <2>8, <2>9 DEF ApartNext
<1>4. CASE /\ UNCHANGED <<outbound, written>>
           /\ \A b \in Ackers : acker'[b].pc = "send" => acker'[b] = acker[b]
  <2>1. \A b \in Sending' : b \in Sending /\ acker'[b] = acker[b]
    BY <1>4 DEF Sending
  <2> QED
    BY <1>4, <2>1 DEF ApartNext, AcksApart
<1>5. CASE /\ UNCHANGED <<acker, written>>
           /\ \E x \in Item : x.kind # "ACK" /\ outbound' = Append(outbound, x)
  <2>1. PICK x \in Item : x.kind # "ACK" /\ outbound' = Append(outbound, x)
    BY <1>5
  <2>2. \A y : Apart(y, x) /\ Apart(x, y)
    BY <2>1 DEF Apart, Current
  <2>3. ToSet(outbound') = ToSet(outbound) \cup {x}
    BY <2>1, ChannelAppend
  <2>4. AllApart(outbound')
    BY <1>0, <2>1, <2>2, ApartAppend DEF AcksApart
  <2>5. Sending' = Sending
    BY <1>5 DEF Sending
  <2> QED
    BY <1>5, <2>2, <2>3, <2>4, <2>5 DEF ApartNext, AcksApart
<1>6. CASE /\ UNCHANGED acker /\ outbound # <<>>
           /\ outbound' = Tail(outbound)
           /\ \A w \in written' : w \in written \/ w.ack = Head(outbound)
  <2>1. ToSet(outbound) = {Head(outbound)} \cup ToSet(outbound')
    BY <1>6, ChannelTail
  <2>2. /\ AllApart(outbound')
        /\ \A x \in ToSet(outbound') : Apart(x, Head(outbound))
    BY <1>0, <1>6, ApartTail DEF AcksApart
  <2>3. Sending' = Sending
    BY <1>6 DEF Sending
  <2> QED
    BY <1>6, <2>1, <2>2, <2>3 DEF ApartNext, AcksApart
<1> QED
  BY <1>1, <1>2, <1>3, <1>4, <1>5, <1>6, ApartSteps

\* A session that begins has no ACKs, and the other steps keep them apart.
LEMMA StepAcksApart ==
    ASSUME OrderInv, DoneWith, AcksApart, [Next]_vars
    PROVE  AcksApart'
<1> USE DEF OrderInv, ItemsInv, TypeInv
<1>1. CASE ForgetSession
  <2>1. UNCHANGED <<acker, outbound, written>>
    BY <1>1 DEF ForgetSession, appVars
  <2>2. \A x \in AllAcks : ~Current(x)'
    BY <1>1, NoneCurrent
  <2>3. \A x, y : ~Current(x)' => Apart(x, y)' /\ Apart(y, x)'
    BY DEF Apart
  <2>4. \A a \in Sending' : acker'[a].item \in AllAcks
    BY <2>1, InChannel DEF Sending
  <2>5. ASSUME NEW x \in ToSet(outbound') PROVE ~Current(x)'
    <3>1. x.kind = "ACK" => x \in AllAcks
      BY <2>1, InChannel
    <3> QED
      BY <2>2, <3>1 DEF Current
  <2>6. \A i \in DOMAIN outbound' : outbound'[i] \in ToSet(outbound')
    BY InRange, ToSetIsRange
  <2>7. \A i \in DOMAIN outbound' : \A x : x = outbound'[i] => ~Current(x)'
    BY <2>5, <2>6
  <2>8. \A a \in Sending' : \A x, y : x = acker'[a].item => Apart(x, y)'
    BY <2>2, <2>3, <2>4
  <2>9. AllApart(outbound)'
    BY <2>3, <2>7 DEF AllApart
  <2> QED
    BY <2>3, <2>5, <2>8, <2>9 DEF AcksApart
<1>2. CASE ~ForgetSession
  <2>1. session' = session
    BY <1>2, Clock
  <2>2. \A x, y : Apart(x, y) => Apart(x, y)'
    BY <2>1 DEF Apart, Current
  <2>3. ApartNext
    BY <1>2, ApartStep
  <2> QED
    BY <2>2, <2>3 DEF ApartNext, AcksApart, AllApart
<1> QED
  BY <1>1, <1>2

\* What an ACK settles, that ACK explains.
LEMMA StepExplained ==
    ASSUME OrderInv, Explained, [Next]_vars
    PROVE  Explained'
<1> USE DEF OrderInv, ItemsInv, TypeInv
<1> SUFFICES ASSUME io'.pc # "down", NEW s \in Subs,
                    NEW m \in Range(sent'[s]), m \in settled'[s]
             PROVE  \E w \in written' : Explains(w, s, m)'
  BY DEF Explained
<1>1. ~Reconnect
  <2>1. ASSUME Reconnect PROVE FALSE
    <3>1. sent'[s] = <<>>
      BY <2>1 DEF Reconnect
    <3> QED
      BY <3>1, EmptyQueue
  <2> QED
    BY <2>1
<1>2. io.pc # "down" /\ ~ForgetSession
  BY <1>1, DownWaits DEF ForgetSession
<1>3. session' = session
  BY <1>1, <1>2, Clock
<1>4. written \subseteq written'
  BY WrittenStays
<1>5. CASE m \in settled[s]
  <2>1. m \in Range(sent[s])
    <3>1. ASSUME NEW t \in Subs, NEW mid \in Mids, BrokerDelivers(t, mid)
          PROVE  m \in Range(sent[s])
      <4>1. t = s => m # mid
        BY <1>5, <3>1, SentGrows
      <4> QED
        BY <3>1, <4>1, SentGrows
    <3> QED
      BY <1>1, <3>1, SentSteps
  <2>2. PICK w \in written : Explains(w, s, m)
    BY <1>2, <1>5, <2>1 DEF Explained
  <2>3. Explains(w, s, m)'
    BY <1>1, <1>3, <2>2, UpToGrows DEF Explains
  <2> QED
    BY <1>4, <2>3
<1>6. CASE m \notin settled[s]
  <2> DEFINE item == Head(outbound)
  <2>1. /\ WriteOutbound /\ UNCHANGED sent /\ item.kind = "ACK"
        /\ item.sub \in Subs
        /\ \A t \in Subs : settled'[t] = settled[t] \cup
                               (IF t = item.sub THEN Settles(item) ELSE {})
    BY <1>6, SettledSteps
  <2>2. item.sub = s /\ m \in Settles(item)
    BY <1>6, <2>1
  <2>3. Named(item) # {}
    BY <2>2 DEF Settles
  <2> DEFINE v == [ack |-> item, on |-> session, hit |-> Named(item) # {}]
  <2>4. v \in written'
    BY <2>1 DEF WriteOutbound, BrokerTakes
  <2>5. PICK w : w = v
    OBVIOUS
  <2>6. w \in written' /\ w.hit /\ w.on = session /\ w.ack = item
    BY <2>3, <2>4, <2>5
  <2> HIDE DEF v, item
  <2>7. IF Mode[s] = "client" THEN m \in UpTo(s, w.ack.id.mid)
        ELSE m = w.ack.id.mid
    BY <2>2, <2>3, <2>6 DEF Settles, Named, Matches
  <2>8. UpTo(s, w.ack.id.mid)' = UpTo(s, w.ack.id.mid)
    BY <2>1 DEF UpTo
  <2>9. Explains(w, s, m)'
    BY <1>3, <2>2, <2>6, <2>7, <2>8 DEF Explains
  <2> QED
    BY <2>6, <2>9
<1> QED
  BY <1>5, <1>6

\* An ACK that misses was covered by another.
LEMMA StepNoStray ==
    ASSUME StrayInv, [Next]_vars
    PROVE  NoStrayAck'
<1> USE DEF StrayInv, OrderInv, ItemsInv, TypeInv
<1> SUFFICES ASSUME NEW w \in written', InClientMode(w.ack.managed),
                    w.ack.sub \in registry', w.on = session', ~w.hit
             PROVE  Overtaken(w)'
  BY DEF NoStrayAck
<1>0. \A x \in written : x.ack \in AckItem /\ ItemOK(x.ack)
  BY InChannel, FollowedTypes
<1>1. CASE w \in written
  <2>1. w.ack.sub \in Subs /\ w.ack.sub \in Known
    BY <1>0, <1>1 DEF ItemOK, CallOK, CopyOK, AckItem
  <2>2. w.ack.sub \in registry
    BY <2>1, Entering
  <2>3. w.on = session /\ io.pc # "down" /\ session' = session
    <3>1. session \in Int /\ w.on \in Int
      BY <1>1 DEF TypeOK, Sessions
    <3> QED
      BY <1>1, <3>1, Clock DEF WrittenInTime
  <2>4. ~Reconnect
    BY <2>3 DEF Reconnect
  <2>5. Overtaken(w)
    BY <1>1, <2>2, <2>3 DEF NoStrayAck
  <2>6. PICK v \in written :
           /\ v.hit /\ v.on = w.on /\ v.ack.sub = w.ack.sub
           /\ w.ack.id.mid \in UpTo(w.ack.sub, v.ack.id.mid)
           /\ w.ack.id.mid # v.ack.id.mid
    BY <2>5 DEF Overtaken
  <2>7. w.ack.id.mid \in UpTo(w.ack.sub, v.ack.id.mid)'
    BY <2>1, <2>4, <2>6, UpToGrows
  <2>8. v \in written'
    BY <2>6, WrittenStays
  <2> QED
    BY <2>5, <2>6, <2>7, <2>8 DEF Overtaken
<1>2. CASE w \notin written
  <2>a. PICK item : item = Head(outbound)
    OBVIOUS
  <2>b. PICK s, m : s = item.sub /\ m = item.id.mid
    OBVIOUS
  <2>1. /\ WriteOutbound /\ outbound # <<>> /\ item.kind = "ACK"
        /\ item \in ToSet(outbound)
        /\ w = [ack |-> item, on |-> session, hit |-> Named(item) # {}]
    BY <1>2, <2>a, WrittenGrows
  <2>2. item \in AllAcks /\ item \in AckItem /\ ItemOK(item)
    BY <2>1, InChannel, FollowedTypes
  <2>3. io = Select /\ WritableIn(item, session)
        /\ UNCHANGED <<session, registry, sent>>
    BY <2>1, <2>a DEF WriteOutbound
  <2>4. InClientMode(item.managed) /\ s \in registry /\ Named(item) = {}
        /\ w.ack = item /\ w.on = session
    BY <2>1, <2>3, <2>b
  <2>5. item.id.by = "ack" /\ item.id.sess = session
    BY <2>1, <2>2, <2>3, <2>4
       DEF ItemOK, WritableIn, AckItem, Name, Sessions, NoSession
  <2>6. Current(item)
    BY <2>1, <2>4, <2>5 DEF Current
  <2>7. s \in Subs /\ m \in Range(sent[s]) /\ m \in Mids
    BY <2>2, <2>6, <2>b, CurrentIsSent
  <2>8. m \in settled[s]
    BY <2>4, <2>5, <2>7, <2>b, InRange DEF Named, Outstanding, Matches
  <2>9. PICK v \in written : Explains(v, s, m)
    BY <2>3, <2>7, <2>8 DEF Explained, Select
  <2>10. v.hit /\ v.on = session /\ v.ack.sub = s
    BY <2>9 DEF Explains
  <2>11. InClientMode(v.ack.managed) /\ v.ack.managed = Mode[s]
         /\ item.managed = Mode[s]
    BY <1>0, <2>2, <2>4, <2>10, <2>b
       DEF ItemOK, CallOK, ModeOK, InClientMode, Unmanaged
  <2>12. Current(v.ack)
    BY <1>0, <2>10, <2>11 DEF AcksNameThisSession, Current, AckItem
  <2>13. v.ack.id.mid # m
    BY <2>1, <2>6, <2>10, <2>12, <2>b DEF AcksApart, Apart
  <2>14. Mode[s] = "client" /\ m \in UpTo(s, v.ack.id.mid)
    BY <2>9, <2>13 DEF Explains
  <2>15. m \in UpTo(s, v.ack.id.mid)'
    BY <2>3, <2>14 DEF UpTo
  <2>16. v \in written'
    BY <2>1 DEF WriteOutbound, BrokerTakes
  <2> QED
    BY <2>4, <2>10, <2>13, <2>14, <2>15, <2>16, <2>b DEF Overtaken
<1> QED
  BY <1>1, <1>2

\* StrayInv is inductive.
LEMMA StepStray ==
    StrayInv /\ [Next]_vars => StrayInv'
<1> SUFFICES ASSUME StrayInv, [Next]_vars PROVE StrayInv'
  OBVIOUS
<1>1. OrderInv' /\ DoneWith' /\ AcksApart' /\ Explained'
  BY StepOrder, StepDoneWith, StepAcksApart, StepExplained DEF StrayInv
<1>2. NoStrayAck'
  BY StepNoStray
<1>3. AcksWellFormed' /\ AcksNameThisSession'
  BY StepSession
     DEF StrayInv, OrderInv, ItemsInv, TypeInv, SessionInv
<1> QED
  BY <1>1, <1>2, <1>3 DEF StrayInv

LEMMA InitStray ==
    Init => StrayInv
<1> SUFFICES ASSUME Init PROVE StrayInv
  OBVIOUS
<1>1. OrderInv /\ AcksWellFormed /\ AcksNameThisSession
  BY InitOrder, InitSession
<1>2. outbound = <<>> /\ written = {} /\ lapsed = {} /\ Sending = {}
      /\ \A s \in Subs : sent[s] = <<>>
  BY DEF Init, Sending, Idle
<1>3. ToSet(outbound) = {} /\ \A x : x \notin AllAcks
  BY <1>2, EmptyQueue DEF AllAcks, OnItsWay, Sending, ToSet, Range
<1>4. \A s \in Subs : Range(sent[s]) = {}
  BY <1>2, EmptyQueue
<1>5. AllApart(outbound)
  BY <1>2 DEF AllApart
<1> QED
  BY <1>1, <1>2, <1>3, <1>4, <1>5
     DEF StrayInv, DoneWith, AcksApart, Explained, NoStrayAck

(***************************************************************************)
(* An ACK that reaches the broker over the connection it was made for, for *)
(* a subscription that is still in the registry, is one the broker still   *)
(* waits for, or one whose delivery another cumulative ACK of the same     *)
(* connection has covered: nothing is acknowledged twice.                  *)
(***************************************************************************)
THEOREM AcksFindTheirMessage ==
    Spec => []NoStrayAck
<1>1. StrayInv => NoStrayAck
  BY DEF StrayInv
<1> QED
  BY <1>1, InitStray, StepStray, PTL DEF Spec
=============================================================================
