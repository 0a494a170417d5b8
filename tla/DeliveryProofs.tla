--------------------------- MODULE DeliveryProofs ---------------------------
(***************************************************************************)
(* Theorems about Delivery, for any subscriptions, capacities, limits and  *)
(* bounds.  One inductive invariant, Inv, serves the safety properties: it *)
(* says what the registry lock protects (the subscriptions a pass is       *)
(* working on stay registered), what an entry that is gone leaves behind,  *)
(* and how far behind a consumer can be at each stage of a pass.  With     *)
(* Numbered, that all a subscription holds is older than what it is still  *)
(* to be offered, it shows that Delivery implements Mailbox.               *)
(***************************************************************************)
EXTENDS Delivery, SequenceTheorems, TLAPS

----------------------------------------------------------------------------
\* What the proofs need of two sequences used as one queue, as elements are
\* appended, taken from the front and moved from the one to the other.

\* What a queue is after its first frame is taken.
LEMMA TailShape ==
    ASSUME NEW S, NEW s \in Seq(S), s # <<>>
    PROVE  /\ Head(s) \in S /\ Tail(s) \in Seq(S)
           /\ Len(s) \in Nat \ {0}
           /\ Len(Tail(s)) = Len(s) - 1
           /\ DOMAIN s = 1..Len(s)
           /\ DOMAIN Tail(s) = 1..(Len(s) - 1)
           /\ Head(s) = s[1]
           /\ \A i \in 1..(Len(s) - 1) : Tail(s)[i] = s[i + 1]
<1>1. Len(s) \in Nat \ {0} /\ DOMAIN s = 1..Len(s)
  BY EmptySeq, LenProperties
<1>2. /\ Head(s) \in S /\ Tail(s) \in Seq(S) /\ Len(Tail(s)) = Len(s) - 1
      /\ \A i \in 1..Len(Tail(s)) : Tail(s)[i] = s[i + 1]
  BY HeadTailProperties
<1>3. DOMAIN Tail(s) = 1..Len(Tail(s))
  BY <1>2, LenProperties
<1>4. Head(s) = s[1]
  BY <1>1
<1> QED
  BY <1>1, <1>2, <1>3, <1>4

\* A queue is its first frame, and the others behind it.
LEMMA HeadAndTail ==
    ASSUME NEW S, NEW s \in Seq(S), s # <<>>
    PROVE  /\ <<Head(s)>> \in Seq(S) /\ Tail(s) \in Seq(S)
           /\ s = <<Head(s)>> \o Tail(s)
<1> DEFINE h == <<Head(s)>>
           t == h \o Tail(s)
<1>1. /\ Head(s) \in S /\ Tail(s) \in Seq(S) /\ Len(s) \in Nat \ {0}
      /\ Len(Tail(s)) = Len(s) - 1 /\ Head(s) = s[1]
      /\ \A i \in 1..(Len(s) - 1) : Tail(s)[i] = s[i + 1]
  BY TailShape
<1>2. h \in Seq(S) /\ Len(h) = 1 /\ h[1] = Head(s)
  BY <1>1
<1>3. /\ t \in Seq(S) /\ Len(t) = 1 + (Len(s) - 1)
      /\ \A i \in 1..(1 + (Len(s) - 1)) :
             t[i] = IF i <= 1 THEN h[i] ELSE Tail(s)[i - 1]
  BY <1>1, <1>2, ConcatProperties
<1> HIDE DEF h, t
<1>4. ASSUME NEW i \in 1..Len(s) PROVE s[i] = t[i]
  <2>1. CASE i = 1
    BY <1>1, <1>2, <1>3, <2>1
  <2>2. CASE i # 1
    <3>1. i - 1 \in 1..(Len(s) - 1) /\ (i - 1) + 1 = i /\ ~(i <= 1)
          /\ i \in 1..(1 + (Len(s) - 1))
      BY <1>1, <2>2
    <3> QED
      BY <1>1, <1>3, <3>1
  <2> QED
    BY <2>1, <2>2
<1>5. Len(s) = Len(t)
  BY <1>1, <1>3
<1>6. s = t
  BY <1>3, <1>4, <1>5, SeqEqual
<1> QED
  BY <1>1, <1>2, <1>6 DEF h, t

\* Taking from the front one takes from the whole, ...
LEMMA TakeFromFront ==
    ASSUME NEW S, NEW a \in Seq(S), NEW b \in Seq(S), a # <<>>
    PROVE  /\ a \o b # <<>> /\ Head(a \o b) = Head(a)
           /\ Tail(a \o b) = Tail(a) \o b
<1>1. a = <<Head(a)>> \o Tail(a)
      /\ Tail(a) \in Seq(S) /\ <<Head(a)>> \in Seq(S)
  BY HeadAndTail
<1>2. Head(a) \in S
  BY TailShape
<1>3. a \o b = <<Head(a)>> \o (Tail(a) \o b)
  BY <1>1, ConcatAssociative
<1> DEFINE u == Tail(a) \o b
           w == <<Head(a)>> \o u
<1>4. u \in Seq(S) /\ Len(u) \in Nat
  BY <1>1, ConcatProperties, LenProperties
<1>5. Head(w) = Head(a) /\ Tail(w) = u /\ w # <<>>
  <2>1. /\ w \in Seq(S) /\ Len(w) = 1 + Len(u)
        /\ \A i \in 1..(1 + Len(u)) :
               w[i] = IF i <= 1 THEN <<Head(a)>>[i] ELSE u[i - 1]
    <3>1. Len(<<Head(a)>>) = 1
      OBVIOUS
    <3> HIDE DEF u
    <3> QED
      BY <1>1, <1>4, <3>1, ConcatProperties
  <2> HIDE DEF u, w
  <2>2. w # <<>>
    BY <1>4, <2>1
  <2>3. /\ Tail(w) \in Seq(S) /\ Len(Tail(w)) = Len(w) - 1 /\ Head(w) = w[1]
        /\ \A i \in 1..(Len(w) - 1) : Tail(w)[i] = w[i + 1]
    BY <2>1, <2>2, TailShape
  <2>4. Head(w) = Head(a)
    BY <1>4, <2>1, <2>3
  <2>5. Len(Tail(w)) = Len(u)
    BY <1>4, <2>1, <2>3
  <2>6. ASSUME NEW i \in 1..Len(u) PROVE Tail(w)[i] = u[i]
    <3>1. i \in 1..(Len(w) - 1) /\ i + 1 \in 1..(1 + Len(u)) /\ ~(i + 1 <= 1)
          /\ (i + 1) - 1 = i
      BY <1>4, <2>1
    <3> QED
      BY <2>1, <2>3, <3>1
  <2>7. Tail(w) = u
    BY <1>4, <2>3, <2>5, <2>6, SeqEqual
  <2> QED
    BY <2>2, <2>4, <2>7
<1> QED
  BY <1>3, <1>5

\* ... moving the head of the one behind to the tail of the front one leaves
\* the whole as it is, ...
LEMMA MoveBetween ==
    ASSUME NEW S, NEW a \in Seq(S), NEW b \in Seq(S), b # <<>>
    PROVE  Append(a, Head(b)) \o Tail(b) = a \o b
<1>1. b = <<Head(b)>> \o Tail(b)
      /\ Tail(b) \in Seq(S) /\ <<Head(b)>> \in Seq(S)
  BY HeadAndTail
<1>2. Head(b) \in S
  BY TailShape
<1>3. Append(a, Head(b)) = a \o <<Head(b)>>
  BY <1>2, AppendIsConcat
<1>4. (a \o <<Head(b)>>) \o Tail(b) = a \o (<<Head(b)>> \o Tail(b))
  BY <1>1, ConcatAssociative
<1> QED
  BY <1>1, <1>3, <1>4

\* ... appending to the one behind appends to the whole, ...
LEMMA AppendBehind ==
    ASSUME NEW S, NEW a \in Seq(S), NEW b \in Seq(S), NEW x \in S
    PROVE  a \o Append(b, x) = Append(a \o b, x)
<1>1. Append(b, x) = b \o <<x>> /\ <<x>> \in Seq(S)
  BY AppendIsConcat
<1>2. a \o b \in Seq(S)
  BY ConcatProperties
<1>3. Append(a \o b, x) = (a \o b) \o <<x>>
  BY <1>2, AppendIsConcat
<1> QED
  BY <1>1, <1>3, ConcatAssociative

\* ... and the front one alone is what is left of the whole, cut short.
LEMMA FrontIsCut ==
    ASSUME NEW S, NEW a \in Seq(S), NEW b \in Seq(S)
    PROVE  /\ Len(a) \in 0..Len(a \o b)
           /\ a = SubSeq(a \o b, 1, Len(a))
<1>1. /\ a \o b \in Seq(S) /\ Len(a) \in Nat /\ Len(b) \in Nat
      /\ Len(a \o b) = Len(a) + Len(b)
  BY ConcatProperties, LenProperties
<1>2. Len(a) \in 0..Len(a \o b)
  BY <1>1
<1>3. CASE a = <<>>
  <2>1. Len(a) = 0
    BY <1>3
  <2>2. SubSeq(a \o b, 1, 0) = <<>>
    BY SubSeqEmpty
  <2> QED
    BY <1>2, <1>3, <2>1, <2>2
<1>4. CASE a # <<>>
  <2>1. 1 \in 1..Len(a) /\ Len(a) \in 1..Len(a)
    BY <1>1, <1>4, EmptySeq
  <2>2. SubSeq(a \o b, 1, Len(a)) = SubSeq(a, 1, Len(a))
    BY <2>1, SubSeqOfConcat1
  <2>3. SubSeq(a, 1, Len(a)) = a
    BY SubSeqFull
  <2> QED
    BY <1>2, <2>2, <2>3
<1> QED
  BY <1>3, <1>4

----------------------------------------------------------------------------
InPass == io.pc \in {"pass", "drain", "offer", "park", "evict"}
OnOne == io.pc \in {"drain", "offer", "park", "evict"}

\* Its reason is given and its entry about to go: an end between its halves.
Going(s) ==
    \/ s \in leaving
    \/ io.pc = "evict" /\ s = io.sub
    \/ io.pc = "end" /\ s \in io.gone

\* The lock keeps a pass's subscriptions registered; each is offered once, and
\* there is a MESSAGE to offer.
PassRegistered ==
    /\ InPass => count \in 1..MaxMsg
    /\ InPass => io.todo \subseteq registry
    /\ OnOne => io.sub \in registry /\ io.sub \notin io.todo
    /\ io.pc = "offer" => over[io.sub] = <<>>

\* An id is registered once: whatever happened to it, it is not new.
NewIsFresh ==
    \A s \in Subs :
        /\ reader[s] \in {"new", "done"} => s \notin registry
        /\ (InPass \/ io.pc = "fail") /\ s \in io.failed =>
               s \notin registry /\ reader[s] # "new"
        /\ ended[s] # "none" => reader[s] # "new"

\* An end has both its halves under the lock, the reason first: only between
\* the two does a registered subscription have its reason.
EndsUnderLock ==
    /\ leaving # {} => ~TaskHasLock
    /\ \A s \in Subs : Going(s) <=> s \in registry /\ ended[s] # "none"

\* Only an entry has anything parked, and it is on the wake list then.
ParkedIsListed ==
    \A s \in Subs :
        over[s] # <<>> =>
            s \in registry /\ (io.pc \notin {"done", "exited"} => s \in wake)

\* A stream without an entry has its reason, unless its reader left.
GoneHasReason ==
    \A s \in Subs :
        s \in registry \/ reader[s] \in {"new", "gone"} \/ ended[s] # "none"

\* What waits for a consumer during a pass was waiting when it began.
BacklogBounds ==
    /\ \A s \in Subs : backlog[s] <= Cap + Limit
    /\ io.pc = "pass" =>
           \A s \in io.todo : Len(chan[s]) + Len(over[s]) <= backlog[s]
    /\ OnOne => \A s \in io.todo : Len(chan[s]) + Len(over[s]) <= backlog[s]
    /\ io.pc \in {"drain", "offer"} =>
           Len(chan[io.sub]) + Len(over[io.sub]) <= backlog[io.sub]
    /\ io.pc = "park" => Cap + Len(over[io.sub]) <= backlog[io.sub]

Inv == /\ TypeOK /\ PassRegistered /\ NewIsFresh /\ EndsUnderLock
       /\ ParkedIsListed /\ GoneHasReason /\ BacklogBounds /\ FailsOnlyWhenFull

DropsLeft == io.pc = "lost" => drops < MaxDrops

AllInv == Inv /\ DropsLeft

\* The invariant holds at the start.
LEMMA InitInv == Init => AllInv
BY ConstantsAssumption
   DEF Init, AllInv, Inv, DropsLeft, TypeOK, PassRegistered, NewIsFresh,
       EndsUnderLock, Going, TaskHasLock, ParkedIsListed, GoneHasReason,
       BacklogBounds, FailsOnlyWhenFull, At, Tasks, Carrying, Frames, InPass, OnOne

\* What ending and removing entries does, one subscription at a time.
EndsOnly(gone, why) ==
    /\ ended' \in [Subs -> Reasons \cup {"none"}]
    /\ \A s \in Subs :
          /\ s \in gone => ended'[s] = why \/ ended'[s] = ended[s]
          /\ s \in gone => ended'[s] # "none"
          /\ s \notin gone => ended'[s] = ended[s]

RemovesOnly(gone) ==
    /\ registry' = registry \ gone
    /\ registry' \in SUBSET Subs
    /\ over' \in [Subs -> Seq(Frames)]
    /\ \A s \in Subs :
          /\ s \in gone => over'[s] = <<>>
          /\ s \notin gone => over'[s] = over[s]
          /\ Len(over'[s]) <= Len(over[s])
          /\ Len(over'[s]) <= Limit

\* End gives each subscription of the set a reason, and no other one.
LEMMA EndEndsOnly ==
    ASSUME TypeOK, NEW STATE gone, NEW why \in Reasons, ended' = End(gone, why)
    PROVE  EndsOnly(gone, why)
BY DEF End, TypeOK, EndsOnly, Reasons

\* Remove takes the ended from every map that names them.
LEMMA RemoveRemovesOnly ==
    ASSUME TypeOK, ConstantsAssumption, NEW STATE gone, Remove(gone)
    PROVE  RemovesOnly(gone)
BY ConstantsAssumption DEF Remove, TypeOK, RemovesOnly

\* The first half of an end gives reasons, and the second removes entries.
LEMMA FirstHalf ==
    ASSUME TypeOK, NEW STATE gone, NEW why \in Reasons, EndHalf(1, gone, why)
    PROVE  EndsOnly(gone, why) /\ UNCHANGED <<registry, over>>
<1>1. Tell(gone, why)
  BY DEF EndHalf
<1> QED
  BY <1>1, EndEndsOnly DEF Tell

\* The second half gives no reason.
LEMMA SecondHalf ==
    ASSUME TypeOK, NEW STATE gone, NEW STATE why, EndHalf(2, gone, why)
    PROVE  RemovesOnly(gone) /\ UNCHANGED ended
<1>1. Drop(gone)
  BY DEF EndHalf
<1> QED
  BY <1>1, RemoveRemovesOnly, ConstantsAssumption DEF Drop

\* The steps of the application keep the types.
LEMMA ApplicationType ==
    ASSUME TypeOK, NEW s \in Subs, Application(s)
    PROVE  TypeOK'
<1> USE ConstantsAssumption
<1>1. CASE SubscribeEnter(s)
  BY <1>1 DEF SubscribeEnter, TypeOK
<1>2. CASE SubscribeSend(s)
  BY <1>2 DEF SubscribeSend, TypeOK
<1>3. CASE Read(s)
  <2>1. /\ Tail(chan[s]) \in Seq(Frames) /\ Len(Tail(chan[s])) = Len(chan[s]) - 1
        /\ Append(got[s], Head(chan[s])) \in Seq(Frames)
    BY <1>3, HeadTailProperties, AppendProperties DEF Read, TypeOK
  <2> QED
    BY <1>3, <2>1 DEF Read, TypeOK
<1>4. CASE ReadEnd(s)
  BY <1>4 DEF ReadEnd, TypeOK
<1>5. CASE Unsubscribe(s) \/ DropHandle(s)
  <2>1. PICK next \in {"open", "dropping"} : BeginLeaving(s, next)
    BY <1>5 DEF Unsubscribe, DropHandle
  <2>2. EndsOnly({s}, "unsubscribed") /\ UNCHANGED <<registry, over>>
    BY <2>1, FirstHalf DEF BeginLeaving, Reasons
  <2>3. reader' \in [Subs -> {"new", "entered", "open", "dropping", "done",
                              "gone"}]
    BY <2>1 DEF BeginLeaving, TypeOK
  <2> QED
    BY <2>1, <2>2, <2>3 DEF BeginLeaving, TypeOK, EndsOnly
<1>6. CASE FinishLeaving(s)
  <2>1. RemovesOnly({s}) /\ UNCHANGED ended
    BY <1>6, SecondHalf DEF FinishLeaving
  <2>2. \/ UNCHANGED <<reader, chan>>
        \/ /\ reader' = [reader EXCEPT ![s] = "gone"]
           /\ chan' = [chan EXCEPT ![s] = <<>>]
    BY <1>6 DEF FinishLeaving
  <2>3. /\ chan' \in [Subs -> Seq(Frames)]
        /\ \A t \in Subs : Len(chan'[t]) <= Cap
    <3>1. CASE UNCHANGED chan
      BY <3>1 DEF TypeOK
    <3>2. CASE chan' = [chan EXCEPT ![s] = <<>>]
      BY <3>2 DEF TypeOK
    <3> QED
      BY <2>2, <3>1, <3>2
  <2>4. reader' \in [Subs -> {"new", "entered", "open", "dropping", "done",
                              "gone"}]
    BY <2>2 DEF TypeOK
  <2>5. /\ leaving' \in SUBSET Subs
        /\ UNCHANGED <<wake, overflowed, io, count, drops, got, backlog>>
    BY <1>6 DEF FinishLeaving, TypeOK
  <2> QED
    BY <2>1, <2>3, <2>4, <2>5 DEF TypeOK, RemovesOnly
<1>7. CASE SubscribeGivenUp(s) \/ DropReceiver(s)
  <2>1. /\ reader' = [reader EXCEPT ![s] = "gone"]
        /\ chan' = [chan EXCEPT ![s] = <<>>]
        /\ UNCHANGED <<registry, over, wake, leaving, ended, overflowed, io,
                       count, drops, got, backlog>>
    BY <1>7 DEF SubscribeGivenUp, DropReceiver
  <2> QED
    BY <2>1 DEF TypeOK
<1> QED
  BY <1>1, <1>2, <1>3, <1>4, <1>5, <1>6, <1>7 DEF Application

\* What holds apart from the lengths of queues.
Others == /\ PassRegistered /\ NewIsFresh /\ ParkedIsListed /\ GoneHasReason
          /\ FailsOnlyWhenFull /\ DropsLeft

\* A sum bounded by a larger one.
LEMMA SumMonotone ==
    \A a, b, c, d, e \in Nat : a <= c /\ b <= d /\ c + d <= e => a + b <= e
OBVIOUS

\* A consumer that catches up only loosens the bounds on its backlog.
LEMMA CatchingUp ==
    ASSUME TypeOK, TypeOK', PassRegistered, BacklogBounds, UNCHANGED <<io, backlog>>,
           \A s \in Subs : Len(chan'[s]) <= Len(chan[s])
                          /\ Len(over'[s]) <= Len(over[s])
    PROVE  BacklogBounds'
<1>1. \A s \in Subs : Len(chan[s]) \in Nat /\ Len(over[s]) \in Nat
                      /\ Len(chan'[s]) \in Nat /\ Len(over'[s]) \in Nat
                      /\ backlog[s] \in Nat
  BY DEF TypeOK
<1>2. ASSUME NEW STATE s, s \in Subs, Len(chan[s]) + Len(over[s]) <= backlog[s]
      PROVE  Len(chan'[s]) + Len(over'[s]) <= backlog[s]
  <2>1. /\ Len(chan'[s]) <= Len(chan[s]) /\ Len(over'[s]) <= Len(over[s])
        /\ Len(chan[s]) \in Nat /\ Len(over[s]) \in Nat
        /\ Len(chan'[s]) \in Nat /\ Len(over'[s]) \in Nat /\ backlog[s] \in Nat
    BY <1>1, <1>2
  <2> QED
    BY <1>2, <2>1, SumMonotone
<1>3. ASSUME NEW s \in io.todo, io.pc = "pass" \/ OnOne
      PROVE  Len(chan'[s]) + Len(over'[s]) <= backlog[s]
  <2>1. s \in Subs
    BY <1>3 DEF PassRegistered, InPass, OnOne, TypeOK
  <2> QED
    BY <1>2, <1>3, <2>1 DEF BacklogBounds
<1>4. OnOne => io.sub \in Subs
  BY DEF PassRegistered, TypeOK
<1>5. io.pc \in {"drain", "offer"} =>
         Len(chan'[io.sub]) + Len(over'[io.sub]) <= backlog[io.sub]
  BY <1>2, <1>4 DEF BacklogBounds, OnOne
<1>6. ASSUME io.pc = "park"
      PROVE  Cap + Len(over'[io.sub]) <= backlog[io.sub]
  <2>1. io.sub \in Subs /\ Cap + Len(over[io.sub]) <= backlog[io.sub]
    BY <1>4, <1>6 DEF BacklogBounds, OnOne
  <2> QED
    BY <1>1, <2>1, ConstantsAssumption
<1> QED
  BY <1>3, <1>5, <1>6 DEF BacklogBounds, OnOne

\* Nobody has the lock, so no end is between its halves.
LEMMA NoneGoing ==
    ASSUME AllInv, ~Locked
    PROVE  /\ \A s \in Subs : ~Going(s)
           /\ \A s \in registry : ended[s] = "none"
<1>1. \A s \in Subs : ~Going(s)
  BY DEF Locked, TaskHasLock, Going
<1> QED
  BY <1>1 DEF AllInv, Inv, TypeOK, EndsUnderLock

\* Reasons are given while the registry is not locked.
LEMMA GetsReason ==
    ASSUME TypeOK, Others, ~Locked, NEW STATE gone, NEW why,
           why # "overflowed",
           EndsOnly(gone, why), gone \subseteq registry,
           UNCHANGED <<registry, over, wake, count, backlog, drops>>,
           (UNCHANGED io) \/ io'.pc = "end",
           io'.pc = "end" => io.pc \in {"select", "ending"},
           \A s \in Subs : reader'[s] = reader[s]
                          \/ (reader[s] = "open" /\ reader'[s] = "dropping")
    PROVE  Others'
<1> USE DEF Others, EndsOnly
<1>1. PassRegistered'
  BY DEF PassRegistered, InPass, OnOne, Locked, TaskHasLock
<1>2. NewIsFresh'
  BY DEF NewIsFresh, InPass, Locked, TaskHasLock
<1>3. ParkedIsListed'
  BY DEF ParkedIsListed
<1>4. GoneHasReason'
  BY DEF GoneHasReason
<1>5. FailsOnlyWhenFull'
  BY DEF FailsOnlyWhenFull
<1>6. DropsLeft'
  BY DEF DropsLeft
<1> QED
  BY <1>1, <1>2, <1>3, <1>4, <1>5, <1>6

\* Entries go that have their reason, outside a pass.
LEMMA LosesEntry ==
    ASSUME TypeOK, Others, NEW STATE gone,
           \A s \in Subs : s \in gone => ended[s] # "none",
           RemovesOnly(gone),
           UNCHANGED <<ended, wake, count, backlog, drops>>,
           \/ ~TaskHasLock /\ (UNCHANGED io)
           \/ io.pc = "end" /\ io'.pc \in {"top", "done"},
           \A s \in Subs : reader'[s] = reader[s] \/ reader'[s] = "gone"
    PROVE  Others'
<1> USE DEF Others, RemovesOnly
<1>1. PassRegistered'
  BY DEF PassRegistered, InPass, OnOne, TaskHasLock
<1>2. NewIsFresh'
  BY DEF NewIsFresh, InPass, TaskHasLock
<1>3. ParkedIsListed'
  BY DEF ParkedIsListed
<1>4. GoneHasReason'
  BY DEF GoneHasReason
<1>5. FailsOnlyWhenFull'
  BY DEF FailsOnlyWhenFull
<1>6. DropsLeft'
  BY DEF DropsLeft
<1> QED
  BY <1>1, <1>2, <1>3, <1>4, <1>5, <1>6

\* The steps of the application keep the invariant.
LEMMA ApplicationInv ==
    ASSUME AllInv, TypeOK', NEW s \in Subs, Application(s)
    PROVE  Others' /\ BacklogBounds'
<1>1. TypeOK /\ Others /\ BacklogBounds /\ PassRegistered
  BY DEF AllInv, Inv, Others
<1>2. \A t \in Subs : Len(chan'[t]) <= Len(chan[t]) /\ Len(over'[t]) <= Len(over[t])
  <2>1. CASE Read(s)
    BY <1>1, <2>1, HeadTailProperties DEF Read, TypeOK
  <2>2. CASE FinishLeaving(s)
    <3>1. \A t \in Subs : Len(chan'[t]) <= Len(chan[t])
      <4>1. CASE UNCHANGED chan
        BY <1>1, <4>1 DEF TypeOK
      <4>2. CASE chan' = [chan EXCEPT ![s] = <<>>]
        BY <1>1, <4>2 DEF TypeOK
      <4> QED
        BY <2>2, <4>1, <4>2 DEF FinishLeaving
    <3>2. RemovesOnly({s})
      BY <1>1, <2>2, SecondHalf DEF FinishLeaving
    <3> QED
      BY <3>1, <3>2 DEF RemovesOnly
  <2>3. CASE Unsubscribe(s) \/ DropHandle(s)
    <3>1. UNCHANGED <<chan, over>>
      BY <1>1, <2>3, FirstHalf DEF Unsubscribe, DropHandle, BeginLeaving, Reasons
    <3> QED
      BY <1>1, <3>1 DEF TypeOK
  <2>4. CASE UNCHANGED <<chan, over>>
    BY <1>1, <2>4 DEF TypeOK
  <2>5. CASE SubscribeGivenUp(s) \/ DropReceiver(s)
    BY <1>1, <2>5 DEF SubscribeGivenUp, DropReceiver, TypeOK
  <2> QED
    BY <2>1, <2>2, <2>3, <2>4, <2>5
       DEF Application, SubscribeEnter, SubscribeSend, ReadEnd
<1>3. UNCHANGED <<io, count, backlog, drops>>
  BY DEF Application, SubscribeEnter, SubscribeSend, SubscribeGivenUp, Read,
         ReadEnd, Unsubscribe, DropHandle, BeginLeaving, FinishLeaving,
         DropReceiver
<1>4. BacklogBounds'
  BY <1>1, <1>2, <1>3, CatchingUp
<1> SUFFICES Others'
  BY <1>4
<1>5. CASE SubscribeEnter(s)
  <2> USE <1>1, <1>3, <1>5 DEF SubscribeEnter, TypeOK, Others
  <2>1. PassRegistered' /\ DropsLeft'
    BY DEF Locked, TaskHasLock, PassRegistered, InPass, OnOne, DropsLeft
  <2>2. NewIsFresh'
    BY DEF NewIsFresh, InPass
  <2> QED
    BY <2>1, <2>2 DEF ParkedIsListed, GoneHasReason, FailsOnlyWhenFull
<1>6. CASE SubscribeSend(s) \/ SubscribeGivenUp(s) \/ Read(s) \/ ReadEnd(s)
  <2>1. /\ UNCHANGED <<registry, over, wake, ended>>
        /\ reader[s] # "new"
        /\ reader'[s] # "new"
        /\ reader'[s] = "done" => s \notin registry
        /\ \A t \in Subs \ {s} : reader'[t] = reader[t]
    BY <1>1, <1>6
       DEF SubscribeSend, SubscribeGivenUp, Read, ReadEnd, TypeOK, HasSender
  <2>2. \A t \in Subs : reader'[t] = "new" <=> reader[t] = "new"
    BY <2>1
  <2>3. GoneHasReason'
    BY <1>1, <1>6, <2>1
       DEF GoneHasReason, Others, SubscribeSend, SubscribeGivenUp, Read,
           ReadEnd
  <2> QED
    BY <1>1, <1>3, <2>1, <2>2, <2>3
       DEF Others, PassRegistered, NewIsFresh, ParkedIsListed,
           FailsOnlyWhenFull,
           InPass, OnOne, DropsLeft
<1>7. CASE Unsubscribe(s) \/ DropHandle(s)
  <2>1. PICK next \in {"open", "dropping"} : BeginLeaving(s, next)
    BY <1>7 DEF Unsubscribe, DropHandle
  <2>2. EndsOnly({s}, "unsubscribed") /\ UNCHANGED <<registry, over>>
    BY <1>1, <2>1, FirstHalf DEF BeginLeaving, Reasons
  <2>3. /\ ~Locked /\ {s} \subseteq registry /\ UNCHANGED wake
        /\ io.pc # "end"
    BY <2>1 DEF BeginLeaving, Locked, TaskHasLock
  <2>4. \A t \in Subs : reader'[t] = reader[t]
                       \/ (reader[t] = "open" /\ reader'[t] = "dropping")
    <3>1. reader[s] = "open" /\ reader' = [reader EXCEPT ![s] = next]
      BY <2>1 DEF BeginLeaving
    <3> QED
      BY <1>1, <2>1, <3>1 DEF TypeOK
  <2> QED
    BY <1>1, <1>3, <2>2, <2>3, <2>4, GetsReason
<1>8. CASE FinishLeaving(s)
  <2>1. RemovesOnly({s}) /\ UNCHANGED ended
    BY <1>1, <1>8, SecondHalf DEF FinishLeaving
  <2>2. /\ UNCHANGED wake /\ s \in leaving
        /\ \A t \in Subs : reader'[t] = reader[t] \/ reader'[t] = "gone"
    BY <1>1, <1>8 DEF FinishLeaving, TypeOK
  <2>3. ~TaskHasLock /\ ended[s] # "none"
    BY <2>2 DEF AllInv, Inv, EndsUnderLock, Going
  <2> QED
    BY <1>1, <1>3, <2>1, <2>2, <2>3, LosesEntry
<1>9. CASE DropReceiver(s)
  <2>1. /\ reader[s] \in {"open", "done"} /\ reader'[s] = "gone"
        /\ \A t \in Subs \ {s} : reader'[t] = reader[t]
        /\ UNCHANGED <<registry, over, wake, ended>>
    BY <1>1, <1>9 DEF DropReceiver, TypeOK
  <2> QED
    BY <1>1, <1>3, <2>1
       DEF Others, PassRegistered, NewIsFresh, ParkedIsListed, GoneHasReason,
           FailsOnlyWhenFull, InPass, OnOne, DropsLeft
<1> QED
  BY <1>5, <1>6, <1>7, <1>8, <1>9 DEF Application

----------------------------------------------------------------------------
\* What the task carries at each of its stages.
LEMMA TaskHolds ==
    ASSUME TypeOK
    PROVE  /\ OnOne \/ io.pc = "wake" => io.sub \in Subs
           /\ InPass => io.todo \subseteq Subs
           /\ InPass \/ io.pc = "fail" => io.failed \subseteq Subs
           /\ io.pc = "end" => io.gone \subseteq Subs /\ io.why \in Reasons
                               /\ io.next \in {"top", "done"}
BY DEF TypeOK, Tasks, Carrying, OnOne, InPass

\* Moving a parked frame into the channel keeps the sum of their lengths.
MovesOnly(s) ==
    /\ chan' \in [Subs -> Seq(Frames)] /\ over' \in [Subs -> Seq(Frames)]
    /\ over[s] # <<>>
    /\ Len(chan'[s]) = Len(chan[s]) + 1 /\ Len(over'[s]) = Len(over[s]) - 1
    /\ Len(chan[s]) < Cap
    /\ \A t \in Subs \ {s} : chan'[t] = chan[t] /\ over'[t] = over[t]

\* Moving a parked frame to the channel changes the queues of one subscription,
\* and not how much they hold.
LEMMA MoveMovesOnly ==
    ASSUME TypeOK, NEW STATE s, s \in Subs, MoveOne(s)
    PROVE  MovesOnly(s)
<1>1. over[s] \in Seq(Frames) /\ over[s] # <<>> /\ chan[s] \in Seq(Frames)
  BY DEF MoveOne, TypeOK
<1>2. /\ Head(over[s]) \in Frames
      /\ Tail(over[s]) \in Seq(Frames) /\ Len(Tail(over[s])) = Len(over[s]) - 1
  BY <1>1, HeadTailProperties
<1>3. /\ Append(chan[s], Head(over[s])) \in Seq(Frames)
      /\ Len(Append(chan[s], Head(over[s]))) = Len(chan[s]) + 1
  BY <1>1, <1>2, AppendProperties
<1>4. /\ chan' = [chan EXCEPT ![s] = Append(@, Head(over[s]))]
      /\ over' = [over EXCEPT ![s] = Tail(@)]
      /\ Len(chan[s]) < Cap
  BY DEF MoveOne, Room
<1> QED
  BY <1>1, <1>2, <1>3, <1>4 DEF MovesOnly, TypeOK

\* A frame that moves is counted once before and once after.
LEMMA MoveKeepsSum ==
    ASSUME TypeOK, NEW STATE s, s \in Subs, MovesOnly(s)
    PROVE  Len(chan'[s]) + Len(over'[s]) = Len(chan[s]) + Len(over[s])
<1>1. /\ Len(chan[s]) \in Nat /\ Len(over[s]) \in Nat
      /\ Len(chan'[s]) \in Nat /\ Len(over'[s]) \in Nat
  BY DEF TypeOK, MovesOnly
<1>2. Len(chan'[s]) = Len(chan[s]) + 1 /\ Len(over'[s]) = Len(over[s]) - 1
  BY DEF MovesOnly
<1>3. \A a, b \in Nat : (a + 1) + (b - 1) = a + b
  OBVIOUS
<1>4. (Len(chan[s]) + 1) + (Len(over[s]) - 1) = Len(chan[s]) + Len(over[s])
  BY <1>1, <1>3
<1> QED
  BY <1>2, <1>4

\* Moving a frame keeps the queues within their bounds.
LEMMA MoveType ==
    ASSUME TypeOK, NEW STATE s, s \in Subs, MoveOne(s)
    PROVE  TypeOK'
<1>1. MovesOnly(s)
  BY MoveMovesOnly
<1>2. \A t \in Subs \ {s} : Len(chan'[t]) <= Cap /\ Len(over'[t]) <= Limit
  BY <1>1 DEF MovesOnly, TypeOK
<1>3. Len(chan'[s]) <= Cap /\ Len(over'[s]) <= Limit
  <2>1. Len(chan[s]) \in Nat /\ Len(over[s]) \in Nat /\ Len(over[s]) <= Limit
    BY DEF TypeOK
  <2> QED
    BY <1>1, <2>1, ConstantsAssumption DEF MovesOnly
<1> QED
  BY <1>1, <1>2, <1>3 DEF MoveOne, MovesOnly, TypeOK

\* A frame joins one of the queues, which was not full.
QueueWithin(r, most) ==
    /\ r \in [Subs -> Seq(Frames)]
    /\ \A s \in Subs : Len(r[s]) <= most

\* A frame enters a queue that has room.
LEMMA AppendOne ==
    ASSUME NEW q \in [Subs -> Seq(Frames)], NEW n \in Frames, NEW sub \in Subs,
           NEW most \in Nat, \A s \in Subs : Len(q[s]) <= most, Len(q[sub]) < most
    PROVE  QueueWithin([q EXCEPT ![sub] = Append(@, n)], most)
<1>1. Append(q[sub], n) \in Seq(Frames) /\ Len(Append(q[sub], n)) = Len(q[sub]) + 1
  BY AppendProperties
<1> QED
  BY <1>1 DEF QueueWithin

\* A pass over the subscriptions keeps the types.
LEMMA PassType ==
    ASSUME TypeOK, PassRegistered,
           \/ \E s \in Subs : PassNext(s)
           \/ DrainOne \/ DrainStops \/ PassClosed \/ OfferTaken \/ OfferFull
           \/ ParkTaken \/ ParkRefused \/ Evict \/ PassDone
           \/ \E s \in Subs, ok \in BOOLEAN : FailOne(s, ok)
    PROVE  TypeOK'
<1> USE ConstantsAssumption
<1>1. ASSUME NEW s \in Subs, PassNext(s)
      PROVE  TypeOK'
  <2>1. io' \in Tasks
    BY <1>1, TaskHolds DEF PassNext, Tasks, Carrying, InPass
  <2> QED
    BY <1>1, <2>1 DEF PassNext, TypeOK
<1>2. CASE DrainOne
  BY <1>2, TaskHolds, MoveType DEF DrainOne, OnOne
<1>3. CASE DrainStops
  <2>1. io' \in Tasks
    BY <1>3, TaskHolds DEF DrainStops, TypeOK, Tasks, Carrying
  <2> QED
    BY <1>3, <2>1 DEF DrainStops, TypeOK
<1>4. CASE PassClosed
  <2>1. io' \in Tasks
    BY <1>4, TaskHolds DEF PassClosed, PassOn, Tasks, InPass
  <2>2. RemovesOnly({io.sub})
    BY <1>4, RemoveRemovesOnly DEF PassClosed
  <2> QED
    BY <1>4, <2>1, <2>2 DEF PassClosed, TypeOK, RemovesOnly
<1>5. CASE OfferTaken
  <2>1. io' \in Tasks
    BY <1>5, TaskHolds DEF OfferTaken, PassOn, Tasks, InPass
  <2>2. QueueWithin(chan', Cap)
    BY <1>5, TaskHolds, AppendOne
       DEF OfferTaken, OnOne, InPass, Room, PassRegistered, TypeOK, Frames
  <2> QED
    BY <1>5, <2>1, <2>2 DEF OfferTaken, TypeOK, QueueWithin
<1>6. CASE OfferFull
  <2>1. io' \in Tasks
    BY <1>6, TaskHolds DEF OfferFull, TypeOK, Tasks, Carrying
  <2> QED
    BY <1>6, <2>1 DEF OfferFull, TypeOK
<1>7. CASE ParkTaken
  <2>1. io' \in Tasks
    BY <1>7, TaskHolds DEF ParkTaken, PassOn, Tasks, InPass
  <2>2. io.sub \in Subs
    BY <1>7, TaskHolds DEF ParkTaken, OnOne
  <2>3. Len(over[io.sub]) < Limit
    BY <1>7, <2>2 DEF ParkTaken, AtLimit, TypeOK
  <2>4. QueueWithin(over', Limit)
    BY <1>7, <2>2, <2>3, AppendOne
       DEF ParkTaken, InPass, PassRegistered, TypeOK, Frames
  <2> QED
    BY <1>7, <2>1, <2>2, <2>4 DEF ParkTaken, TypeOK, QueueWithin
<1>8. CASE ParkRefused
  <2>1. io' \in Tasks
    BY <1>8, TaskHolds DEF ParkRefused, TypeOK, Tasks, Carrying
  <2>2. EndsOnly({io.sub}, "overflowed") /\ UNCHANGED <<registry, over>>
    BY <1>8, FirstHalf DEF ParkRefused, Reasons
  <2> QED
    BY <1>8, <2>1, <2>2 DEF ParkRefused, TypeOK, EndsOnly
<1>11. CASE Evict
  <2>1. io' \in Tasks
    BY <1>11, TaskHolds DEF Evict, PassOn, Tasks, InPass, OnOne
  <2>2. RemovesOnly({io.sub}) /\ UNCHANGED ended
    BY <1>11, SecondHalf DEF Evict
  <2> QED
    BY <1>11, <2>1, <2>2 DEF Evict, TypeOK, RemovesOnly
<1>9. CASE PassDone
  <2>1. io' \in Tasks
    BY <1>9, TaskHolds DEF PassDone, At, Tasks, InPass
  <2> QED
    BY <1>9, <2>1 DEF PassDone, TypeOK
<1>10. ASSUME NEW s \in Subs, NEW ok \in BOOLEAN, FailOne(s, ok)
       PROVE  TypeOK'
  <2>1. io' \in Tasks
    <3>1. [io EXCEPT !.failed = @ \ {s}] \in [pc: {"fail"}, failed: SUBSET Subs]
      BY <1>10 DEF FailOne, TypeOK, Tasks, Carrying
    <3> QED
      BY <1>10, <3>1 DEF FailOne, At, Tasks
  <2> QED
    BY <1>10, <2>1 DEF FailOne, TypeOK
<1> QED
  BY <1>1, <1>2, <1>3, <1>4, <1>5, <1>6, <1>7, <1>8, <1>9, <1>10, <1>11

\* A set of entries is given its reason.
LEMMA BeginEndingType ==
    ASSUME TypeOK, NEW STATE gone, gone \subseteq Subs, NEW why \in Reasons,
           NEW next \in {"top", "done"}, BeginEnding(gone, why, next)
    PROVE  /\ TypeOK'
           /\ EndsOnly(gone, why) /\ UNCHANGED <<registry, over>>
           /\ io'.pc = "end" /\ io'.gone = gone
<1>1. EndsOnly(gone, why) /\ UNCHANGED <<registry, over>>
  BY FirstHalf DEF BeginEnding
<1>2. io' \in Tasks /\ io'.pc = "end" /\ io'.gone = gone
  BY DEF BeginEnding, Tasks
<1> QED
  BY <1>1, <1>2 DEF BeginEnding, TypeOK, EndsOnly

\* The other steps of the loop keep the types.
LEMMA LoopType ==
    ASSUME TypeOK, DropsLeft,
           \/ Top \/ WakeOne \/ WakeStops \/ WakeClosed
           \/ GoDown \/ Reconnect \/ Finish \/ FinishEnding \/ Exit
    PROVE  TypeOK'
<1> USE ConstantsAssumption
<1>0. \A pc \in {"top", "select", "lost", "down", "ending", "done", "exited"} :
         At(pc) \in Tasks
  BY DEF At, Tasks
<1>1. CASE Top
  BY <1>0, <1>1 DEF Top, TypeOK, Prune
<1>2. CASE WakeOne
  BY <1>2, TaskHolds, MoveType DEF WakeOne
<1>3. CASE WakeStops
  BY <1>0, <1>3 DEF WakeStops, TypeOK, Prune
<1>4. CASE WakeClosed
  <2>1. RemovesOnly({io.sub})
    BY <1>4, RemoveRemovesOnly DEF WakeClosed
  <2> QED
    BY <1>0, <1>4, <2>1 DEF WakeClosed, TypeOK, RemovesOnly, Prune
<1>5. CASE GoDown
  BY <1>0, <1>5 DEF GoDown, TypeOK, DropsLeft
<1>6. CASE Reconnect
  <2>1. over' \in [Subs -> Seq(Frames)] /\ \A s \in Subs : Len(over'[s]) <= Limit
    BY <1>6 DEF Reconnect, TypeOK
  <2> QED
    BY <1>0, <1>6, <2>1 DEF Reconnect, TypeOK
<1>7. CASE Finish
  BY <1>7, BeginEndingType DEF Finish, Reasons, TypeOK
<1>8. CASE FinishEnding
  <2>1. RemovesOnly(io.gone) /\ UNCHANGED ended
    BY <1>8, SecondHalf DEF FinishEnding
  <2>2. io' \in Tasks
    BY <1>0, <1>8, TaskHolds DEF FinishEnding
  <2> QED
    BY <1>8, <2>1, <2>2 DEF FinishEnding, TypeOK, RemovesOnly
<1>9. CASE Exit
  BY <1>0, <1>9 DEF Exit, TypeOK
<1> QED
  BY <1>1, <1>2, <1>3, <1>4, <1>5, <1>6, <1>7, <1>8, <1>9

\* Reading a MESSAGE starts a pass.
LEMMA ReceiveType ==
    ASSUME TypeOK, NEW STATE targets, targets \subseteq Subs, Receive(targets)
    PROVE  TypeOK'
<1>1. io' \in Tasks
  BY DEF Receive, Tasks
<1>2. backlog' \in [Subs -> Nat]
  <2>1. \A s \in Subs : Len(chan[s]) + Len(over[s]) \in Nat /\ backlog[s] \in Nat
    BY DEF TypeOK
  <2> QED
    BY <2>1 DEF Receive
<1>3. count' \in 0..MaxMsg
  BY ConstantsAssumption DEF Receive, TypeOK
<1> QED
  BY <1>1, <1>2, <1>3 DEF Receive, TypeOK

\* The steps of the task keep the types.
LEMMA EventType ==
    ASSUME TypeOK, Event \/ \E s \in Subs : Wake(s)
    PROVE  TypeOK'
<1> USE ConstantsAssumption
<1>0. \A pc \in {"top", "lost", "ending"} : At(pc) \in Tasks
  BY DEF At, Tasks
<1>1. ASSUME NEW s \in Subs, ReceiveNamed(s)
      PROVE  TypeOK'
  BY <1>1, ReceiveType DEF ReceiveNamed
<1>2. ASSUME NEW d \in Dests, ReceiveForDest(d)
      PROVE  TypeOK'
  <2>1. Registered(d) \subseteq Subs
    BY DEF Registered, TypeOK
  <2> QED
    BY <1>2, <2>1, ReceiveType DEF ReceiveForDest
<1>3. ASSUME NEW d \in Dests, Abandon(d)
      PROVE  TypeOK'
  <2>1. Registered(d) \subseteq Subs
    BY DEF Registered, TypeOK
  <2> QED
    BY <1>3, <2>1, BeginEndingType DEF Abandon, Reasons
<1>4. ASSUME NEW s \in Subs, Wake(s)
      PROVE  TypeOK'
  <2>1. io' \in Tasks
    BY <1>4 DEF Wake, Tasks
  <2> QED
    BY <1>4, <2>1 DEF Wake, TypeOK
<1>5. CASE OtherEvent
  BY <1>0, <1>5 DEF OtherEvent, TypeOK
<1>6. CASE LoseConnection
  BY <1>0, <1>6 DEF LoseConnection, TypeOK
<1>7. CASE Shutdown
  BY <1>0, <1>7 DEF Shutdown, TypeOK
<1> QED
  BY <1>1, <1>2, <1>3, <1>4, <1>5, <1>6, <1>7 DEF Event

----------------------------------------------------------------------------
\* Steps of a delivery pass.
LEMMA PassInv ==
    ASSUME AllInv, TypeOK',
           \/ \E s \in Subs : PassNext(s)
           \/ DrainOne \/ DrainStops \/ PassClosed \/ OfferTaken \/ OfferFull
           \/ ParkTaken \/ ParkRefused \/ Evict \/ PassDone
           \/ \E s \in Subs, ok \in BOOLEAN : FailOne(s, ok)
    PROVE  Others' /\ BacklogBounds'
<1>1. TypeOK /\ Others /\ BacklogBounds
  BY DEF AllInv, Inv, Others
<1>2. /\ OnOne => io.sub \in Subs
      /\ InPass => io.todo \subseteq Subs /\ io.failed \subseteq Subs
  BY <1>1, TaskHolds
<1>3. \A s \in Subs : Len(chan[s]) \in Nat /\ Len(over[s]) \in Nat
                      /\ backlog[s] \in Nat
  <2>1. /\ chan \in [Subs -> Seq(Frames)] /\ over \in [Subs -> Seq(Frames)]
        /\ backlog \in [Subs -> Nat]
    BY <1>1 DEF TypeOK
  <2>2. \A q \in Seq(Frames) : Len(q) \in Nat
    OBVIOUS
  <2> QED
    BY <2>1, <2>2
<1> USE <1>1, <1>2, ConstantsAssumption
    DEF Others, PassRegistered, NewIsFresh, ParkedIsListed, GoneHasReason,
        FailsOnlyWhenFull, InPass, OnOne, DropsLeft
<1>4. ASSUME NEW s \in Subs, PassNext(s)
      PROVE  Others' /\ BacklogBounds'
  <2>1. BacklogBounds'
    BY <1>4 DEF PassNext, BacklogBounds
  <2> QED
    BY <1>4, <2>1 DEF PassNext
<1>5. CASE DrainOne
  <2>1. MovesOnly(io.sub)
    BY <1>5, MoveMovesOnly DEF DrainOne
  <2>2. BacklogBounds'
    <3>1. Len(chan'[io.sub]) + Len(over'[io.sub]) = Len(chan[io.sub]) + Len(over[io.sub])
      BY <1>5, <2>1, MoveKeepsSum DEF DrainOne
    <3> QED
      BY <1>5, <2>1, <3>1 DEF DrainOne, MoveOne, MovesOnly, BacklogBounds
  <2> QED
    BY <1>5, <2>1, <2>2 DEF DrainOne, MoveOne, MovesOnly
<1>6. CASE DrainStops
  <2>1. over[io.sub] = <<>> => io'.pc = "offer"
    BY <1>6 DEF DrainStops, TypeOK, Tasks, Carrying
  <2>2. over[io.sub] # <<>> => io'.pc = "park" /\ Len(chan[io.sub]) = Cap
    BY <1>6 DEF DrainStops, Full, TypeOK, Tasks, Carrying
  <2>3. io'.sub = io.sub /\ io'.todo = io.todo /\ io'.failed = io.failed
    BY <1>6 DEF DrainStops, TypeOK, Tasks, Carrying
  <2>4. BacklogBounds'
    BY <1>6, <2>1, <2>2, <2>3 DEF DrainStops, BacklogBounds
  <2> QED
    BY <1>6, <2>1, <2>2, <2>3, <2>4 DEF DrainStops
<1>7. CASE PassClosed
  <2>1. RemovesOnly({io.sub})
    BY <1>7, RemoveRemovesOnly DEF PassClosed
  <2>2. BacklogBounds'
    BY <1>7, <2>1 DEF PassClosed, PassOn, RemovesOnly, BacklogBounds
  <2> QED
    BY <1>7, <2>1, <2>2 DEF PassClosed, PassOn, RemovesOnly, Closed
<1>8. CASE OfferTaken
  <2>1. \A s \in Subs \ {io.sub} : chan'[s] = chan[s]
    BY <1>8 DEF OfferTaken, TypeOK
  <2>2. BacklogBounds'
    BY <1>8, <2>1 DEF OfferTaken, PassOn, BacklogBounds
  <2> QED
    BY <1>8, <2>2 DEF OfferTaken, PassOn
<1>9. CASE OfferFull
  <2>1. Len(chan[io.sub]) = Cap /\ Len(over[io.sub]) = 0
    BY <1>9 DEF OfferFull, Full
  <2>2. /\ io'.pc = "park" /\ io'.sub = io.sub /\ io'.todo = io.todo
        /\ io'.failed = io.failed
    BY <1>9 DEF OfferFull, TypeOK, Tasks, Carrying
  <2>3. BacklogBounds'
    BY <1>9, <2>1, <2>2 DEF OfferFull, BacklogBounds
  <2> QED
    BY <1>9, <2>2, <2>3 DEF OfferFull
<1>10. CASE ParkTaken
  <2>1. \A s \in Subs \ {io.sub} : over'[s] = over[s]
    BY <1>10 DEF ParkTaken, TypeOK
  <2>2. BacklogBounds'
    BY <1>10, <2>1 DEF ParkTaken, PassOn, BacklogBounds
  <2> QED
    BY <1>10, <2>1, <2>2 DEF ParkTaken, PassOn
<1>11. CASE ParkRefused
  <2>1. EndsOnly({io.sub}, "overflowed") /\ UNCHANGED <<registry, over>>
    BY <1>11, FirstHalf DEF ParkRefused, Reasons
  <2>2. backlog[io.sub] = Cap + Limit
    <3>1. /\ Len(over[io.sub]) >= Limit /\ Cap + Len(over[io.sub]) <= backlog[io.sub]
          /\ backlog[io.sub] <= Cap + Limit
      BY <1>11 DEF ParkRefused, AtLimit, BacklogBounds
    <3>2. Len(over[io.sub]) \in Nat /\ backlog[io.sub] \in Nat
      BY <1>3, <1>11 DEF ParkRefused
    <3> HIDE DEF Others, PassRegistered, NewIsFresh, ParkedIsListed,
                 GoneHasReason, FailsOnlyWhenFull, InPass, OnOne, DropsLeft
    <3>3. \A a, b \in Nat :
             a >= Limit /\ Cap + a <= b /\ b <= Cap + Limit => b = Cap + Limit
      OBVIOUS
    <3> QED
      BY <3>1, <3>2, <3>3
  <2>3. /\ io'.pc = "evict" /\ io'.sub = io.sub /\ io'.todo = io.todo
        /\ io'.failed = io.failed
    BY <1>11 DEF ParkRefused, TypeOK, Tasks, Carrying
  <2>4. BacklogBounds'
    BY <1>11, <2>1, <2>3 DEF ParkRefused, BacklogBounds
  <2>5. PassRegistered' /\ ParkedIsListed' /\ DropsLeft'
    BY <1>11, <2>1, <2>3 DEF ParkRefused
  <2>6. NewIsFresh'
    BY <1>11, <2>1, <2>3 DEF ParkRefused, EndsOnly
  <2>7. GoneHasReason' /\ FailsOnlyWhenFull'
    BY <1>11, <2>1, <2>2 DEF ParkRefused, EndsOnly
  <2> QED
    BY <2>4, <2>5, <2>6, <2>7
<1>14. CASE Evict
  <2>1. RemovesOnly({io.sub}) /\ UNCHANGED ended
    BY <1>14, SecondHalf DEF Evict
  <2>2. ended[io.sub] # "none" /\ io.sub \in Subs
    BY <1>14 DEF Evict, AllInv, Inv, EndsUnderLock, Going
  <2>3. io'.pc = "pass" /\ io'.todo = io.todo
        /\ io'.failed = io.failed \cup {io.sub}
    BY <1>14 DEF Evict, PassOn
  <2>4. BacklogBounds'
    BY <1>14, <2>1, <2>3 DEF Evict, RemovesOnly, BacklogBounds
  <2>5. PassRegistered'
    BY <1>14, <2>1, <2>3 DEF Evict, RemovesOnly
  <2>6. NewIsFresh'
    BY <1>14, <2>1, <2>3 DEF Evict, RemovesOnly
  <2>7. ParkedIsListed'
    BY <1>14, <2>1, <2>3 DEF Evict, RemovesOnly
  <2>8. GoneHasReason' /\ FailsOnlyWhenFull' /\ DropsLeft'
    BY <1>14, <2>1, <2>2, <2>3 DEF Evict, RemovesOnly
  <2> QED
    BY <2>4, <2>5, <2>6, <2>7, <2>8
<1>12. CASE PassDone
  <2>1. BacklogBounds'
    BY <1>12 DEF PassDone, At, BacklogBounds
  <2> QED
    BY <1>12, <2>1 DEF PassDone, At
<1>13. ASSUME NEW s \in Subs, NEW ok \in BOOLEAN, FailOne(s, ok)
       PROVE  Others' /\ BacklogBounds'
  <2>1. \/ io'.pc = "fail" /\ io'.failed \subseteq io.failed
        \/ io'.pc \in {"lost", "top"}
    BY <1>13 DEF FailOne, At, TypeOK, Tasks, Carrying
  <2>2. BacklogBounds'
    BY <1>13, <2>1 DEF FailOne, BacklogBounds
  <2> QED
    BY <1>13, <2>1, <2>2 DEF FailOne, At
<1> QED
  BY <1>4, <1>5, <1>6, <1>7, <1>8, <1>9, <1>10, <1>11, <1>12, <1>13, <1>14

\* Steps of the loop around it.  No pass is under way before or after them.
LEMMA LoopInv ==
    ASSUME AllInv, TypeOK',
           \/ Top \/ WakeOne \/ WakeStops \/ WakeClosed
           \/ GoDown \/ Reconnect \/ Finish \/ FinishEnding \/ Exit
    PROVE  Others' /\ BacklogBounds'
<1>1. TypeOK /\ Others /\ BacklogBounds
  BY DEF AllInv, Inv, Others
<1>2. io.pc = "wake" => io.sub \in Subs
  BY <1>1, TaskHolds
<1> USE <1>1, <1>2, ConstantsAssumption
    DEF Others, PassRegistered, NewIsFresh, ParkedIsListed, GoneHasReason,
        FailsOnlyWhenFull, InPass, OnOne, DropsLeft
<1>3. BacklogBounds'
  <2>1. CASE WakeOne
    BY <2>1 DEF WakeOne, MoveOne, BacklogBounds
  <2>2. CASE ~WakeOne
    <3>1. UNCHANGED backlog
          /\ \/ Finish
             \/ \E pc \in {"top", "select", "down", "done", "exited"} :
                    io' = At(pc)
      BY <1>1, <2>2, TaskHolds
         DEF Top, WakeStops, WakeClosed, GoDown, Reconnect, Finish,
             BeginEnding, FinishEnding, Exit
    <3>2. io'.pc \notin {"pass", "drain", "offer", "park", "evict"}
      <4>1. CASE Finish
        <5>1. io'.pc = "end"
          BY <1>1, <4>1, BeginEndingType DEF Finish, Reasons, TypeOK
        <5> QED
          BY <5>1
      <4>2. ASSUME NEW pc \in {"top", "select", "down", "done", "exited"},
                   io' = At(pc)
            PROVE  io'.pc \notin {"pass", "drain", "offer", "park", "evict"}
        BY <4>2 DEF At
      <4> QED
        BY <3>1, <4>1, <4>2
    <3> QED
      BY <3>1, <3>2 DEF BacklogBounds
  <2> QED
    BY <2>1, <2>2
<1>4. CASE Top
  BY <1>3, <1>4 DEF Top, At, Prune
<1>5. CASE WakeOne
  <2>1. MovesOnly(io.sub)
    BY <1>5, MoveMovesOnly DEF WakeOne
  <2> QED
    BY <1>3, <1>5, <2>1 DEF WakeOne, MoveOne, MovesOnly
<1>6. CASE WakeStops
  BY <1>3, <1>6 DEF WakeStops, At, Prune
<1>7. CASE WakeClosed
  <2>1. RemovesOnly({io.sub})
    BY <1>7, RemoveRemovesOnly DEF WakeClosed
  <2> QED
    BY <1>3, <1>7, <2>1 DEF WakeClosed, At, Prune, RemovesOnly, Closed
<1>8. CASE GoDown
  BY <1>3, <1>8 DEF GoDown, At
<1>9. CASE Reconnect
  <2>1. \A s \in Subs : over'[s] # <<>> => over[s] # <<>>
    BY <1>9 DEF Reconnect
  <2> QED
    BY <1>3, <1>9, <2>1 DEF Reconnect, At
<1>10. CASE Finish
  <2>1. /\ EndsOnly(registry, "connection closed")
        /\ UNCHANGED <<registry, over>> /\ io'.pc = "end"
    BY <1>10, BeginEndingType DEF Finish, Reasons, TypeOK
  <2>2. /\ ~Locked /\ io.pc = "ending" /\ registry \subseteq registry
        /\ UNCHANGED <<wake, reader, count, drops, backlog>>
    BY <1>10 DEF Finish, BeginEnding, Locked, TaskHasLock
  <2> HIDE DEF Others, PassRegistered, NewIsFresh, ParkedIsListed,
               GoneHasReason, FailsOnlyWhenFull, InPass, OnOne, DropsLeft
  <2>3. ASSUME NEW why, why = "connection closed" PROVE why # "overflowed"
    BY <2>3
  <2> QED
    BY <1>1, <1>3, <2>1, <2>2, <2>3, GetsReason
<1>11. CASE FinishEnding
  <2>1. RemovesOnly(io.gone) /\ UNCHANGED ended
    BY <1>11, SecondHalf DEF FinishEnding
  <2>2. /\ io.pc = "end" /\ io'.pc \in {"top", "done"}
        /\ UNCHANGED <<wake, reader, count, drops, backlog>>
    BY <1>11, TaskHolds DEF FinishEnding, At
  <2>3. \A s \in Subs : s \in io.gone => ended[s] # "none"
    BY <2>2 DEF AllInv, Inv, EndsUnderLock, Going
  <2> HIDE DEF Others, PassRegistered, NewIsFresh, ParkedIsListed,
               GoneHasReason, FailsOnlyWhenFull, InPass, OnOne, DropsLeft
  <2> QED
    BY <1>1, <1>3, <2>1, <2>2, <2>3, LosesEntry
<1>12. CASE Exit
  BY <1>3, <1>12 DEF Exit, At
<1> QED
  BY <1>4, <1>5, <1>6, <1>7, <1>8, <1>9, <1>10, <1>11, <1>12

\* A pass begins with what waits for each subscription as its backlog.
LEMMA ReceiveInv ==
    ASSUME AllInv, TypeOK', NEW STATE targets, targets \subseteq registry,
           Receive(targets)
    PROVE  Others' /\ BacklogBounds'
<1>1. TypeOK /\ Others /\ BacklogBounds
  BY DEF AllInv, Inv, Others
<1>2. /\ io.pc = "select" /\ io' = [pc |-> "pass", todo |-> targets, failed |-> {}]
      /\ count' \in 1..MaxMsg
      /\ UNCHANGED <<registry, chan, over, wake, ended, reader, drops>>
  BY <1>1, ConstantsAssumption DEF Receive, TypeOK
<1>3. \A s \in Subs : Len(chan[s]) \in Nat /\ Len(over[s]) \in Nat
                      /\ Len(chan[s]) <= Cap /\ Len(over[s]) <= Limit
  BY <1>1 DEF TypeOK
<1>4. \A s \in Subs : backlog'[s] = IF s \in registry
                                     THEN Len(chan[s]) + Len(over[s])
                                     ELSE backlog[s]
  BY DEF Receive
<1>5. \A s \in Subs : Len(chan[s]) + Len(over[s]) <= Cap + Limit
  <2>1. \A a, b, c, d \in Nat : a <= c /\ b <= d => a + b <= c + d
    OBVIOUS
  <2> QED
    BY <1>3, <2>1, ConstantsAssumption
<1>6. registry \subseteq Subs
  BY <1>1 DEF TypeOK
<1>7. BacklogBounds'
  <2>1. \A s \in Subs : backlog'[s] <= Cap + Limit
    BY <1>1, <1>4, <1>5 DEF BacklogBounds
  <2>2. ASSUME NEW s \in targets
        PROVE  Len(chan[s]) + Len(over[s]) <= backlog'[s]
    <3>1. s \in Subs /\ backlog'[s] = Len(chan[s]) + Len(over[s])
      BY <1>4, <1>6
    <3>2. \A n \in Nat : n <= n
      OBVIOUS
    <3> QED
      BY <1>3, <3>1, <3>2
  <2> QED
    BY <1>2, <2>1, <2>2 DEF BacklogBounds, OnOne
<1>8. FailsOnlyWhenFull'
  <2>1. \A s \in registry : ended[s] = "none"
    BY <1>2, NoneGoing DEF Receive, Locked, TaskHasLock
  <2> QED
    BY <1>1, <1>2, <1>4, <2>1 DEF Others, FailsOnlyWhenFull
<1> QED
  BY <1>1, <1>2, <1>7, <1>8
     DEF Others, PassRegistered, NewIsFresh, ParkedIsListed, GoneHasReason,
         InPass, OnOne, DropsLeft

\* The steps of the task keep the rest of the invariant.
LEMMA EventInv ==
    ASSUME AllInv, TypeOK', Event \/ \E s \in Subs : Wake(s)
    PROVE  Others' /\ BacklogBounds'
<1>1. TypeOK /\ Others /\ BacklogBounds
  BY DEF AllInv, Inv, Others
<1>2. ASSUME NEW s \in Subs, ReceiveNamed(s)
      PROVE  Others' /\ BacklogBounds'
  BY <1>2, ReceiveInv DEF ReceiveNamed
<1>3. ASSUME NEW d \in Dests, ReceiveForDest(d)
      PROVE  Others' /\ BacklogBounds'
  BY <1>3, ReceiveInv DEF ReceiveForDest, Registered
<1>4. ASSUME NEW d \in Dests, Abandon(d)
      PROVE  Others' /\ BacklogBounds'
  <2>1. /\ Registered(d) \subseteq registry /\ Registered(d) \subseteq Subs
    BY <1>1 DEF Registered, TypeOK
  <2>2. /\ EndsOnly(Registered(d), "abandoned")
        /\ UNCHANGED <<registry, over>> /\ io'.pc = "end"
    BY <1>1, <1>4, <2>1, BeginEndingType DEF Abandon, Reasons
  <2>3. /\ ~Locked /\ io.pc = "select"
        /\ UNCHANGED <<wake, reader, count, drops, backlog>>
    BY <1>4 DEF Abandon, BeginEnding, Locked, TaskHasLock
  <2>4. BacklogBounds'
    BY <1>1, <2>2, <2>3 DEF BacklogBounds, OnOne
  <2>5. Others'
    BY <1>1, <2>1, <2>2, <2>3, GetsReason
  <2> QED
    BY <2>4, <2>5
<1> USE <1>1, ConstantsAssumption
    DEF Others, PassRegistered, NewIsFresh, ParkedIsListed, GoneHasReason,
        FailsOnlyWhenFull, InPass, OnOne, DropsLeft
<1>5. ASSUME NEW s \in Subs, Wake(s)
      PROVE  Others' /\ BacklogBounds'
  <2>1. BacklogBounds'
    BY <1>5 DEF Wake, BacklogBounds
  <2> QED
    BY <1>5, <2>1 DEF Wake
<1>6. CASE OtherEvent \/ LoseConnection \/ Shutdown
  <2>1. /\ io.pc \in {"select", "lost", "down"} /\ io'.pc \in {"top", "lost", "ending"}
        /\ io'.pc = "lost" => drops < MaxDrops
        /\ UNCHANGED <<registry, chan, over, wake, ended, reader, count, drops, backlog>>
    BY <1>6 DEF OtherEvent, LoseConnection, Shutdown, At
  <2>2. BacklogBounds'
    BY <2>1 DEF BacklogBounds
  <2> QED
    BY <2>1, <2>2
<1> QED
  BY <1>2, <1>3, <1>4, <1>5, <1>6 DEF Event

\* A step that neither begins nor completes an end.
LEMMA NoHalf ==
    ASSUME AllInv, UNCHANGED <<registry, leaving, ended>>,
           io.pc \notin {"evict", "end"}, io'.pc \notin {"evict", "end"},
           TaskHasLock' => leaving = {}
    PROVE  EndsUnderLock'
BY DEF AllInv, Inv, EndsUnderLock, Going

\* An end begins: nobody has the lock but who ends it.
LEMMA HalfBegins ==
    ASSUME AllInv, NEW STATE gone, gone \subseteq registry, NEW why,
           EndsOnly(gone, why), UNCHANGED registry,
           \A s \in registry : ended[s] = "none",
           leaving' # {} => ~TaskHasLock',
           \A s \in Subs : Going(s)' <=> s \in gone
    PROVE  EndsUnderLock'
<1>1. registry \subseteq Subs
  BY DEF AllInv, Inv, TypeOK
<1> QED
  BY <1>1 DEF EndsUnderLock, EndsOnly

\* An end is completed: those that go have gone.
LEMMA HalfCompletes ==
    ASSUME AllInv, NEW STATE gone, RemovesOnly(gone), UNCHANGED ended,
           leaving' # {} => ~TaskHasLock',
           \A s \in Subs : Going(s)' <=> Going(s) /\ s \notin gone
    PROVE  EndsUnderLock'
BY DEF AllInv, Inv, EndsUnderLock, RemovesOnly

\* The steps of the application keep the order of the halves, ...
LEMMA ApplicationEnds ==
    ASSUME AllInv, NEW s \in Subs, Application(s)
    PROVE  EndsUnderLock'
<1>1. TypeOK /\ EndsUnderLock /\ NewIsFresh
  BY DEF AllInv, Inv
<1>2. UNCHANGED io
  BY DEF Application, SubscribeEnter, SubscribeSend, SubscribeGivenUp, Read,
         ReadEnd, Unsubscribe, DropHandle, BeginLeaving, FinishLeaving,
         DropReceiver
<1>3. TaskHasLock' <=> TaskHasLock
  BY <1>2 DEF TaskHasLock
<1>4. CASE SubscribeEnter(s)
  <2>1. registry' = registry \cup {s} /\ ended[s] = "none"
        /\ UNCHANGED <<leaving, ended>>
    BY <1>1, <1>4 DEF SubscribeEnter, NewIsFresh
  <2>2. \A t \in Subs : Going(t)' <=> Going(t)
    BY <1>2, <2>1 DEF Going
  <2> QED
    BY <1>1, <1>3, <2>1, <2>2 DEF EndsUnderLock
<1>5. CASE Unsubscribe(s) \/ DropHandle(s)
  <2>1. PICK next \in {"open", "dropping"} : BeginLeaving(s, next)
    BY <1>5 DEF Unsubscribe, DropHandle
  <2>2. EndsOnly({s}, "unsubscribed") /\ UNCHANGED registry
    BY <1>1, <2>1, FirstHalf DEF BeginLeaving, Reasons
  <2>3. /\ ~Locked /\ {s} \subseteq registry /\ leaving' = {s}
    BY <2>1 DEF BeginLeaving
  <2>4. \A t \in Subs : Going(t)' <=> t \in {s}
    BY <1>2, <2>3 DEF Going, Locked, TaskHasLock
  <2>5. \A t \in registry : ended[t] = "none"
    BY <2>3, NoneGoing
  <2>6. ~TaskHasLock'
    BY <1>3, <2>3 DEF Locked
  <2> QED
    BY <2>2, <2>3, <2>4, <2>5, <2>6, HalfBegins
<1>6. CASE FinishLeaving(s)
  <2>1. RemovesOnly({s}) /\ UNCHANGED ended
    BY <1>1, <1>6, SecondHalf DEF FinishLeaving
  <2>2. leaving' = leaving \ {s} /\ ~TaskHasLock
    BY <1>1, <1>6 DEF FinishLeaving, EndsUnderLock
  <2>3. \A t \in Subs : Going(t)' <=> Going(t) /\ t \notin {s}
    BY <1>2, <2>2 DEF Going, TaskHasLock
  <2> QED
    BY <1>3, <2>1, <2>2, <2>3, HalfCompletes
<1>7. CASE UNCHANGED <<registry, leaving, ended>>
  <2>1. \A t \in Subs : Going(t)' <=> Going(t)
    BY <1>2, <1>7 DEF Going
  <2> QED
    BY <1>1, <1>3, <1>7, <2>1 DEF EndsUnderLock
<1> QED
  BY <1>4, <1>5, <1>6, <1>7
     DEF Application, SubscribeSend, SubscribeGivenUp, Read, ReadEnd,
         DropReceiver

\* ... and so do those of the task.
LEMMA TaskEnds ==
    ASSUME AllInv, Step \/ Event \/ \E s \in Subs : Wake(s)
    PROVE  EndsUnderLock'
<1>1. TypeOK /\ PassRegistered /\ EndsUnderLock
  BY DEF AllInv, Inv
<1>2. TaskHasLock => leaving = {}
  BY <1>1 DEF EndsUnderLock
<1>3. CASE ParkRefused
  <2>1. EndsOnly({io.sub}, "overflowed") /\ UNCHANGED registry
    BY <1>1, <1>3, FirstHalf DEF ParkRefused, Reasons
  <2>2. /\ io'.pc = "evict" /\ io'.sub = io.sub /\ io.pc = "park"
        /\ UNCHANGED leaving
    BY <1>1, <1>3 DEF ParkRefused, TypeOK, Tasks, Carrying
  <2>3. leaving = {} /\ \A s \in Subs : ~Going(s)
    BY <1>2, <2>2 DEF TaskHasLock, Going
  <2>4. \A s \in registry : ended[s] = "none"
    BY <1>1, <2>3 DEF EndsUnderLock, TypeOK
  <2>5. {io.sub} \subseteq registry
    BY <1>1, <2>2 DEF PassRegistered, OnOne
  <2>6. \A s \in Subs : Going(s)' <=> s \in {io.sub}
    BY <2>2, <2>3 DEF Going
  <2> QED
    BY <2>1, <2>2, <2>3, <2>4, <2>5, <2>6, HalfBegins
<1>4. CASE Evict
  <2>1. RemovesOnly({io.sub}) /\ UNCHANGED ended
    BY <1>1, <1>4, SecondHalf DEF Evict
  <2>2. io.pc = "evict" /\ io'.pc = "pass" /\ UNCHANGED leaving
    BY <1>4 DEF Evict, PassOn
  <2>3. leaving = {}
    BY <1>2, <2>2 DEF TaskHasLock
  <2>4. \A s \in Subs : Going(s)' <=> Going(s) /\ s \notin {io.sub}
    BY <2>2, <2>3 DEF Going
  <2> QED
    BY <2>1, <2>2, <2>3, <2>4, HalfCompletes
<1>5. ASSUME NEW STATE gone, gone \subseteq registry, NEW why \in Reasons,
             NEW next \in {"top", "done"}, BeginEnding(gone, why, next),
             ~TaskHasLock
      PROVE  EndsUnderLock'
  <2>1. gone \subseteq Subs
    BY <1>1, <1>5 DEF TypeOK
  <2>2. /\ EndsOnly(gone, why) /\ UNCHANGED registry
        /\ io'.pc = "end" /\ io'.gone = gone
    BY <1>1, <1>5, <2>1, BeginEndingType
  <2>3. leaving = {} /\ UNCHANGED leaving
    BY <1>5 DEF BeginEnding
  <2>4. \A s \in registry : ended[s] = "none"
    BY <1>5, <2>3, NoneGoing DEF Locked
  <2>5. \A s \in Subs : Going(s)' <=> s \in gone
    BY <2>2, <2>3 DEF Going
  <2> QED
    BY <1>5, <2>2, <2>3, <2>4, <2>5, HalfBegins
<1>6. CASE Finish
  BY <1>5, <1>6 DEF Finish, Reasons, TaskHasLock
<1>7. ASSUME NEW d \in Dests, Abandon(d)
      PROVE  EndsUnderLock'
  <2>1. Registered(d) \subseteq registry /\ ~TaskHasLock
    BY <1>7 DEF Registered, Abandon, TaskHasLock
  <2> QED
    BY <1>5, <1>7, <2>1 DEF Abandon, Reasons
<1>8. CASE FinishEnding
  <2>1. RemovesOnly(io.gone) /\ UNCHANGED ended
    BY <1>1, <1>8, SecondHalf DEF FinishEnding
  <2>2. /\ io.pc = "end" /\ io'.pc \in {"top", "done"}
        /\ UNCHANGED leaving
    BY <1>1, <1>8, TaskHolds DEF FinishEnding, At
  <2>3. leaving = {}
    BY <1>2, <2>2 DEF TaskHasLock
  <2>4. \A s \in Subs : Going(s)' <=> Going(s) /\ s \notin io.gone
    BY <2>2, <2>3 DEF Going
  <2> QED
    BY <2>1, <2>2, <2>3, <2>4, HalfCompletes
<1>9. CASE PassClosed \/ WakeClosed
  <2>1. Remove({io.sub}) /\ UNCHANGED <<leaving, ended>>
        /\ io.pc \in {"drain", "offer", "wake"}
        /\ io'.pc \in {"pass", "top"}
    BY <1>9 DEF PassClosed, PassOn, WakeClosed, At
  <2>2. RemovesOnly({io.sub})
    BY <1>1, <2>1, RemoveRemovesOnly, ConstantsAssumption
  <2>3. leaving = {}
    BY <1>2, <2>1 DEF TaskHasLock
  <2>4. \A s \in Subs : Going(s)' <=> Going(s) /\ s \notin {io.sub}
    BY <2>1, <2>3 DEF Going
  <2> QED
    BY <2>1, <2>2, <2>3, <2>4, HalfCompletes
<1>10. CASE DrainOne \/ WakeOne
  <2>1. UNCHANGED <<registry, leaving, ended, io>>
        /\ io.pc \in {"drain", "wake"}
    BY <1>10 DEF DrainOne, WakeOne, MoveOne
  <2>2. io'.pc = io.pc /\ leaving = {}
    BY <1>2, <2>1 DEF TaskHasLock
  <2> QED
    BY <2>1, <2>2, NoHalf
<1>11. CASE (\E s \in Subs : PassNext(s)) \/ DrainStops \/ OfferTaken
            \/ OfferFull \/ ParkTaken \/ PassDone
  <2>1. UNCHANGED <<registry, leaving, ended>>
        /\ io.pc \in {"pass", "drain", "offer", "park"}
    BY <1>11
       DEF PassNext, DrainStops, OfferTaken, OfferFull, ParkTaken, PassDone
  <2>2. io'.pc \in {"pass", "drain", "offer", "park", "top", "fail"}
    BY <1>1, <1>11
       DEF PassNext, DrainStops, OfferTaken, OfferFull, ParkTaken, PassDone,
           PassOn, At, TypeOK, Tasks, Carrying
  <2>3. leaving = {}
    BY <1>2, <2>1 DEF TaskHasLock
  <2> QED
    BY <2>1, <2>2, <2>3, NoHalf
<1>12. CASE (\E s \in Subs, ok \in BOOLEAN : FailOne(s, ok)) \/ Top
            \/ GoDown \/ Reconnect \/ Exit \/ OtherEvent \/ LoseConnection
            \/ Shutdown \/ WakeStops
  <2>1. UNCHANGED <<registry, leaving, ended>>
        /\ io.pc \in {"fail", "top", "lost", "down", "done", "select", "wake"}
    BY <1>12
       DEF FailOne, Top, GoDown, Reconnect, Exit, OtherEvent, LoseConnection,
           Shutdown, WakeStops
  <2>2. io'.pc \in {"fail", "top", "select", "lost", "down", "ending",
                    "exited"}
    <3>1. CASE \E s \in Subs, ok \in BOOLEAN : FailOne(s, ok)
      BY <1>1, <3>1 DEF FailOne, At, TypeOK, Tasks, Carrying
    <3> QED
      BY <1>12, <3>1
         DEF Top, GoDown, Reconnect, Exit, OtherEvent, LoseConnection,
             Shutdown, WakeStops, At
  <2>3. ~TaskHasLock'
    BY <2>2 DEF TaskHasLock
  <2> QED
    BY <2>1, <2>2, <2>3, NoHalf
<1>13. ASSUME NEW s \in Subs,
              ReceiveNamed(s) \/ Wake(s)
       PROVE  EndsUnderLock'
  <2>1. UNCHANGED <<registry, leaving, ended>> /\ leaving = {}
        /\ io.pc = "select" /\ io'.pc \in {"pass", "wake"}
    <3>1. CASE ReceiveNamed(s)
      BY <3>1 DEF ReceiveNamed, Receive
    <3>2. CASE Wake(s)
      BY <3>2 DEF Wake
    <3> QED
      BY <1>13, <3>1, <3>2
  <2> QED
    BY <2>1, NoHalf
<1>14. ASSUME NEW d \in Dests, ReceiveForDest(d)
       PROVE  EndsUnderLock'
  <2>1. UNCHANGED <<registry, leaving, ended>> /\ leaving = {}
        /\ io.pc = "select" /\ io'.pc = "pass"
    BY <1>14 DEF ReceiveForDest, Receive
  <2> QED
    BY <2>1, NoHalf
<1>15. CASE Step
  BY <1>3, <1>4, <1>6, <1>8, <1>9, <1>10, <1>11, <1>12, <1>15 DEF Step
<1> QED
  BY <1>7, <1>12, <1>13, <1>14, <1>15 DEF Event

\* The invariant is inductive.
LEMMA StepInv == AllInv /\ [Next]_vars => AllInv'
<1> SUFFICES ASSUME AllInv, [Next]_vars
             PROVE  AllInv'
  OBVIOUS
<1>1. TypeOK /\ PassRegistered /\ DropsLeft
  BY DEF AllInv, Inv
<1>2. CASE UNCHANGED vars
  BY <1>2 DEF vars, AllInv, Inv, DropsLeft, TypeOK, PassRegistered, NewIsFresh,
              EndsUnderLock, Going, TaskHasLock, ParkedIsListed, GoneHasReason,
              BacklogBounds, FailsOnlyWhenFull, InPass, OnOne
<1>3. ASSUME NEW s \in Subs, Application(s)
      PROVE  AllInv'
  <2>1. TypeOK'
    BY <1>1, <1>3, ApplicationType
  <2>2. Others' /\ BacklogBounds' /\ EndsUnderLock'
    BY <1>3, <2>1, ApplicationInv, ApplicationEnds
  <2> QED
    BY <2>1, <2>2 DEF AllInv, Inv, Others
<1>4. CASE Step
  <2>1. TypeOK'
    BY <1>1, <1>4, PassType, LoopType DEF Step
  <2>2. Others' /\ BacklogBounds' /\ EndsUnderLock'
    BY <1>4, <2>1, PassInv, LoopInv, TaskEnds DEF Step
  <2> QED
    BY <2>1, <2>2 DEF AllInv, Inv, Others
<1>5. CASE Event \/ \E s \in Subs : Wake(s)
  <2>1. TypeOK'
    BY <1>1, <1>5, EventType
  <2>2. Others' /\ BacklogBounds' /\ EndsUnderLock'
    BY <1>5, <2>1, EventInv, TaskEnds
  <2> QED
    BY <2>1, <2>2 DEF AllInv, Inv, Others
<1> QED
  BY <1>2, <1>3, <1>4, <1>5 DEF Next

\* The invariant holds in every behaviour.
LEMMA Invariance == Spec => []AllInv
BY InitInv, StepInv, PTL DEF Spec

----------------------------------------------------------------------------
\* Every variable keeps its type, and no queue grows past its bound: the
\* memory held for a subscription is that of Cap + Limit frames.
THEOREM TypeCorrect == Spec => []TypeOK
<1>1. AllInv => TypeOK
  BY DEF AllInv, Inv
<1> QED
  BY <1>1, Invariance, PTL

\* No wakeup is lost: while the task is not delivering, whatever is parked is
\* parked for a subscription on the wake list.
THEOREM NoLostWakeup == Spec => []NoStrandedFrames
<1>1. AllInv => NoStrandedFrames
  BY DEF AllInv, Inv, TypeOK, ParkedIsListed, NoStrandedFrames
<1> QED
  BY <1>1, Invariance, PTL

\* A subscription fails for overflow only when its channel and its overflow
\* queue were both full before the MESSAGE that failed it.
THEOREM OverflowIsDeserved == Spec => []FailsOnlyWhenFull
<1>1. AllInv => FailsOnlyWhenFull
  BY DEF AllInv, Inv
<1> QED
  BY <1>1, Invariance, PTL

\* A consumer that sees its stream end can ask why: an end gives its reason and
\* drops the sender in two steps, in that order (EndHalf), and no poll falls
\* where the sender is gone and the reason is not there.
THEOREM ReasonBeforeEnd == Spec => []EndedBeforeNone
<1>1. AllInv => EndedBeforeNone
  BY DEF AllInv, Inv, EndedBeforeNone, NewIsFresh, GoneHasReason
<1> QED
  BY <1>1, Invariance, PTL

----------------------------------------------------------------------------
(* The mailbox: frames are offered in the order they are numbered. *)

\* The MESSAGE being delivered is still to be offered to this subscription.
Awaits(s) ==
    \/ InPass /\ s \in io.todo
    \/ OnOne /\ s = io.sub

Newest(s) == IF Awaits(s) THEN count - 1 ELSE count

\* Whatever a subscription holds, or its consumer read, is older than what it
\* is still to be offered.
UpTo(n, c, o, g) ==
    c \in Seq(1..n) /\ o \in Seq(1..n) /\ g \in Seq(1..n)

Numbered == \A s \in Subs : UpTo(Newest(s), chan[s], over[s], got[s])

MailInv == AllInv /\ Numbered

\* The number of the newest frame of a subscription.
LEMMA NewestInNat ==
    ASSUME NEW s \in Subs
    PROVE  AllInv => /\ Newest(s) \in Nat /\ count \in Nat
                     /\ Newest(s) <= count
                     /\ Awaits(s) => Newest(s) < count /\ count \in 1..MaxMsg
<1> SUFFICES ASSUME AllInv
             PROVE  /\ Newest(s) \in Nat /\ count \in Nat
                    /\ Newest(s) <= count
                    /\ Awaits(s) => Newest(s) < count /\ count \in 1..MaxMsg
  OBVIOUS
<1>1. TypeOK /\ PassRegistered
  BY DEF AllInv, Inv
<1>2. Awaits(s) => count \in 1..MaxMsg
  BY <1>1 DEF Awaits, PassRegistered, InPass, OnOne
<1>3. count \in Nat
  BY <1>1, ConstantsAssumption DEF TypeOK
<1> QED
  BY <1>2, <1>3, ConstantsAssumption DEF Newest

\* The same after a step.
LEMMA NextNewestInNat ==
    ASSUME NEW s \in Subs
    PROVE  AllInv' => (Newest(s) \in Nat)'
<1>1. AllInv => Newest(s) \in Nat
  BY NewestInNat
<1> QED
  BY <1>1, PTL

\* Frames up to a number are up to a larger one.
LEMMA UpToWidens ==
    ASSUME NEW m \in Nat, NEW n \in Nat, m <= n, NEW c, NEW o, NEW g,
           UpTo(m, c, o, g)
    PROVE  UpTo(n, c, o, g)
<1>1. 1..m \subseteq 1..n
  OBVIOUS
<1> QED
  BY <1>1, SeqMonotonic DEF UpTo

\* What a step that offers nothing leaves of a subscription's queues: nothing
\* new is in them.
NothingNew(s) ==
    \A n \in Nat : UpTo(n, chan[s], over[s], got[s])
                       => UpTo(n, chan'[s], over'[s], got'[s])

\* Where no frame enters, the frames stay numbered.
LEMMA NothingNewNumbered ==
    ASSUME MailInv, AllInv', NEW s \in Subs, NothingNew(s),
           Newest(s) <= Newest(s)'
    PROVE  UpTo(Newest(s)', chan'[s], over'[s], got'[s])
<1>1. Newest(s) \in Nat /\ UpTo(Newest(s), chan[s], over[s], got[s])
  BY NewestInNat DEF MailInv, Numbered
<1>2. Newest(s)' \in Nat
  BY NextNewestInNat
<1>3. UpTo(Newest(s), chan'[s], over'[s], got'[s])
  BY <1>1 DEF NothingNew
<1> QED
  BY <1>1, <1>2, <1>3, UpToWidens

\* The task can only come to owe a subscription a newer MESSAGE.
LEMMA NewestGrows ==
    ASSUME AllInv, AllInv', [Next]_vars, NEW s \in Subs
    PROVE  Newest(s) <= Newest(s)'
<1>1. /\ TypeOK /\ PassRegistered
      /\ OnOne \/ io.pc = "wake" => io.sub \in Subs
      /\ InPass => io.todo \subseteq Subs
  BY TaskHolds DEF AllInv, Inv
<1>2. Newest(s) \in Nat /\ count \in Nat /\ Newest(s) <= count
  BY NewestInNat
<1>3. CASE count' = count + 1
  BY <1>2, <1>3 DEF Newest
<1>4. CASE count' = count /\ (Awaits(s)' => Awaits(s))
  BY <1>2, <1>4 DEF Newest
<1>5. CASE UNCHANGED <<io, count>>
  BY <1>4, <1>5 DEF Awaits, InPass, OnOne
<1>6. CASE \E t \in Subs : PassNext(t)
  <2>1. PICK t \in Subs : PassNext(t)
    BY <1>6
  <2>2. count' = count /\ (Awaits(s)' => Awaits(s))
    BY <2>1 DEF PassNext, Awaits, InPass, OnOne
  <2> QED
    BY <1>4, <2>2
<1>7. CASE DrainStops \/ OfferFull \/ ParkRefused
  <2>1. /\ count' = count /\ io'.pc \in {"offer", "park", "evict"}
        /\ io'.sub = io.sub /\ io'.todo = io.todo /\ OnOne
    BY <1>1, <1>7
       DEF DrainStops, OfferFull, ParkRefused, TypeOK, Tasks, Carrying, OnOne
  <2>2. count' = count /\ (Awaits(s)' => Awaits(s))
    BY <2>1 DEF Awaits, InPass, OnOne
  <2> QED
    BY <1>4, <2>2
<1>8. CASE io' = PassOn /\ count' = count /\ InPass
  <2>1. io'.pc = "pass" /\ io'.todo = io.todo
    BY <1>8 DEF PassOn
  <2>2. count' = count /\ (Awaits(s)' => Awaits(s))
    BY <1>8, <2>1 DEF Awaits, InPass, OnOne
  <2> QED
    BY <1>4, <2>2
<1>9. CASE Evict
  <2>1. io'.pc = "pass" /\ io'.todo = io.todo /\ count' = count /\ InPass
    BY <1>9 DEF PassOn, Evict, InPass
  <2>2. count' = count /\ (Awaits(s)' => Awaits(s))
    BY <2>1 DEF Awaits, InPass, OnOne
  <2> QED
    BY <1>4, <2>2
<1>10. CASE count' = count
            /\ io'.pc \notin {"pass", "drain", "offer", "park", "evict"}
  <2>1. ~Awaits(s)'
    BY <1>10 DEF Awaits, InPass, OnOne
  <2> QED
    BY <1>4, <1>10, <2>1
<1>11. ASSUME NEW t \in Subs, Application(t) \/ Wake(t)
       PROVE  UNCHANGED <<io, count>> \/ (count' = count
                /\ io'.pc \notin {"pass", "drain", "offer", "park", "evict"})
  BY <1>11 DEF Application, SubscribeEnter, SubscribeSend, SubscribeGivenUp,
               Read, ReadEnd, Unsubscribe, DropHandle, BeginLeaving,
               FinishLeaving, DropReceiver, Wake
<1>12. CASE Event
  <2>1. ASSUME NEW d \in Dests, ReceiveForDest(d)
        PROVE  count' = count + 1
    BY <2>1 DEF ReceiveForDest, Receive
  <2>2. ASSUME NEW t \in Subs, ReceiveNamed(t)
        PROVE  count' = count + 1
    BY <2>2 DEF ReceiveNamed, Receive
  <2>3. ASSUME NEW d \in Dests, Abandon(d)
        PROVE  count' = count
               /\ io'.pc \notin {"pass", "drain", "offer", "park", "evict"}
    BY <2>3 DEF Abandon, BeginEnding
  <2>4. CASE OtherEvent \/ LoseConnection \/ Shutdown
    BY <1>10, <2>4 DEF OtherEvent, LoseConnection, Shutdown, At
  <2> QED
    BY <1>3, <1>10, <1>12, <2>1, <2>2, <2>3, <2>4 DEF Event
<1>13. CASE PassClosed \/ OfferTaken \/ ParkTaken
  BY <1>8, <1>13 DEF PassClosed, OfferTaken, ParkTaken, InPass
<1>14. CASE DrainOne \/ WakeOne
  BY <1>5, <1>14 DEF DrainOne, WakeOne, MoveOne
<1>15. ASSUME NEW t \in Subs, NEW ok \in BOOLEAN, FailOne(t, ok)
       PROVE  count' = count
              /\ io'.pc \notin {"pass", "drain", "offer", "park", "evict"}
  BY <1>1, <1>15 DEF FailOne, At, TypeOK, Tasks, Carrying
<1>16. CASE PassDone \/ Top \/ WakeStops \/ WakeClosed \/ GoDown \/ Reconnect
            \/ Finish \/ FinishEnding \/ Exit
  <2>1. CASE PassDone
    BY <1>10, <2>1 DEF PassDone, At
  <2>2. CASE Finish
    BY <1>10, <2>2 DEF Finish, BeginEnding
  <2>3. CASE ~PassDone /\ ~Finish
    <3>1. count' = count
          /\ \E pc \in {"top", "select", "down", "done", "exited"} :
                 io' = At(pc)
      BY <1>1, <1>16, <2>3, TaskHolds
         DEF Top, WakeStops, WakeClosed, GoDown, Reconnect, FinishEnding, Exit
    <3>2. io'.pc \notin {"pass", "drain", "offer", "park", "evict"}
      BY <3>1 DEF At
    <3> QED
      BY <1>10, <3>1, <3>2
  <2> QED
    BY <2>1, <2>2, <2>3
<1>17. CASE Step
  BY <1>6, <1>7, <1>9, <1>10, <1>13, <1>14, <1>15, <1>16, <1>17 DEF Step
<1> QED
  BY <1>5, <1>10, <1>11, <1>12, <1>17 DEF Next, vars

----------------------------------------------------------------------------
\* What a step is to the mailbox of one subscription.
MailStep(s) == MailboxOf(s)!Next \/ UNCHANGED MailboxOf(s)!vars

\* The types of the queues of one subscription.
LEMMA Queued ==
    ASSUME AllInv, NEW s \in Subs
    PROVE  /\ chan[s] \in Seq(Frames) /\ over[s] \in Seq(Frames)
           /\ got[s] \in Seq(Frames)
           /\ s \in registry => reader[s] # "new" /\ reader[s] # "done"
BY DEF AllInv, Inv, TypeOK, NewIsFresh

\* Nothing happens to the subscription, but that it is handed over or done.
LEMMA Undisturbed ==
    ASSUME NEW s \in Subs,
           chan'[s] = chan[s], over'[s] = over[s], got'[s] = got[s],
           s \in registry' <=> s \in registry,
           \/ reader'[s] = reader[s]
           \/ {reader[s], reader'[s]} \cap {"new", "gone"} = {}
    PROVE  NothingNew(s) /\ MailStep(s)
<1>1. StateOf(s)' = StateOf(s) /\ Waiting(s)' = Waiting(s)
  BY DEF StateOf, Waiting, Closed
<1>2. UNCHANGED MailboxOf(s)!vars
  BY <1>1 DEF MailboxOf!vars
<1> QED
  BY <1>2 DEF NothingNew, MailStep

\* Whatever happens to a subscription without a reader, its mailbox is left.
LEMMA ReaderLeft ==
    ASSUME NEW s \in Subs, reader'[s] = "gone", got'[s] = got[s]
    PROVE  MailStep(s)
<1>1. StateOf(s)' = "ended" /\ Waiting(s)' = <<>>
  BY DEF StateOf, Waiting, Closed
<1> QED
  BY <1>1 DEF MailStep, MailboxOf!Next, MailboxOf!Leave

\* Queues that are emptied or left alone.
LEMMA OnlyEmptied ==
    ASSUME NEW s \in Subs, chan'[s] \in {chan[s], <<>>},
           over'[s] \in {over[s], <<>>}, got'[s] = got[s]
    PROVE  NothingNew(s)
<1>1. \A n \in Nat : <<>> \in Seq(1..n)
  OBVIOUS
<1> QED
  BY <1>1 DEF NothingNew, UpTo

\* An entry goes, and what was parked for it.
LEMMA EntryGoes ==
    ASSUME AllInv, NEW s \in Subs, s \in registry, s \notin registry',
           chan'[s] = chan[s], over'[s] = <<>>, got'[s] = got[s],
           reader'[s] = reader[s]
    PROVE  NothingNew(s) /\ MailStep(s)
<1>1. NothingNew(s)
  BY OnlyEmptied
<1>2. CASE reader[s] = "gone"
  BY <1>1, <1>2, ReaderLeft
<1>3. CASE reader[s] # "gone"
  <2>1. chan[s] \in Seq(Frames) /\ over[s] \in Seq(Frames)
        /\ reader[s] # "new"
    BY Queued
  <2>2. /\ StateOf(s) # "ended" /\ StateOf(s)' = "ended"
        /\ Waiting(s) = chan[s] \o over[s]
        /\ Waiting(s)' = chan[s] \o <<>>
    BY <1>3, <2>1 DEF StateOf, Waiting, Closed
  <2>3. Waiting(s)' = chan[s]
    BY <2>1, <2>2, ConcatEmptySeq
  <2>4. \E k \in 0..Len(Waiting(s)) : Waiting(s)' = SubSeq(Waiting(s), 1, k)
    <3>1. /\ Len(chan[s]) \in 0..Len(chan[s] \o over[s])
          /\ chan[s] = SubSeq(chan[s] \o over[s], 1, Len(chan[s]))
      BY <2>1, FrontIsCut
    <3> QED
      BY <2>2, <2>3, <3>1
  <2>5. MailboxOf(s)!EndIt
    BY <2>2, <2>4 DEF MailboxOf!EndIt, MailboxOf!CutShort
  <2> QED
    BY <1>1, <2>5 DEF MailStep, MailboxOf!Next
<1> QED
  BY <1>2, <1>3

\* A parked frame moves into the channel: to the consumer it is where it was.
LEMMA FrameMoves ==
    ASSUME AllInv, NEW STATE t, t \in Subs, MoveOne(t), NEW s \in Subs
    PROVE  NothingNew(s) /\ MailStep(s)
<1>1. /\ chan[t] \in Seq(Frames) /\ over[t] \in Seq(Frames) /\ over[t] # <<>>
      /\ reader[t] # "gone"
  BY Queued DEF MoveOne, Room, Closed
<1>2. /\ UNCHANGED <<registry, reader, got>>
      /\ chan'[t] = Append(chan[t], Head(over[t])) /\ over'[t] = Tail(over[t])
      /\ s # t => chan'[s] = chan[s] /\ over'[s] = over[s]
  BY DEF MoveOne, AllInv, Inv, TypeOK
<1>3. CASE s # t
  BY <1>2, <1>3, Undisturbed
<1>4. CASE s = t
  <2>1. chan'[t] \o over'[t] = chan[t] \o over[t]
    BY <1>1, <1>2, MoveBetween
  <2>2. StateOf(s)' = StateOf(s) /\ Waiting(s)' = Waiting(s)
    BY <1>1, <1>2, <1>4, <2>1 DEF StateOf, Waiting, Closed
  <2>3. UNCHANGED MailboxOf(s)!vars
    BY <1>2, <2>2 DEF MailboxOf!vars
  <2>4. NothingNew(s)
    <3>1. ASSUME NEW n \in Nat, UpTo(n, chan[s], over[s], got[s])
          PROVE  UpTo(n, chan'[s], over'[s], got'[s])
      <4>1. Head(over[s]) \in 1..n /\ Tail(over[s]) \in Seq(1..n)
            /\ chan[s] \in Seq(1..n)
        BY <1>1, <1>4, <3>1, TailShape DEF UpTo
      <4>2. Append(chan[s], Head(over[s])) \in Seq(1..n)
        BY <4>1, AppendProperties
      <4> QED
        BY <1>2, <1>4, <3>1, <4>1, <4>2 DEF UpTo
    <3> QED
      BY <3>1 DEF NothingNew
  <2> QED
    BY <2>3, <2>4 DEF MailStep
<1> QED
  BY <1>3, <1>4

\* The consumer reads: the frame that has waited longest.
LEMMA ConsumerReads ==
    ASSUME AllInv, NEW t \in Subs, Read(t), NEW s \in Subs
    PROVE  NothingNew(s) /\ MailStep(s)
<1>1. /\ chan[t] \in Seq(Frames) /\ over[t] \in Seq(Frames) /\ chan[t] # <<>>
      /\ reader[t] # "gone"
  BY Queued DEF Read
<1>2. /\ UNCHANGED <<registry, reader, over>>
      /\ chan'[t] = Tail(chan[t]) /\ got'[t] = Append(got[t], Head(chan[t]))
      /\ s # t => chan'[s] = chan[s] /\ got'[s] = got[s]
  BY DEF Read, AllInv, Inv, TypeOK
<1>3. CASE s # t
  BY <1>2, <1>3, Undisturbed
<1>4. CASE s = t
  <2>1. /\ chan[t] \o over[t] # <<>>
        /\ Head(chan[t] \o over[t]) = Head(chan[t])
        /\ Tail(chan[t] \o over[t]) = Tail(chan[t]) \o over[t]
    BY <1>1, TakeFromFront
  <2>2. /\ StateOf(s)' = StateOf(s) /\ Waiting(s) = chan[t] \o over[t]
        /\ Waiting(s)' = Tail(chan[t]) \o over[t]
    BY <1>1, <1>2, <1>4 DEF StateOf, Waiting, Closed
  <2>3. MailboxOf(s)!Read
    BY <1>2, <1>4, <2>1, <2>2 DEF MailboxOf!Read
  <2>4. NothingNew(s)
    <3>1. ASSUME NEW n \in Nat, UpTo(n, chan[s], over[s], got[s])
          PROVE  UpTo(n, chan'[s], over'[s], got'[s])
      <4>1. Head(chan[s]) \in 1..n /\ Tail(chan[s]) \in Seq(1..n)
            /\ got[s] \in Seq(1..n)
        BY <1>1, <1>4, <3>1, TailShape DEF UpTo
      <4>2. Append(got[s], Head(chan[s])) \in Seq(1..n)
        BY <4>1, AppendProperties
      <4> QED
        BY <1>2, <1>4, <3>1, <4>1, <4>2 DEF UpTo
    <3> QED
      BY <3>1 DEF NothingNew
  <2> QED
    BY <2>3, <2>4 DEF MailStep, MailboxOf!Next
<1> QED
  BY <1>3, <1>4

\* A reconnect: what was parked in a client ack mode is taken back.
LEMMA TakenBack ==
    ASSUME AllInv, Reconnect, NEW s \in Subs
    PROVE  NothingNew(s) /\ MailStep(s)
<1>1. /\ UNCHANGED <<registry, reader, got, chan>>
      /\ over'[s] = IF s \in registry \ AutoSubs THEN <<>> ELSE over[s]
  BY DEF Reconnect
<1>2. NothingNew(s)
  BY <1>1, OnlyEmptied
<1>3. CASE s \notin registry \ AutoSubs
  BY <1>1, <1>3, Undisturbed
<1>4. CASE reader[s] = "gone"
  BY <1>1, <1>2, <1>4, ReaderLeft
<1>5. CASE s \in registry \ AutoSubs /\ reader[s] # "gone"
  <2>1. chan[s] \in Seq(Frames) /\ over[s] \in Seq(Frames)
    BY Queued
  <2>2. /\ StateOf(s) = "open" /\ StateOf(s)' = "open"
        /\ Waiting(s) = chan[s] \o over[s]
        /\ Waiting(s)' = chan[s] \o <<>>
    BY <1>1, <1>5 DEF StateOf, Waiting, Closed
  <2>3. Waiting(s)' = chan[s]
    BY <2>1, <2>2, ConcatEmptySeq
  <2>4. \E k \in 0..Len(Waiting(s)) : Waiting(s)' = SubSeq(Waiting(s), 1, k)
    <3>1. /\ Len(chan[s]) \in 0..Len(chan[s] \o over[s])
          /\ chan[s] = SubSeq(chan[s] \o over[s], 1, Len(chan[s]))
      BY <2>1, FrontIsCut
    <3> QED
      BY <2>2, <2>3, <3>1
  <2>5. MailboxOf(s)!TakeBack
    BY <1>1, <1>5, <2>2, <2>4 DEF MailboxOf!TakeBack, MailboxOf!CutShort
  <2> QED
    BY <1>2, <2>5 DEF MailStep, MailboxOf!Next
<1> QED
  BY <1>3, <1>4, <1>5

\* The MESSAGE being delivered is newer than all that waits or was read.
LEMMA AcceptsNewest ==
    ASSUME MailInv, NEW s \in Subs, Awaits(s), s \in registry,
           reader[s] # "gone", reader'[s] = reader[s], s \in registry',
           got'[s] = got[s],
           Waiting(s)' = Append(Waiting(s), count),
           Len(chan[s]) + Len(over[s]) < Cap + Limit
    PROVE  MailStep(s)
<1>1. /\ chan[s] \in Seq(1..(count - 1)) /\ over[s] \in Seq(1..(count - 1))
      /\ got[s] \in Seq(1..(count - 1)) /\ count \in 1..MaxMsg
  BY NewestInNat DEF MailInv, Numbered, UpTo, Newest
<1>2. /\ Waiting(s) = chan[s] \o over[s]
      /\ StateOf(s) = "open" /\ StateOf(s)' = "open"
  BY DEF Waiting, StateOf, Closed
<1>3. Waiting(s) \in Seq(1..(count - 1)) /\ Len(Waiting(s)) < Cap + Limit
  <2>1. /\ chan[s] \o over[s] \in Seq(1..(count - 1))
        /\ Len(chan[s] \o over[s]) = Len(chan[s]) + Len(over[s])
    BY <1>1, ConcatProperties
  <2> QED
    BY <1>2, <2>1
<1>4. /\ \A i \in DOMAIN Waiting(s) : Waiting(s)[i] < count
      /\ \A i \in DOMAIN got[s] : got[s][i] < count
  BY <1>1, <1>3, ElementOfSeq, LenProperties
<1>5. MailboxOf(s)!Accept(count)
  BY <1>2, <1>3, <1>4 DEF MailboxOf!Accept
<1> QED
  BY <1>1, <1>5 DEF MailStep, MailboxOf!Next

\* The frame goes into the channel, nothing being parked in front of it, ...
LEMMA FrameOffered ==
    ASSUME MailInv, AllInv', OfferTaken, NEW s \in Subs
    PROVE  /\ MailStep(s)
           /\ UpTo(Newest(s)', chan'[s], over'[s], got'[s])
<1>1. TypeOK /\ PassRegistered /\ AllInv /\ Cap \in Nat /\ Limit \in Nat
  BY ConstantsAssumption DEF MailInv, AllInv, Inv
<1>2. /\ UNCHANGED <<registry, reader, got, over, count>>
      /\ s # io.sub => chan'[s] = chan[s]
      /\ s = io.sub => chan'[s] = Append(chan[s], count)
  BY <1>1 DEF OfferTaken, TypeOK
<1>3. Newest(s) <= Newest(s)'
  BY <1>1, NewestGrows DEF Next, Step
<1>4. CASE s # io.sub
  <2>1. NothingNew(s) /\ MailStep(s)
    BY <1>2, <1>4, Undisturbed
  <2> QED
    BY <1>3, <2>1, NothingNewNumbered
<1>5. CASE s = io.sub
  <2>1. /\ Awaits(s) /\ s \in registry /\ over[s] = <<>>
        /\ reader[s] # "gone" /\ Len(chan[s]) < Cap
        /\ ~Awaits(s)'
    BY <1>1, <1>5
       DEF OfferTaken, Room, Closed, Awaits, PassRegistered, OnOne, InPass,
           PassOn
  <2>2. /\ chan[s] \in Seq(1..(count - 1)) /\ over[s] \in Seq(1..(count - 1))
        /\ got[s] \in Seq(1..(count - 1)) /\ count \in 1..MaxMsg
    BY <1>1, <2>1, NewestInNat DEF MailInv, Numbered, UpTo, Newest
  <2>3. /\ chan[s] \in Seq(1..count) /\ over[s] \in Seq(1..count)
        /\ got[s] \in Seq(1..count) /\ count \in 1..count
    <3>1. 1..(count - 1) \subseteq 1..count /\ count \in 1..count
      BY <2>2
    <3> QED
      BY <2>2, <3>1, SeqMonotonic
  <2>4. Append(chan[s], count) \in Seq(1..count)
    BY <2>3, AppendProperties
  <2>5. UpTo(Newest(s)', chan'[s], over'[s], got'[s])
    BY <1>2, <1>5, <2>1, <2>3, <2>4 DEF UpTo, Newest
  <2>6. Waiting(s)' = Append(Waiting(s), count)
    <3>1. Waiting(s) = chan[s] \o <<>>
          /\ Waiting(s)' = Append(chan[s], count) \o <<>>
      BY <1>2, <1>5, <2>1 DEF Waiting, Closed
    <3> QED
      BY <2>3, <2>4, <3>1, ConcatEmptySeq
  <2>7. Len(chan[s]) + Len(over[s]) < Cap + Limit
    <3>1. Len(chan[s]) \in Nat /\ Len(over[s]) = 0
      BY <2>1, <2>3
    <3> QED
      BY <1>1, <2>1, <3>1
  <2>8. MailStep(s)
    BY <1>2, <2>1, <2>6, <2>7, AcceptsNewest
  <2> QED
    BY <2>5, <2>8
<1> QED
  BY <1>4, <1>5

\* ... or behind what is parked; either way behind all that waits.
LEMMA FrameParked ==
    ASSUME MailInv, AllInv', ParkTaken, NEW s \in Subs
    PROVE  /\ MailStep(s)
           /\ UpTo(Newest(s)', chan'[s], over'[s], got'[s])
<1>1. TypeOK /\ PassRegistered /\ AllInv /\ Cap \in Nat /\ Limit \in Nat
  BY ConstantsAssumption DEF MailInv, AllInv, Inv
<1>2. /\ UNCHANGED <<registry, reader, got, chan, count>>
      /\ s # io.sub => over'[s] = over[s]
      /\ s = io.sub => over'[s] = Append(over[s], count)
  BY <1>1 DEF ParkTaken, TypeOK
<1>3. Newest(s) <= Newest(s)'
  BY <1>1, NewestGrows DEF Next, Step
<1>4. CASE s # io.sub
  <2>1. NothingNew(s) /\ MailStep(s)
    BY <1>2, <1>4, Undisturbed
  <2> QED
    BY <1>3, <2>1, NothingNewNumbered
<1>5. CASE s = io.sub
  <2>1. /\ Awaits(s) /\ s \in registry /\ ~Awaits(s)'
        /\ ~(Len(over[s]) >= Limit)
    BY <1>1, <1>5
       DEF ParkTaken, AtLimit, Awaits, PassRegistered, OnOne, InPass, PassOn
  <2>2. /\ chan[s] \in Seq(1..(count - 1)) /\ over[s] \in Seq(1..(count - 1))
        /\ got[s] \in Seq(1..(count - 1)) /\ count \in 1..MaxMsg
    BY <1>1, <2>1, NewestInNat DEF MailInv, Numbered, UpTo, Newest
  <2>3. /\ chan[s] \in Seq(1..count) /\ over[s] \in Seq(1..count)
        /\ got[s] \in Seq(1..count) /\ count \in 1..count
    <3>1. 1..(count - 1) \subseteq 1..count /\ count \in 1..count
      BY <2>2
    <3> QED
      BY <2>2, <3>1, SeqMonotonic
  <2>4. Append(over[s], count) \in Seq(1..count)
    BY <2>3, AppendProperties
  <2>5. UpTo(Newest(s)', chan'[s], over'[s], got'[s])
    BY <1>2, <1>5, <2>1, <2>3, <2>4 DEF UpTo, Newest
  <2>6. CASE reader[s] = "gone"
    BY <1>2, <2>5, <2>6, ReaderLeft
  <2>7. CASE reader[s] # "gone"
    <3>1. Waiting(s)' = Append(Waiting(s), count)
      <4>1. Waiting(s) = chan[s] \o over[s]
            /\ Waiting(s)' = chan[s] \o Append(over[s], count)
        BY <1>2, <1>5, <2>7 DEF Waiting, Closed
      <4>2. chan[s] \o Append(over[s], count)
               = Append(chan[s] \o over[s], count)
        <5> DEFINE S == 1..count
                   a == chan[s]
                   b == over[s]
        <5>1. a \in Seq(S) /\ b \in Seq(S) /\ count \in S
          BY <2>3
        <5> HIDE DEF S, a, b
        <5>2. a \o Append(b, count) = Append(a \o b, count)
          BY <5>1, AppendBehind
        <5> QED
          BY <5>2 DEF a, b
      <4> QED
        BY <4>1, <4>2
    <3>2. Len(chan[s]) + Len(over[s]) < Cap + Limit
      <4>1. Len(chan[s]) \in Nat /\ Len(over[s]) \in Nat
            /\ Len(chan[s]) <= Cap
        BY <1>1, <2>3 DEF TypeOK
      <4>2. \A a, b, c, d \in Nat : a <= c /\ ~(b >= d) => a + b < c + d
        OBVIOUS
      <4> QED
        BY <1>1, <2>1, <4>1, <4>2
    <3>3. MailStep(s)
      BY <1>2, <2>1, <2>7, <3>1, <3>2, AcceptsNewest
    <3> QED
      BY <2>5, <3>3
  <2> QED
    BY <2>6, <2>7
<1> QED
  BY <1>4, <1>5

\* Entries go: the others are left alone.
LEMMA SomeGo ==
    ASSUME AllInv, NEW STATE gone, gone \subseteq registry, RemovesOnly(gone),
           UNCHANGED <<chan, got, reader>>, NEW s \in Subs
    PROVE  NothingNew(s) /\ MailStep(s)
<1>1. CASE s \in gone
  BY <1>1, EntryGoes DEF RemovesOnly
<1>2. CASE s \notin gone
  BY <1>2, Undisturbed DEF RemovesOnly
<1> QED
  BY <1>1, <1>2

\* A step of the application takes, drops or leaves the mail of a subscription,
\* as Mailbox says.
LEMMA ApplicationMail ==
    ASSUME AllInv, NEW t \in Subs, Application(t), NEW s \in Subs
    PROVE  NothingNew(s) /\ MailStep(s)
<1>0. TypeOK /\ PassRegistered /\ NewIsFresh
  BY DEF AllInv, Inv
<1>1. CASE SubscribeEnter(t)
  <2>1. /\ UNCHANGED <<chan, over, got>> /\ reader[t] = "new"
        /\ reader'[t] = "entered" /\ registry' = registry \cup {t}
        /\ s # t => reader'[s] = reader[s]
    BY <1>0, <1>1 DEF SubscribeEnter, TypeOK
  <2>2. CASE s # t
    BY <2>1, <2>2, Undisturbed
  <2>3. CASE s = t
    <3>1. StateOf(s) = "unborn" /\ StateOf(s)' = "open"
          /\ Waiting(s)' = Waiting(s)
      BY <1>0, <2>1, <2>3 DEF NewIsFresh, StateOf, Waiting, Closed
    <3>2. MailboxOf(s)!Open
      BY <2>1, <3>1 DEF MailboxOf!Open
    <3>3. NothingNew(s)
      BY <2>1, OnlyEmptied
    <3> QED
      BY <3>2, <3>3 DEF MailStep, MailboxOf!Next
  <2> QED
    BY <2>2, <2>3
<1>2. CASE Read(t)
  BY <1>2, ConsumerReads
<1>3. CASE Unsubscribe(t) \/ DropHandle(t)
  <2>1. PICK next \in {"open", "dropping"} : BeginLeaving(t, next)
    BY <1>3 DEF Unsubscribe, DropHandle
  <2>2. UNCHANGED <<chan, over, got, registry>>
    BY <1>0, <2>1, FirstHalf DEF BeginLeaving, Reasons
  <2>3. /\ {reader[t], reader'[t]} \cap {"new", "gone"} = {}
        /\ s # t => reader'[s] = reader[s]
    BY <1>0, <2>1 DEF BeginLeaving, TypeOK
  <2> QED
    BY <2>2, <2>3, Undisturbed
<1>7. CASE FinishLeaving(t) /\ reader[t] # "dropping"
  <2>1. RemovesOnly({t}) /\ UNCHANGED <<chan, got, reader>>
    BY <1>0, <1>7, SecondHalf DEF FinishLeaving
  <2>2. {t} \subseteq registry
    BY <1>7 DEF FinishLeaving, AllInv, Inv, EndsUnderLock, Going
  <2> QED
    BY <2>1, <2>2, SomeGo
<1>4. CASE \/ SubscribeGivenUp(t) \/ DropReceiver(t)
           \/ FinishLeaving(t) /\ reader[t] = "dropping"
  <2>0. /\ reader' = [reader EXCEPT ![t] = "gone"]
        /\ chan' = [chan EXCEPT ![t] = <<>>] /\ UNCHANGED got
        /\ UNCHANGED <<registry, over>> \/ RemovesOnly({t})
    BY <1>0, <1>4, SecondHalf
       DEF SubscribeGivenUp, DropReceiver, FinishLeaving
  <2>1. /\ reader'[t] = "gone" /\ chan'[t] = <<>> /\ UNCHANGED got
        /\ over'[t] \in {over[t], <<>>}
        /\ s # t => /\ reader'[s] = reader[s] /\ chan'[s] = chan[s]
                    /\ over'[s] = over[s]
                    /\ s \in registry' <=> s \in registry
    BY <1>0, <2>0 DEF TypeOK, RemovesOnly
  <2>2. CASE s # t
    BY <2>1, <2>2, Undisturbed
  <2>3. CASE s = t
    <3>1. MailStep(s)
      BY <2>1, <2>3, ReaderLeft
    <3>2. NothingNew(s)
      BY <2>1, <2>3, OnlyEmptied
    <3> QED
      BY <3>1, <3>2
  <2> QED
    BY <2>2, <2>3
<1>5. CASE (SubscribeSend(t) /\ io.pc # "exited") \/ ReadEnd(t)
  <2>1. /\ UNCHANGED <<chan, over, got, registry>>
        /\ {reader[t], reader'[t]} \cap {"new", "gone"} = {}
        /\ s # t => reader'[s] = reader[s]
    BY <1>0, <1>5 DEF SubscribeSend, ReadEnd, TypeOK
  <2> QED
    BY <2>1, Undisturbed
<1>6. CASE SubscribeSend(t) /\ io.pc = "exited"
  <2>1. /\ UNCHANGED <<chan, over, got, registry>> /\ reader'[t] = "gone"
        /\ s # t => reader'[s] = reader[s]
    BY <1>0, <1>6 DEF SubscribeSend, TypeOK
  <2>2. CASE s # t
    BY <2>1, <2>2, Undisturbed
  <2>3. CASE s = t
    <3>1. MailStep(s)
      BY <2>1, <2>3, ReaderLeft
    <3>2. NothingNew(s)
      BY <2>1, OnlyEmptied
    <3> QED
      BY <3>1, <3>2
  <2> QED
    BY <2>2, <2>3
<1> QED
  BY <1>1, <1>2, <1>3, <1>4, <1>5, <1>6, <1>7 DEF Application

\* Steps of the task that offer no frame.
LEMMA TaskMail ==
    ASSUME AllInv, Step, ~OfferTaken, ~ParkTaken, NEW s \in Subs
    PROVE  NothingNew(s) /\ MailStep(s)
<1>0. /\ TypeOK /\ PassRegistered
      /\ OnOne \/ io.pc = "wake" => io.sub \in Subs
  BY TaskHolds DEF AllInv, Inv
<1>1. CASE DrainOne \/ WakeOne
  <2>1. io.sub \in Subs /\ MoveOne(io.sub)
    BY <1>0, <1>1 DEF DrainOne, WakeOne, OnOne
  <2> QED
    BY <2>1, FrameMoves
<1>2. CASE PassClosed \/ WakeClosed
  <2>1. Remove({io.sub}) /\ io.sub \in registry
        /\ UNCHANGED <<chan, got, reader>>
    BY <1>0, <1>2 DEF PassClosed, WakeClosed, PassRegistered, OnOne
  <2>2. RemovesOnly({io.sub}) /\ {io.sub} \subseteq registry
    BY <1>0, <2>1, RemoveRemovesOnly, ConstantsAssumption
  <2> QED
    BY <2>1, <2>2, SomeGo
<1>6. CASE Evict
  <2>1. RemovesOnly({io.sub}) /\ UNCHANGED <<chan, got, reader>>
    BY <1>0, <1>6, SecondHalf DEF Evict
  <2>2. {io.sub} \subseteq registry
    BY <1>0, <1>6 DEF Evict, PassRegistered, OnOne
  <2> QED
    BY <2>1, <2>2, SomeGo
<1>3. CASE FinishEnding
  <2>1. RemovesOnly(io.gone) /\ UNCHANGED <<chan, got, reader>>
    BY <1>0, <1>3, SecondHalf DEF FinishEnding
  <2>2. io.gone \subseteq registry
    BY <1>0, <1>3, TaskHolds
       DEF FinishEnding, AllInv, Inv, EndsUnderLock, Going
  <2> QED
    BY <2>1, <2>2, SomeGo
<1>7. CASE ParkRefused \/ Finish
  <2>1. UNCHANGED <<chan, over, got, registry, reader>>
    BY <1>0, <1>7, FirstHalf DEF ParkRefused, Finish, BeginEnding, Reasons
  <2> QED
    BY <2>1, Undisturbed
<1>4. CASE Reconnect
  BY <1>4, TakenBack
<1>5. CASE UNCHANGED <<chan, over, got, registry, reader>>
  BY <1>5, Undisturbed
<1> QED
  BY <1>1, <1>2, <1>3, <1>4, <1>5, <1>6, <1>7
     DEF Step, PassNext, DrainStops, OfferFull, PassDone, FailOne, Top,
         WakeStops, GoDown, Exit

\* So does every step of the task other than a dispatch.
LEMMA EventMail ==
    ASSUME AllInv, Event \/ \E t \in Subs : Wake(t), NEW s \in Subs
    PROVE  NothingNew(s) /\ MailStep(s)
<1>1. TypeOK
  BY DEF AllInv, Inv
<1>2. ASSUME NEW d \in Dests, Abandon(d)
      PROVE  NothingNew(s) /\ MailStep(s)
  <2>1. UNCHANGED <<chan, over, got, registry, reader>>
    BY <1>1, <1>2, FirstHalf DEF Abandon, BeginEnding, Reasons
  <2> QED
    BY <2>1, Undisturbed
<1>3. CASE UNCHANGED <<chan, over, got, registry, reader>>
  BY <1>3, Undisturbed
<1> QED
  BY <1>2, <1>3
     DEF Event, Wake, ReceiveNamed, ReceiveForDest, Receive, OtherEvent,
         LoseConnection, Shutdown

\* Every step of the client is a step of every mailbox, or leaves it alone.
LEMMA StepMail ==
    MailInv /\ AllInv' /\ [Next]_vars =>
        /\ MailInv'
        /\ \A s \in Subs : MailStep(s)
<1> SUFFICES ASSUME MailInv, AllInv', [Next]_vars, NEW s \in Subs
             PROVE  /\ UpTo(Newest(s)', chan'[s], over'[s], got'[s])
                    /\ MailStep(s)
  BY DEF MailInv, Numbered
<1>1. AllInv
  BY DEF MailInv
<1>2. CASE OfferTaken \/ ParkTaken
  BY <1>2, FrameOffered, FrameParked
<1>3. CASE NothingNew(s) /\ MailStep(s)
  BY <1>1, <1>3, NewestGrows, NothingNewNumbered
<1>4. CASE UNCHANGED vars
  BY <1>3, <1>4, Undisturbed DEF vars
<1> QED
  BY <1>1, <1>2, <1>3, <1>4, ApplicationMail, TaskMail, EventMail DEF Next

\* A mailbox is empty at the start.
LEMMA InitMail == Init => MailInv /\ \A s \in Subs : MailboxOf(s)!Init
<1> SUFFICES ASSUME Init, NEW s \in Subs
             PROVE  UpTo(Newest(s), chan[s], over[s], got[s])
                    /\ MailboxOf(s)!Init
  BY InitInv DEF MailInv, Numbered
<1>1. /\ chan[s] = <<>> /\ over[s] = <<>> /\ got[s] = <<>> /\ registry = {}
      /\ reader[s] = "new"
  BY DEF Init
<1>2. UpTo(Newest(s), chan[s], over[s], got[s])
  BY <1>1 DEF UpTo
<1>3. <<>> \o <<>> = <<>>
  OBVIOUS
<1>4. StateOf(s) = "unborn" /\ Waiting(s) = <<>>
  BY <1>1, <1>3 DEF StateOf, Waiting, Closed
<1> QED
  BY <1>1, <1>2, <1>4 DEF MailboxOf!Init

\* Each subscription is a mailbox to its consumer: module Delivery implements
\* module Mailbox, once for every subscription.
THEOREM MailboxKept == Spec => IsMailbox
<1>1. Init => MailInv /\ \A s \in Subs : MailboxOf(s)!Init
  BY InitMail
<1>2. MailInv /\ AllInv' /\ [Next]_vars => MailInv'
  BY StepMail
<1>3. MailInv /\ AllInv' /\ [Next]_vars
         => [\A s \in Subs : MailboxOf(s)!Next
                             \/ UNCHANGED MailboxOf(s)!vars]_vars
  BY StepMail DEF MailStep
<1> QED
  BY <1>1, <1>2, <1>3, Invariance, PTL DEF Spec, IsMailbox
=============================================================================
