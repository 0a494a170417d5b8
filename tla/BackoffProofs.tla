---------------------------- MODULE BackoffProofs ----------------------------
(***************************************************************************)
(* Theorems about Backoff, for any durations, timeout and bound.           *)
(***************************************************************************)
EXTENDS Backoff, SequenceTheorems, TLAPS

----------------------------------------------------------------------------
(* The schedule *)

\* A wait that doubles does not shrink, and stays within the cap.
LEMMA DoubledType ==
    ASSUME NEW b \in 1..Cap
    PROVE  Doubled(b) \in 1..Cap /\ b <= Doubled(b)
BY DEF Doubled, Lesser, Cap

\* A wait that keeps up with the schedule, doubled, keeps up with its next.
LEMMA DoubledKeepsUp ==
    ASSUME NEW b \in 1..Cap, NEW n \in Nat, Documented(n) <= b
    PROVE  Documented(n + 1) <= Doubled(b)
BY DEF Documented, Doubled, Lesser, Cap

\* The documented delays grow up to the cap.
LEMMA ScheduleGrows ==
    ASSUME NEW n \in Nat
    PROVE  Documented(n) \in 1..Cap /\ Documented(n) <= Documented(n + 1)
BY DEF Documented, Cap

----------------------------------------------------------------------------
(* Types *)

\* Naturals add up to a natural.
LEMMA SumType == ASSUME NEW a \in Nat, NEW b \in Nat PROVE a + b \in Nat
OBVIOUS

\* What is added to a sequence is its last element.
LEMMA LastAdded ==
    ASSUME NEW S, NEW s \in Seq(S), NEW e \in S
    PROVE  /\ Append(s, e) \in Seq(S)
           /\ Append(s, e) # <<>>
           /\ Append(s, e)[Len(Append(s, e))] = e
BY AppendProperties

\* The last element of a sequence is one of its elements.
LEMMA LastType ==
    ASSUME NEW S, NEW s \in Seq(S), s # <<>>
    PROVE  s[Len(s)] \in S
<1>1. Len(s) \in Nat /\ Len(s) # 0 /\ s \in [1..Len(s) -> S]
  BY LenProperties, EmptySeq
<1> QED
  BY <1>1

\* The types hold at the start, and each step keeps them.
LEMMA InitType == Init => TypeOK
<1>1. <<>> \in Seq(Errors) /\ <<>> \in Seq(1..Cap)
  OBVIOUS
<1> QED
  BY <1>1 DEF Init, TypeOK, Cap

\* A connect attempt keeps the types.
LEMMA ConnectType ==
    ASSUME TypeOK,
           \/ \E err \in Errors, d \in Takes : FirstFails(err, d)
           \/ FirstSleeps \/ FirstTimesOut
           \/ \E d \in Takes : FirstRejected(d) \/ FirstConnects(d)
    PROVE  TypeOK'
<1>0. Takes \subseteq Nat /\ ConnectTimeout \in Nat
  BY ConstantsAssumption
<1>1. ASSUME NEW err \in Errors, NEW d \in Takes, FirstFails(err, d)
      PROVE  TypeOK'
  <2>1. failures' \in Seq(Errors)
    BY <1>1, AppendProperties DEF FirstFails, TypeOK
  <2>2. clock' \in Nat
    <3>1. d \in Nat /\ clock \in Nat /\ clock' = clock + d
      BY <1>0, <1>1 DEF FirstFails, TypeOK
    <3> QED
      BY <3>1, SumType
  <2> QED
    BY <1>1, <2>1, <2>2 DEF FirstFails, Note, TypeOK
<1>2. CASE FirstSleeps
  <2>1. waits' \in Seq(1..Cap)
    BY <1>2, AppendProperties DEF FirstSleeps, TypeOK
  <2>2. clock' \in Nat
    <3>1. backoff \in 1..Cap /\ clock \in Nat
      BY DEF TypeOK
    <3>2. backoff \in Nat
      BY <3>1 DEF Cap
    <3>3. clock' = clock + backoff
      BY <1>2 DEF FirstSleeps
    <3> QED
      BY <3>1, <3>2, <3>3, SumType
  <2>3. backoff' \in 1..Cap
    BY <1>2, DoubledType DEF FirstSleeps, TypeOK
  <2> QED
    BY <1>2, <2>1, <2>2, <2>3 DEF FirstSleeps, TypeOK
<1>3. CASE FirstTimesOut
  BY <1>0, <1>3 DEF FirstTimesOut, TypeOK
<1>4. ASSUME NEW d \in Takes, FirstRejected(d)
      PROVE  TypeOK'
  <2>1. clock' \in Nat
    <3>1. d \in Nat /\ clock \in Nat /\ clock' = clock + d
      BY <1>0, <1>4 DEF FirstRejected, TypeOK
    <3> QED
      BY <3>1, SumType
  <2> QED
    BY <1>4, <2>1 DEF FirstRejected, TypeOK
<1>5. ASSUME NEW d \in Takes, FirstConnects(d)
      PROVE  TypeOK'
  <2>1. <<>> \in Seq(Errors) /\ <<>> \in Seq(1..Cap) /\ 1 \in 1..Cap
    BY DEF Cap
  <2> QED
    BY <1>5, <2>1 DEF FirstConnects, TypeOK
<1> QED
  BY <1>1, <1>2, <1>3, <1>4, <1>5

\* A reconnect attempt keeps the types.
LEMMA ReconnectType ==
    ASSUME TypeOK, (\E life \in Lives : Drop(life)) \/ Fails \/ Connects
    PROVE  TypeOK'
<1>1. ASSUME NEW life \in Lives, Drop(life)
      PROVE  TypeOK'
  <2>1. backoff' \in 1..Cap
    <3>1. backoff \in 1..Cap /\ (backoff' = 1 \/ backoff' = Doubled(backoff))
      BY <1>1 DEF Drop, TypeOK
    <3>2. 1 \in 1..Cap
      BY DEF Cap
    <3> QED
      BY <3>1, <3>2, DoubledType
  <2>2. waits' \in Seq(1..Cap)
    <3>1. <<>> \in Seq(1..Cap)
      OBVIOUS
    <3> QED
      BY <1>1, <2>1, <3>1, AppendProperties DEF Drop, TypeOK
  <2> QED
    BY <1>1, <2>1, <2>2 DEF Drop, TypeOK
<1>2. CASE Fails
  <2>1. waits' \in Seq(1..Cap)
    BY <1>2, AppendProperties DEF Fails, TypeOK
  <2>2. backoff' \in 1..Cap
    BY <1>2, DoubledType DEF Fails, TypeOK
  <2> QED
    BY <1>2, <2>1, <2>2 DEF Fails, TypeOK
<1>3. CASE Connects
  BY <1>3 DEF Connects, TypeOK
<1> QED
  BY <1>1, <1>2, <1>3

\* The types are inductive.
LEMMA StepType == TypeOK /\ [Next]_vars => TypeOK'
<1>1. TypeOK /\ UNCHANGED vars => TypeOK'
  BY DEF vars, TypeOK
<1> QED
  BY <1>1, ConnectType, ReconnectType DEF Next

\* Every variable keeps its type; no wait is longer than the cap.
THEOREM TypeCorrect == Spec => []TypeOK
BY InitType, StepType, PTL DEF Spec

----------------------------------------------------------------------------
(* Slowing down.  The wait to come keeps up with the schedule, counted by  *)
(* the waits there were, over connections made and lost again alike.       *)

KeepsUp == CrashLoopSlowsDown /\ Documented(Len(waits)) <= backoff

\* A wait of w after others that kept up, w being what the schedule said of
\* the last of them at least.
LEMMA OneWaitMore ==
    ASSUME NEW ws \in Seq(1..Cap), NEW w \in 1..Cap,
           \A k \in DOMAIN ws : ws[k] >= Documented(k - 1),
           Documented(Len(ws)) <= w
    PROVE  /\ Len(Append(ws, w)) = Len(ws) + 1 /\ Len(ws) \in Nat
           /\ \A k \in DOMAIN Append(ws, w) :
                 Append(ws, w)[k] >= Documented(k - 1)
<1>1. /\ Len(Append(ws, w)) = Len(ws) + 1
      /\ Append(ws, w)[Len(ws) + 1] = w
      /\ \A k \in 1..Len(ws) : Append(ws, w)[k] = ws[k]
      /\ DOMAIN Append(ws, w) = 1..(Len(ws) + 1)
      /\ DOMAIN ws = 1..Len(ws) /\ Len(ws) \in Nat
  BY AppendProperties
<1>2. ASSUME NEW k \in DOMAIN Append(ws, w)
      PROVE  Append(ws, w)[k] >= Documented(k - 1)
  <2>1. CASE k \in 1..Len(ws)
    BY <1>1, <2>1
  <2>2. CASE k = Len(ws) + 1
    <3>1. k - 1 = Len(ws)
      BY <1>1, <2>2
    <3>2. Documented(Len(ws)) \in 1..Cap
      BY <1>1, ScheduleGrows
    <3> QED
      BY <1>1, <2>2, <3>1, <3>2
  <2> QED
    BY <1>1, <2>1, <2>2
<1> QED
  BY <1>1, <1>2

\* KeepsUp is inductive.
LEMMA StepKeepsUp == TypeOK /\ KeepsUp /\ [Next]_vars => KeepsUp'
<1> SUFFICES ASSUME TypeOK, KeepsUp, [Next]_vars PROVE KeepsUp'
  OBVIOUS
<1>0. /\ backoff \in 1..Cap /\ waits \in Seq(1..Cap) /\ Len(waits) \in Nat
      /\ \A k \in DOMAIN waits : waits[k] >= Documented(k - 1)
      /\ Documented(Len(waits)) <= backoff
  <2>1. /\ backoff \in 1..Cap /\ waits \in Seq(1..Cap)
        /\ \A k \in DOMAIN waits : waits[k] >= Documented(k - 1)
        /\ Documented(Len(waits)) <= backoff
    BY DEF TypeOK, KeepsUp, CrashLoopSlowsDown
  <2> QED
    BY <2>1, LenProperties
<1>1. CASE FirstSleeps \/ Fails
  <2>1. waits' = Append(waits, backoff) /\ backoff' = Doubled(backoff)
    BY <1>1 DEF FirstSleeps, Fails
  <2> QED
    BY <1>0, <2>1, OneWaitMore, DoubledKeepsUp
       DEF KeepsUp, CrashLoopSlowsDown
<1>2. ASSUME NEW life \in Lives, Drop(life)
      PROVE  KeepsUp'
  <2>0. life \in Nat
    BY ConstantsAssumption
  <2>1. CASE Stable(life)
    <3>1. life >= 5 /\ life >= backoff
      BY <1>0, <2>0, <2>1 DEF Stable, Larger, Cap
    <3>2. backoff' = 1 /\ waits' = <<1>>
      BY <1>2, <2>1, <3>1 DEF Drop
    <3>3. DOMAIN waits' = {1} /\ waits'[1] = 1 /\ Len(waits') = 1
      BY <3>2
    <3> QED
      BY <3>2, <3>3 DEF KeepsUp, CrashLoopSlowsDown, Documented
  <2>2. CASE ~Stable(life)
    <3>1. ~(life >= 5 /\ life >= backoff)
      BY <1>0, <2>0, <2>2 DEF Stable, Larger, Cap
    <3>2. backoff' = Doubled(backoff) /\ waits' = Append(waits, backoff')
      BY <1>2, <2>2, <3>1 DEF Drop
    <3>3. backoff' \in 1..Cap /\ backoff <= backoff'
      BY <1>0, <3>2, DoubledType
    <3>4. Documented(Len(waits)) <= backoff'
      <4>1. Documented(Len(waits)) \in 1..Cap
        BY <1>0, ScheduleGrows
      <4>2. \A a, b, c \in 1..Cap : a <= b /\ b <= c => a <= c
        BY DEF Cap
      <4> QED
        BY <1>0, <3>3, <4>1, <4>2
    <3> QED
      BY <1>0, <3>2, <3>3, <3>4, OneWaitMore, DoubledKeepsUp
         DEF KeepsUp, CrashLoopSlowsDown
  <2> QED
    BY <2>1, <2>2
<1>3. ASSUME NEW d \in Takes, FirstConnects(d)
      PROVE  KeepsUp'
  BY <1>3 DEF FirstConnects, KeepsUp, CrashLoopSlowsDown, Documented
<1>4. CASE UNCHANGED <<waits, backoff>>
  BY <1>4 DEF KeepsUp, CrashLoopSlowsDown
<1> QED
  BY <1>1, <1>2, <1>3, <1>4
     DEF Next, FirstFails, FirstTimesOut, FirstRejected, Connects, vars

\* A broker that keeps refusing connections, or keeps dropping what it accepts,
\* is left alone for as long as the schedule says of the wait before, after any
\* number of them: connecting does not speed up the next attempt.
THEOREM LoopSlowsDown == Spec => []CrashLoopSlowsDown
<1>1. Init => KeepsUp
  BY DEF Init, KeepsUp, CrashLoopSlowsDown, Documented
<1>2. KeepsUp => CrashLoopSlowsDown
  BY DEF KeepsUp
<1> QED
  BY <1>1, <1>2, StepKeepsUp, TypeCorrect, PTL DEF Spec

----------------------------------------------------------------------------
(* What a connect that timed out returns. *)

LastFailure == IF failures = <<>> THEN "none" ELSE failures[Len(failures)]

ErrorNoted ==
    /\ lastErr = LastFailure
    /\ pc \in {"up", "down"} => result = "connected"
    /\ TimeoutTellsWhy

\* ErrorNoted is inductive.
LEMMA StepErrorNoted == TypeOK /\ ErrorNoted /\ [Next]_vars => ErrorNoted'
<1> SUFFICES ASSUME TypeOK, ErrorNoted, [Next]_vars PROVE ErrorNoted'
  OBVIOUS
<1>1. ASSUME NEW err \in Errors, NEW d \in Takes, FirstFails(err, d)
      PROVE  ErrorNoted'
  <2>1. failures' = Append(failures, err) /\ lastErr' = err /\ pc' = "resting"
    BY <1>1 DEF FirstFails, Note
  <2>2. failures' # <<>> /\ failures'[Len(failures')] = err
    BY <2>1, LastAdded DEF TypeOK
  <2> QED
    BY <2>1, <2>2 DEF ErrorNoted, LastFailure, TimeoutTellsWhy
<1>2. CASE FirstTimesOut
  <2>1. /\ result' = IF lastErr = "none" THEN "timed out" ELSE lastErr
        /\ pc' = "returned" /\ UNCHANGED <<lastErr, failures>>
    BY <1>2 DEF FirstTimesOut
  <2>2. failures # <<>> => failures[Len(failures)] # "none"
    <3>1. failures # <<>> => failures[Len(failures)] \in Errors
      BY LastType DEF TypeOK
    <3> QED
      BY <3>1 DEF Errors
  <2> QED
    BY <2>1, <2>2 DEF ErrorNoted, LastFailure, TimeoutTellsWhy
<1>3. ASSUME NEW d \in Takes, FirstRejected(d) \/ FirstConnects(d)
      PROVE  ErrorNoted'
  BY <1>3 DEF FirstRejected, FirstConnects, ErrorNoted, LastFailure,
              TimeoutTellsWhy
<1>4. CASE FirstSleeps \/ (\E life \in Lives : Drop(life)) \/ Fails
           \/ Connects \/ UNCHANGED vars
  BY <1>4 DEF FirstSleeps, Drop, Fails, Connects, vars, ErrorNoted,
              LastFailure, TimeoutTellsWhy
<1> QED
  BY <1>1, <1>2, <1>3, <1>4 DEF Next

\* A connect that timed out returns the error of its last attempt, and says no
\* more than that it timed out only if no attempt had failed.
THEOREM TimeoutIsExplained == Spec => []TimeoutTellsWhy
<1>1. Init => ErrorNoted
  BY DEF Init, ErrorNoted, LastFailure, TimeoutTellsWhy
<1>2. ErrorNoted => TimeoutTellsWhy
  BY DEF ErrorNoted
<1> QED
  BY <1>1, <1>2, StepErrorNoted, TypeCorrect, PTL DEF Spec
=============================================================================
