-------------------------- MODULE HeartbeatsProofs --------------------------
(***************************************************************************)
(* Theorems about Heartbeats, for any intervals.                           *)
(***************************************************************************)
EXTENDS Heartbeats, TLAPS

----------------------------------------------------------------------------
(* The intervals *)

\* The intervals, and how the derived ones compare.
LEMMA IntervalTypes ==
    /\ SendEvery \in Nat /\ ReceiveWithin \in Nat /\ ServerEvery \in Nat
    /\ Half \in Nat /\ 2 * Half <= ReceiveWithin
    /\ Round \in Nat /\ SendEvery <= Round /\ Half <= Round
<1>1. SendEvery \in Nat /\ ReceiveWithin \in Nat /\ ServerEvery \in Nat
  BY ConstantsAssumption DEF SendEvery, ReceiveWithin, ServerEvery, Larger
<1>2. \A n \in Nat : n \div 2 \in Nat /\ 2 * (n \div 2) <= n
  OBVIOUS
<1>3. Half \in Nat /\ 2 * Half <= ReceiveWithin
  BY <1>1, <1>2 DEF Half
<1> QED
  BY <1>1, <1>3 DEF Round, Larger

\* The bound on the clock.
LEMMA HorizonType == Horizon \in Nat
<1>1. \A a, b \in Nat : a * b \in Nat
  OBVIOUS
<1>2. Larger(SendEvery, ReceiveWithin) \in Nat /\ 4 + MaxWrites \in Nat
  BY IntervalTypes, ConstantsAssumption DEF Larger
<1>3. (4 + MaxWrites) * Larger(SendEvery, ReceiveWithin) \in Nat
  BY <1>1, <1>2
<1> QED
  BY <1>3 DEF Horizon

\* An age grows by one, or stands still at the horizon.
LEMMA OlderAge ==
    ASSUME NEW age \in 0..Horizon
    PROVE  Older(age) \in 0..Horizon /\ Older(age) \in {age, age + 1}
BY HorizonType DEF Older

----------------------------------------------------------------------------
(* Types *)

\* The types hold at the start.
LEMMA InitType == Init => TypeOK
BY IntervalTypes, HorizonType, ConstantsAssumption DEF Init, TypeOK

\* Every step keeps the types.
LEMMA StepType == TypeOK /\ [Next]_vars => TypeOK'
<1> SUFFICES ASSUME TypeOK, [Next]_vars PROVE TypeOK'
  OBVIOUS
<1> USE IntervalTypes, HorizonType, ConstantsAssumption
<1>1. CASE Tick
  <2>1. /\ Older(sent) \in 0..Horizon /\ Older(heard) \in 0..Horizon
    BY OlderAge DEF TypeOK
  <2>2. ticker' \in 0..SendEvery /\ dog' \in 0..Half
    BY <1>1 DEF Tick, Due, TypeOK
  <2> QED
    BY <1>1, <2>1, <2>2 DEF Tick, TypeOK
<1>2. CASE HeartbeatTick
  BY <1>2 DEF HeartbeatTick, NextPass, TypeOK
<1>3. CASE Watchdog
  BY <1>3 DEF Watchdog, NextPass, TypeOK
<1>4. CASE Receive
  BY <1>4 DEF Receive, NextPass, TypeOK
<1>5. CASE Write
  BY <1>5 DEF Write, NextPass, TypeOK
<1>6. CASE ServerDies
  BY <1>6 DEF ServerDies, TypeOK
<1>7. CASE UNCHANGED vars
  BY <1>7 DEF vars, TypeOK
<1> QED
  BY <1>1, <1>2, <1>3, <1>4, <1>5, <1>6, <1>7 DEF Next

\* Every variable keeps its type.
THEOREM TypeCorrect == Spec => []TypeOK
BY InitType, StepType, PTL DEF Spec

----------------------------------------------------------------------------
(* The client's side.  What the ticker has left is what the line may still *)
(* be idle for: the two together stay below twice the interval, since the  *)
(* ticker starts over only when the line was used within the interval, or  *)
(* has just been.                                                          *)

NextTickInTime == SendEvery > 0 => sent + ticker < 2 * SendEvery

\* A unit of time moves from what is left to what has passed.
LEMMA TickSum ==
    \A a, b, c \in Nat :
        a + b < 2 * c => a + (b - 1) < 2 * c /\ (a + 1) + (b - 1) < 2 * c
OBVIOUS

\* The next tick always comes before two intervals have gone by without a beat.
LEMMA StepNextTick ==
    TypeOK /\ NextTickInTime /\ [Next]_vars => NextTickInTime'
<1> SUFFICES ASSUME TypeOK, NextTickInTime, [Next]_vars, SendEvery > 0
             PROVE  sent' + ticker' < 2 * SendEvery
  BY DEF NextTickInTime
<1> USE IntervalTypes, HorizonType DEF TypeOK, NextTickInTime
<1>1. CASE Tick
  <2>1. sent' \in {sent, sent + 1} /\ ticker' = ticker - 1
    BY <1>1, OlderAge DEF Tick
  <2>2. sent \in Nat /\ ticker \in Nat /\ sent + ticker < 2 * SendEvery
    OBVIOUS
  <2>3. /\ sent + (ticker - 1) < 2 * SendEvery
        /\ (sent + 1) + (ticker - 1) < 2 * SendEvery
    BY <2>2, TickSum
  <2> QED
    BY <2>1, <2>3
<1>2. CASE HeartbeatTick
  BY <1>2 DEF HeartbeatTick, Idle
<1>3. CASE Write
  BY <1>3 DEF Write
<1>4. CASE ~(Tick \/ HeartbeatTick \/ Write)
  <2>1. UNCHANGED <<sent, ticker>>
    BY <1>4 DEF Next, Watchdog, Receive, ServerDies, vars
  <2> QED
    BY <2>1
<1> QED
  BY <1>1, <1>2, <1>3, <1>4

\* The line is never idle towards the server for twice the interval that was
\* negotiated, whatever the interval and whatever the application writes.
THEOREM LineKeptBusy == Spec => []NeverIdleForTwo
<1>1. Init => NextTickInTime
  BY IntervalTypes DEF Init, NextTickInTime
<1>2. TypeOK /\ NextTickInTime => NeverIdleForTwo
  BY IntervalTypes, HorizonType DEF TypeOK, NextTickInTime, NeverIdleForTwo
<1> QED
  BY <1>1, <1>2, StepNextTick, TypeCorrect, PTL DEF Spec

----------------------------------------------------------------------------
(* The server's side.  A server that runs and keeps its interval is heard  *)
(* within it, which is half of what the watchdog waits for.  The two sides *)
(* have to agree on whether there is such an interval: the client waits    *)
(* for a server's heartbeats even when only one of the two asked for them. *)

AgreeOnSilence == (ServerOut = 0) <=> (ClientIn = 0)

HeardInTime == alive => open /\ (ServerEvery > 0 => heard <= ServerEvery)

\* While the watchdog lets the connection live, the server has been heard as it
\* promised.
LEMMA StepHeard ==
    ASSUME AgreeOnSilence
    PROVE  TypeOK /\ HeardInTime /\ [Next]_vars => HeardInTime'
<1> SUFFICES ASSUME TypeOK, HeardInTime, [Next]_vars
             PROVE  HeardInTime'
  OBVIOUS
<1> USE IntervalTypes, HorizonType DEF TypeOK, HeardInTime
<1>0. ReceiveWithin > 0 => ServerEvery = ReceiveWithin
  BY ConstantsAssumption
     DEF AgreeOnSilence, ReceiveWithin, ServerEvery, Larger
<1>1. CASE Tick
  <2>1. heard' \in {heard, heard + 1}
    BY <1>1, OlderAge DEF Tick
  <2> QED
    BY <1>1, <2>1 DEF Tick
<1>2. CASE Watchdog
  <2>1. open' = ~Silent /\ UNCHANGED <<alive, heard>> /\ ReceiveWithin > 0
    BY <1>2 DEF Watchdog
  <2>2. ASSUME alive PROVE ~Silent /\ heard <= ServerEvery
    BY <1>0, <2>1, <2>2 DEF Silent
  <2> QED
    BY <2>1, <2>2, Zenon
<1>3. CASE Receive
  BY <1>3 DEF Receive
<1>4. CASE ~(Tick \/ Watchdog \/ Receive)
  <2>1. UNCHANGED <<open, heard>> /\ (alive' => alive)
    BY <1>4 DEF Next, HeartbeatTick, Write, ServerDies, vars
  <2> QED
    BY <2>1
<1> QED
  BY <1>1, <1>2, <1>3, <1>4

\* A server that keeps the interval it negotiated is never taken for dead, if
\* its header and the client's agree on whether there is one.
THEOREM LiveServerStays == AgreeOnSilence => (Spec => []LiveServerKept)
<1> SUFFICES ASSUME AgreeOnSilence PROVE Spec => []LiveServerKept
  OBVIOUS
<1>1. Init => HeardInTime
  BY IntervalTypes DEF Init, HeardInTime
<1>2. HeardInTime => LiveServerKept
  BY DEF HeardInTime, LiveServerKept
<1>3. TypeOK /\ HeardInTime /\ [Next]_vars => HeardInTime'
  BY StepHeard
<1> QED
  BY <1>1, <1>2, <1>3, TypeCorrect, PTL DEF Spec

----------------------------------------------------------------------------
(* A server that has died.  The watchdog looks at the latest when its sleep *)
(* is over, or, the ticker being due before that, half an interval after    *)
(* the ticker: Until.  It then finds the silence once it has lasted twice   *)
(* the interval.  A frame that is written starts the sleep over, which      *)
(* costs a round at most, as the ticker had SendEvery left at most when the *)
(* sleep began.                                                             *)

Sleeps == SendEvery = 0 \/ SendEvery > Half

Until == IF SendEvery = 0 \/ dog < ticker THEN dog ELSE ticker + Half

NoLaterThan == 2 * ReceiveWithin + (1 + writes) * Round

SleepBegan == SendEvery > 0 => ticker + Half - dog <= SendEvery

LooksInTime ==
    /\ SleepBegan
    /\ open /\ ReceiveWithin > 0 => heard + Until <= NoLaterThan

\* A frame more is a round more, and there is one to begin with.
LEMMA OneRoundMore ==
    ASSUME NEW n \in Nat
    PROVE  /\ (1 + n) * Round \in Nat
           /\ (1 + (n + 1)) * Round = (1 + n) * Round + Round
           /\ Round <= (1 + n) * Round
<1>1. \A a, b \in Nat : /\ a * b \in Nat
                        /\ (1 + (a + 1)) * b = (1 + a) * b + b
                        /\ (1 + a) * b = a * b + b
  OBVIOUS
<1>2. Round \in Nat
  BY IntervalTypes
<1>3. n * Round \in Nat /\ (1 + n) * Round = n * Round + Round
  BY <1>1, <1>2
<1>4. (1 + (n + 1)) * Round = (1 + n) * Round + Round
  BY <1>1, <1>2
<1> QED
  BY <1>2, <1>3, <1>4

\* From a sleep that has just begun the watchdog looks within a round.
LEMMA FreshSleep ==
    ASSUME TypeOK, dog' = Half, ticker' \in 0..SendEvery
    PROVE  Until' \in Nat /\ Until' <= 2 * Half
<1>1. Half \in Nat /\ SendEvery \in Nat
  BY IntervalTypes
<1>2. Until' = IF SendEvery = 0 \/ Half < ticker' THEN Half ELSE ticker' + Half
  BY DEF Until
<1>3. ticker' \in Nat
  BY <1>1
<1>4. \A t, h \in Nat : h <= 2 * h /\ t + h \in Nat
                        /\ (~(h < t) => t + h <= 2 * h)
  OBVIOUS
<1> QED
  BY <1>1, <1>2, <1>3, <1>4

\* Sums of a time heard, a time until, and a limit.
LEMMA Sums ==
    ASSUME NEW h \in Int, NEW u \in Int, NEW l \in Int
    PROVE  /\ h + u <= l => (h + 1) + (u - 1) <= l /\ h + (u - 1) <= l
           /\ \A v, r \in Int : h + u <= l /\ v <= u + r => h + v <= l + r
           /\ \A r, m \in Int : h <= l /\ u <= r /\ r <= m => h + u <= l + m
OBVIOUS

\* The watchdog looks in time.
LEMMA StepLooks ==
    ASSUME Sleeps
    PROVE  TypeOK /\ LooksInTime /\ [Next]_vars => LooksInTime'
<1> SUFFICES ASSUME TypeOK, LooksInTime, [Next]_vars
             PROVE  LooksInTime'
  OBVIOUS
<1>0. /\ SendEvery \in Nat /\ Half \in Nat /\ Round \in Nat
      /\ ReceiveWithin \in Nat /\ 2 * Half <= ReceiveWithin
      /\ SendEvery <= Round /\ Half <= Round
      /\ ticker \in 0..SendEvery /\ dog \in 0..Half /\ heard \in Nat
      /\ writes \in Nat
      /\ SendEvery > 0 => ticker + Half - dog <= SendEvery
      /\ SendEvery > 0 => SendEvery > Half
  BY IntervalTypes, HorizonType, ConstantsAssumption
     DEF TypeOK, LooksInTime, SleepBegan, Sleeps
<1> DEFINE R == (1 + writes) * Round
<1>r. /\ R \in Nat /\ Round <= R
      /\ (1 + (writes + 1)) * Round = R + Round
  BY <1>0, OneRoundMore
<1>b. open /\ ReceiveWithin > 0 => heard + Until <= 2 * ReceiveWithin + R
  BY DEF LooksInTime, NoLaterThan
<1> HIDE DEF R
<1>1. CASE Tick
  <2>1. /\ heard' \in {heard, heard + 1} /\ UNCHANGED <<open, writes>> /\ open
        /\ SendEvery > 0 => ticker > 0 /\ ticker' = ticker - 1
        /\ SendEvery = 0 => ticker' = ticker
        /\ ReceiveWithin > 0 => dog > 0 /\ dog' = dog - 1
        /\ ReceiveWithin = 0 => dog' = dog
    BY <1>0, <1>1, OlderAge DEF Tick, Due, TypeOK
  <2>2. SleepBegan'
    BY <1>0, <2>1 DEF SleepBegan
  <2>3. ReceiveWithin > 0 => Until' = Until - 1
    BY <1>0, <2>1 DEF Until
  <2>4. Until \in Nat
    BY <1>0 DEF Until
  <2>5. ReceiveWithin > 0 => heard' + Until' <= 2 * ReceiveWithin + R
    <3>1. heard \in Int /\ Until \in Int /\ 2 * ReceiveWithin + R \in Int
      BY <1>0, <1>r, <2>4
    <3>2. ReceiveWithin > 0 => heard + Until <= 2 * ReceiveWithin + R
      BY <1>b, <2>1
    <3> QED
      BY <2>1, <2>3, <3>1, <3>2, Sums
  <2> QED
    BY <2>1, <2>2, <2>5 DEF LooksInTime, NoLaterThan, R
<1>2. CASE HeartbeatTick
  <2>1. /\ UNCHANGED <<open, heard, writes>> /\ dog' = Half
        /\ SendEvery > 0 /\ ticker = 0 /\ ticker' = SendEvery
    BY <1>2 DEF HeartbeatTick, NextPass
  <2>2. Until' = Half /\ Until = Half
    BY <1>0, <2>1 DEF Until
  <2> QED
    BY <1>0, <1>b, <2>1, <2>2 DEF LooksInTime, SleepBegan, NoLaterThan, R
<1>3. CASE Watchdog
  <2>1. /\ UNCHANGED <<heard, ticker, writes>> /\ dog' = Half /\ dog = 0
        /\ ReceiveWithin > 0
    BY <1>3 DEF Watchdog, NextPass
  <2>2. open' => heard <= 2 * ReceiveWithin
    <3>1. open' = ~Silent
      BY <1>3 DEF Watchdog
    <3>2. ~Silent => heard <= 2 * ReceiveWithin
      BY <1>0 DEF Silent
    <3> QED
      BY <3>1, <3>2, Zenon
  <2>3. Until' \in Nat /\ Until' <= Round
    BY <1>0, <2>1 DEF Until
  <2>4. open' => heard + Until' <= 2 * ReceiveWithin + R
    <3>1. heard \in Int /\ Until' \in Int /\ 2 * ReceiveWithin \in Int
          /\ R \in Int /\ Round \in Int
      BY <1>0, <1>r, <2>3
    <3> QED
      BY <1>r, <2>2, <2>3, <3>1, Sums
  <2>5. SleepBegan'
    BY <1>0, <2>1 DEF SleepBegan
  <2> QED
    BY <2>1, <2>4, <2>5 DEF LooksInTime, NoLaterThan, R
<1>4. CASE Receive
  <2>1. /\ heard' = 0 /\ dog' = Half /\ UNCHANGED <<open, ticker, writes>>
    BY <1>4 DEF Receive, NextPass
  <2>2. Until' \in Nat /\ Until' <= 2 * Half
    BY <1>0, <2>1, FreshSleep
  <2>3. heard' + Until' <= 2 * ReceiveWithin + R
    <3>1. \A u, h, w, r \in Nat : u <= 2 * h /\ 2 * h <= w => 0 + u <= 2 * w + r
      OBVIOUS
    <3>2. R \in Nat
      BY <1>r
    <3> QED
      BY <1>0, <2>1, <2>2, <3>1, <3>2
  <2>4. SleepBegan'
    BY <1>0, <2>1 DEF SleepBegan
  <2> QED
    BY <2>1, <2>3, <2>4 DEF LooksInTime, NoLaterThan, R
<1>5. CASE Write
  <2>1. /\ UNCHANGED <<open, heard, ticker>> /\ dog' = Half
        /\ writes' = writes + 1
    BY <1>5 DEF Write, NextPass
  <2>2. Until' <= Until + Round /\ Until \in Nat /\ Until' \in Nat
    BY <1>0, <2>1 DEF Until
  <2>3. open /\ ReceiveWithin > 0 =>
           heard + Until' <= 2 * ReceiveWithin + (R + Round)
    <3>1. heard \in Int /\ Until \in Int /\ Until' \in Int /\ Round \in Int
          /\ 2 * ReceiveWithin + R \in Int
          /\ (2 * ReceiveWithin + R) + Round = 2 * ReceiveWithin + (R + Round)
      BY <1>0, <1>r, <2>2
    <3> QED
      BY <1>b, <2>2, <3>1, Sums
  <2>4. SleepBegan'
    BY <1>0, <2>1 DEF SleepBegan
  <2>5. NoLaterThan' = 2 * ReceiveWithin + (R + Round)
    BY <1>r, <2>1 DEF NoLaterThan
  <2> QED
    BY <2>1, <2>3, <2>4, <2>5 DEF LooksInTime
<1>6. CASE ServerDies \/ UNCHANGED vars
  BY <1>6 DEF ServerDies, vars, LooksInTime, SleepBegan, Until, NoLaterThan
<1> QED
  BY <1>1, <1>2, <1>3, <1>4, <1>5, <1>6 DEF Next

\* Where the ticker leaves the watchdog its sleep, a server that has died is
\* found out after twice the interval and one round of the ticker, and a round
\* more for each frame that was written meanwhile.
THEOREM DeathNoticed == Sleeps => (Spec => []NoticedInTime)
<1> SUFFICES ASSUME Sleeps PROVE Spec => []NoticedInTime
  OBVIOUS
<1>1. Init => LooksInTime
  <2> SUFFICES ASSUME Init PROVE LooksInTime
    OBVIOUS
  <2>1. writes = 0 /\ heard = 0 /\ dog = Half /\ ticker = 0
    BY DEF Init
  <2>2. (1 + writes) * Round \in Nat
    BY <2>1, OneRoundMore
  <2>3. Until = Half \/ Until = 0
    BY <2>1, IntervalTypes DEF Until
  <2> QED
    BY <2>1, <2>2, <2>3, IntervalTypes
       DEF LooksInTime, SleepBegan, NoLaterThan
<1>2. TypeOK /\ LooksInTime => NoticedInTime
  <2> SUFFICES ASSUME TypeOK, LooksInTime, open, ReceiveWithin > 0
               PROVE  heard <= NoLaterThan
    BY DEF NoticedInTime, NoLaterThan
  <2>1. Until \in Nat /\ heard \in Nat /\ heard + Until <= NoLaterThan
    BY IntervalTypes, HorizonType DEF TypeOK, LooksInTime, Until
  <2>2. NoLaterThan \in Nat
    <3>1. writes \in Nat
      BY ConstantsAssumption DEF TypeOK
    <3>2. (1 + writes) * Round \in Nat
      BY <3>1, OneRoundMore
    <3> QED
      BY <3>2, IntervalTypes DEF NoLaterThan
  <2> QED
    BY <2>1, <2>2
<1>3. TypeOK /\ LooksInTime /\ [Next]_vars => LooksInTime'
  BY StepLooks
<1> QED
  BY <1>1, <1>2, <1>3, TypeCorrect, PTL DEF Spec
=============================================================================
