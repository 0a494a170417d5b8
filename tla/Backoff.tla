------------------------------ MODULE Backoff ------------------------------
(***************************************************************************)
(* When a connection is tried again: the attempts of `connect`, bounded by *)
(* connect_timeout or not, and the background task's reconnects, which go  *)
(* back to a short wait only after a connection that was stable.  Times    *)
(* are in seconds.  The shutdown signal is the business of Lifecycle.      *)
(***************************************************************************)
EXTENDS Integers, Sequences

CONSTANTS
    ConnectTimeout,  \* of `connect`, or NoTimeout
    Takes,           \* how long an attempt can take
    Lives,           \* how long a connection can last
    MaxWaits         \* bound: waits in a row

NoTimeout == 0
Errors == {"io", "protocol"}

ASSUME ConstantsAssumption ==
    /\ ConnectTimeout \in Nat
    /\ Takes \subseteq Nat
    /\ Lives \subseteq Nat
    /\ MaxWaits \in Nat

VARIABLES
    pc,        \* where `connect`, and then the background task, is
    backoff,   \* `backoff_secs`
    clock,     \* time since `connect` was called, until it returns
    lastErr,   \* `last_err`
    result,    \* what `connect` returned
    lived,     \* how long the last connection lasted
    failures,  \* history: the errors of `connect`'s attempts, until it returns
    waits      \* history: the waits since `connect`, or since the last
               \* connection that was stable

vars == <<pc, backoff, clock, lastErr, result, lived, failures, waits>>

Lesser(a, b) == IF a <= b THEN a ELSE b
Larger(a, b) == IF a >= b THEN a ELSE b

Cap == 30
Doubled(b) == Lesser(2 * b, Cap)

Init ==
    /\ pc = "first"
    /\ backoff = 1
    /\ clock = 0
    /\ lastErr = "none"
    /\ result = "none"
    /\ lived = 0
    /\ failures = <<>>
    /\ waits = <<>>

----------------------------------------------------------------------------
(* connect *)

InTime(t) == ConnectTimeout = NoTimeout \/ t < ConnectTimeout

\* An attempt fails, for any reason but a rejection.  (Faulty form: the error
\* is noted only when the sleep after it is over.)
NoteLate(err) == lastErr' = IF failures = <<>> THEN "none"
                           ELSE failures[Len(failures)]
Note(err) == lastErr' = err

FirstFails(err, d) ==
    /\ pc = "first"
    /\ InTime(clock + d)
    /\ Len(waits) < MaxWaits
    /\ pc' = "resting"
    /\ clock' = clock + d
    /\ Note(err)
    /\ failures' = Append(failures, err)
    /\ UNCHANGED <<backoff, result, lived, waits>>

FirstSleeps ==
    /\ pc = "resting"
    /\ InTime(clock + backoff)
    /\ pc' = "first"
    /\ clock' = clock + backoff
    /\ waits' = Append(waits, backoff)
    /\ backoff' = Doubled(backoff)
    /\ UNCHANGED <<lastErr, result, lived, failures>>

\* connect_timeout elapses in an attempt, however long it would have taken,
\* or in a sleep: the last error is returned, if there was one.
FirstTimesOut ==
    /\ ConnectTimeout # NoTimeout
    /\ pc = "first" \/ (pc = "resting" /\ ~InTime(clock + backoff))
    /\ pc' = "returned"
    /\ clock' = ConnectTimeout
    /\ result' = IF lastErr = "none" THEN "timed out" ELSE lastErr
    /\ UNCHANGED <<backoff, lastErr, lived, failures, waits>>

FirstRejected(d) ==
    /\ pc = "first"
    /\ InTime(clock + d)
    /\ pc' = "returned"
    /\ clock' = clock + d
    /\ result' = "rejected"
    /\ UNCHANGED <<backoff, lastErr, lived, failures, waits>>

\* The task starts with a backoff of its own.
FirstConnects(d) ==
    /\ pc = "first"
    /\ InTime(clock + d)
    /\ pc' = "up"
    /\ clock' = 0
    /\ result' = "connected"
    /\ backoff' = 1
    /\ lastErr' = "none"
    /\ failures' = <<>>
    /\ waits' = <<>>
    /\ UNCHANGED lived

----------------------------------------------------------------------------
(* The background task *)

\* The connection ends after life seconds.
Stable(life) == life >= Larger(backoff, 5)

Drop(life) ==
    /\ pc = "up"
    /\ Len(waits) < MaxWaits \/ Stable(life)
    /\ pc' = "down"
    /\ lived' = life
    /\ backoff' = IF Stable(life) THEN 1 ELSE Doubled(backoff)
    /\ waits' = Append(IF life >= 5 /\ life >= backoff THEN <<>>
                        ELSE waits, backoff')
    /\ UNCHANGED <<clock, lastErr, result, failures>>

\* A reconnect fails, the server's rejection included.
Fails ==
    /\ pc = "down"
    /\ Len(waits) < MaxWaits
    /\ waits' = Append(waits, backoff)
    /\ backoff' = Doubled(backoff)
    /\ UNCHANGED <<pc, clock, lastErr, result, lived, failures>>

\* (Faulty form: connecting is taken for stability.)
ConnectsAfresh ==
    /\ pc = "down"
    /\ pc' = "up"
    /\ backoff' = 1
    /\ UNCHANGED <<clock, lastErr, result, lived, failures, waits>>

\* A reconnect succeeds.  The backoff is kept: the connection may not last.
Connects ==
    /\ pc = "down"
    /\ pc' = "up"
    /\ UNCHANGED <<backoff, clock, lastErr, result, lived, failures, waits>>

----------------------------------------------------------------------------
Next ==
    \/ \E err \in Errors, d \in Takes : FirstFails(err, d)
    \/ FirstSleeps \/ FirstTimesOut
    \/ \E d \in Takes : FirstRejected(d) \/ FirstConnects(d)
    \/ \E life \in Lives : Drop(life)
    \/ Fails \/ Connects

Spec == Init /\ [][Next]_vars

----------------------------------------------------------------------------
(* Properties *)

\* "1s, 2s, 4s, 8s, 16s, 30s cap" (README).
Documented(k) == CASE k <= 1 -> 1 [] k = 2 -> 2 [] k = 3 -> 4 [] k = 4 -> 8
                   [] k = 5 -> 16 [] OTHER -> Cap

\* Every variable has its type.
TypeOK ==
    /\ pc \in {"first", "resting", "returned", "up", "down"}
    /\ backoff \in 1..Cap
    /\ clock \in Nat
    /\ lastErr \in Errors \cup {"none"}
    /\ result \in Errors \cup {"none", "connected", "rejected", "timed out"}
    /\ lived \in Lives \cup {0}
    /\ failures \in Seq(Errors)
    /\ waits \in Seq(1..Cap)

\* A broker that keeps refusing, or keeps dropping what it accepts, is left
\* alone for at least as long as the schedule says of the wait before: a
\* connection that was made, but did not last, speeds nothing up.
CrashLoopSlowsDown ==
    \A k \in DOMAIN waits : waits[k] >= Documented(k - 1)

\* A connect that timed out returns the error its last attempt failed with,
\* and "timed out" only if none had failed ("last_err remembers the most
\* recent failure", where `connect` starts).
TimeoutTellsWhy ==
    pc = "returned" /\ result # "rejected" =>
        result = IF failures = <<>> THEN "timed out"
                 ELSE failures[Len(failures)]

\* "backoff doubles on each attempt up to a 30 second cap: 1s -> 2s -> 4s ->
\* 8s -> 16s -> 30s" (README, of connections that die quickly).
FollowsSchedule ==
    pc \in {"up", "down"} =>
        \A k \in DOMAIN waits : waits[k] = Documented(k)

\* A connection "alive for at least 5 seconds before dropping ... is
\* considered stable and backoff resets to 1s" (subscriber-guide.md).
StableAtFive ==
    [][pc = "up" /\ pc' = "down" /\ lived' >= 5 => backoff' = 1]_vars
=============================================================================
