------------------------------ MODULE AppState ------------------------------
(***************************************************************************)
(* The state the tasks of the command line client share, and what its      *)
(* methods make of it: counters, the two ring buffers of what was          *)
(* received, and how much of them the panes show.  Every operator takes    *)
(* the state, which a mutex guards, and returns the next.                  *)
(*                                                                         *)
(* An entry is the source it came from and the time it was recorded, its   *)
(* number in the order of arrival.  A MESSAGE and a broker's ERROR have    *)
(* headers, what the client says itself has none.                          *)
(***************************************************************************)
EXTENDS Integers, Sequences, FiniteSets, SequencesExt

CONSTANTS
    Destinations,   \* what can be subscribed to
    MAX_MESSAGES,   \* size of the ring buffer of messages
    MAX_ERRORS,     \* size of the ring buffer of broker errors
    Height,         \* lines of a pane
    Page            \* entries that Page Up and Page Down move

ASSUME PanesAssumption ==
    {MAX_MESSAGES, MAX_ERRORS, Height, Page} \subseteq Nat \ {0}

Tags == {"SENT", "ERROR", "WARN", "INFO"}
BrokerError == "BROKER ERROR"

NewApp ==
    [subscriptions |-> <<>>,       \* destination -> messages, by those known
     count |-> [t \in Tags |-> 0], \* sent_, error_, warning_, info_count
     messages |-> <<>>,
     errors |-> <<>>,
     show_headers |-> FALSE,
     scroll_offset |-> 0,
     error_scroll_offset |-> 0]

\* entry(destination).or_default(), and `more` messages for it.
Tally(app, d, more) ==
    LET known == DOMAIN app.subscriptions
        so_far(e) == IF e \in known THEN app.subscriptions[e] ELSE 0
    IN  [app EXCEPT !.subscriptions =
            [e \in known \cup {d} |->
                IF e = d THEN so_far(e) + more ELSE so_far(e)]]

register_subscription(app, d) == Tally(app, d, 0)

\* push_back, then pop_front down to the maximum.  (Faulty form: the newest
\* is the one that goes.)
PushOldest(ring, entry, max) ==
    IF Len(ring) < max THEN Append(ring, entry) ELSE ring

Push(ring, entry, max) ==
    LET all == Append(ring, entry)
    IN  IF Len(all) > max THEN SubSeq(all, Len(all) - max + 1, Len(all))
        ELSE all

record_error(app, at) ==
    [app EXCEPT !.count["ERROR"] = @ + 1,
                !.errors = Push(@, [of |-> BrokerError, at |-> at],
                                MAX_ERRORS)]

\* A tag counts for itself, anything else for a destination; a broker's error
\* goes to its own pane.
Recorded(app, of, at) ==
    [(IF of \in Tags THEN [app EXCEPT !.count[of] = @ + 1]
      ELSE Tally(app, of, 1))
     EXCEPT !.messages = Push(@, [of |-> of, at |-> at], MAX_MESSAGES)]

record_message(app, of, at) ==
    IF of = BrokerError THEN record_error(app, at)
    ELSE Recorded(app, of, at)

\* (Faulty form: the pane stays scrolled to where nothing is any more.)
ClearKeepsScroll(app) == [app EXCEPT !.messages = <<>>]

clear_messages(app) == [app EXCEPT !.messages = <<>>, !.scroll_offset = 0]

toggle_headers(app) == [app EXCEPT !.show_headers = ~@]

total_message_count(app) == SumFunction(app.subscriptions)

----------------------------------------------------------------------------
(* Scrolling.  An offset is the number of entries skipped; zero stands for   *)
(* the end as well.                                                          *)

Less(x, y) == IF y < x THEN x - y ELSE 0
AtMost(x, y) == IF x < y THEN x ELSE y

ctrl_up(app) == [app EXCEPT !.scroll_offset = Less(@, 1)]
page_up(app) == [app EXCEPT !.scroll_offset = Less(@, Page)]
ctrl_down(app) ==
    [app EXCEPT !.scroll_offset =
        IF @ < Less(Len(app.messages), 1) THEN @ + 1 ELSE @]
page_down(app) ==
    [app EXCEPT !.scroll_offset = AtMost(@ + Page, Less(Len(app.messages), 1))]

ctrl_e(app) == [app EXCEPT !.error_scroll_offset = Less(@, 1)]
ctrl_d(app) ==
    [app EXCEPT !.error_scroll_offset =
        IF @ < Less(Len(app.errors), 1) THEN @ + 1 ELSE @]

ScrollKeys(app) ==
    {ctrl_up(app), ctrl_down(app), page_up(app), page_down(app),
     ctrl_e(app), ctrl_d(app), toggle_headers(app)}

\* Where a pane of `total` entries begins.
FirstDrawn(offset, total) ==
    IF offset = 0 /\ total > Height THEN total - Height ELSE offset

\* The entries of a pane of which the first line is drawn, each taking
\* Rows(entry) lines.
Drawn(entries, offset, Rows(_)) ==
    LET first == FirstDrawn(offset, Len(entries)) + 1
        rows == [i \in DOMAIN entries |-> Rows(entries[i])]
    IN  {i \in first..Len(entries) :
            SumFunctionOnSet(rows, first..(i - 1)) < Height}

Headers(app, entry) ==
    IF app.show_headers /\ entry.of \notin Tags THEN 1 ELSE 0

render_messages(app) ==
    Drawn(app.messages, app.scroll_offset, LAMBDA m : 1 + Headers(app, m))

\* An error has a blank line after it.
render_errors(app) ==
    Drawn(app.errors, app.error_scroll_offset, LAMBDA e : 2 + Headers(app, e))
=============================================================================
