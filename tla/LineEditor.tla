----------------------------- MODULE LineEditor -----------------------------
(***************************************************************************)
(* The input bar of the command line client's TUI: the keys that edit the  *)
(* line, and the command history that is browsed with Up and Down.         *)
(*                                                                         *)
(* A line is a Rust String, a sequence of bytes: a character occupies      *)
(* Width[c] of them, and String::insert and String::remove panic unless    *)
(* they are given the offset of a character's first byte.  cursor_pos is   *)
(* such an offset.                                                         *)
(***************************************************************************)
EXTENDS Integers, Sequences

CONSTANTS
    Chars,        \* characters that can be typed
    Width,        \* the bytes each takes
    Blanks,       \* those that trim() removes
    MaxLine,      \* bound: bytes of a line
    MaxHistory    \* bound: entries of the history

ASSUME CharsAssumption ==
    /\ Width \in [Chars -> Nat \ {0}]
    /\ Blanks \subseteq Chars
    /\ MaxLine \in Nat
    /\ MaxHistory \in Nat

VARIABLES
    input,             \* the line, byte by byte
    cursor_pos,        \* offset of the cursor in it
    command_history,   \* lines entered, trimmed, oldest first
    history_index,     \* the entry being browsed, counted from 1; 0 for None
    saved_input,       \* the draft set aside while browsing
    crashed,           \* the main loop has panicked
    draft,             \* history: the line as it was when not browsing
    entered,           \* history: the commands entered, blanks trimmed
    latest             \* history: the last of them

editing == <<input, cursor_pos, crashed>>
browsing == <<command_history, history_index, saved_input>>
logged == <<entered, latest>>
vars == <<editing, browsing, draft, logged>>

----------------------------------------------------------------------------
(* Strings *)

\* Byte i of character c.
Bytes == {<<c, i>> : c \in Chars, i \in 1..MaxLine}
Encode(c) == [i \in 1..Width[c] |-> <<c, i>>]

CharAt(line, pos) == line[pos + 1][1]
OnBoundary(line, pos) ==
    pos <= Len(line) /\ (pos < Len(line) => line[pos + 1][2] = 1)

InsertAt(line, pos, c) ==
    SubSeq(line, 1, pos) \o Encode(c) \o SubSeq(line, pos + 1, Len(line))

RemoveAt(line, pos) ==
    SubSeq(line, 1, pos)
        \o SubSeq(line, pos + Width[CharAt(line, pos)] + 1, Len(line))

\* str::trim: from the first character that is no blank to the last.
Trim(line) ==
    LET ink == {i \in DOMAIN line : line[i][1] \notin Blanks}
    IN  IF ink = {} THEN <<>>
        ELSE LET first == CHOOSE i \in ink : \A j \in ink : i <= j
                 last == CHOOSE i \in ink : \A j \in ink : j <= i
             IN  SubSeq(line, first, last)

----------------------------------------------------------------------------
(* Keys.  Each is handled under the lock of the shared state, in one step. *)

Init ==
    /\ input = <<>> /\ cursor_pos = 0 /\ crashed = FALSE
    /\ command_history = <<>> /\ history_index = 0 /\ saved_input = <<>>
    /\ draft = <<>> /\ entered = {} /\ latest = <<>>

\* The line as the user left it before browsing: what a key makes of it while
\* no history is shown.
KeepDraft == draft' = IF history_index' = 0 THEN input' ELSE draft

Panic == crashed' = TRUE /\ UNCHANGED <<input, browsing, draft, logged>>

\* (Faulty form: the character goes in behind the cursor.)
CharStays(c) ==
    /\ Len(input) + Width[c] <= MaxLine
    /\ OnBoundary(input, cursor_pos)
    /\ input' = InsertAt(input, cursor_pos, c)
    /\ UNCHANGED <<cursor_pos, crashed, browsing, logged>>
    /\ KeepDraft

Char(c) ==
    /\ Len(input) + Width[c] <= MaxLine
    /\ \/ /\ OnBoundary(input, cursor_pos)
          /\ input' = InsertAt(input, cursor_pos, c)
          /\ cursor_pos' = cursor_pos + 1
          /\ UNCHANGED <<crashed, browsing, logged>>
          /\ KeepDraft
       \/ ~OnBoundary(input, cursor_pos) /\ Panic /\ UNCHANGED cursor_pos

Remove(pos) ==
    \/ /\ OnBoundary(input, pos)
       /\ input' = RemoveAt(input, pos)
       /\ UNCHANGED <<crashed, browsing, logged>>
       /\ KeepDraft
    \/ ~OnBoundary(input, pos) /\ Panic

Backspace ==
    /\ cursor_pos > 0
    /\ cursor_pos' = cursor_pos - 1
    /\ Remove(cursor_pos - 1)

Delete ==
    /\ cursor_pos < Len(input)
    /\ UNCHANGED cursor_pos
    /\ Remove(cursor_pos)

MoveTo(pos) ==
    /\ cursor_pos' = pos
    /\ UNCHANGED <<input, crashed, browsing, draft, logged>>

Left == cursor_pos > 0 /\ MoveTo(cursor_pos - 1)
Right == cursor_pos < Len(input) /\ MoveTo(cursor_pos + 1)
Home == MoveTo(0)
End == MoveTo(Len(input))

\* Escape clears the line, and leaves the history where it is.  (Faulty form:
\* and the cursor.)
EscapeKeepsCursor ==
    /\ input' = <<>>
    /\ UNCHANGED <<cursor_pos, crashed, browsing, logged>>
    /\ KeepDraft

Escape ==
    /\ input' = <<>>
    /\ cursor_pos' = 0
    /\ UNCHANGED <<crashed, browsing, logged>>
    /\ KeepDraft

Show(line) == input' = line /\ cursor_pos' = Len(line)

\* history_prev.  (Faulty form: every step back sets the line aside.)
UpAlwaysSaves ==
    /\ command_history # <<>>
    /\ history_index # 1
    /\ history_index' = IF history_index = 0 THEN Len(command_history)
                        ELSE history_index - 1
    /\ saved_input' = input
    /\ Show(command_history[history_index'])
    /\ UNCHANGED <<command_history, crashed, draft, logged>>

Up ==
    /\ command_history # <<>>
    /\ \/ /\ history_index = 0
          /\ saved_input' = input
          /\ history_index' = Len(command_history)
       \/ /\ history_index > 1
          /\ history_index' = history_index - 1
          /\ UNCHANGED saved_input
    /\ Show(command_history[history_index'])
    /\ UNCHANGED <<command_history, crashed, draft, logged>>

\* history_next: towards the newest, and past it back to the draft.
Down ==
    /\ history_index # 0
    /\ \/ /\ history_index < Len(command_history)
          /\ history_index' = history_index + 1
          /\ Show(command_history[history_index'])
       \/ /\ history_index = Len(command_history)
          /\ history_index' = 0
          /\ Show(saved_input)
    /\ KeepDraft
    /\ UNCHANGED <<command_history, saved_input, crashed, logged>>

\* add_to_history: the trimmed line, unless it is blank or repeats the last.
\* (Faulty form: unless it is anywhere in the history.)
RememberedOnce(line) ==
    LET cmd == Trim(line)
    IN  IF cmd = <<>> \/ \E i \in DOMAIN command_history :
                             command_history[i] = cmd
        THEN command_history
        ELSE Append(command_history, cmd)

Remembered(line) ==
    LET cmd == Trim(line)
        last == Len(command_history)
    IN  IF cmd = <<>> \/ (last > 0 /\ command_history[last] = cmd)
        THEN command_history
        ELSE Append(command_history, cmd)

\* Enter takes the line.  What is then executed is module Session's.
Enter ==
    /\ command_history' = Remembered(input)
    /\ Len(command_history') <= MaxHistory
    /\ history_index' = 0
    /\ saved_input' = <<>>
    /\ input' = <<>>
    /\ cursor_pos' = 0
    /\ KeepDraft
    /\ IF Trim(input) = <<>> THEN UNCHANGED logged
       ELSE latest' = Trim(input) /\ entered' = entered \cup {latest'}
    /\ UNCHANGED crashed

Next ==
    /\ ~crashed
    /\ \/ \E c \in Chars : Char(c)
       \/ Backspace \/ Delete \/ Left \/ Right \/ Home \/ End \/ Escape
       \/ Up \/ Down \/ Enter

Spec == Init /\ [][Next]_vars

----------------------------------------------------------------------------
(* Properties *)

\* Every variable has its type.
TypeOK ==
    /\ input \in Seq(Bytes) /\ draft \in Seq(Bytes)
    /\ saved_input \in Seq(Bytes)
    /\ cursor_pos \in Nat
    /\ command_history \in Seq(Seq(Bytes))
    /\ history_index \in 0..Len(command_history)
    /\ crashed \in BOOLEAN
    /\ entered \subseteq Seq(Bytes) /\ latest \in Seq(Bytes)

\* A line of one-byte characters, in which offsets count characters.
Narrow(line) == \A i \in DOMAIN line : Width[line[i][1]] = 1

\* While the line has no wider character the input bar is a line editor: each
\* key acts on the text at the cursor and none panics, whatever was recalled,
\* cleared or typed before.
Entries == {command_history[i] : i \in DOMAIN command_history}

AsLine == INSTANCE Line WITH
    Symbols <- Bytes,
    before <- SubSeq(input, 1, cursor_pos),
    after <- SubSeq(input, cursor_pos + 1, Len(input)),
    texts <- Entries \cup {saved_input, <<>>}

ActsAsLine ==
    [][Narrow(input) /\ Narrow(input') => AsLine!Next /\ ~crashed']_editing

\* The cursor never leaves the line, wide characters in it or not, so no key
\* panics past its end and the cursor is drawn on the line.
CursorInLine == cursor_pos <= Len(input)

\* Looking through the history costs no draft: it ends with the line as it was
\* before, or with a line entered.
DraftComesBack ==
    [][history_index # 0 /\ history_index' = 0 =>
          input' = draft \/ Enter]_vars

\* Every line entered can be called back, trimmed, the last one with the first
\* Up, and no two entries that follow each other are the same.
Recallable ==
    LET last == Len(command_history)
    IN  /\ entered = Entries
        /\ last > 0 => command_history[last] = latest
        /\ \A i \in 2..last : command_history[i] # command_history[i - 1]
=============================================================================
