-------------------------- MODULE LineEditorProofs --------------------------
(***************************************************************************)
(* Theorems about LineEditor, for any characters, widths and bounds.       *)
(***************************************************************************)
EXTENDS LineEditor, SequenceTheorems, WellFoundedInduction, TLAPS

----------------------------------------------------------------------------
(* Strings *)

\* The bytes of a character.
LEMMA EncodeType ==
    ASSUME NEW c \in Chars, Width[c] <= MaxLine
    PROVE  Encode(c) \in Seq(Bytes) /\ Len(Encode(c)) = Width[c]
<1>1. Width[c] \in Nat /\ MaxLine \in Nat
  BY CharsAssumption
<1>2. Encode(c) \in [1..Width[c] -> Bytes]
  BY <1>1 DEF Encode, Bytes
<1> QED
  BY <1>1, <1>2

\* The two pieces of a line around an offset.
LEMMA PieceTypes ==
    ASSUME NEW S, NEW line \in Seq(S), NEW pos \in 0..Len(line),
           NEW from \in Nat, from >= 1
    PROVE  /\ SubSeq(line, 1, pos) \in Seq(S)
           /\ Len(SubSeq(line, 1, pos)) = pos
           /\ SubSeq(line, from, Len(line)) \in Seq(S)
<1>1. Len(line) \in Nat /\ \A i \in 1..Len(line) : line[i] \in S
  OBVIOUS
<1>2. \A i \in 1..pos : line[i] \in S
  BY <1>1
<1>3. \A i \in from..Len(line) : line[i] \in S
  BY <1>1
<1>4. SubSeq(line, 1, pos) \in Seq(S) /\ Len(SubSeq(line, 1, pos)) = pos
  BY <1>1, <1>2, SubSeqProperties
<1>5. SubSeq(line, from, Len(line)) \in Seq(S)
  BY <1>1, <1>3, SubSeqProperties
<1> QED
  BY <1>4, <1>5

\* Inserting a character lengthens the line by its width ...
LEMMA InsertAtType ==
    ASSUME NEW line \in Seq(Bytes), NEW pos \in 0..Len(line), NEW c \in Chars,
           Width[c] <= MaxLine
    PROVE  /\ InsertAt(line, pos, c) \in Seq(Bytes)
           /\ Len(InsertAt(line, pos, c)) >= Len(line) + 1
<1> DEFINE left == SubSeq(line, 1, pos)
           right == SubSeq(line, pos + 1, Len(line))
<1>1. left \in Seq(Bytes) /\ Len(left) = pos /\ right \in Seq(Bytes)
  BY PieceTypes
<1>2. Len(right) = Len(line) - pos
  <2>1. \A i \in (pos + 1)..Len(line) : line[i] \in Bytes
    OBVIOUS
  <2>2. Len(line) \in Nat /\ pos \in Nat
    OBVIOUS
  <2>3. CASE pos + 1 <= Len(line)
    BY <2>1, <2>2, <2>3, SubSeqProperties
  <2>4. CASE pos = Len(line)
    BY <2>2, <2>4, SubSeqEmpty, EmptySeq
  <2> QED
    BY <2>2, <2>3, <2>4
<1>3. Encode(c) \in Seq(Bytes) /\ Len(Encode(c)) = Width[c]
  BY EncodeType
<1>4. /\ left \o Encode(c) \in Seq(Bytes)
      /\ Len(left \o Encode(c)) = pos + Width[c]
  BY <1>1, <1>3, ConcatProperties
<1>5. /\ (left \o Encode(c)) \o right \in Seq(Bytes)
      /\ Len((left \o Encode(c)) \o right)
            = Len(left \o Encode(c)) + Len(right)
  <2> HIDE DEF left, right
  <2> QED
    BY <1>1, <1>4, ConcatProperties
<1>6. InsertAt(line, pos, c) = (left \o Encode(c)) \o right
  BY DEF InsertAt
<1>7. Width[c] \in Nat \ {0} /\ Len(line) \in Nat /\ pos \in Nat
  BY CharsAssumption
<1> HIDE DEF left, right
<1> QED
  BY <1>2, <1>4, <1>5, <1>6, <1>7

\* ... and removing one leaves what was before the offset.
LEMMA RemoveAtType ==
    ASSUME NEW line \in Seq(Bytes), NEW pos \in 0..Len(line), pos < Len(line)
    PROVE  /\ RemoveAt(line, pos) \in Seq(Bytes)
           /\ pos <= Len(RemoveAt(line, pos))
<1> DEFINE c == CharAt(line, pos)
           left == SubSeq(line, 1, pos)
           right == SubSeq(line, pos + Width[c] + 1, Len(line))
<1>1. pos \in Nat /\ pos + 1 \in 1..Len(line) /\ line[pos + 1] \in Bytes
  OBVIOUS
<1>2. Width[c] \in Nat
  BY <1>1, CharsAssumption DEF CharAt, Bytes
<1>3. /\ left \in Seq(Bytes) /\ Len(left) = pos
      /\ right \in Seq(Bytes)
  BY <1>1, <1>2, PieceTypes
<1>4. left \o right \in Seq(Bytes) /\ Len(left \o right) = pos + Len(right)
  <2> HIDE DEF left, right
  <2> QED
    BY <1>3, ConcatProperties
<1>5. Len(right) \in Nat
  BY <1>3, LenProperties
<1>6. RemoveAt(line, pos) = left \o right
  BY DEF RemoveAt
<1> HIDE DEF left, right
<1> QED
  BY <1>1, <1>4, <1>5, <1>6

\* A set of positions that is not empty has a first and a last one.
LEMMA FirstPosition ==
    ASSUME NEW T, T \subseteq Nat, T # {}
    PROVE  \E m \in T : \A k \in T : m <= k
<1>1. IsWellFoundedOn(OpToRel(<, Nat), Nat)
  BY NatLessThanWellFounded
<1>2. PICK m \in T : \A k \in T : ~(<<k, m>> \in OpToRel(<, Nat))
  BY <1>1, WFMin
<1>3. \A k \in T : ~(k < m)
  BY <1>2 DEF OpToRel
<1> QED
  BY <1>3

LEMMA LastPosition ==
    ASSUME NEW n \in Nat, NEW T, T \subseteq 1..n, T # {}
    PROVE  \E m \in T : \A k \in T : k <= m
<1> DEFINE U == {m \in 0..n : n - m \in T}
<1>1. PICK k \in T : TRUE
  OBVIOUS
<1>2. U \subseteq Nat /\ n - k \in U
  BY T \subseteq 1..n, <1>1
<1>3. PICK u \in U : \A j \in U : u <= j
  BY <1>2, FirstPosition
<1>4. \A j \in T : n - j \in U
  BY T \subseteq 1..n
<1>5. n - u \in T /\ u \in Nat
  BY <1>3
<1>6. \A j \in T : j <= n - u
  BY <1>3, <1>4, <1>5, T \subseteq 1..n
<1> QED
  BY <1>5, <1>6

\* Trimming leaves a piece of the line.
LEMMA TrimType ==
    ASSUME NEW S, NEW line \in Seq(S)
    PROVE  Trim(line) \in Seq(S)
<1> DEFINE ink == {i \in DOMAIN line : line[i][1] \notin Blanks}
<1>1. CASE ink = {}
  BY <1>1, EmptySeq DEF Trim
<1>2. CASE ink # {}
  <2> DEFINE first == CHOOSE i \in ink : \A j \in ink : i <= j
             last == CHOOSE i \in ink : \A j \in ink : j <= i
  <2>1. ink \subseteq 1..Len(line) /\ Len(line) \in Nat
    OBVIOUS
  <2>2. \E i \in ink : \A j \in ink : i <= j
    <3>1. ink \subseteq Nat
      BY <2>1
    <3> HIDE DEF ink
    <3> QED
      BY <1>2, <3>1, FirstPosition
  <2>3. \E i \in ink : \A j \in ink : j <= i
    <3> HIDE DEF ink
    <3> QED
      BY <1>2, <2>1, LastPosition
  <2>4. first \in ink /\ last \in ink
    BY <2>2, <2>3
  <2>5. first \in 1..Len(line) /\ last \in 1..Len(line)
    BY <2>1, <2>4
  <2>6. Trim(line) = SubSeq(line, first, last)
    BY <1>2 DEF Trim
  <2>7. SubSeq(line, first, last) \in Seq(S)
    <3> HIDE DEF first, last
    <3>1. \A i \in first..last : line[i] \in S
      BY <2>1, <2>5
    <3> QED
      BY <2>5, <3>1, SubSeqProperties
  <2> QED
    BY <2>6, <2>7
<1> QED
  BY <1>1, <1>2

\* Remembering a line leaves a history of lines.
LEMMA RememberedType ==
    ASSUME NEW S, NEW line \in Seq(S), command_history \in Seq(Seq(S))
    PROVE  Remembered(line) \in Seq(Seq(S))
BY TrimType, AppendProperties DEF Remembered

\* An entry of the history, on the input bar.
LEMMA ShowType ==
    ASSUME NEW S, NEW lines \in Seq(Seq(S)), NEW i \in 1..Len(lines)
    PROVE  lines[i] \in Seq(S)
OBVIOUS

----------------------------------------------------------------------------
(* The inductive invariant: the types, the cursor within the line, and a   *)
(* draft that is on the input bar while no history is shown and set aside  *)
(* while it is.                                                            *)

DraftKept == IF history_index = 0 THEN draft = input ELSE draft = saved_input

Inv == TypeOK /\ CursorInLine /\ DraftKept

\* The invariant holds at the start.
LEMMA InitInv == Init => Inv
<1> SUFFICES ASSUME Init PROVE Inv
  OBVIOUS
<1>1. /\ <<>> \in Seq(Bytes) /\ <<>> \in Seq(Seq(Bytes))
      /\ Len(<<>>) = 0 /\ 0 \in Nat
  OBVIOUS
<1>2. history_index \in 0..Len(command_history)
  <2>1. history_index = 0 /\ Len(command_history) = 0
    BY <1>1, Zenon DEF Init
  <2> QED
    BY <2>1
<1>3. TypeOK
  BY <1>1, <1>2, Zenon DEF Init, TypeOK
<1>4. cursor_pos <= Len(input)
  BY <1>1 DEF Init
<1>5. DraftKept
  BY DEF Init, DraftKept
<1> QED
  BY <1>3, <1>4, <1>5 DEF Inv, CursorInLine

\* A key that panics leaves the line and the history as they were.
LEMMA PanicKeeps ==
    ASSUME Inv, Panic, cursor_pos' \in Nat, cursor_pos' <= Len(input)
    PROVE  Inv'
BY DEF Inv, TypeOK, CursorInLine, DraftKept, Panic, browsing, logged

\* One that edits the line edits the draft, when that is what it shows.
LEMMA EditKeeps ==
    ASSUME Inv, UNCHANGED <<crashed, browsing, logged>>, KeepDraft,
           input' \in Seq(Bytes), cursor_pos' \in Nat,
           cursor_pos' <= Len(input')
    PROVE  Inv'
BY DEF Inv, TypeOK, CursorInLine, DraftKept, KeepDraft, browsing, logged

\* Each key keeps the invariant.
LEMMA CharKeeps ==
    ASSUME Inv, NEW c \in Chars, Char(c)
    PROVE  Inv'
<1>1. /\ input \in Seq(Bytes) /\ cursor_pos \in 0..Len(input)
      /\ Len(input) \in Nat
  BY DEF Inv, TypeOK, CursorInLine
<1>2. Width[c] <= MaxLine
  BY <1>1, CharsAssumption DEF Char
<1>3. CASE Panic /\ UNCHANGED cursor_pos
  BY <1>1, <1>3, PanicKeeps
<1>4. CASE /\ input' = InsertAt(input, cursor_pos, c)
           /\ cursor_pos' = cursor_pos + 1
           /\ UNCHANGED <<crashed, browsing, logged>>
           /\ KeepDraft
  <2>1. input' \in Seq(Bytes) /\ Len(input') >= Len(input) + 1
    BY <1>1, <1>2, <1>4, InsertAtType
  <2>2. cursor_pos' \in Nat /\ cursor_pos' <= Len(input')
    BY <1>1, <1>4, <2>1
  <2> QED
    BY <1>4, <2>1, <2>2, EditKeeps
<1> QED
  BY <1>3, <1>4 DEF Char

\* Removing the character at pos, with the cursor there.
LEMMA RemoveKeeps ==
    ASSUME Inv, NEW pos \in Nat, pos < Len(input), Remove(pos),
           cursor_pos' = pos
    PROVE  Inv'
<1>1. input \in Seq(Bytes) /\ pos \in 0..Len(input) /\ Len(input) \in Nat
  BY DEF Inv, TypeOK
<1>2. CASE Panic
  BY <1>1, <1>2, PanicKeeps
<1>3. CASE /\ input' = RemoveAt(input, pos)
           /\ UNCHANGED <<crashed, browsing, logged>>
           /\ KeepDraft
  <2>1. input' \in Seq(Bytes) /\ pos <= Len(input')
    BY <1>1, <1>3, RemoveAtType
  <2> QED
    BY <1>3, <2>1, EditKeeps
<1> QED
  BY <1>2, <1>3 DEF Remove

\* Moving the cursor within the line.
LEMMA MoveKeeps ==
    ASSUME Inv, NEW pos \in Nat, pos <= Len(input), MoveTo(pos)
    PROVE  Inv'
BY DEF Inv, TypeOK, CursorInLine, DraftKept, MoveTo, browsing, logged

LEMMA UpKeeps == ASSUME Inv, Up PROVE Inv'
<1>1. /\ command_history \in Seq(Seq(Bytes)) /\ input \in Seq(Bytes)
      /\ saved_input \in Seq(Bytes) /\ draft \in Seq(Bytes)
      /\ history_index \in 0..Len(command_history)
      /\ Len(command_history) \in Nat
  BY DEF Inv, TypeOK
<1>2. Len(command_history) > 0
  BY <1>1, EmptySeq DEF Up
<1>3. history_index' \in 1..Len(command_history)
  BY <1>1, <1>2 DEF Up
<1>4. input' \in Seq(Bytes) /\ cursor_pos' = Len(input')
  BY <1>1, <1>3, ShowType DEF Up, Show
<1>5. saved_input' \in Seq(Bytes) /\ draft' = saved_input'
  BY <1>1 DEF Up, Inv, DraftKept
<1>6. UNCHANGED <<command_history, crashed, draft, logged>>
  BY DEF Up
<1>7. TypeOK'
  BY <1>1, <1>3, <1>4, <1>5, <1>6, LenProperties DEF Inv, TypeOK, logged
<1> QED
  BY <1>3, <1>4, <1>5, <1>7, LenProperties DEF Inv, CursorInLine, DraftKept,
     TypeOK

LEMMA DownKeeps == ASSUME Inv, Down PROVE Inv'
<1>1. /\ command_history \in Seq(Seq(Bytes)) /\ saved_input \in Seq(Bytes)
      /\ history_index \in 1..Len(command_history)
      /\ Len(command_history) \in Nat
      /\ draft \in Seq(Bytes) /\ draft = saved_input
  BY DEF Inv, TypeOK, Down, DraftKept
<1>2. history_index' \in 0..Len(command_history)
  BY <1>1 DEF Down
<1>3. input' \in Seq(Bytes) /\ cursor_pos' = Len(input')
  BY <1>1, <1>2, ShowType DEF Down, Show
<1>4. UNCHANGED <<command_history, saved_input, crashed, logged>>
  BY DEF Down
<1>5. draft' = IF history_index' = 0 THEN input' ELSE saved_input'
  BY <1>1, <1>4 DEF Down, KeepDraft
<1>6. TypeOK'
  BY <1>1, <1>2, <1>3, <1>4, <1>5, LenProperties DEF Inv, TypeOK, logged
<1> QED
  BY <1>3, <1>5, <1>6, LenProperties DEF Inv, CursorInLine, DraftKept, TypeOK

LEMMA EnterKeeps == ASSUME Inv, Enter PROVE Inv'
<1>1. input \in Seq(Bytes) /\ command_history \in Seq(Seq(Bytes))
  BY DEF Inv, TypeOK
<1>2. command_history' \in Seq(Seq(Bytes)) /\ Len(command_history') \in Nat
  BY <1>1, RememberedType DEF Enter
<1>3. Trim(input) \in Seq(Bytes)
  BY <1>1, TrimType
<1>4. latest' \in Seq(Bytes) /\ entered' \subseteq Seq(Bytes)
  <2>1. latest \in Seq(Bytes) /\ entered \subseteq Seq(Bytes)
    BY DEF Inv, TypeOK
  <2>2. CASE Trim(input) = <<>>
    BY <2>1, <2>2 DEF Enter, logged
  <2>3. CASE Trim(input) # <<>>
    BY <1>3, <2>1, <2>3 DEF Enter
  <2> QED
    BY <2>2, <2>3
<1>5. /\ history_index' = 0 /\ saved_input' = <<>> /\ input' = <<>>
      /\ cursor_pos' = 0 /\ draft' = <<>> /\ crashed' = crashed
  BY DEF Enter, KeepDraft
<1>6. <<>> \in Seq(Bytes) /\ Len(<<>>) = 0
  OBVIOUS
<1>7. crashed' \in BOOLEAN
  BY <1>5 DEF Inv, TypeOK
<1>8. TypeOK'
  BY <1>2, <1>4, <1>5, <1>6, <1>7 DEF TypeOK
<1> QED
  BY <1>5, <1>6, <1>8 DEF Inv, CursorInLine, DraftKept

\* The invariant is inductive.
LEMMA NextKeeps == Inv /\ [Next]_vars => Inv'
<1> SUFFICES ASSUME Inv, [Next]_vars PROVE Inv'
  OBVIOUS
<1>1. input \in Seq(Bytes) /\ Len(input) \in Nat
      /\ cursor_pos \in 0..Len(input)
  BY DEF Inv, TypeOK, CursorInLine
<1>2. ASSUME NEW c \in Chars, Char(c) PROVE Inv'
  BY <1>2, CharKeeps
<1>3. CASE Backspace
  BY <1>1, <1>3, RemoveKeeps DEF Backspace
<1>4. CASE Delete
  BY <1>1, <1>4, RemoveKeeps DEF Delete
<1>5. CASE Left
  BY <1>1, <1>5, MoveKeeps DEF Left
<1>6. CASE Right
  BY <1>1, <1>6, MoveKeeps DEF Right
<1>7. CASE Home
  BY <1>1, <1>7, MoveKeeps DEF Home
<1>8. CASE End
  BY <1>1, <1>8, MoveKeeps DEF End
<1>9. CASE Escape
  <2>1. <<>> \in Seq(Bytes) /\ Len(<<>>) = 0
    OBVIOUS
  <2> QED
    BY <1>9, <2>1, EditKeeps DEF Escape
<1>10. CASE Up
  BY <1>10, UpKeeps
<1>11. CASE Down
  BY <1>11, DownKeeps
<1>12. CASE Enter
  BY <1>12, EnterKeeps
<1>13. CASE UNCHANGED vars
  BY <1>13 DEF vars, editing, browsing, logged, Inv, TypeOK, CursorInLine,
     DraftKept
<1> QED
  BY <1>2, <1>3, <1>4, <1>5, <1>6, <1>7, <1>8, <1>9, <1>10, <1>11, <1>12,
     <1>13 DEF Next

LEMMA Invariance == Spec => []Inv
BY InitInv, NextKeeps, PTL DEF Spec

----------------------------------------------------------------------------
(* Theorems *)

\* Every variable keeps its type.
THEOREM TypeCorrect == Spec => []TypeOK
<1>1. Inv => TypeOK
  BY DEF Inv
<1> QED
  BY <1>1, Invariance, PTL

\* The cursor never leaves the line, whatever the widths of its characters:
\* no key and no redraw reads past its end.
THEOREM CursorStays == Spec => []CursorInLine
<1>1. Inv => CursorInLine
  BY DEF Inv
<1> QED
  BY <1>1, Invariance, PTL

\* Looking through the history costs no draft: browsing ends with the line as
\* it was before, or with a line entered.
THEOREM DraftReturns == Spec => DraftComesBack
<1>1. Inv /\ [Next]_vars =>
        [history_index # 0 /\ history_index' = 0 =>
            input' = draft \/ Enter]_vars
  <2> SUFFICES ASSUME Inv, Next, history_index # 0, history_index' = 0,
                      ~Enter
               PROVE  input' = draft
    OBVIOUS
  <2>1. CASE Down
    BY <2>1 DEF Down, Show, Inv, TypeOK, DraftKept
  <2>2. CASE Up
    <3>1. history_index \in Nat /\ history_index' = history_index - 1
          /\ history_index > 1
      BY <2>2 DEF Up, Inv, TypeOK
    <3> QED
      BY <3>1
  <2>3. ~Down /\ ~Up => UNCHANGED history_index
    BY DEF Next, Char, Remove, Backspace, Delete, Left, Right, Home, End,
       MoveTo, Escape, Panic, browsing
  <2> QED
    BY <2>1, <2>2, <2>3
<1> QED
  BY <1>1, Invariance, PTL DEF Spec, DraftComesBack

----------------------------------------------------------------------------
(* What was entered can be called back. *)

\* Recallable, when Enter adds an entry.
LEMMA NewEntryRecallable ==
    ASSUME Inv, Recallable, Enter,
           command_history' = Append(command_history, Trim(input)),
           latest' = Trim(input), entered' = entered \cup {latest'},
           ~ (/\ Len(command_history) > 0
              /\ command_history[Len(command_history)] = Trim(input))
    PROVE  Recallable'
<1> DEFINE last == Len(command_history)
           cmd == Trim(input)
<1>1. /\ command_history \in Seq(Seq(Bytes)) /\ cmd \in Seq(Bytes)
      /\ last \in Nat /\ DOMAIN command_history = 1..last
  BY TrimType DEF Inv, TypeOK
<1>2. /\ command_history' \in Seq(Seq(Bytes))
      /\ Len(command_history') = last + 1
      /\ command_history'[last + 1] = cmd
      /\ \A i \in 1..last : command_history'[i] = command_history[i]
      /\ DOMAIN command_history' = 1..(last + 1)
  <2> HIDE DEF cmd
  <2> QED
    BY <1>1, AppendProperties DEF cmd
<1>3. entered' = Entries'
  <2>1. Entries' = Entries \cup {cmd}
    <3>1. \A i \in DOMAIN command_history' : command_history'[i] = cmd
              \/ command_history'[i] \in Entries
      BY <1>1, <1>2 DEF Entries
    <3>2. \A i \in 1..last : i \in 1..(last + 1)
                             /\ last + 1 \in 1..(last + 1)
      BY <1>1
    <3>3. \A e \in Entries : e \in Entries'
      BY <1>1, <1>2, <3>2 DEF Entries
    <3>4. cmd \in Entries'
      <4>1. last + 1 \in DOMAIN command_history'
        BY <1>1, <1>2
      <4> HIDE DEF cmd, last
      <4> QED
        BY <1>2, <4>1 DEF Entries
    <3> QED
      BY <3>1, <3>3, <3>4 DEF Entries
  <2> QED
    BY <2>1 DEF Recallable
<1>4. \A i \in 2..(last + 1) : command_history'[i] # command_history'[i - 1]
  <2> SUFFICES ASSUME NEW i \in 2..(last + 1)
               PROVE  command_history'[i] # command_history'[i - 1]
    OBVIOUS
  <2>1. CASE i \in 2..last
    BY <1>1, <1>2, <2>1 DEF Recallable
  <2>2. CASE i = last + 1
    <3>1. last \in 1..last /\ i - 1 = last /\ last > 0
      BY <1>1, <2>2
    <3>2. command_history'[i] = cmd /\ command_history'[i - 1]
                                          = command_history[last]
      <4> HIDE DEF cmd, last
      <4> QED
        BY <1>2, <2>2, <3>1
    <3> QED
      BY <3>1, <3>2
  <2> QED
    BY <1>1, <2>1, <2>2
<1> QED
  BY <1>1, <1>2, <1>3, <1>4 DEF Recallable

\* Recallable, whatever Enter remembers.
LEMMA EnterRecallable ==
    ASSUME Inv, Recallable, Enter PROVE Recallable'
<1> DEFINE last == Len(command_history)
           cmd == Trim(input)
<1>1. /\ command_history \in Seq(Seq(Bytes)) /\ last \in Nat
      /\ DOMAIN command_history = 1..last
  BY DEF Inv, TypeOK
<1>2. CASE cmd = <<>>
  BY <1>2 DEF Enter, Remembered, Recallable, Entries, logged
<1>3. CASE /\ cmd # <<>>
           /\ last > 0 /\ command_history[last] = cmd
  <2>1. command_history' = command_history
    BY <1>3 DEF Enter, Remembered
  <2>2. latest' = cmd /\ entered' = entered \cup {cmd}
    BY <1>3 DEF Enter
  <2>3. cmd \in Entries
    <3>1. last \in DOMAIN command_history
      BY <1>1, <1>3
    <3> QED
      BY <1>3, <3>1 DEF Entries
  <2>4. entered' = Entries
    BY <2>2, <2>3 DEF Recallable
  <2> HIDE DEF cmd
  <2> QED
    BY <1>3, <2>1, <2>2, <2>4 DEF Recallable, Entries
<1>4. CASE cmd # <<>> /\ ~(last > 0 /\ command_history[last] = cmd)
  BY <1>4, NewEntryRecallable DEF Enter, Remembered
<1> QED
  BY <1>2, <1>3, <1>4

\* Every line entered can be called back, the last one with the first Up, and
\* no two entries that follow each other are the same.
THEOREM EnteredIsRecallable == Spec => []Recallable
<1>1. Init => Recallable
  <2> SUFFICES ASSUME Init PROVE Recallable
    OBVIOUS
  <2>1. command_history = <<>> /\ entered = {} /\ Len(command_history) = 0
        /\ DOMAIN command_history = {}
    BY DEF Init
  <2> QED
    BY <2>1 DEF Recallable, Entries
<1>2. Inv /\ Recallable /\ [Next]_vars => Recallable'
  <2> SUFFICES ASSUME Inv, Recallable, [Next]_vars PROVE Recallable'
    OBVIOUS
  <2>1. CASE Enter
    BY <2>1, EnterRecallable
  <2>2. CASE ~Enter
    <3>1. UNCHANGED <<command_history, entered, latest>>
      BY <2>2 DEF Next, Char, Remove, Backspace, Delete, Left, Right, Home,
         End, MoveTo, Escape, Panic, Up, Down, browsing, logged, vars
    <3> QED
      BY <3>1 DEF Recallable, Entries
  <2> QED
    BY <2>1, <2>2
<1> QED
  BY <1>1, <1>2, Invariance, PTL DEF Spec

----------------------------------------------------------------------------
(***************************************************************************)
(* The input bar is a line editor.  Its lines are made of bytes of their   *)
(* characters (WholeLines), so that in a line of one-byte characters every *)
(* offset is a boundary, no key panics, and the keys cut and join the text *)
(* at the cursor.                                                          *)
(***************************************************************************)
WholeBytes == {b \in Bytes : b[2] <= Width[b[1]]}

WholeLines ==
    /\ input \in Seq(WholeBytes) /\ saved_input \in Seq(WholeBytes)
    /\ command_history \in Seq(Seq(WholeBytes))

\* A character typed is made of its bytes.
LEMMA EncodeReal ==
    ASSUME NEW c \in Chars, Width[c] <= MaxLine
    PROVE  Encode(c) \in Seq(WholeBytes)
<1>1. Width[c] \in Nat /\ MaxLine \in Nat
  BY CharsAssumption
<1>2. Encode(c) \in [1..Width[c] -> WholeBytes]
  BY <1>1 DEF Encode, Bytes, WholeBytes
<1> QED
  BY <1>1, <1>2

\* The pieces a key leaves of a line, joined.
LEMMA JoinReal ==
    ASSUME NEW line \in Seq(WholeBytes), NEW pos \in 0..Len(line),
           NEW from \in Nat, from >= 1, NEW middle \in Seq(WholeBytes)
    PROVE  /\ SubSeq(line, 1, pos) \o middle \o SubSeq(line, from, Len(line))
                \in Seq(WholeBytes)
           /\ SubSeq(line, 1, pos) \o SubSeq(line, from, Len(line))
                \in Seq(WholeBytes)
<1> DEFINE left == SubSeq(line, 1, pos)
           right == SubSeq(line, from, Len(line))
<1>1. left \in Seq(WholeBytes) /\ right \in Seq(WholeBytes)
  BY PieceTypes
<1> HIDE DEF left, right
<1>2. left \o middle \in Seq(WholeBytes) /\ left \o right \in Seq(WholeBytes)
  BY <1>1, ConcatProperties
<1>3. (left \o middle) \o right \in Seq(WholeBytes)
  BY <1>1, <1>2, ConcatProperties
<1> QED
  BY <1>2, <1>3 DEF left, right

\* The character at an offset is one that can be typed.
LEMMA CharAtWidth ==
    ASSUME NEW line \in Seq(Bytes), NEW pos \in Nat, pos < Len(line)
    PROVE  /\ CharAt(line, pos) \in Chars
           /\ Width[CharAt(line, pos)] \in Nat \ {0}
<1>1. pos + 1 \in 1..Len(line) /\ line[pos + 1] \in Bytes
  OBVIOUS
<1> QED
  BY <1>1, CharsAssumption DEF CharAt, Bytes

\* Removing a character leaves the others whole.
LEMMA RemoveReal ==
    ASSUME Inv, WholeLines, NEW pos \in Nat, pos < Len(input), Remove(pos)
    PROVE  input' \in Seq(WholeBytes) /\ UNCHANGED browsing
<1>1. input \in Seq(Bytes) /\ Len(input) \in Nat
  BY DEF Inv, TypeOK
<1>2. CASE UNCHANGED <<input, browsing>>
  BY <1>2 DEF WholeLines
<1>3. CASE input' = RemoveAt(input, pos) /\ UNCHANGED browsing
  <2> DEFINE from == pos + Width[CharAt(input, pos)] + 1
  <2>1. from \in Nat /\ from >= 1 /\ pos \in 0..Len(input)
    BY <1>1, CharAtWidth
  <2>2. input' = SubSeq(input, 1, pos) \o SubSeq(input, from, Len(input))
    BY <1>3 DEF RemoveAt
  <2>3. <<>> \in Seq(WholeBytes)
    OBVIOUS
  <2> HIDE DEF from
  <2>4. input' \in Seq(WholeBytes)
    BY <2>1, <2>2, <2>3, JoinReal DEF WholeLines
  <2> QED
    BY <1>3, <2>4
<1> QED
  BY <1>2, <1>3 DEF Remove, Panic

\* WholeLines is inductive.
LEMMA StepWhole ==
    Inv /\ WholeLines /\ [Next]_vars => WholeLines'
<1> SUFFICES ASSUME Inv, WholeLines, [Next]_vars PROVE WholeLines'
  OBVIOUS
<1>1. /\ input \in Seq(WholeBytes) /\ saved_input \in Seq(WholeBytes)
      /\ command_history \in Seq(Seq(WholeBytes)) /\ <<>> \in Seq(WholeBytes)
  BY DEF WholeLines
<1>2. /\ Len(input) \in Nat /\ cursor_pos \in 0..Len(input)
      /\ Len(command_history) \in Nat
      /\ history_index \in 0..Len(command_history)
  BY DEF Inv, TypeOK, CursorInLine
<1>3. ASSUME NEW c \in Chars, Char(c) PROVE WholeLines'
  <2>1. Width[c] <= MaxLine /\ cursor_pos + 1 \in Nat
    BY <1>2, <1>3, CharsAssumption DEF Char
  <2>2. InsertAt(input, cursor_pos, c) \in Seq(WholeBytes)
    BY <1>1, <1>2, <2>1, EncodeReal, JoinReal DEF InsertAt
  <2> QED
    BY <1>1, <1>3, <2>2 DEF Char, Panic, browsing, WholeLines
<1>4. CASE Backspace \/ Delete
  BY <1>1, <1>2, <1>4, RemoveReal DEF Backspace, Delete, browsing, WholeLines
<1>5. CASE Left \/ Right \/ Home \/ End
  BY <1>1, <1>5 DEF Left, Right, Home, End, MoveTo, browsing, WholeLines
<1>6. CASE Escape
  BY <1>1, <1>6 DEF Escape, browsing, WholeLines
<1>7. CASE Up
  <2>1. Len(command_history) > 0
    BY <1>1, <1>7, EmptySeq DEF Up
  <2>2. history_index' \in 1..Len(command_history)
    BY <1>2, <1>7, <2>1 DEF Up
  <2> QED
    BY <1>1, <1>7, <2>2, ShowType DEF Up, Show, WholeLines
<1>8. CASE Down
  <2>1. CASE /\ history_index < Len(command_history)
             /\ history_index' = history_index + 1
             /\ Show(command_history[history_index'])
    <3>1. history_index' \in 1..Len(command_history)
      BY <1>2, <2>1
    <3> QED
      BY <1>1, <1>8, <2>1, <3>1, ShowType DEF Down, Show, WholeLines
  <2>2. CASE Show(saved_input)
    BY <1>1, <1>8, <2>2 DEF Down, Show, WholeLines
  <2> QED
    BY <1>8, <2>1, <2>2 DEF Down
<1>9. CASE Enter
  BY <1>1, <1>9, RememberedType DEF Enter, WholeLines
<1>10. CASE UNCHANGED vars
  BY <1>1, <1>10 DEF vars, editing, browsing, WholeLines
<1> QED
  BY <1>3, <1>4, <1>5, <1>6, <1>7, <1>8, <1>9, <1>10 DEF Next

\* A line cut at an offset, and what stands on each side of it.
LEMMA Cut ==
    ASSUME NEW S, NEW s \in Seq(S), NEW i \in 0..Len(s)
    PROVE  /\ SubSeq(s, 1, i) \in Seq(S) /\ Len(SubSeq(s, 1, i)) = i
           /\ SubSeq(s, i + 1, Len(s)) \in Seq(S)
           /\ SubSeq(s, 1, i) \o SubSeq(s, i + 1, Len(s)) = s
<1>1. Len(s) \in Nat /\ i \in 0..Len(s) /\ 1 \in 1..(Len(s) + 1)
  OBVIOUS
<1>2. i \in (1 - 1)..Len(s) /\ Len(s) \in i..Len(s)
  BY <1>1
<1>3. SubSeq(s, 1, i) \o SubSeq(s, i + 1, Len(s)) = SubSeq(s, 1, Len(s))
  BY <1>1, <1>2, ConcatAdjacentSubSeq
<1>4. SubSeq(s, 1, Len(s)) = s
  BY SubSeqFull
<1>5. i + 1 \in Nat /\ i + 1 >= 1
  BY <1>1
<1>6. /\ SubSeq(s, 1, i) \in Seq(S) /\ Len(SubSeq(s, 1, i)) = i
      /\ SubSeq(s, i + 1, Len(s)) \in Seq(S)
  BY <1>5, PieceTypes
<1> QED
  BY <1>3, <1>4, <1>6

\* The character right of an offset.
LEMMA CutHere ==
    ASSUME NEW S, NEW s \in Seq(S), NEW i \in Nat, i < Len(s)
    PROVE  /\ s[i + 1] \in S
           /\ SubSeq(s, 1, i + 1) = Append(SubSeq(s, 1, i), s[i + 1])
           /\ SubSeq(s, i + 1, Len(s))
                  = <<s[i + 1]>> \o SubSeq(s, i + 2, Len(s))
           /\ SubSeq(s, i + 1, Len(s)) # <<>>
           /\ Head(SubSeq(s, i + 1, Len(s))) = s[i + 1]
           /\ Tail(SubSeq(s, i + 1, Len(s))) = SubSeq(s, i + 2, Len(s))
<1>1. /\ i + 1 \in 1..Len(s) /\ Len(s) \in (i + 1)..Len(s)
      /\ 1 \in 1..Len(s) /\ i + 1 \in 1..Len(s) /\ (i + 1) - 1 = i
      /\ (i + 1) + 1 = i + 2 /\ i \in 0..Len(s) /\ Len(s) \in Nat
      /\ i + 2 \in Nat /\ i + 2 >= 1
  OBVIOUS
<1>2. s[i + 1] \in S
  BY <1>1, ElementOfSeq
<1>3. SubSeq(s, 1, i + 1) = SubSeq(s, 1, i) \o <<s[i + 1]>>
  BY <1>1, SubSeqRecursiveSecond
<1>4. SubSeq(s, 1, i) \in Seq(S) /\ SubSeq(s, i + 2, Len(s)) \in Seq(S)
  BY <1>1, PieceTypes
<1>5. SubSeq(s, 1, i + 1) = Append(SubSeq(s, 1, i), s[i + 1])
  BY <1>2, <1>3, <1>4, AppendIsConcat
<1>6. SubSeq(s, i + 1, Len(s)) = <<s[i + 1]>> \o SubSeq(s, i + 2, Len(s))
  BY <1>1, SubSeqRecursiveFirst
<1>7. /\ Head(SubSeq(s, i + 1, Len(s))) = s[i + 1]
      /\ Tail(SubSeq(s, i + 1, Len(s))) = SubSeq(s, i + 2, Len(s))
  BY <1>1, HeadTailOfSubSeq
<1>8. SubSeq(s, i + 1, Len(s)) # <<>>
  <2>1. \A k \in (i + 1)..Len(s) : s[k] \in S
    BY <1>1, ElementOfSeq
  <2>2. Len(SubSeq(s, i + 1, Len(s))) = Len(s) - (i + 1) + 1
    BY <1>1, <2>1, SubSeqProperties
  <2>3. Len(SubSeq(s, i + 1, Len(s))) # 0
    <3>1. Len(s) - (i + 1) + 1 # 0
      BY <1>1
    <3> QED
      BY <2>2, <3>1, Zenon
  <2>4. Len(<<>>) = 0
    OBVIOUS
  <2> QED
    BY <2>3, <2>4, Zenon
<1> QED
  BY <1>2, <1>5, <1>6, <1>7, <1>8

\* Two pieces joined, and cut where they were joined.
LEMMA Join ==
    ASSUME NEW S, NEW a \in Seq(S), NEW b \in Seq(S)
    PROVE  /\ SubSeq(a \o b, 1, Len(a)) = a
           /\ SubSeq(a \o b, Len(a) + 1, Len(a \o b)) = b
<1> DEFINE s == a \o b
<1>1. /\ s \in Seq(S) /\ Len(s) = Len(a) + Len(b)
      /\ \A k \in 1..(Len(a) + Len(b)) :
            s[k] = IF k <= Len(a) THEN a[k] ELSE b[k - Len(a)]
  BY ConcatProperties
<1>2. Len(a) \in Nat /\ Len(b) \in Nat
  OBVIOUS
<1>3. \A k \in 1..Len(s) : s[k] \in S
  BY <1>1, ElementOfSeq
<1> HIDE DEF s
<1>4. SubSeq(s, 1, Len(a)) = a
  <2> DEFINE t == SubSeq(s, 1, Len(a))
  <2>1. \A k \in 1..Len(a) : s[k] \in S
    BY <1>1, <1>2, <1>3
  <2>2. /\ t \in Seq(S) /\ Len(t) = Len(a)
        /\ \A k \in 1..Len(a) : t[k] = s[k]
    BY <1>2, <2>1, SubSeqProperties
  <2>3. \A k \in 1..Len(t) : t[k] = a[k]
    BY <1>1, <1>2, <2>2
  <2> HIDE DEF t
  <2>4. t = a
    BY <2>2, <2>3, SeqEqual
  <2> QED
    BY <2>4 DEF t
<1>5. SubSeq(s, Len(a) + 1, Len(s)) = b
  <2> DEFINE t == SubSeq(s, Len(a) + 1, Len(s))
  <2>1. \A k \in (Len(a) + 1)..Len(s) : s[k] \in S
    BY <1>1, <1>2, <1>3
  <2>2. /\ t \in Seq(S)
        /\ Len(t) = IF Len(a) + 1 <= Len(s) THEN Len(s) - (Len(a) + 1) + 1
                    ELSE 0
        /\ \A k \in 1..(Len(s) - (Len(a) + 1) + 1) :
              t[k] = s[Len(a) + 1 + k - 1]
    BY <1>1, <1>2, <2>1, SubSeqProperties
  <2> HIDE DEF t
  <2>3. Len(t) = Len(b)
    BY <1>1, <1>2, <2>2
  <2>4. \A k \in 1..Len(t) : t[k] = b[k]
    <3> SUFFICES ASSUME NEW k \in 1..Len(t) PROVE t[k] = b[k]
      OBVIOUS
    <3>1. /\ k \in 1..(Len(s) - (Len(a) + 1) + 1)
          /\ Len(a) + 1 + k - 1 = Len(a) + k
          /\ Len(a) + k \in 1..(Len(a) + Len(b))
          /\ ~(Len(a) + k <= Len(a)) /\ (Len(a) + k) - Len(a) = k
      BY <1>1, <1>2, <2>3
    <3>2. s[Len(a) + k] = b[k]
      BY <1>1, <3>1
    <3> QED
      BY <2>2, <3>1, <3>2
  <2>5. t = b
    BY <2>2, <2>3, <2>4, SeqEqual
  <2> QED
    BY <2>5 DEF t
<1> QED
  BY <1>4, <1>5 DEF s

\* The cursor at the start of the line, and at its end.
LEMMA Ends ==
    ASSUME NEW S, NEW s \in Seq(S)
    PROVE  /\ SubSeq(s, 1, 0) = <<>> /\ SubSeq(s, 0 + 1, Len(s)) = s
           /\ SubSeq(s, 1, Len(s)) = s
           /\ SubSeq(s, Len(s) + 1, Len(s)) = <<>>
<1>1. Len(s) \in Nat
  OBVIOUS
<1>2. SubSeq(s, 1, 0) = <<>> /\ SubSeq(s, Len(s) + 1, Len(s)) = <<>>
  BY <1>1, SubSeqEmpty
<1>3. SubSeq(s, 1, Len(s)) = s
  BY SubSeqFull
<1> QED
  BY <1>2, <1>3

\* In a line of one-byte characters every offset is a boundary.
LEMMA NarrowWhole ==
    ASSUME NEW line \in Seq(WholeBytes), Narrow(line), NEW pos \in 0..Len(line)
    PROVE  /\ OnBoundary(line, pos)
           /\ pos < Len(line) => Width[CharAt(line, pos)] = 1
<1> SUFFICES ASSUME pos < Len(line)
             PROVE  line[pos + 1][2] = 1 /\ Width[CharAt(line, pos)] = 1
  BY DEF OnBoundary
<1>1. pos + 1 \in DOMAIN line /\ line[pos + 1] \in WholeBytes
  OBVIOUS
<1>2. Width[line[pos + 1][1]] = 1
  BY <1>1 DEF Narrow
<1>3. line[pos + 1][2] \in Nat /\ line[pos + 1][2] >= 1
      /\ line[pos + 1][2] <= Width[line[pos + 1][1]]
  BY <1>1, CharsAssumption DEF WholeBytes, Bytes
<1> QED
  BY <1>2, <1>3 DEF CharAt


\* A character goes in at the cursor, and the cursor behind it.
LEMMA CharActs ==
    ASSUME Inv, WholeLines, ~crashed, NEW c \in Chars, Char(c),
           Narrow(input), Narrow(input')
    PROVE  AsLine!Insert /\ ~crashed'
<1>1. /\ input \in Seq(WholeBytes) /\ input \in Seq(Bytes)
      /\ Len(input) \in Nat /\ cursor_pos \in 0..Len(input)
      /\ cursor_pos \in Nat /\ MaxLine \in Nat /\ Width[c] \in Nat \ {0}
  BY CharsAssumption DEF Inv, TypeOK, CursorInLine, WholeLines
<1>2. OnBoundary(input, cursor_pos)
  BY <1>1, NarrowWhole
<1>3. /\ input' = InsertAt(input, cursor_pos, c)
      /\ cursor_pos' = cursor_pos + 1 /\ crashed' = crashed
  BY <1>2 DEF Char
<1> DEFINE a == SubSeq(input, 1, cursor_pos)
           b == SubSeq(input, cursor_pos + 1, Len(input))
           e == Encode(c)
           x == <<c, 1>>
<1>4. a \in Seq(Bytes) /\ Len(a) = cursor_pos /\ b \in Seq(Bytes)
  BY <1>1, Cut
<1>5. /\ e \in Seq(Bytes) /\ Len(e) = Width[c] /\ e[1] = x
      /\ x \in Bytes /\ x[1] = c
  <2>1. Width[c] <= MaxLine
    BY <1>1 DEF Char
  <2>2. 1 \in 1..Width[c] /\ 1 \in 1..MaxLine
    BY <1>1, <2>1
  <2>3. e[1] = x /\ x \in Bytes
    BY <2>2 DEF Encode, Bytes
  <2> QED
    BY <2>1, <2>3, EncodeType
<1> HIDE DEF a, b, e, x
<1>6. input' = (a \o e) \o b
  BY <1>3 DEF InsertAt, a, b, e
<1>7. Width[c] = 1
  <2>1. a \o e \in Seq(Bytes) /\ Len(a \o e) = cursor_pos + Width[c]
        /\ (a \o e)[cursor_pos + 1] = x
    <3>1. cursor_pos + 1 \in 1..(Len(a) + Len(e))
          /\ ~(cursor_pos + 1 <= Len(a)) /\ (cursor_pos + 1) - Len(a) = 1
      BY <1>1, <1>4, <1>5
    <3>2. /\ a \o e \in Seq(Bytes) /\ Len(a \o e) = Len(a) + Len(e)
          /\ \A i \in 1..(Len(a) + Len(e)) :
                (a \o e)[i] = IF i <= Len(a) THEN a[i] ELSE e[i - Len(a)]
      BY <1>4, <1>5, ConcatProperties
    <3>3. (a \o e)[cursor_pos + 1] = e[1]
      BY <3>1, <3>2
    <3> QED
      BY <1>4, <1>5, <3>2, <3>3
  <2>2. /\ input' \in Seq(Bytes) /\ input'[cursor_pos + 1] = x
        /\ cursor_pos + 1 \in DOMAIN input'
    <3>1. Len(b) \in Nat
      BY <1>4
    <3>2. /\ cursor_pos + 1 \in 1..(Len(a \o e) + Len(b))
          /\ cursor_pos + 1 <= Len(a \o e)
      BY <1>1, <2>1, <3>1
    <3>3. /\ input' \in Seq(Bytes) /\ Len(input') = Len(a \o e) + Len(b)
          /\ input'[cursor_pos + 1] = (a \o e)[cursor_pos + 1]
      BY <1>4, <1>6, <2>1, <3>2, ConcatProperties
    <3>4. DOMAIN input' = 1..Len(input')
      BY <3>3, LenProperties
    <3> QED
      BY <2>1, <3>2, <3>3, <3>4
  <2> QED
    BY <1>5, <2>2 DEF Narrow
<1>8. e = <<x>>
  <2>1. /\ <<x>> \in Seq(Bytes) /\ Len(<<x>>) = 1 /\ <<x>>[1] = x
    BY <1>5
  <2>2. Len(e) = Len(<<x>>) /\ \A i \in 1..Len(e) : e[i] = <<x>>[i]
    BY <1>5, <1>7, <2>1
  <2> QED
    BY <1>5, <2>1, <2>2, SeqEqual
<1>9. a \o e = Append(a, x) /\ Len(Append(a, x)) = cursor_pos + 1
      /\ Append(a, x) \in Seq(Bytes)
  BY <1>4, <1>5, <1>8, AppendIsConcat, AppendProperties
<1>10. /\ SubSeq(input', 1, cursor_pos') = Append(a, x)
       /\ SubSeq(input', cursor_pos' + 1, Len(input')) = b
  <2> DEFINE d == Append(a, x)
  <2>1. input' = d \o b /\ d \in Seq(Bytes) /\ Len(d) = cursor_pos'
    BY <1>3, <1>6, <1>9
  <2> HIDE DEF d
  <2>2. /\ SubSeq(d \o b, 1, Len(d)) = d
        /\ SubSeq(d \o b, Len(d) + 1, Len(d \o b)) = b
    BY <1>4, <2>1, Join
  <2>3. /\ SubSeq(input', 1, cursor_pos') = d
        /\ SubSeq(input', cursor_pos' + 1, Len(input')) = b
    BY <2>1, <2>2
  <2> QED
    BY <2>3 DEF d
<1> QED
  BY <1>3, <1>5, <1>10 DEF AsLine!Insert, a, b

\* Taking out the character at an offset leaves what was on its two sides.
LEMMA RemoveActs ==
    ASSUME Inv, WholeLines, ~crashed, NEW pos \in Nat, pos < Len(input),
           Remove(pos), cursor_pos' = pos, Narrow(input)
    PROVE  /\ SubSeq(input', 1, cursor_pos') = SubSeq(input, 1, pos)
           /\ SubSeq(input', cursor_pos' + 1, Len(input'))
                  = SubSeq(input, pos + 2, Len(input))
           /\ ~crashed'
<1>1. /\ input \in Seq(WholeBytes) /\ input \in Seq(Bytes)
      /\ Len(input) \in Nat /\ pos \in 0..Len(input)
      /\ pos + 2 \in Nat /\ pos + 2 >= 1
  BY DEF Inv, TypeOK, WholeLines
<1>2. OnBoundary(input, pos) /\ Width[CharAt(input, pos)] = 1
  BY <1>1, NarrowWhole
<1>3. input' = RemoveAt(input, pos) /\ crashed' = crashed
  BY <1>2 DEF Remove
<1> DEFINE a == SubSeq(input, 1, pos)
           b == SubSeq(input, pos + 2, Len(input))
<1>4. input' = a \o b
  <2>1. pos + 1 + 1 = pos + 2
    OBVIOUS
  <2> QED
    BY <1>2, <1>3, <2>1 DEF RemoveAt
<1>5. a \in Seq(Bytes) /\ b \in Seq(Bytes) /\ Len(a) = pos
  BY <1>1, PieceTypes
<1> HIDE DEF a, b
<1>6. /\ SubSeq(input', 1, pos) = a
      /\ SubSeq(input', pos + 1, Len(input')) = b
  BY <1>4, <1>5, Join
<1> QED
  BY <1>3, <1>6 DEF a, b

\* A line put on the bar has the cursor at its end.
LEMMA ShowActs ==
    ASSUME NEW line \in Seq(Bytes), Show(line),
           line \in Entries \cup {saved_input, <<>>}
    PROVE  AsLine!Recall
<1>1. input' = line /\ cursor_pos' = Len(line)
  BY DEF Show
<1>2. /\ SubSeq(input', 1, cursor_pos') = line
      /\ SubSeq(input', cursor_pos' + 1, Len(input')) = <<>>
  BY <1>1, Ends
<1> QED
  BY <1>2 DEF AsLine!Recall

\* Moving the cursor: what is on its sides afterwards.
LEMMA MoveActs ==
    ASSUME NEW pos, MoveTo(pos)
    PROVE  /\ SubSeq(input', 1, cursor_pos') = SubSeq(input, 1, pos)
           /\ SubSeq(input', cursor_pos' + 1, Len(input'))
                  = SubSeq(input, pos + 1, Len(input))
           /\ crashed' = crashed
BY DEF MoveTo

\* Each key acts on the text at the cursor.
LEMMA KeysAct ==
    ASSUME Inv, WholeLines, Next, Narrow(input), Narrow(input')
    PROVE  AsLine!Next /\ ~crashed'
<1>1. /\ input \in Seq(WholeBytes) /\ input \in Seq(Bytes)
      /\ saved_input \in Seq(Bytes)
      /\ command_history \in Seq(Seq(Bytes))
      /\ Len(input) \in Nat /\ cursor_pos \in 0..Len(input)
      /\ history_index \in 0..Len(command_history)
      /\ Len(command_history) \in Nat
      /\ cursor_pos \in Nat /\ ~crashed /\ <<>> \in Seq(Bytes)
  BY DEF Inv, TypeOK, CursorInLine, WholeLines, Next
<1> DEFINE before == SubSeq(input, 1, cursor_pos)
           after == SubSeq(input, cursor_pos + 1, Len(input))
<1>2. before \o after = input
  BY <1>1, Cut
<1>3. ASSUME NEW c \in Chars, Char(c)
      PROVE  AsLine!Next /\ ~crashed'
  BY <1>1, <1>3, CharActs DEF AsLine!Next
<1>4. ASSUME cursor_pos > 0
      PROVE  /\ cursor_pos - 1 \in Nat /\ cursor_pos - 1 < Len(input)
             /\ (cursor_pos - 1) + 1 = cursor_pos
             /\ (cursor_pos - 1) + 2 = cursor_pos + 1
             /\ input[cursor_pos] \in Bytes
             /\ before = Append(SubSeq(input, 1, cursor_pos - 1),
                                input[cursor_pos])
             /\ SubSeq(input, cursor_pos, Len(input))
                    = <<input[cursor_pos]>> \o after
  <2>1. /\ cursor_pos - 1 \in Nat /\ cursor_pos - 1 < Len(input)
        /\ (cursor_pos - 1) + 1 = cursor_pos
        /\ (cursor_pos - 1) + 2 = cursor_pos + 1
    BY <1>1, <1>4
  <2> QED
    BY <1>1, <2>1, CutHere
<1>5. ASSUME cursor_pos < Len(input)
      PROVE  /\ input[cursor_pos + 1] \in Bytes
             /\ SubSeq(input, 1, cursor_pos + 1)
                    = Append(before, input[cursor_pos + 1])
             /\ after # <<>> /\ Head(after) = input[cursor_pos + 1]
             /\ Tail(after) = SubSeq(input, cursor_pos + 2, Len(input))
  BY <1>1, <1>5, CutHere
<1>6. CASE Backspace
  <2>1. /\ cursor_pos > 0 /\ cursor_pos' = cursor_pos - 1
        /\ Remove(cursor_pos - 1)
    BY <1>6 DEF Backspace
  <2>2. /\ SubSeq(input', 1, cursor_pos')
               = SubSeq(input, 1, cursor_pos - 1)
        /\ SubSeq(input', cursor_pos' + 1, Len(input')) = after
        /\ ~crashed'
    BY <1>1, <1>4, <2>1, RemoveActs
  <2>3. AsLine!Rubout
    BY <1>4, <2>1, <2>2 DEF AsLine!Rubout
  <2> QED
    BY <2>2, <2>3 DEF AsLine!Next
<1>7. CASE Delete
  <2>1. /\ cursor_pos < Len(input) /\ cursor_pos' = cursor_pos
        /\ Remove(cursor_pos)
    BY <1>7 DEF Delete
  <2>2. /\ SubSeq(input', 1, cursor_pos') = before
        /\ SubSeq(input', cursor_pos' + 1, Len(input'))
               = SubSeq(input, cursor_pos + 2, Len(input))
        /\ ~crashed'
    BY <1>1, <2>1, RemoveActs
  <2>3. AsLine!DeleteNext
    BY <1>5, <2>1, <2>2 DEF AsLine!DeleteNext
  <2> QED
    BY <2>2, <2>3 DEF AsLine!Next
<1>8. CASE Left
  <2>1. cursor_pos > 0 /\ MoveTo(cursor_pos - 1)
    BY <1>8 DEF Left
  <2>2. /\ SubSeq(input', 1, cursor_pos')
               = SubSeq(input, 1, cursor_pos - 1)
        /\ SubSeq(input', cursor_pos' + 1, Len(input'))
               = SubSeq(input, cursor_pos, Len(input))
        /\ ~crashed'
    BY <1>1, <1>4, <2>1, MoveActs
  <2>3. AsLine!MoveLeft
    BY <1>4, <2>1, <2>2 DEF AsLine!MoveLeft
  <2> QED
    BY <2>2, <2>3 DEF AsLine!Next
<1>9. CASE Right
  <2>1. cursor_pos < Len(input) /\ MoveTo(cursor_pos + 1)
    BY <1>9 DEF Right
  <2>2. (cursor_pos + 1) + 1 = cursor_pos + 2
    BY <1>1
  <2>3. /\ SubSeq(input', 1, cursor_pos')
               = SubSeq(input, 1, cursor_pos + 1)
        /\ SubSeq(input', cursor_pos' + 1, Len(input'))
               = SubSeq(input, cursor_pos + 2, Len(input))
        /\ ~crashed'
    <3>1. /\ SubSeq(input', 1, cursor_pos')
                 = SubSeq(input, 1, cursor_pos + 1)
          /\ SubSeq(input', cursor_pos' + 1, Len(input'))
                 = SubSeq(input, (cursor_pos + 1) + 1, Len(input))
          /\ crashed' = crashed
      BY <2>1, MoveActs, Zenon
    <3> QED
      BY <1>1, <2>2, <3>1
  <2>4. AsLine!MoveRight
    BY <1>5, <2>1, <2>3 DEF AsLine!MoveRight
  <2> QED
    BY <2>3, <2>4 DEF AsLine!Next
<1>10. CASE Home
  <2>1. MoveTo(0)
    BY <1>10 DEF Home
  <2>2. /\ SubSeq(input', 1, cursor_pos') = <<>>
        /\ SubSeq(input', cursor_pos' + 1, Len(input')) = before \o after
        /\ ~crashed'
    BY <1>1, <1>2, <2>1, MoveActs, Ends
  <2> QED
    BY <2>2 DEF AsLine!Next, AsLine!MoveHome
<1>11. CASE End
  <2>1. MoveTo(Len(input))
    BY <1>11 DEF End
  <2>2. /\ SubSeq(input', 1, cursor_pos')
               = SubSeq(input, 1, Len(input))
        /\ SubSeq(input', cursor_pos' + 1, Len(input'))
               = SubSeq(input, Len(input) + 1, Len(input))
        /\ crashed' = crashed
    BY <2>1, MoveActs, Zenon
  <2>3. /\ SubSeq(input, 1, Len(input)) = input
        /\ SubSeq(input, Len(input) + 1, Len(input)) = <<>>
    BY <1>1, Ends
  <2>4. /\ SubSeq(input', 1, cursor_pos') = before \o after
        /\ SubSeq(input', cursor_pos' + 1, Len(input')) = <<>>
        /\ ~crashed'
    BY <1>1, <1>2, <2>2, <2>3
  <2> QED
    BY <2>4 DEF AsLine!Next, AsLine!MoveEnd
<1>12. ASSUME NEW line \in Entries \cup {saved_input, <<>>}, Show(line),
              crashed' = crashed
       PROVE  AsLine!Next /\ ~crashed'
  <2>1. line \in Seq(Bytes)
    <3>1. \A i \in DOMAIN command_history : command_history[i] \in Seq(Bytes)
      BY <1>1
    <3> QED
      BY <1>1, <1>12, <3>1 DEF Entries
  <2> QED
    BY <1>1, <1>12, <2>1, ShowActs DEF AsLine!Next
<1>13. \A i \in 1..Len(command_history) : command_history[i] \in Entries
  BY <1>1 DEF Entries
<1>14. CASE Escape \/ Enter
  <2>1. Show(<<>>) /\ crashed' = crashed
    BY <1>14 DEF Escape, Enter, Show
  <2> QED
    BY <1>12, <2>1
<1>15. CASE Up
  <2>1. Len(command_history) > 0
    BY <1>1, <1>15, EmptySeq DEF Up
  <2>2. history_index' \in 1..Len(command_history)
    BY <1>1, <1>15, <2>1 DEF Up
  <2>3. Show(command_history[history_index']) /\ crashed' = crashed
    BY <1>15 DEF Up
  <2> QED
    BY <1>12, <1>13, <2>2, <2>3
<1>16. CASE Down
  <2>1. CASE /\ history_index < Len(command_history)
             /\ history_index' = history_index + 1
             /\ Show(command_history[history_index'])
    <3>1. history_index' \in 1..Len(command_history)
      BY <1>1, <2>1
    <3>2. crashed' = crashed
      BY <1>16 DEF Down
    <3> QED
      BY <1>12, <1>13, <2>1, <3>1, <3>2
  <2>2. CASE Show(saved_input)
    <3>1. crashed' = crashed
      BY <1>16 DEF Down
    <3> QED
      BY <1>12, <2>2, <3>1
  <2> QED
    BY <1>16, <2>1, <2>2 DEF Down
<1> QED
  BY <1>3, <1>6, <1>7, <1>8, <1>9, <1>10, <1>11, <1>14, <1>15, <1>16 DEF Next

\* In a line without wide characters the input bar implements module Line:
\* every key acts on the text at the cursor, and none panics.
THEOREM BarIsALine == Spec => ActsAsLine
<1>1. Init => WholeLines
  <2>1. <<>> \in Seq(WholeBytes) /\ <<>> \in Seq(Seq(WholeBytes))
    OBVIOUS
  <2> QED
    BY <2>1 DEF Init, WholeLines
<1>2. Inv /\ WholeLines /\ [Next]_vars =>
        [Narrow(input) /\ Narrow(input') => AsLine!Next /\ ~crashed']_editing
  BY KeysAct DEF vars
<1> QED
  BY <1>1, <1>2, Invariance, StepWhole, PTL DEF Spec, ActsAsLine
=============================================================================
