---------------------------- MODULE ShellProofs -----------------------------
(***************************************************************************)
(* Proofs about the shell for every line length, depth of the history,     *)
(* number and size of arguments and alphabet: the array and its indices    *)
(* stay sound, the ring has no holes, array and ring implement the line    *)
(* editor, and parse_args keeps the text.                                  *)
(***************************************************************************)
EXTENDS Shell, DataLemmas, SequenceTheorems, TLAPS

----------------------------------------------------------------------------
(* Strings.                                                                *)

\* What a string is made of.
LEMMA StringFacts ==
    /\ \A s \in Strings :
          /\ Len(s) \in Cells
          /\ \A i \in Cells : i < Len(s) => s[i + 1] \in Chars
    /\ \A n \in Cells : [1..n -> Chars] \subseteq Strings
    /\ <<>> \in Strings
<1> USE ShellAssumption
<1>1. ASSUME NEW n \in Cells, NEW s \in [1..n -> Chars]
      PROVE  Len(s) = n /\ \A i \in Cells : i < n => s[i + 1] \in Chars
  <2>1. s \in Seq(Chars)
    BY SeqDef DEF Cells
  <2>2. Len(s) = n
    BY <2>1, LenProperties DEF Cells
  <2>3. \A i \in Cells : i < n => i + 1 \in 1..n
    BY DEF Cells
  <2> QED  BY <2>2, <2>3
<1>2. \A n \in Cells : [1..n -> Chars] \subseteq Strings
  BY DEF Strings
<1>3. <<>> \in Strings
  <2>1. 0 \in Cells
    BY DEF Cells
  <2>2. <<>> \in [1..0 -> Chars]
    OBVIOUS
  <2> QED  BY <1>2, <2>1, <2>2
<1> QED  BY <1>1, <1>2, <1>3 DEF Strings

\* strlen finds the terminator at n when there is none before it.
LEMMA StrlenAt ==
    ASSUME NEW buf, NEW n \in Cells,
           buf[n] = Nul, \A i \in 0..(n - 1) : buf[i] # Nul
    PROVE  strlen(buf) = n
<1> DEFINE S == {i \in Cells : buf[i] = Nul}
<1>1. n \in S /\ \A i \in S : n <= i
  BY DEF Cells
<1>2. \A a \in S : (\A b \in S : a <= b) => a = n
  BY <1>1 DEF Cells
<1> HIDE DEF S
<1>3. Least(S) = n
  BY <1>1, <1>2 DEF Least
<1> QED  BY <1>3 DEF strlen, S

\* The word that Ctrl+W kills begins at or before the cursor.
LEMMA WordStartBounds ==
    ASSUME cursor_pos \in Nat, cursor_pos > 0
    PROVE  WordStart \in 0..cursor_pos
<1> DEFINE L == {k \in 0..(cursor_pos - 1) : k = 0 \/ input_buffer[k] # Space}
           letter == Greatest(L)
           A == {k \in 0..letter : k = 0 \/ input_buffer[k] = Space}
           at == Greatest(A)
<1>1. letter \in 0..(cursor_pos - 1)
  <2>1. L \subseteq 0..(cursor_pos - 1) /\ 0 \in L /\ cursor_pos - 1 \in Nat
    OBVIOUS
  <2> HIDE DEF L
  <2>2. letter \in L
    <3>1. \E a \in L : \A b \in L : b <= a
      BY <2>1, GreatestNat
    <3> QED  BY <3>1 DEF Greatest
  <2> QED  BY <2>1, <2>2
<1>2. at \in 0..letter
  <2> HIDE DEF letter
  <2>1. A \subseteq 0..letter /\ 0 \in A /\ letter \in Nat
    BY <1>1
  <2> HIDE DEF A
  <2>2. at \in A
    <3>1. \E a \in A : \A b \in A : b <= a
      BY <2>1, GreatestNat
    <3> QED  BY <3>1 DEF Greatest
  <2> QED  BY <2>1, <2>2
<1>3. WordStart = IF input_buffer[at] = Space THEN at + 1 ELSE at
  BY DEF WordStart
<1> HIDE DEF at, letter
<1> QED  BY <1>1, <1>2, <1>3

----------------------------------------------------------------------------
(* The inductive invariant.  LineSound is inductive only together with the *)
(* types, and the types only with LineSound: the bound on input_index is   *)
(* what keeps the terminator in the array, and the terminator is what      *)
(* makes the command that Enter takes from the array a string of that      *)
(* length.                                                                 *)

LineTypes ==
    /\ input_buffer \in [Cells -> Chars \cup {Nul}]
    /\ input_index \in Cells
    /\ cursor_pos \in Cells

HistoryTypes ==
    /\ history \in [Slots -> Strings]
    /\ history_index \in Slots
    /\ history_current \in Slots

CommandTypes ==
    /\ command_buffer \in Strings
    /\ ran \in {"nothing", "exit", "command"}

LineOK == LineTypes /\ LineSound

ShellInv == LineOK /\ HistoryTypes /\ CommandTypes

\* The neighbours of a slot of the ring are slots.
LEMMA SlotFacts ==
    /\ 0 \in Slots
    /\ \A s \in Slots : Before(s) \in Slots /\ After(s) \in Slots
<1>1. MAX_HISTORY_ENTRIES \in Nat /\ MAX_HISTORY_ENTRIES > 0
  BY ShellAssumption
<1>2. \A x \in Nat : x % MAX_HISTORY_ENTRIES \in 0..(MAX_HISTORY_ENTRIES - 1)
  BY <1>1
<1>3. \A s \in Slots : s - 1 + MAX_HISTORY_ENTRIES \in Nat /\ s + 1 \in Nat
  BY <1>1 DEF Slots
<1> QED  BY <1>1, <1>2, <1>3 DEF Slots, Before, After

\* The cleared shell satisfies the invariant.
LEMMA ShellInvInit == Init => ShellInv
<1> SUFFICES ASSUME Init PROVE ShellInv
  OBVIOUS
<1>1. 0 \in Cells
  BY ShellAssumption DEF Cells
<1>2. LineOK
  BY <1>1 DEF Init, LineOK, LineTypes, LineSound
<1>3. HistoryTypes
  BY StringFacts, SlotFacts DEF Init, HistoryTypes
<1>4. CommandTypes
  BY StringFacts DEF Init, CommandTypes
<1> QED  BY <1>2, <1>3, <1>4 DEF ShellInv

\* A character goes in at the cursor, and what follows makes room for it.
LEMMA InsertOK ==
    ASSUME LineOK, NEW c \in Chars, Insert(c)
    PROVE  LineOK'
<1> USE ShellAssumption
<1>1. CASE ~HasRoom
  BY <1>1 DEF Insert, lineVars, LineOK, LineTypes, LineSound
<1>2. CASE HasRoom
  <2> DEFINE b == ShiftUp(input_buffer, input_index, cursor_pos)
  <2>1. /\ input_index \in Nat /\ cursor_pos \in Nat /\ cursor_pos <= input_index
        /\ input_index + 1 \in Cells /\ input_index \in Cells /\ cursor_pos \in Cells
    BY <1>2 DEF LineOK, LineTypes, LineSound, HasRoom, Cells
  <2>2. b \in [Cells -> Chars \cup {Nul}]
    <3>1. \A i \in Cells : i \in (cursor_pos + 1)..input_index => i - 1 \in Cells
      BY <2>1 DEF Cells
    <3> QED  BY <3>1 DEF LineOK, LineTypes, ShiftUp
  <2>3. \A i \in 0..input_index : i # cursor_pos => b[i] # Nul
    BY <2>1 DEF LineOK, LineSound, ShiftUp, Cells
  <2>4. /\ input_buffer' = [b EXCEPT ![cursor_pos] = c, ![input_index + 1] = Nul]
        /\ cursor_pos' = cursor_pos + 1
        /\ input_index' = input_index + 1
    BY <1>2 DEF Insert
  <2> HIDE DEF b
  <2>5. LineTypes'
    BY <2>1, <2>2, <2>4 DEF LineTypes, Cells
  <2>6. input_buffer'[input_index'] = Nul
    BY <2>1, <2>2, <2>4
  <2>7. \A i \in 0..input_index : input_buffer'[i] # Nul
    <3> SUFFICES ASSUME NEW i \in 0..input_index PROVE input_buffer'[i] # Nul
      OBVIOUS
    <3>1. i \in Cells /\ i # input_index + 1
      BY <2>1 DEF Cells
    <3> QED  BY <2>1, <2>2, <2>3, <2>4, <3>1
  <2>8. cursor_pos' <= input_index' /\ 0..(input_index' - 1) = 0..input_index
    BY <2>1, <2>4
  <2> QED  BY <2>5, <2>6, <2>7, <2>8 DEF LineOK, LineSound
<1> QED  BY <1>1, <1>2

\* n characters at from go, and what follows closes the gap.
LEMMA RemovedOK ==
    ASSUME LineOK, NEW from \in Nat, NEW n \in Nat, from + n <= input_index,
           NEW to \in Nat, from <= to, input_index - n <= to,
           to + n <= input_index + 1,
           to + n \in 0..MAX_INPUT_LENGTH,
           input_buffer' =
              [ShiftDown(input_buffer, from, to, n) EXCEPT ![input_index - n] = Nul],
           input_index' = input_index - n,
           cursor_pos' = from
    PROVE  LineOK'
<1> USE ShellAssumption
<1> DEFINE b == ShiftDown(input_buffer, from, to, n)
<1>1. /\ input_index \in Nat /\ input_index - n \in Cells /\ from \in Cells
      /\ from <= input_index - n /\ input_index \in Cells
  BY DEF LineOK, LineTypes, Cells
<1>2. b \in [Cells -> Chars \cup {Nul}]
  <2>1. \A i \in Cells : i \in from..(to - 1) => i + n \in Cells
    BY DEF Cells
  <2> QED  BY <2>1 DEF LineOK, LineTypes, ShiftDown
<1>3. \A i \in 0..(input_index - n - 1) : b[i] # Nul
  <2> SUFFICES ASSUME NEW i \in 0..(input_index - n - 1) PROVE b[i] # Nul
    OBVIOUS
  <2>1. i \in Cells /\ i \in 0..(input_index - 1) /\ i + n \in 0..(input_index - 1)
    BY <1>1 DEF Cells
  <2>2. input_buffer[i] # Nul /\ input_buffer[i + n] # Nul
    BY <2>1 DEF LineOK, LineSound
  <2> QED  BY <2>1, <2>2 DEF ShiftDown
<1> HIDE DEF b
<1>4. input_buffer' = [b EXCEPT ![input_index - n] = Nul]
  BY DEF b
<1>5. LineTypes'
  BY <1>1, <1>2, <1>4 DEF LineTypes
<1>6. input_buffer'[input_index'] = Nul
  BY <1>1, <1>2, <1>4
<1>7. \A i \in 0..(input_index' - 1) : input_buffer'[i] # Nul
  <2> SUFFICES ASSUME NEW i \in 0..(input_index - n - 1) PROVE input_buffer'[i] # Nul
    OBVIOUS
  <2>1. i \in Cells /\ i # input_index - n
    BY <1>1 DEF Cells
  <2> QED  BY <1>2, <1>3, <1>4, <2>1
<1> QED  BY <1>1, <1>5, <1>6, <1>7 DEF LineOK, LineSound

\* What the kills and Enter leave: the text up to n.
LEMMA CutOK ==
    ASSUME LineOK, NEW n \in Cells, n <= input_index,
           NEW b, b = input_buffer \/ b = [input_buffer EXCEPT ![input_index] = Nul],
           input_buffer' = [b EXCEPT ![n] = Nul],
           input_index' = n,
           cursor_pos' = n
    PROVE  LineOK'
<1> USE ShellAssumption
<1>1. /\ b = input_buffer
      /\ input_buffer \in [Cells -> Chars \cup {Nul}]
  BY DEF LineOK, LineTypes, LineSound
<1>2. LineTypes'
  BY <1>1 DEF LineTypes
<1>3. input_buffer'[n] = Nul
  BY <1>1
<1>4. \A i \in 0..(n - 1) : input_buffer'[i] # Nul
  <2> SUFFICES ASSUME NEW i \in 0..(n - 1) PROVE input_buffer'[i] # Nul
    OBVIOUS
  <2>1. i \in 0..(input_index - 1) /\ i \in Cells /\ i # n
    BY DEF LineOK, LineTypes, Cells
  <2> QED  BY <1>1, <2>1 DEF LineOK, LineSound
<1> QED  BY <1>2, <1>3, <1>4 DEF LineOK, LineSound, Cells

\* A recalled command is the whole text, whatever was in the array.
LEMMA ShowOK ==
    ASSUME LineOK, HistoryTypes, NEW slot \in Slots, Show(slot)
    PROVE  LineOK'
<1> DEFINE s == history[slot]
<1>1. s \in Strings
  BY DEF HistoryTypes
<1>2. Len(s) \in Cells /\ \A i \in Cells : i < Len(s) => s[i + 1] \in Chars
  BY <1>1, StringFacts
<1>3. input_buffer' = strcpy(input_buffer, s) /\ input_index' = Len(s) /\ cursor_pos' = Len(s)
  BY DEF Show
<1> HIDE DEF s
<1>4. LineTypes'
  BY <1>2, <1>3 DEF LineTypes, LineOK, strcpy
<1>5. input_buffer'[Len(s)] = Nul
  BY <1>2, <1>3 DEF strcpy, Cells
<1>6. \A i \in 0..(Len(s) - 1) : input_buffer'[i] # Nul
  BY <1>2, <1>3, ShellAssumption DEF strcpy, Cells
<1> QED  BY <1>2, <1>3, <1>4, <1>5, <1>6 DEF LineOK, LineSound, Cells

\* Enter takes the text as a command.
LEMMA EnteredString ==
    ASSUME LineOK
    PROVE  String([input_buffer EXCEPT ![input_index] = Nul]) \in Strings
<1> USE ShellAssumption
<1>1. [input_buffer EXCEPT ![input_index] = Nul] = input_buffer
  BY DEF LineOK, LineTypes, LineSound
<1>2. strlen(input_buffer) = input_index
  BY StrlenAt DEF LineOK, LineTypes, LineSound
<1>3. \A i \in 1..input_index : input_buffer[i - 1] \in Chars
  <2> SUFFICES ASSUME NEW i \in 1..input_index PROVE input_buffer[i - 1] \in Chars
    OBVIOUS
  <2>1. i - 1 \in Cells /\ i - 1 \in 0..(input_index - 1)
    BY DEF LineOK, LineTypes, Cells
  <2> QED  BY <2>1 DEF LineOK, LineTypes, LineSound
<1>4. String(input_buffer) \in [1..input_index -> Chars]
  BY <1>2, <1>3 DEF String
<1> QED  BY <1>1, <1>4, StringFacts DEF LineOK, LineTypes

\* Every operation, or none, preserves the invariant.
LEMMA ShellInvNext == ShellInv /\ [Next]_vars => ShellInv'
<1> SUFFICES ASSUME ShellInv, [Next]_vars PROVE ShellInv'
  OBVIOUS
<1> USE ShellAssumption
<1> USE DEF ShellInv
<1>1. /\ input_index \in Nat /\ cursor_pos \in Nat /\ cursor_pos <= input_index
      /\ input_index \in Cells /\ cursor_pos \in Cells
      /\ input_index + 1 \in 0..MAX_INPUT_LENGTH
      /\ 0 \in Cells
  BY DEF LineOK, LineTypes, LineSound, Cells
<1>2. ASSUME UNCHANGED historyVars PROVE HistoryTypes'
  BY <1>2 DEF HistoryTypes, historyVars
<1>3. ASSUME UNCHANGED commandVars PROVE CommandTypes'
  BY <1>3 DEF CommandTypes, commandVars
<1>4. ASSUME UNCHANGED lineVars PROVE LineOK'
  BY <1>4 DEF LineOK, LineTypes, LineSound, lineVars
<1>5. ASSUME ClearLine PROVE LineOK'
  <2>1. /\ input_buffer' = [input_buffer EXCEPT ![0] = Nul]
        /\ input_index' = 0 /\ cursor_pos' = 0 /\ 0 <= input_index
    BY <1>1, <1>5 DEF ClearLine
  <2> QED  BY <1>1, <2>1, CutOK
<1>6. ASSUME NEW c \in Chars, Insert(c) PROVE ShellInv'
  <2>1. LineOK'
    BY <1>6, InsertOK
  <2> QED  BY <1>2, <1>3, <1>6, <2>1 DEF Insert
<1>7. CASE shell_backspace
  <2>1. LineOK'
    <3>1. CASE cursor_pos > 0
      <4>1. /\ cursor_pos - 1 \in Nat
            /\ input_buffer' =
                  [ShiftDown(input_buffer, cursor_pos - 1, input_index, 1)
                      EXCEPT ![input_index - 1] = Nul]
            /\ input_index' = input_index - 1
            /\ cursor_pos' = cursor_pos - 1
        BY <1>1, <1>7, <3>1 DEF shell_backspace, Remove
      <4> QED  BY <1>1, <4>1, RemovedOK
    <3>2. CASE ~(cursor_pos > 0)
      BY <1>4, <1>7, <3>2 DEF shell_backspace
    <3> QED  BY <3>1, <3>2
  <2> QED  BY <1>2, <1>3, <1>7, <2>1 DEF shell_backspace
<1>8. CASE shell_delete
  <2>1. LineOK'
    <3>1. CASE cursor_pos < input_index
      <4>1. /\ input_buffer' =
                  [ShiftDown(input_buffer, cursor_pos, input_index, 1)
                      EXCEPT ![input_index - 1] = Nul]
            /\ input_index' = input_index - 1
            /\ cursor_pos' = cursor_pos
        BY <1>8, <3>1 DEF shell_delete, Remove
      <4>2. cursor_pos + 1 <= input_index
        BY <1>1, <3>1
      <4> QED  BY <1>1, <4>1, <4>2, RemovedOK
    <3>2. CASE ~(cursor_pos < input_index)
      BY <1>4, <1>8, <3>2 DEF shell_delete
    <3> QED  BY <3>1, <3>2
  <2> QED  BY <1>2, <1>3, <1>8, <2>1 DEF shell_delete
<1>9. ASSUME NEW to \in 0..input_index, MoveCursor(to) PROVE ShellInv'
  <2>1. LineOK'
    BY <1>1, <1>9 DEF MoveCursor, LineOK, LineTypes, LineSound, Cells
  <2> QED  BY <1>2, <1>3, <1>9, <2>1 DEF MoveCursor
<1>10. CASE shell_move_cursor_left \/ shell_move_cursor_right
            \/ shell_move_cursor_home \/ shell_move_cursor_end
  <2>1. /\ (IF cursor_pos > 0 THEN cursor_pos - 1 ELSE 0) \in 0..input_index
        /\ (IF cursor_pos < input_index THEN cursor_pos + 1 ELSE cursor_pos) \in 0..input_index
        /\ 0 \in 0..input_index /\ input_index \in 0..input_index
    BY <1>1
  <2> QED  BY <1>9, <1>10, <2>1 DEF shell_move_cursor_left, shell_move_cursor_right,
                shell_move_cursor_home, shell_move_cursor_end
<1>11. CASE shell_clear_input
  BY <1>2, <1>3, <1>5, <1>11 DEF shell_clear_input
<1>12. CASE KillToEnd
  <2>1. LineOK'
    BY <1>1, <1>12, CutOK DEF KillToEnd
  <2> QED  BY <1>2, <1>3, <1>12, <2>1 DEF KillToEnd
<1>13. CASE KillWord
  <2>1. LineOK'
    <3>1. CASE cursor_pos > 0
      <4> DEFINE w == WordStart
                 n == cursor_pos - w
      <4>1. w \in 0..cursor_pos
        BY <1>1, <3>1, WordStartBounds
      <4>2. /\ input_buffer' =
                  [ShiftDown(input_buffer, w, input_index - n, n)
                      EXCEPT ![input_index - n] = Nul]
            /\ input_index' = input_index - n
            /\ cursor_pos' = w
        BY <1>13, <3>1 DEF KillWord
      <4> HIDE DEF w
      <4>3. /\ w \in Nat /\ n \in Nat /\ w + n <= input_index
            /\ input_index - n \in Nat /\ w <= input_index - n
            /\ (input_index - n) + n = input_index
        BY <1>1, <4>1
      <4> HIDE DEF n
      <4>4. input_index <= input_index + 1 /\ input_index \in 0..MAX_INPUT_LENGTH
        BY <1>1
      <4> QED  BY <1>1, <4>2, <4>3, <4>4, RemovedOK
    <3>2. CASE ~(cursor_pos > 0)
      BY <1>4, <1>13, <3>2 DEF KillWord
    <3> QED  BY <3>1, <3>2
  <2> QED  BY <1>2, <1>3, <1>13, <2>1 DEF KillWord
<1>14. CASE shell_history_up
  <2>1. history_current \in Slots /\ Before(history_current) \in Slots
    BY SlotFacts DEF HistoryTypes
  <2>2. LineOK'
    BY <1>4, <1>14, <2>1, ShowOK DEF shell_history_up
  <2>3. history_current' \in Slots
    BY <1>14, <2>1 DEF shell_history_up, Show
  <2> QED  BY <1>3, <1>14, <2>2, <2>3 DEF shell_history_up, HistoryTypes
<1>15. CASE shell_history_down
  <2>1. history_current \in Slots /\ After(history_current) \in Slots
        /\ history_index \in Slots
    BY SlotFacts DEF HistoryTypes
  <2>2. LineOK'
    BY <1>5, <1>15, <2>1, ShowOK DEF shell_history_down
  <2>3. history_current' \in Slots
    BY <1>15, <2>1 DEF shell_history_down, Show
  <2> QED  BY <1>3, <1>15, <2>2, <2>3 DEF shell_history_down, HistoryTypes
<1>16. CASE Enter
  <2> DEFINE line == String([input_buffer EXCEPT ![input_index] = Nul])
  <2>1. line \in Strings
    BY EnteredString
  <2>2. /\ shell_add_to_history(line)
        /\ parse_command(line)
        /\ input_index' = 0 /\ cursor_pos' = 0
        /\ input_buffer' = [input_buffer EXCEPT ![input_index] = Nul, ![0] = Nul]
    BY <1>16 DEF Enter
  <2> HIDE DEF line
  <2>3. LineOK'
    <3> DEFINE b == [input_buffer EXCEPT ![input_index] = Nul]
    <3>1. input_buffer' = [b EXCEPT ![0] = Nul] /\ 0 <= input_index
      BY <1>1, <2>2
    <3>2. b = [input_buffer EXCEPT ![input_index] = Nul]
      OBVIOUS
    <3> HIDE DEF b
    <3> QED  BY <1>1, <2>2, <3>1, <3>2, CutOK
  <2>4. HistoryTypes'
    BY <2>1, <2>2, SlotFacts DEF shell_add_to_history, shell_add_to_history_blank,
        historyVars, HistoryTypes
  <2>5. CommandTypes'
    BY <2>1, <2>2, StringFacts DEF parse_command, CommandTypes
  <2> QED  BY <2>3, <2>4, <2>5
<1>17. CASE UNCHANGED vars
  BY <1>2, <1>3, <1>4, <1>17 DEF vars
<1> QED  BY <1>6, <1>7, <1>8, <1>10, <1>11, <1>12, <1>13, <1>14, <1>15, <1>16, <1>17
         DEF Next

----------------------------------------------------------------------------
(* The theorems.                                                           *)

\* The array, its indices, the history and the command keep their types, and
\* the line is well formed, after every sequence of operations.
THEOREM ShellInvariant == Spec => []ShellInv
BY ShellInvInit, ShellInvNext, PTL DEF Spec

\* No index ever leaves input_buffer or history, and no character is stored
\* outside them.
THEOREM ShellTypes == Spec => []TypeOK
<1>1. ShellInv => TypeOK
  BY DEF ShellInv, LineOK, LineTypes, HistoryTypes, CommandTypes, TypeOK
<1> QED  BY <1>1, ShellInvariant, PTL

\* The text is terminated exactly at input_index and the cursor is in it.
THEOREM ShellLineSound == Spec => []LineSound
<1>1. ShellInv => LineSound
  BY DEF ShellInv, LineOK
<1> QED  BY <1>1, ShellInvariant, PTL

----------------------------------------------------------------------------
(* The ring of past commands.                                              *)

\* The slot that was written k commands ago.
Back(k) == (history_index - k + MAX_HISTORY_ENTRIES) % MAX_HISTORY_ENTRIES

\* n commands are remembered, in the n slots before the next one.
Remembers(n) == \A k \in 1..MAX_HISTORY_ENTRIES : history[Back(k)] = <<>> <=> k > n

RingInv == \E n \in 0..MAX_HISTORY_ENTRIES : Remembers(n)

\* One turn around the ring.
LEMMA ModOnce ==
    ASSUME NEW m \in Nat, m > 0, NEW x \in Nat, x < 2 * m
    PROVE  x % m = IF x < m THEN x ELSE x - m
<1> DEFINE q == x \div m
           r == x % m
<1>1. q \in Int /\ r \in 0..(m - 1) /\ x = m * q + r
  OBVIOUS
<1> HIDE DEF q, r
<1>2. ASSUME q >= 2 PROVE FALSE
  <2>1. m * q >= m * 2
    BY <1>1, <1>2
  <2> QED  BY <1>1, <2>1
<1>3. ASSUME q <= -1 PROVE FALSE
  <2>1. m * q <= m * (-1)
    BY <1>1, <1>3
  <2> QED  BY <1>1, <2>1
<1>4. q = 0 \/ q = 1
  BY <1>1, <1>2, <1>3
<1>5. x = r \/ x = m + r
  BY <1>1, <1>4
<1> QED  BY <1>1, <1>5 DEF r

LEMMA BackIs ==
    ASSUME history_index \in Slots, NEW k \in 1..MAX_HISTORY_ENTRIES
    PROVE  /\ Back(k) = IF k <= history_index THEN history_index - k
                        ELSE history_index - k + MAX_HISTORY_ENTRIES
           /\ Back(k) \in Slots
<1> DEFINE m == MAX_HISTORY_ENTRIES
           x == history_index - k + m
<1>1. m \in Nat /\ m > 0 /\ x \in Nat /\ x < 2 * m
  BY ShellAssumption DEF Slots
<1>2. x % m = IF x < m THEN x ELSE x - m
  BY <1>1, ModOnce
<1> QED  BY <1>1, <1>2 DEF Back, Slots

\* Every slot was written at some time or will be.
LEMMA EverySlot ==
    ASSUME history_index \in Slots, NEW slot \in Slots
    PROVE  \E k \in 1..MAX_HISTORY_ENTRIES : slot = Back(k)
<1> DEFINE k == IF slot < history_index THEN history_index - slot
                ELSE history_index - slot + MAX_HISTORY_ENTRIES
<1>1. k \in 1..MAX_HISTORY_ENTRIES
  BY ShellAssumption DEF Slots
<1>2. slot = Back(k)
  BY <1>1, BackIs, ShellAssumption DEF Slots
<1> QED  BY <1>1, <1>2

\* cmd_history prints the remembered commands, the oldest first.
LEMMA HistoryIs ==
    ASSUME HistoryTypes, NEW n \in 0..MAX_HISTORY_ENTRIES, Remembers(n)
    PROVE  cmd_history = [j \in 1..n |-> history[Back(n - j + 1)]]
<1> DEFINE M == MAX_HISTORY_ENTRIES
           Item(i) == history[(history_index + i - 1) % M]
           Step(s, i) == IF Item(i) = <<>> THEN s ELSE Append(s, Item(i))
           Kept(l) == [j \in 1..l |-> history[Back(n - j + 1)]]
           F == [i \in 0..M |-> Kept(IF i <= M - n THEN 0 ELSE i - (M - n))]
           IsLoop(g) == g = [i \in 0..M |-> IF i = 0 THEN <<>> ELSE Step(g[i - 1], i)]
           g == CHOOSE f : IsLoop(f)
<1>1. M \in Nat /\ M > 0 /\ n \in Nat /\ n <= M /\ history_index \in Slots
  BY ShellAssumption DEF HistoryTypes
<1>2. \A i \in 1..M : /\ Item(i) = history[Back(M - i + 1)]
                      /\ Item(i) = <<>> <=> i <= M - n
  <2> TAKE i \in 1..M
  <2>1. M - i + 1 \in 1..M /\ history_index - (M - i + 1) + M = history_index + i - 1
    BY <1>1 DEF Slots
  <2>2. (history_index + i - 1) % M = Back(M - i + 1)
    BY <2>1 DEF Back
  <2> QED  BY <1>1, <2>1, <2>2 DEF Remembers
<1>3. cmd_history = g[M]
  BY DEF cmd_history
<1>4. Kept(0) = <<>>
  OBVIOUS
<1>5. \A l \in Nat : Append(Kept(l), history[Back(n - l)]) = Kept(l + 1)
  <2> TAKE l \in Nat
  <2> DEFINE s == Kept(l)
             t == Kept(l + 1)
             x == history[Back(n - l)]
  <2>1. IsSeq(s, l)
    BY DEF IsSeq
  <2>2. IsSeq(t, l + 1)
    BY DEF IsSeq
  <2>3. /\ \A j \in 1..l : t[j] = s[j]
        /\ t[l + 1] = x
    <3>1. n - (l + 1) + 1 = n - l
      BY <1>1
    <3> QED  BY <3>1
  <2> HIDE DEF s, t, x
  <2>4. /\ IsSeq(Append(s, x), l + 1)
        /\ \A j \in 1..l : Append(s, x)[j] = s[j]
        /\ Append(s, x)[l + 1] = x
    BY <2>1, AppendSeq DEF IsSeq
  <2>5. ASSUME NEW j \in 1..(l + 1) PROVE Append(s, x)[j] = t[j]
    <3>1. j \in 1..l \/ j = l + 1
      OBVIOUS
    <3> QED  BY <2>3, <2>4, <3>1
  <2>6. Append(s, x) = t
    BY <2>2, <2>4, <2>5, SeqsAreEqual DEF IsSeq
  <2> QED  BY <2>6 DEF s, t, x
<1>6. /\ F[0] = <<>>
      /\ \A i \in 1..M : F[i] = Step(F[i - 1], i)
      /\ F[M] = Kept(n)
  <2> HIDE DEF Kept, Item
  <2>1. F[0] = <<>>
    BY <1>1, <1>4
  <2>2. ASSUME NEW i \in 1..M PROVE F[i] = Step(F[i - 1], i)
    <3>1. CASE i <= M - n
      <4>1. Item(i) = <<>> /\ F[i] = Kept(0) /\ F[i - 1] = Kept(0)
        BY <1>1, <1>2, <3>1
      <4> QED  BY <4>1
    <3>2. CASE i > M - n
      <4> DEFINE l == i - (M - n) - 1
      <4>1. /\ l \in Nat /\ l + 1 = i - (M - n) /\ n - l = M - i + 1
            /\ l = 0 <=> i - 1 <= M - n
            /\ l # 0 => l = (i - 1) - (M - n)
        BY <1>1, <3>2
      <4>2. Item(i) # <<>> /\ Item(i) = history[Back(n - l)]
        BY <1>1, <1>2, <3>2, <4>1
      <4>3. F[i] = Kept(l + 1) /\ F[i - 1] = Kept(l)
        BY <1>1, <3>2, <4>1
      <4> HIDE DEF F, l
      <4> QED  BY <1>5, <4>1, <4>2, <4>3
    <3> QED  BY <1>1, <3>1, <3>2
  <2>3. F[M] = Kept(n)
    <3>1. CASE n = 0
      BY <1>1, <3>1
    <3>2. CASE n # 0
      BY <1>1, <3>2
    <3> QED  BY <3>1, <3>2
  <2> QED  BY <2>1, <2>2, <2>3
<1>7. IsLoop(F)
  <2> HIDE DEF Kept, Step
  <2>1. F = [i \in 0..M |-> F[i]]
    OBVIOUS
  <2> HIDE DEF F
  <2>2. \A i \in 0..M : F[i] = IF i = 0 THEN <<>> ELSE Step(F[i - 1], i)
    BY <1>1, <1>6
  <2> QED  BY <2>1, <2>2
<1>8. IsLoop(g)
  <2> HIDE DEF IsLoop, F
  <2> QED  BY <1>7
<1>9. g[M] = F[M]
  <2> DEFINE S == {i \in Nat : i <= M => g[i] = F[i]}
  <2> HIDE DEF g, F, Step
  <2>1. 0 \in S
    BY <1>1, <1>6, <1>8
  <2>2. ASSUME NEW i \in Nat, i \in S PROVE i + 1 \in S
    <3> SUFFICES ASSUME i + 1 <= M PROVE g[i + 1] = F[i + 1]
      OBVIOUS
    <3>1. i + 1 \in 1..M /\ i + 1 \in 0..M /\ i + 1 # 0 /\ (i + 1) - 1 = i /\ i <= M
      BY <1>1
    <3>2. g[i + 1] = Step(g[i], i + 1)
      BY <1>8, <3>1
    <3>3. F[i + 1] = Step(F[i], i + 1)
      BY <1>6, <3>1
    <3> QED  BY <2>2, <3>1, <3>2, <3>3
  <2>3. \A i \in Nat : i \in S
    <3> HIDE DEF S
    <3> QED  BY <2>1, <2>2, InductionNat
  <2> QED  BY <1>1, <2>3
<1> QED  BY <1>3, <1>6, <1>9

\* A new command takes the slot of the oldest when all are in use.
LEMMA RingPush ==
    ASSUME HistoryTypes, NEW n \in 0..MAX_HISTORY_ENTRIES, Remembers(n),
           NEW line, line # <<>>,
           history' = [history EXCEPT ![history_index] = line],
           history_index' = After(history_index)
    PROVE  /\ Remembers(IF n < MAX_HISTORY_ENTRIES THEN n + 1 ELSE n)'
           /\ history'[Back(1)'] = line
           /\ \A k \in 1..(MAX_HISTORY_ENTRIES - 1) : history'[Back(k + 1)'] = history[Back(k)]
<1> DEFINE M == MAX_HISTORY_ENTRIES
<1>1. M \in Nat /\ M > 0 /\ n \in Nat /\ n <= M /\ history_index \in Slots
  BY ShellAssumption DEF HistoryTypes
<1>2. history_index' = IF history_index = M - 1 THEN 0 ELSE history_index + 1
  <2>1. (history_index + 1) % M = IF history_index + 1 < M THEN history_index + 1
                                  ELSE history_index + 1 - M
    BY <1>1, ModOnce DEF Slots
  <2> QED  BY <1>1, <2>1 DEF After, Slots
<1>3. ASSUME NEW k \in 0..(M - 1)
      PROVE  Back(k + 1)' = IF k = 0 THEN history_index ELSE Back(k)
  <2> DEFINE x == history_index' - (k + 1) + M
  <2>1. x \in Nat /\ x < 2 * M
    BY <1>1, <1>2 DEF Slots
  <2>2. x % M = IF x < M THEN x ELSE x - M
    BY <1>1, <2>1, ModOnce
  <2>3. Back(k + 1)' = IF x < M THEN x ELSE x - M
    BY <2>2 DEF Back
  <2>4. k # 0 => Back(k) = IF k <= history_index THEN history_index - k
                           ELSE history_index - k + M
    BY <1>1, BackIs
  <2> QED  BY <1>1, <1>2, <2>3, <2>4 DEF Slots
<1>4. ASSUME NEW k \in 1..(M - 1) PROVE Back(k) \in Slots /\ Back(k) # history_index
  BY <1>1, BackIs DEF Slots
<1>5. history'[Back(1)'] = line
  <2>1. Back(1)' = history_index
    BY <1>1, <1>3
  <2> QED  BY <1>1, <2>1 DEF HistoryTypes
<1>6. ASSUME NEW k \in 1..(M - 1) PROVE history'[Back(k + 1)'] = history[Back(k)]
  <2>1. Back(k + 1)' = Back(k)
    BY <1>1, <1>3
  <2> QED  BY <1>4, <2>1 DEF HistoryTypes
<1>7. ASSUME NEW k \in 1..M
      PROVE  history'[Back(k)'] = <<>> <=> k > (IF n < M THEN n + 1 ELSE n)
  <2>1. CASE k = 1
    BY <1>1, <1>5, <2>1
  <2>2. CASE k # 1
    <3>1. k - 1 \in 1..(M - 1) /\ k - 1 \in 1..M /\ (k - 1) + 1 = k
      BY <1>1, <2>2
    <3>2. history'[Back(k)'] = history[Back(k - 1)]
      BY <1>6, <3>1
    <3>3. history[Back(k - 1)] = <<>> <=> k - 1 > n
      BY <3>1 DEF Remembers
    <3> QED  BY <1>1, <3>2, <3>3
  <2> QED  BY <2>1, <2>2
<1> QED  BY <1>5, <1>6, <1>7 DEF Remembers

\* The command that Enter remembers or repeats is the text in the array.
LEMMA EnteredIs ==
    ASSUME LineOK
    PROVE  String([input_buffer EXCEPT ![input_index] = Nul])
               = [i \in 1..input_index |-> input_buffer[i - 1]]
<1>1. [input_buffer EXCEPT ![input_index] = Nul] = input_buffer
  BY DEF LineOK, LineTypes, LineSound
<1>2. strlen(input_buffer) = input_index
  BY StrlenAt DEF LineOK, LineTypes, LineSound
<1> QED  BY <1>1, <1>2 DEF String

\* Only Enter writes to the ring.
LEMMA RingStays ==
    ASSUME [Next]_vars, ~Enter
    PROVE  UNCHANGED <<history, history_index>>
BY DEF Next, Insert, shell_backspace, shell_delete, shell_move_cursor_left,
       shell_move_cursor_right, shell_move_cursor_home, shell_move_cursor_end, MoveCursor,
       shell_clear_input, KillToEnd, KillWord, shell_history_up, shell_history_down,
       vars, historyVars

LEMMA RingInvInit == Init => RingInv
<1> SUFFICES ASSUME Init PROVE Remembers(0)
  BY ShellAssumption DEF RingInv
<1>1. history_index \in Slots
  BY SlotFacts DEF Init
<1> QED  BY <1>1, BackIs DEF Init, Remembers

LEMMA RingInvNext == ShellInv /\ RingInv /\ [Next]_vars => RingInv'
<1> SUFFICES ASSUME ShellInv, RingInv, [Next]_vars PROVE RingInv'
  OBVIOUS
<1>1. PICK n \in 0..MAX_HISTORY_ENTRIES : Remembers(n)
  BY DEF RingInv
<1>2. CASE UNCHANGED <<history, history_index>>
  BY <1>1, <1>2 DEF RingInv, Remembers, Back
<1>3. CASE Enter
  <2> DEFINE line == String([input_buffer EXCEPT ![input_index] = Nul])
  <2>1. shell_add_to_history(line)
    BY <1>3 DEF Enter
  <2> HIDE DEF line
  <2>2. CASE line = <<>> \/ IsRepeat(line)
    <3>1. UNCHANGED <<history, history_index>>
      BY <2>1, <2>2 DEF shell_add_to_history, shell_add_to_history_blank, historyVars
    <3> QED  BY <1>2, <3>1
  <2>3. CASE line # <<>> /\ ~IsRepeat(line)
    <3>1. /\ history' = [history EXCEPT ![history_index] = line]
          /\ history_index' = After(history_index)
      BY <2>1, <2>3 DEF shell_add_to_history, shell_add_to_history_blank
    <3>2. Remembers(IF n < MAX_HISTORY_ENTRIES THEN n + 1 ELSE n)'
      BY <1>1, <2>3, <3>1, RingPush DEF ShellInv
    <3>3. (IF n < MAX_HISTORY_ENTRIES THEN n + 1 ELSE n) \in 0..MAX_HISTORY_ENTRIES
      BY ShellAssumption
    <3> QED  BY <3>2, <3>3 DEF RingInv
  <2> QED  BY <2>2, <2>3
<1> QED  BY <1>2, <1>3, RingStays

\* The whole inductive invariant of the shell.
THEOREM ShellRing == Spec => [](ShellInv /\ RingInv)
<1>1. Init => ShellInv /\ RingInv
  BY ShellInvInit, RingInvInit
<1>2. (ShellInv /\ RingInv) /\ [Next]_vars => (ShellInv /\ RingInv)'
  BY ShellInvNext, RingInvNext
<1> QED  BY <1>1, <1>2, PTL DEF Spec

\* From history_index backwards come the remembered commands, newest first, and
\* then only empty slots: shell_history_up never stops before the oldest.
THEOREM ShellNoHoles == Spec => []NoHoles
<1>1. ShellInv /\ RingInv => NoHoles
  <2> SUFFICES ASSUME ShellInv, RingInv PROVE NoHoles
    OBVIOUS
  <2>1. PICK n \in 0..MAX_HISTORY_ENTRIES : Remembers(n)
    BY DEF RingInv
  <2>2. n \in Nat /\ MAX_HISTORY_ENTRIES \in Nat
    BY ShellAssumption
  <2>3. cmd_history = [j \in 1..n |-> history[Back(n - j + 1)]]
    BY <2>1, HistoryIs DEF ShellInv
  <2> DEFINE c == cmd_history
  <2> HIDE DEF c
  <2>4. Len(c) = n /\ \A j \in 1..n : c[j] = history[Back(n - j + 1)]
    <3>1. c = [j \in 1..n |-> history[Back(n - j + 1)]]
      BY <2>3 DEF c
    <3>2. IsSeq(c, n)
      BY <2>2, <3>1 DEF IsSeq
    <3> QED  BY <3>1, <3>2, SeqIs DEF IsSeq
  <2>5. ASSUME NEW k \in 1..MAX_HISTORY_ENTRIES
        PROVE  history[Back(k)] = IF k <= Len(c) THEN c[Len(c) - k + 1] ELSE <<>>
    <3>1. CASE k <= n
      <4>1. n - k + 1 \in 1..n /\ n - (n - k + 1) + 1 = k
        BY <2>2, <3>1
      <4> QED  BY <2>4, <3>1, <4>1
    <3>2. CASE ~(k <= n)
      BY <2>1, <2>2, <2>4, <3>2 DEF Remembers
    <3> QED  BY <3>1, <3>2
  <2> QED  BY <2>5 DEF NoHoles, Back, c
<1> QED  BY <1>1, ShellRing, PTL

----------------------------------------------------------------------------
(* Shell implements LineEditor: with Part(0, cursor_pos) for the text      *)
(* before the cursor, Part(cursor_pos, ...) for the text after it and what *)
(* cmd_history prints for the log, every call is a step of the editor, or  *)
(* none.                                                                   *)

Left == Part(0, cursor_pos)
Right == Part(cursor_pos, input_index - cursor_pos)
EditorVars == <<Left, Right, cmd_history>>

\* Both parts are texts of the array.
LEMMA PartsAre ==
    /\ Left = Text(input_buffer, 0, cursor_pos)
    /\ Right = Text(input_buffer, cursor_pos, input_index - cursor_pos)
BY DEF Left, Right, Part, Text

LEMMA PartsWillBe ==
    /\ Left' = Text(input_buffer', 0, cursor_pos')
    /\ Right' = Text(input_buffer', cursor_pos', input_index' - cursor_pos')
BY DEF Left, Right, Part, Text

\* The three numbers that cut the line into its parts.
LEMMA Bounds ==
    ASSUME LineOK
    PROVE  /\ cursor_pos \in Nat /\ input_index \in Nat
           /\ input_index - cursor_pos \in Nat
           /\ cursor_pos <= input_index /\ input_index < MAX_INPUT_LENGTH
           /\ MAX_INPUT_LENGTH \in Nat
           /\ input_buffer \in [Cells -> Chars \cup {Nul}]
BY ShellAssumption DEF LineOK, LineTypes, LineSound, Cells

LEMMA Lengths ==
    ASSUME LineOK
    PROVE  /\ Len(Left) = cursor_pos /\ Len(Right) = input_index - cursor_pos
           /\ Left = <<>> <=> cursor_pos = 0
           /\ Right = <<>> <=> input_index - cursor_pos = 0
<1>1. cursor_pos \in Nat /\ input_index - cursor_pos \in Nat /\ 0 \in Nat
  BY Bounds
<1> QED  BY <1>1, PartsAre, TextIs

LEMMA LogStays ==
    ASSUME UNCHANGED <<history, history_index>>
    PROVE  UNCHANGED cmd_history
BY DEF cmd_history

\* Insert puts the character at the end of the text before the cursor.
LEMMA InsertImplements ==
    ASSUME LineOK, NEW c \in Chars, Insert(c)
    PROVE  Editor!Insert(c) \/ UNCHANGED EditorVars
<1>1. UNCHANGED cmd_history
  BY LogStays DEF Insert, historyVars
<1>2. CASE ~HasRoom
  BY <1>1, <1>2 DEF Insert, lineVars, EditorVars, Left, Right, Part
<1>3. CASE HasRoom
  <2>0. PICK b, b2 : b = input_buffer /\ b2 = input_buffer'
    OBVIOUS
  <2>1. PICK n \in Nat, p \in Nat : n = input_index /\ p = cursor_pos
    BY Bounds
  <2>2. /\ p <= n /\ n + 1 < MAX_INPUT_LENGTH
        /\ MAX_INPUT_LENGTH \in Nat
        /\ b \in [Cells -> Chars \cup {Nul}]
    BY <1>3, <2>0, <2>1, Bounds DEF HasRoom
  <2>3. /\ b2 = [ShiftUp(b, n, p) EXCEPT ![p] = c, ![n + 1] = Nul]
        /\ cursor_pos' = p + 1 /\ input_index' = n + 1
    BY <1>3, <2>0, <2>1 DEF Insert
  <2>4. ASSUME NEW i \in 0..(p - 1) PROVE b2[i] = b[i]
    <3>1. i \in Cells /\ i # p /\ i # n + 1 /\ i \notin (p + 1)..n
      BY <2>2 DEF Cells
    <3> QED  BY <2>2, <2>3, <3>1 DEF ShiftUp
  <2>5. b2[p] = c
    <3>1. p \in Cells /\ p # n + 1
      BY <2>2 DEF Cells
    <3> QED  BY <2>2, <2>3, <3>1 DEF ShiftUp
  <2>6. ASSUME NEW i \in 0..(n - p - 1) PROVE b2[p + 1 + i] = b[p + i]
    <3>1. p + 1 + i \in Cells /\ p + 1 + i # p /\ p + 1 + i # n + 1
          /\ p + 1 + i \in (p + 1)..n /\ (p + 1 + i) - 1 = p + i
      BY <2>2 DEF Cells
    <3> QED  BY <2>2, <2>3, <3>1 DEF ShiftUp
  <2>7. /\ Text(b2, 0, p + 1) = Append(Text(b, 0, p), c)
        /\ Text(b2, p + 1, n - p) = Text(b, p, n - p)
    <3>1. 0 \in Nat /\ 0 + p = p
      OBVIOUS
    <3>2. Text(b2, 0, p) = Text(b, 0, p)
      BY <2>4 DEF Text
    <3>3. Append(Text(b2, 0, p), b2[0 + p]) = Text(b2, 0, p + 1)
      BY <3>1, TextAppend
    <3>4. Text(b2, 0, p + 1) = Append(Text(b, 0, p), c)
      BY <2>5, <3>1, <3>2, <3>3, Zenon
    <3>5. PICK q \in Nat, m \in Nat : q = p + 1 /\ m = n - p
      BY <2>2
    <3>6. \A i \in 0..(m - 1) : b2[q + i] = b[p + i]
      BY <2>6, <3>5
    <3>7. Text(b2, q, m) = Text(b, p, m)
      BY <3>6 DEF Text
    <3>8. Text(b2, p + 1, n - p) = Text(b, p, n - p)
      BY <3>5, <3>7, Zenon
    <3> QED  BY <3>4, <3>8
  <2>8. (n + 1) - (p + 1) = n - p
    OBVIOUS
  <2>9. Left' = Append(Left, c) /\ Right' = Right
    BY <2>0, <2>1, <2>3, <2>7, <2>8, PartsAre, PartsWillBe
  <2>10. Len(Left) + Len(Right) < MAX_INPUT_LENGTH - 1
    <3>1. Len(Left) = p /\ Len(Right) = n - p
      BY <2>1, Lengths
    <3> QED  BY <2>2, <3>1
  <2> QED  BY <1>1, <2>9, <2>10 DEF Editor!Insert, Left, Right
<1> QED  BY <1>2, <1>3

\* Taking k characters out of the line at from takes them out of the text.
LEMMA RemovedText ==
    ASSUME LineOK, NEW from \in Nat, NEW k \in Nat, from + k <= input_index,
           NEW to \in Nat, input_index - k <= to,
           input_buffer' =
              [ShiftDown(input_buffer, from, to, k) EXCEPT ![input_index - k] = Nul]
    PROVE  /\ Text(input_buffer', 0, from) = Text(input_buffer, 0, from)
           /\ Text(input_buffer', from, input_index - k - from)
                  = Text(input_buffer, from + k, input_index - k - from)
<1>0. PICK b, b2 : b = input_buffer /\ b2 = input_buffer'
  OBVIOUS
<1>1. PICK n \in Nat : n = input_index
  BY Bounds
<1>2. /\ n < MAX_INPUT_LENGTH /\ MAX_INPUT_LENGTH \in Nat
      /\ b \in [Cells -> Chars \cup {Nul}]
  BY <1>0, <1>1, Bounds
<1>3. /\ b2 = [ShiftDown(b, from, to, k) EXCEPT ![n - k] = Nul]
      /\ from + k <= n /\ n - k <= to
  BY <1>0, <1>1
<1>4. ASSUME NEW i \in 0..(from - 1) PROVE b2[i] = b[i]
  <2>1. i \in Cells /\ i # n - k /\ i \notin from..(to - 1)
    BY <1>2, <1>3 DEF Cells
  <2> QED  BY <1>2, <1>3, <2>1 DEF ShiftDown
<1>5. ASSUME NEW i \in 0..(n - k - from - 1) PROVE b2[from + i] = b[from + k + i]
  <2>1. from + i \in Cells /\ from + i # n - k /\ from + i \in from..(to - 1)
        /\ (from + i) + k = from + k + i
    BY <1>2, <1>3 DEF Cells
  <2> QED  BY <1>2, <1>3, <2>1 DEF ShiftDown
<1>6. Text(b2, 0, from) = Text(b, 0, from)
  BY <1>4 DEF Text
<1>7. PICK q \in Nat, m \in Nat : q = from + k /\ m = n - k - from
  BY <1>2, <1>3
<1>8. \A i \in 0..(m - 1) : b2[from + i] = b[q + i]
  BY <1>5, <1>7
<1>9. Text(b2, from, m) = Text(b, q, m)
  BY <1>8 DEF Text
<1>10. Text(b2, from, n - k - from) = Text(b, from + k, n - k - from)
  BY <1>7, <1>9, Zenon
<1> QED  BY <1>0, <1>1, <1>6, <1>10

\* What stays of a text when characters go at its end.
LEMMA Prefix ==
    ASSUME NEW b, NEW n \in Nat, NEW k \in 0..n
    PROVE  SubSeq(Text(b, 0, n), 1, k) = Text(b, 0, k)
<1>1. 0 \in Nat /\ 0 \in 0..n /\ k \in 0..n /\ 0 + 1 = 1 /\ 0 + 0 = 0 /\ k - 0 = k
  OBVIOUS
<1>2. SubSeq(Text(b, 0, n), 0 + 1, k) = Text(b, 0 + 0, k - 0)
  BY <1>1, TextPiece
<1> QED  BY <1>1, <1>2, Zenon

\* The text before the cursor without its last character, and that character.
LEMMA LeftFront ==
    ASSUME LineOK, cursor_pos > 0
    PROVE  /\ Editor!Front(Left) = Text(input_buffer, 0, cursor_pos - 1)
           /\ Editor!Last(Left) = input_buffer[cursor_pos - 1]
           /\ Left # <<>>
<1>1. PICK p \in Nat : p = cursor_pos /\ p > 0
  BY Bounds
<1>2. PICK b : b = input_buffer
  OBVIOUS
<1>3. Left = Text(b, 0, p) /\ Len(Left) = p /\ Left # <<>>
  BY <1>1, <1>2, PartsAre, Lengths
<1>4. p - 1 \in 0..p /\ p \in 1..p /\ 0 + p - 1 = p - 1
  BY <1>1
<1>5. SubSeq(Text(b, 0, p), 1, p - 1) = Text(b, 0, p - 1)
  BY <1>4, Prefix
<1>6. Text(b, 0, p)[p] = b[p - 1]
  BY <1>4 DEF Text
<1> QED  BY <1>1, <1>2, <1>3, <1>5, <1>6 DEF Editor!Front, Editor!Last

\* The text after the cursor without its first character, and that character.
LEMMA RightTail ==
    ASSUME LineOK, cursor_pos < input_index
    PROVE  /\ Tail(Right) = Text(input_buffer, cursor_pos + 1, input_index - cursor_pos - 1)
           /\ Head(Right) = input_buffer[cursor_pos]
           /\ Right # <<>>
<1>1. PICK p \in Nat, m \in Nat : p = cursor_pos /\ m = input_index - cursor_pos /\ m > 0
  BY Bounds
<1>2. PICK b : b = input_buffer
  OBVIOUS
<1>3. Right = Text(b, p, m) /\ Right # <<>>
  BY <1>1, <1>2, PartsAre, Lengths
<1>4. Tail(Text(b, p, m)) = Text(b, p + 1, m - 1) /\ Head(Text(b, p, m)) = b[p]
  BY <1>1, TextTail
<1> QED  BY <1>1, <1>2, <1>3, <1>4

LEMMA BackspaceImplements ==
    ASSUME LineOK, shell_backspace
    PROVE  Editor!Backspace \/ UNCHANGED EditorVars
<1>1. UNCHANGED cmd_history
  BY LogStays DEF shell_backspace, historyVars
<1>2. CASE ~(cursor_pos > 0)
  BY <1>1, <1>2 DEF shell_backspace, lineVars, EditorVars, Left, Right, Part
<1>3. CASE cursor_pos > 0
  <2>1. PICK p \in Nat, n \in Nat, q \in Nat :
            p = cursor_pos /\ n = input_index /\ q = p - 1 /\ p <= n /\ p > 0
    BY <1>3, Bounds
  <2>2. /\ input_buffer' = [ShiftDown(input_buffer, q, n, 1) EXCEPT ![n - 1] = Nul]
        /\ input_index' = n - 1 /\ cursor_pos' = q
    BY <1>3, <2>1 DEF shell_backspace, Remove
  <2>3. 1 \in Nat /\ q + 1 <= input_index /\ input_index - 1 <= n
    BY <2>1
  <2>4. /\ Text(input_buffer', 0, q) = Text(input_buffer, 0, q)
        /\ Text(input_buffer', q, input_index - 1 - q)
               = Text(input_buffer, q + 1, input_index - 1 - q)
    BY <2>1, <2>2, <2>3, RemovedText
  <2>5. Left' = Editor!Front(Left) /\ Left # <<>>
    BY <1>3, <2>1, <2>2, <2>4, LeftFront, PartsWillBe
  <2>6. Right' = Right
    <3>1. input_index - 1 - q = n - p /\ q + 1 = p
      BY <2>1
    <3> QED  BY <2>1, <2>2, <2>4, <3>1, PartsAre, PartsWillBe
  <2> QED  BY <1>1, <2>5, <2>6 DEF Editor!Backspace, Left, Right
<1> QED  BY <1>2, <1>3

LEMMA DeleteImplements ==
    ASSUME LineOK, shell_delete
    PROVE  Editor!Delete \/ UNCHANGED EditorVars
<1>1. UNCHANGED cmd_history
  BY LogStays DEF shell_delete, historyVars
<1>2. CASE ~(cursor_pos < input_index)
  BY <1>1, <1>2 DEF shell_delete, lineVars, EditorVars, Left, Right, Part
<1>3. CASE cursor_pos < input_index
  <2>1. PICK p \in Nat, n \in Nat : p = cursor_pos /\ n = input_index /\ p < n
    BY <1>3, Bounds
  <2>2. /\ input_buffer' = [ShiftDown(input_buffer, p, n, 1) EXCEPT ![n - 1] = Nul]
        /\ input_index' = n - 1 /\ cursor_pos' = p
    BY <1>3, <2>1 DEF shell_delete, Remove
  <2>3. 1 \in Nat /\ p + 1 <= input_index /\ input_index - 1 <= n
    BY <2>1
  <2>4. /\ Text(input_buffer', 0, p) = Text(input_buffer, 0, p)
        /\ Text(input_buffer', p, input_index - 1 - p)
               = Text(input_buffer, p + 1, input_index - 1 - p)
    BY <2>1, <2>2, <2>3, RemovedText
  <2>5. Left' = Left
    BY <2>1, <2>2, <2>4, PartsAre, PartsWillBe
  <2>6. Right' = Tail(Right) /\ Right # <<>>
    <3>1. input_index - 1 - p = n - p - 1 /\ (n - 1) - p = n - p - 1
      BY <2>1
    <3> QED  BY <1>3, <2>1, <2>2, <2>4, <3>1, RightTail, PartsWillBe
  <2> QED  BY <1>1, <2>5, <2>6 DEF Editor!Delete, Left, Right
<1> QED  BY <1>2, <1>3

\* The cursor moves over a text that stays: one text is cut in another place.
LEMMA MoveImplements ==
    ASSUME LineOK,
           \/ shell_move_cursor_left \/ shell_move_cursor_right
           \/ shell_move_cursor_home \/ shell_move_cursor_end
    PROVE  \/ Editor!Left \/ Editor!Right \/ Editor!Home \/ Editor!End
           \/ UNCHANGED EditorVars
<1>1. UNCHANGED <<cmd_history, input_buffer, input_index>>
  BY LogStays DEF shell_move_cursor_left, shell_move_cursor_right, shell_move_cursor_home,
       shell_move_cursor_end, MoveCursor, historyVars
<1>2. PICK p \in Nat, n \in Nat, m \in Nat :
          p = cursor_pos /\ n = input_index /\ m = n - p /\ p <= n
  BY Bounds
<1>3. PICK b : b = input_buffer
  OBVIOUS
<1>4. Left = Text(b, 0, p) /\ Right = Text(b, p, m)
  BY <1>2, <1>3, PartsAre
<1>5. Left' = Text(b, 0, cursor_pos') /\ Right' = Text(b, cursor_pos', n - cursor_pos')
  BY <1>1, <1>2, <1>3, PartsWillBe
<1>6. CASE cursor_pos' = cursor_pos
  BY <1>1, <1>6 DEF EditorVars, Left, Right, Part
<1>7. CASE shell_move_cursor_left /\ cursor_pos' # cursor_pos
  <2>1. PICK q \in Nat : q = p - 1 /\ p > 0 /\ cursor_pos' = q
    BY <1>2, <1>7 DEF shell_move_cursor_left, MoveCursor
  <2>2. Left' = Editor!Front(Left) /\ Editor!Last(Left) = b[q] /\ Left # <<>>
    BY <1>2, <1>3, <1>5, <2>1, LeftFront
  <2>3. <<b[q]>> \o Text(b, q + 1, m) = Text(b, q, m + 1)
    BY TextPrepend
  <2>4. q + 1 = p /\ n - q = m + 1
    BY <1>2, <2>1
  <2>5. Right' = <<Editor!Last(Left)>> \o Right
    BY <1>4, <1>5, <2>1, <2>2, <2>3, <2>4
  <2> QED  BY <1>1, <2>2, <2>5 DEF Editor!Left, Left, Right
<1>8. CASE shell_move_cursor_right /\ cursor_pos' # cursor_pos
  <2>1. cursor_pos < input_index /\ cursor_pos' = p + 1
    BY <1>2, <1>8 DEF shell_move_cursor_right, MoveCursor
  <2>2. Right' = Tail(Right) /\ Head(Right) = b[p] /\ Right # <<>>
    <3>1. n - (p + 1) = n - p - 1
      OBVIOUS
    <3> QED  BY <1>2, <1>3, <1>5, <2>1, <3>1, RightTail
  <2>3. Append(Text(b, 0, p), b[0 + p]) = Text(b, 0, p + 1)
    BY TextAppend
  <2>4. 0 + p = p
    OBVIOUS
  <2>5. Left' = Append(Left, Head(Right))
    BY <1>4, <1>5, <2>1, <2>2, <2>3, <2>4
  <2> QED  BY <1>1, <2>2, <2>5 DEF Editor!Right, Left, Right
<1>9. Text(b, 0, p) \o Text(b, p, m) = Text(b, 0, n)
  <2>1. PICK z \in Nat : z = 0
    OBVIOUS
  <2>2. Text(b, z, p) \o Text(b, z + p, m) = Text(b, z, p + m)
    BY TextJoin, Zenon
  <2>3. z + p = p /\ p + m = n
    BY <1>2, <2>1
  <2> QED  BY <2>1, <2>2, <2>3
<1>10. CASE shell_move_cursor_home
  <2>1. cursor_pos' = 0 /\ n - 0 = n
    BY <1>10 DEF shell_move_cursor_home, MoveCursor
  <2>2. Left' = <<>>
    BY <1>5, <2>1, TextIs
  <2>3. Right' = Left \o Right
    BY <1>4, <1>5, <1>9, <2>1
  <2> QED  BY <1>1, <2>2, <2>3 DEF Editor!Home, Left, Right
<1>11. CASE shell_move_cursor_end
  <2>1. cursor_pos' = n /\ n - n = 0
    BY <1>2, <1>11 DEF shell_move_cursor_end, MoveCursor
  <2>2. Right' = <<>>
    BY <1>5, <2>1, TextIs
  <2>3. Left' = Left \o Right
    BY <1>4, <1>5, <1>9, <2>1
  <2> QED  BY <1>1, <2>2, <2>3 DEF Editor!End, Left, Right
<1> QED  BY <1>6, <1>7, <1>8, <1>10, <1>11

\* A line that is emptied is a line replaced by nothing.
LEMMA ClearImplements ==
    ASSUME ClearLine, UNCHANGED <<history, history_index>>
    PROVE  Editor!Recall
<1>1. UNCHANGED cmd_history
  BY LogStays
<1>2. Left' = <<>> /\ Right' = <<>>
  <2>1. cursor_pos' = 0 /\ input_index' - cursor_pos' = 0 /\ 0 \in Nat
    BY DEF ClearLine
  <2> QED  BY <2>1, PartsWillBe, TextIs
<1> QED  BY <1>1, <1>2 DEF Editor!Recall, Left, Right

LEMMA KillToEndImplements ==
    ASSUME LineOK, KillToEnd
    PROVE  Editor!KillToEnd
<1>1. UNCHANGED cmd_history
  BY LogStays DEF KillToEnd, historyVars
<1>2. PICK b, b2 : b = input_buffer /\ b2 = input_buffer'
  OBVIOUS
<1>3. PICK p \in Nat : p = cursor_pos /\ p < MAX_INPUT_LENGTH
  BY Bounds
<1>4. /\ b2 = [b EXCEPT ![p] = Nul] /\ cursor_pos' = p /\ input_index' = p
      /\ b \in [Cells -> Chars \cup {Nul}]
  BY <1>2, <1>3, Bounds DEF KillToEnd
<1>5. ASSUME NEW i \in 0..(p - 1) PROVE b2[i] = b[i]
  <2>1. i \in Cells /\ i # p
    BY <1>3, ShellAssumption DEF Cells
  <2> QED  BY <1>4, <2>1
<1>6. Text(b2, 0, p) = Text(b, 0, p)
  BY <1>5 DEF Text
<1>7. Left' = Left
  BY <1>2, <1>3, <1>4, <1>6, PartsAre, PartsWillBe
<1>8. Right' = <<>>
  <2>1. p - p = 0 /\ 0 \in Nat
    OBVIOUS
  <2> QED  BY <1>4, <2>1, PartsWillBe, TextIs
<1> QED  BY <1>1, <1>7, <1>8 DEF Editor!KillToEnd, Left, Right

\* Where the two loops of Ctrl+W stop: n is the start of the word, and from there
\* to the cursor are w characters of a word and then only spaces.
LEMMA WordStartIs ==
    ASSUME cursor_pos \in Nat, cursor_pos > 0
    PROVE  \E n \in 0..cursor_pos : \E w \in 0..(cursor_pos - n) :
             /\ WordStart = n
             /\ n = 0 \/ input_buffer[n - 1] = Space
             /\ \A i \in 0..(w - 1) : input_buffer[n + i] # Space
             /\ \A i \in w..(cursor_pos - n - 1) : input_buffer[n + i] = Space
             /\ w = 0 => n <= 1 /\ \A i \in 0..(cursor_pos - 1) : input_buffer[i] = Space
<1>1. PICK b : b = input_buffer
  OBVIOUS
<1>2. PICK p \in Nat : p = cursor_pos /\ p > 0
  OBVIOUS
<1> DEFINE L == {k \in 0..(p - 1) : k = 0 \/ b[k] # Space}
           letter == Greatest(L)
           A == {k \in 0..letter : k = 0 \/ b[k] = Space}
           at == Greatest(A)
<1>3. /\ letter \in 0..(p - 1)
      /\ letter = 0 \/ b[letter] # Space
      /\ \A k \in 0..(p - 1) : k > letter => b[k] = Space
  <2>1. L \subseteq 0..(p - 1) /\ 0 \in L /\ p - 1 \in Nat
    BY <1>2
  <2>2. letter \in L /\ \A k \in L : k <= letter
    <3> HIDE DEF L
    <3>1. \E a \in L : \A k \in L : k <= a
      BY <2>1, GreatestNat
    <3> QED  BY <3>1 DEF Greatest
  <2> HIDE DEF letter
  <2> QED  BY <2>1, <2>2
<1>4. /\ at \in 0..letter
      /\ at = 0 \/ b[at] = Space
      /\ \A k \in 0..letter : k > at => b[k] # Space
  <2> HIDE DEF letter
  <2>1. A \subseteq 0..letter /\ 0 \in A /\ letter \in Nat
    BY <1>3
  <2>2. at \in A /\ \A k \in A : k <= at
    <3> HIDE DEF A
    <3>1. \E a \in A : \A k \in A : k <= a
      BY <2>1, GreatestNat
    <3> QED  BY <3>1 DEF Greatest
  <2> HIDE DEF at
  <2> QED  BY <2>1, <2>2
<1>5. WordStart = IF b[at] = Space THEN at + 1 ELSE at
  BY <1>1, <1>2 DEF WordStart
<1> HIDE DEF at, letter
<1>6. PICK l \in Nat, a \in Nat : l = letter /\ a = at
  BY <1>3, <1>4
<1>7. CASE b[a] = Space
  <2>1. PICK n \in Nat, w \in Nat : n = a + 1 /\ w = l - a
    BY <1>3, <1>4, <1>6
  <2>2. n \in 0..p /\ w \in 0..(p - n) /\ WordStart = n /\ n - 1 = a
    BY <1>3, <1>4, <1>5, <1>6, <1>7, <2>1
  <2>3. ASSUME NEW i \in 0..(w - 1) PROVE b[n + i] # Space
    <3>1. n + i \in 0..l /\ n + i > a
      BY <2>1
    <3> QED  BY <1>4, <1>6, <3>1
  <2>4. ASSUME NEW i \in w..(p - n - 1) PROVE b[n + i] = Space
    <3>1. n + i \in 0..(p - 1) /\ n + i > l
      BY <1>3, <1>6, <2>1
    <3> QED  BY <1>3, <1>6, <3>1
  <2>5. ASSUME w = 0 PROVE n <= 1 /\ \A i \in 0..(p - 1) : b[i] = Space
    <3>1. l = a
      BY <1>3, <1>4, <1>6, <2>1, <2>5
    <3>2. l = 0
      BY <1>3, <1>6, <1>7, <3>1
    <3>3. ASSUME NEW i \in 0..(p - 1) PROVE b[i] = Space
      BY <1>3, <1>6, <1>7, <3>1, <3>2
    <3> QED  BY <2>1, <3>1, <3>2, <3>3
  <2> QED  BY <1>1, <1>2, <1>7, <2>2, <2>3, <2>4, <2>5
<1>8. CASE b[a] # Space
  <2>1. PICK n \in Nat, w \in Nat : n = 0 /\ w = l + 1 /\ a = 0
    BY <1>4, <1>6, <1>8
  <2>2. n \in 0..p /\ w \in 0..(p - n) /\ WordStart = n /\ w # 0
    BY <1>3, <1>5, <1>6, <1>8, <2>1
  <2>3. ASSUME NEW i \in 0..(w - 1) PROVE b[n + i] # Space
    <3>1. n + i = i /\ i \in 0..l /\ (i = 0 \/ i > a)
      BY <2>1
    <3> QED  BY <1>4, <1>6, <1>8, <2>1, <3>1
  <2>4. ASSUME NEW i \in w..(p - n - 1) PROVE b[n + i] = Space
    <3>1. n + i = i /\ i \in 0..(p - 1) /\ i > l
      BY <2>1
    <3> QED  BY <1>3, <1>6, <3>1
  <2> QED  BY <1>1, <1>2, <2>1, <2>2, <2>3, <2>4
<1> QED  BY <1>7, <1>8

LEMMA KillWordImplements ==
    ASSUME LineOK, KillWord
    PROVE  Editor!KillWord \/ UNCHANGED EditorVars
<1>1. UNCHANGED cmd_history
  BY LogStays DEF KillWord, historyVars
<1>2. CASE ~(cursor_pos > 0)
  BY <1>1, <1>2 DEF KillWord, lineVars, EditorVars, Left, Right, Part
<1>3. CASE cursor_pos > 0
  <2>1. PICK b : b = input_buffer
    OBVIOUS
  <2>2. PICK p \in Nat, m \in Nat : p = cursor_pos /\ m = input_index /\ p <= m
    BY Bounds
  <2>3. PICK n \in 0..p : \E w \in 0..(p - n) :
           /\ WordStart = n
           /\ n = 0 \/ b[n - 1] = Space
           /\ \A i \in 0..(w - 1) : b[n + i] # Space
           /\ \A i \in w..(p - n - 1) : b[n + i] = Space
           /\ w = 0 => n <= 1 /\ \A i \in 0..(p - 1) : b[i] = Space
    BY <1>3, <2>1, <2>2, WordStartIs
  <2>4. PICK w \in 0..(p - n) :
           /\ WordStart = n
           /\ n = 0 \/ b[n - 1] = Space
           /\ \A i \in 0..(w - 1) : b[n + i] # Space
           /\ \A i \in w..(p - n - 1) : b[n + i] = Space
           /\ w = 0 => n <= 1 /\ \A i \in 0..(p - 1) : b[i] = Space
    BY <2>3
  <2>5. PICK k \in Nat, to \in Nat : k = p - n /\ to = m - k
    BY <2>2
  <2>6. /\ input_buffer' = [ShiftDown(input_buffer, n, to, k) EXCEPT ![input_index - k] = Nul]
        /\ input_index' = m - k /\ cursor_pos' = n
    BY <1>3, <2>2, <2>4, <2>5 DEF KillWord
  <2>7. n \in Nat /\ n + k <= input_index /\ input_index - k <= to
    BY <2>2, <2>5
  <2>8. /\ Text(input_buffer', 0, n) = Text(input_buffer, 0, n)
        /\ Text(input_buffer', n, input_index - k - n)
               = Text(input_buffer, n + k, input_index - k - n)
    BY <2>6, <2>7, RemovedText
  <2>9. Left = Text(b, 0, p) /\ Len(Left) = p
    BY <2>1, <2>2, PartsAre, Lengths
  <2>10. Left' = SubSeq(Left, 1, n)
    <3>1. SubSeq(Text(b, 0, p), 1, n) = Text(b, 0, n)
      BY <2>7, Prefix
    <3> QED  BY <2>1, <2>6, <2>8, <2>9, <3>1, PartsWillBe
  <2>11. Right' = Right
    <3>1. input_index - k - n = m - p /\ (m - k) - n = m - p /\ n + k = p
      BY <2>2, <2>5
    <3> QED  BY <2>2, <2>6, <2>8, <3>1, PartsAre, PartsWillBe
  <2> DEFINE killed == SubSeq(Left, n + 1, Len(Left))
  <2>12. killed = Text(b, n, k)
    <3>1. 0 \in Nat /\ p \in n..p /\ 0 + n = n
      OBVIOUS
    <3>2. SubSeq(Text(b, 0, p), n + 1, p) = Text(b, 0 + n, p - n)
      BY <3>1, TextPiece
    <3> QED  BY <2>5, <2>9, <3>1, <3>2
  <2>13. Len(killed) = k /\ \A i \in 1..k : killed[i] = b[n + i - 1]
    <3>1. Len(Text(b, n, k)) = k /\ \A i \in 1..k : Text(b, n, k)[i] = b[n + i - 1]
      BY <2>7, TextIs
    <3> QED  BY <2>12, <3>1
  <2> HIDE DEF killed
  <2>14. Editor!IsWord(killed, w)
    <3>1. ASSUME NEW i \in 1..w PROVE killed[i] # Space
      <4>1. i - 1 \in 0..(w - 1) /\ n + (i - 1) = n + i - 1 /\ i \in 1..k
        BY <2>5
      <4> QED  BY <2>4, <2>13, <4>1
    <3>2. ASSUME NEW i \in (w + 1)..k PROVE killed[i] = Space
      <4>1. i - 1 \in w..(p - n - 1) /\ n + (i - 1) = n + i - 1 /\ i \in 1..k
        BY <2>5
      <4> QED  BY <2>4, <2>13, <4>1
    <3> QED  BY <2>13, <3>1, <3>2 DEF Editor!IsWord
  <2>15. \A i \in 1..p : Left[i] = b[i - 1]
    BY <2>9 DEF Text
  <2>16. n = 0 \/ Left[n] = Space
    BY <2>4, <2>15
  <2>17. w = 0 => Editor!Blank(Left) /\ n <= 1
    <3> SUFFICES ASSUME w = 0 PROVE Editor!Blank(Left) /\ n <= 1
      OBVIOUS
    <3>1. ASSUME NEW i \in 1..p PROVE Left[i] = Space
      <4>1. i - 1 \in 0..(p - 1)
        OBVIOUS
      <4> QED  BY <2>4, <2>15, <4>1
    <3> QED  BY <2>4, <2>9, <3>1 DEF Editor!Blank
  <2>18. w \in 0..Len(killed) /\ n \in 0..Len(Left)
    BY <2>5, <2>9, <2>13
  <2>19. \E j \in 0..Len(Left) :
           LET gone == SubSeq(Left, j + 1, Len(Left))
           IN  /\ Left' = SubSeq(Left, 1, j)
               /\ j = 0 \/ Left[j] = Space
               /\ \E v \in 0..Len(gone) :
                     /\ Editor!IsWord(gone, v)
                     /\ v = 0 => Editor!Blank(Left) /\ j <= 1
    <3> n \in 0..Len(Left)
      BY <2>18
    <3> WITNESS n \in 0..Len(Left)
    <3>1. \E v \in 0..Len(killed) :
             /\ Editor!IsWord(killed, v)
             /\ v = 0 => Editor!Blank(Left) /\ n <= 1
      BY <2>14, <2>17, <2>18
    <3> QED  BY <2>10, <2>16, <3>1 DEF killed
  <2> QED  BY <1>1, <2>11, <2>19 DEF Editor!KillWord, Left, Right
<1> QED  BY <1>2, <1>3

\* A slot of the ring holds nothing or a command of the log.
LEMMA SlotIsLogged ==
    ASSUME HistoryTypes, RingInv, NEW slot \in Slots, history[slot] # <<>>
    PROVE  \E i \in 1..Len(cmd_history) : history[slot] = cmd_history[i]
<1>1. PICK n \in 0..MAX_HISTORY_ENTRIES : Remembers(n)
  BY DEF RingInv
<1>2. n \in Nat /\ MAX_HISTORY_ENTRIES \in Nat
  BY ShellAssumption
<1>3. cmd_history = [j \in 1..n |-> history[Back(n - j + 1)]]
  BY <1>1, HistoryIs
<1>4. PICK k \in 1..MAX_HISTORY_ENTRIES : slot = Back(k)
  BY EverySlot DEF HistoryTypes
<1>5. k <= n
  BY <1>1, <1>2, <1>4 DEF Remembers
<1>6. n - k + 1 \in 1..n /\ n - (n - k + 1) + 1 = k
  BY <1>2, <1>5
<1>7. cmd_history[n - k + 1] = history[slot]
  BY <1>3, <1>4, <1>6
<1>8. Len(cmd_history) = n
  <2>1. IsSeq(cmd_history, n)
    BY <1>2, <1>3 DEF IsSeq
  <2> QED  BY <1>2, <2>1, LenIs
<1> QED  BY <1>6, <1>7, <1>8

\* What is recalled into the array is the text of the slot.
LEMMA ShowImplements ==
    ASSUME LineOK, HistoryTypes, RingInv, NEW slot \in Slots, Show(slot),
           UNCHANGED <<history, history_index>>
    PROVE  Editor!Recall
<1>1. UNCHANGED cmd_history
  BY LogStays
<1>2. PICK b, b2, s : b = input_buffer /\ b2 = input_buffer' /\ s = history[slot]
  OBVIOUS
<1>3. s \in Strings
  BY <1>2 DEF HistoryTypes
<1>4. PICK n \in Nat : n < MAX_INPUT_LENGTH /\ s \in [1..n -> Chars]
  BY <1>3, ShellAssumption DEF Strings, Cells
<1>5. IsSeq(s, n)
  BY <1>4 DEF IsSeq
<1>6. Len(s) = n /\ (s = <<>> <=> n = 0)
  BY <1>5, LenIs
<1>7. b2 = strcpy(b, s) /\ input_index' = n /\ cursor_pos' = n
  BY <1>2, <1>6 DEF Show
<1>8. ASSUME NEW j \in 1..n PROVE b2[0 + j - 1] = s[j]
  <2>1. j - 1 \in Cells /\ j - 1 < n /\ (j - 1) + 1 = j /\ 0 + j - 1 = j - 1
    BY <1>4, ShellAssumption DEF Cells
  <2> QED  BY <1>6, <1>7, <2>1 DEF strcpy
<1>9. Text(b2, 0, n) = s
  BY <1>4, <1>8 DEF Text
<1>10. Left' = s
  BY <1>2, <1>7, <1>9, PartsWillBe
<1>11. Right' = <<>>
  <2>1. n - n = 0 /\ 0 \in Nat
    OBVIOUS
  <2> QED  BY <1>7, <2>1, PartsWillBe, TextIs
<1>12. s = <<>> \/ \E i \in 1..Len(cmd_history) : s = cmd_history[i]
  BY <1>2, SlotIsLogged
<1>13. Left' = <<>> \/ \E i \in 1..Len(cmd_history) : Left' = cmd_history[i]
  BY <1>10, <1>12
<1> QED  BY <1>1, <1>11, <1>13 DEF Editor!Recall, Left, Right

LEMMA HistoryImplements ==
    ASSUME LineOK, HistoryTypes, RingInv, shell_history_up \/ shell_history_down
    PROVE  Editor!Recall \/ UNCHANGED EditorVars
<1>1. UNCHANGED <<history, history_index>>
  BY DEF shell_history_up, shell_history_down
<1>2. Before(history_current) \in Slots /\ After(history_current) \in Slots
  BY SlotFacts DEF HistoryTypes
<1>3. CASE shell_history_up /\ history[Before(history_current)] # <<>>
  BY <1>1, <1>2, <1>3, ShowImplements DEF shell_history_up
<1>4. CASE shell_history_up /\ ~(history[Before(history_current)] # <<>>)
  BY <1>1, <1>4, LogStays DEF shell_history_up, lineVars, EditorVars, Left, Right, Part
<1>5. CASE shell_history_down /\ After(history_current) # history_index
  BY <1>1, <1>2, <1>5, ShowImplements DEF shell_history_down
<1>6. CASE shell_history_down /\ ~(After(history_current) # history_index)
  BY <1>1, <1>6, ClearImplements DEF shell_history_down
<1> QED  BY <1>3, <1>4, <1>5, <1>6

\* The log, in this state and in the next.
LEMMA LogIs ==
    ASSUME HistoryTypes, NEW n \in 0..MAX_HISTORY_ENTRIES, Remembers(n)
    PROVE  /\ IsSeq(cmd_history, n) /\ Len(cmd_history) = n
           /\ \A j \in 1..n : cmd_history[j] = history[Back(n - j + 1)]
<1>1. n \in Nat
  BY ShellAssumption
<1>2. cmd_history = [j \in 1..n |-> history[Back(n - j + 1)]]
  BY HistoryIs
<1>3. IsSeq(cmd_history, n)
  BY <1>1, <1>2 DEF IsSeq
<1>4. Len(cmd_history) = n
  BY <1>1, <1>3, LenIs
<1>5. \A j \in 1..n : cmd_history[j] = history[Back(n - j + 1)]
  BY <1>2
<1> QED  BY <1>3, <1>4, <1>5

LEMMA LogWillBe ==
    \A n \in 0..MAX_HISTORY_ENTRIES : HistoryTypes' /\ Remembers(n)' =>
        /\ IsSeq(cmd_history', n) /\ Len(cmd_history') = n
        /\ \A j \in 1..n : cmd_history'[j] = history'[Back(n - j + 1)']
<1> TAKE n \in 0..MAX_HISTORY_ENTRIES
<1>1. HistoryTypes /\ Remembers(n) =>
        /\ IsSeq(cmd_history, n) /\ Len(cmd_history) = n
        /\ \A j \in 1..n : cmd_history[j] = history[Back(n - j + 1)]
  BY LogIs
<1>2. (HistoryTypes /\ Remembers(n) =>
         /\ IsSeq(cmd_history, n) /\ Len(cmd_history) = n
         /\ \A j \in 1..n : cmd_history[j] = history[Back(n - j + 1)])'
  BY <1>1, PTL
<1> QED  BY <1>2

\* A command that is remembered is the newest of the log, which loses its
\* oldest when the ring was full.
LEMMA LogPush ==
    ASSUME HistoryTypes, HistoryTypes', NEW n \in 0..MAX_HISTORY_ENTRIES, Remembers(n),
           NEW line, line # <<>>,
           history' = [history EXCEPT ![history_index] = line],
           history_index' = After(history_index)
    PROVE  cmd_history' = Editor!Newest(Append(cmd_history, line), MAX_HISTORY_ENTRIES)
<1>1. PICK M \in Nat, l \in Nat : M = MAX_HISTORY_ENTRIES /\ M > 0 /\ l = n /\ l <= M
  BY ShellAssumption
<1>2. PICK h, g, a : h = cmd_history /\ g = cmd_history' /\ a = Append(cmd_history, line)
  OBVIOUS
<1>3. IsSeq(h, l) /\ \A j \in 1..l : h[j] = history[Back(l - j + 1)]
  BY <1>1, <1>2, LogIs
<1>4. /\ IsSeq(a, l + 1)
      /\ \A j \in 1..l : a[j] = h[j]
      /\ a[l + 1] = line
  BY <1>2, <1>3, AppendSeq DEF IsSeq
<1>5. /\ history'[Back(1)'] = line
      /\ \A k \in 1..(M - 1) : history'[Back(k + 1)'] = history[Back(k)]
      /\ Remembers(IF l < M THEN l + 1 ELSE l)'
  BY <1>1, RingPush
<1>6. Len(a) = l + 1
  BY <1>4, LenIs
<1>7. CASE l < M
  <2>1. PICK m \in 1..M : m = l + 1
    BY <1>1, <1>7
  <2>2. IsSeq(g, m) /\ \A j \in 1..m : g[j] = history'[Back(m - j + 1)']
    BY <1>1, <1>2, <1>5, <1>7, <2>1, LogWillBe
  <2>3. ASSUME NEW j \in 1..m PROVE g[j] = a[j]
    <3>1. CASE j = m
      <4>1. m - j + 1 = 1
        BY <3>1
      <4> QED  BY <1>4, <1>5, <2>1, <2>2, <3>1, <4>1
    <3>2. CASE j # m
      <4>1. PICK k \in 1..(M - 1) : k = l - j + 1 /\ k + 1 = m - j + 1 /\ j \in 1..l
        BY <1>7, <2>1, <3>2
      <4>2. g[j] = history'[Back(k + 1)'] /\ a[j] = history[Back(k)]
        BY <1>3, <1>4, <2>2, <4>1
      <4> QED  BY <1>5, <4>2
    <3> QED  BY <3>1, <3>2
  <2>4. g = a
    BY <1>4, <2>1, <2>2, <2>3 DEF IsSeq
  <2>5. Editor!Newest(a, M) = a
    BY <1>6, <1>7 DEF Editor!Newest
  <2> QED  BY <1>1, <1>2, <2>4, <2>5
<1>8. CASE l = M
  <2>1. IsSeq(g, M) /\ \A j \in 1..M : g[j] = history'[Back(M - j + 1)']
    BY <1>1, <1>2, <1>5, <1>8, LogWillBe
  <2> DEFINE s == SubSeq(a, 2, M + 1)
  <2>2. Editor!Newest(a, M) = s
    <3>1. Len(a) = M + 1 /\ Len(a) - M + 1 = 2 /\ ~(Len(a) <= M)
      BY <1>6, <1>8
    <3> QED  BY <3>1 DEF Editor!Newest
  <2>3. IsSeq(s, M) /\ \A j \in 1..M : s[j] = a[1 + j]
    <3>1. PICK e \in Nat : e = M + 1
      BY <1>1
    <3>2. PICK x \in 1..(e + 1), y \in 1..e : x = 2 /\ y = e /\ y \in (x - 1)..e
      BY <1>1, <3>1
    <3>3. IsSeq(a, e)
      BY <1>4, <1>8, <3>1
    <3>4. /\ IsSeq(SubSeq(a, x, y), y - x + 1)
          /\ \A j \in 1..(y - x + 1) : SubSeq(a, x, y)[j] = a[x + j - 1]
      BY <3>2, <3>3, SubSeqIs
    <3>5. y - x + 1 = M /\ \A j \in 1..M : x + j - 1 = 1 + j
      BY <3>1, <3>2
    <3> QED  BY <3>1, <3>2, <3>4, <3>5
  <2> HIDE DEF s
  <2>4. ASSUME NEW j \in 1..M PROVE g[j] = s[j]
    <3>1. CASE j = M
      <4>1. M - j + 1 = 1 /\ 1 + j = M + 1
        BY <3>1
      <4> QED  BY <1>4, <1>5, <1>8, <2>1, <2>3, <3>1, <4>1
    <3>2. CASE j # M
      <4>1. PICK k \in 1..(M - 1) : k = M - j /\ k + 1 = M - j + 1
                                    /\ 1 + j \in 1..l /\ l - (1 + j) + 1 = k
        BY <1>8, <3>2
      <4>2. g[j] = history'[Back(k + 1)'] /\ s[j] = history[Back(k)]
        BY <1>3, <1>4, <2>1, <2>3, <4>1
      <4> QED  BY <1>5, <4>2
    <3> QED  BY <3>1, <3>2
  <2>5. g = s
    BY <2>1, <2>3, <2>4 DEF IsSeq
  <2> QED  BY <1>1, <1>2, <2>2, <2>5
<1> QED  BY <1>1, <1>7, <1>8

\* Enter remembers the text of the line unless it is empty or the newest of the
\* log, and empties the line.
LEMMA EnterImplements ==
    ASSUME ShellInv, ShellInv', RingInv, Enter
    PROVE  Editor!Enter
<1>1. PICK line : line = String([input_buffer EXCEPT ![input_index] = Nul])
  OBVIOUS
<1>2. /\ shell_add_to_history(line)
      /\ input_index' = 0 /\ cursor_pos' = 0
  BY <1>1 DEF Enter
<1>3. LineOK /\ HistoryTypes /\ HistoryTypes'
  BY DEF ShellInv
<1>4. line = Left \o Right
  <2>1. PICK b : b = input_buffer
    OBVIOUS
  <2>2. PICK p \in Nat, n \in Nat, m \in Nat, z \in Nat :
            p = cursor_pos /\ n = input_index /\ m = n - p /\ z = 0
    BY <1>3, Bounds
  <2>3. line = [i \in 1..n |-> b[i - 1]]
    BY <1>1, <1>3, <2>1, <2>2, EnteredIs
  <2>4. Text(b, z, n) = [i \in 1..n |-> b[i - 1]]
    BY <2>2 DEF Text
  <2>5. Text(b, z, p) \o Text(b, z + p, m) = Text(b, z, p + m)
    BY TextJoin, Zenon
  <2>6. z + p = p /\ p + m = n
    BY <2>2
  <2> QED  BY <2>1, <2>2, <2>3, <2>4, <2>5, <2>6, PartsAre
<1>5. Left' = <<>> /\ Right' = <<>>
  <2>1. input_index' - cursor_pos' = 0 /\ 0 \in Nat
    BY <1>2
  <2> QED  BY <1>2, <2>1, PartsWillBe, TextIs
<1>6. PICK n \in 0..MAX_HISTORY_ENTRIES : Remembers(n)
  BY DEF RingInv
<1>7. n \in Nat /\ MAX_HISTORY_ENTRIES \in Nat /\ MAX_HISTORY_ENTRIES > 0
  BY ShellAssumption
<1>8. /\ Len(cmd_history) = n /\ (cmd_history = <<>> <=> n = 0)
      /\ \A j \in 1..n : cmd_history[j] = history[Back(n - j + 1)]
  BY <1>3, <1>6, <1>7, LogIs, LenIs
<1>9. IsRepeat(line) <=> cmd_history # <<>> /\ Editor!Last(cmd_history) = line
  <2>1. Before(history_index) = Back(1) /\ 1 \in 1..MAX_HISTORY_ENTRIES
    BY <1>7 DEF Before, Back
  <2>2. history[Back(1)] = <<>> <=> n = 0
    BY <1>6, <1>7, <2>1 DEF Remembers
  <2>3. ASSUME n # 0 PROVE Editor!Last(cmd_history) = history[Back(1)]
    <3>1. n \in 1..n /\ n - n + 1 = 1
      BY <1>7, <2>3
    <3> QED  BY <1>8, <3>1 DEF Editor!Last
  <2> QED  BY <1>8, <2>1, <2>2, <2>3 DEF IsRepeat
<1>10. CASE line = <<>> \/ IsRepeat(line)
  <2>1. UNCHANGED cmd_history
    <3>1. UNCHANGED <<history, history_index>>
      BY <1>2, <1>10 DEF shell_add_to_history, shell_add_to_history_blank, historyVars
    <3> QED  BY <3>1, LogStays
  <2> QED  BY <1>4, <1>5, <1>9, <1>10, <2>1 DEF Editor!Enter, Left, Right
<1>11. CASE line # <<>> /\ ~IsRepeat(line)
  <2>1. /\ history' = [history EXCEPT ![history_index] = line]
        /\ history_index' = After(history_index)
    BY <1>2, <1>11 DEF shell_add_to_history, shell_add_to_history_blank
  <2>2. cmd_history' = Editor!Newest(Append(cmd_history, line), MAX_HISTORY_ENTRIES)
    BY <1>3, <1>6, <1>11, <2>1, LogPush
  <2> QED  BY <1>4, <1>5, <1>9, <1>11, <2>2 DEF Editor!Enter, Left, Right
<1> QED  BY <1>10, <1>11

LEMMA EditorInit == Init => Editor!Init
<1> SUFFICES ASSUME Init PROVE Editor!Init
  OBVIOUS
<1>1. Left = <<>> /\ Right = <<>>
  <2>1. cursor_pos = 0 /\ input_index - cursor_pos = 0 /\ 0 \in Nat
    BY DEF Init
  <2> QED  BY <2>1, PartsAre, TextIs
<1>2. cmd_history = <<>>
  <2>1. HistoryTypes /\ Remembers(0) /\ 0 \in 0..MAX_HISTORY_ENTRIES
    <3>1. HistoryTypes
      BY StringFacts, SlotFacts DEF Init, HistoryTypes
    <3>2. Remembers(0)
      BY <3>1, BackIs DEF Init, Remembers, HistoryTypes
    <3> QED  BY <3>1, <3>2, ShellAssumption
  <2>2. IsSeq(cmd_history, 0)
    BY <2>1, LogIs
  <2> QED  BY <2>2 DEF IsSeq
<1> QED  BY <1>1, <1>2 DEF Editor!Init, Left, Right

\* Every call, and every step that leaves the shell alone, is a step of the editor
\* or leaves it alone.
LEMMA EditorNext ==
    ShellInv /\ ShellInv' /\ RingInv /\ [Next]_vars => [Editor!Next]_(Editor!vars)
<1> SUFFICES ASSUME ShellInv, ShellInv', RingInv, [Next]_vars
             PROVE  Editor!Next \/ UNCHANGED EditorVars
  BY DEF EditorVars, Editor!vars, Left, Right
<1>1. LineOK /\ HistoryTypes
  BY DEF ShellInv
<1>2. ASSUME NEW c \in Chars, Insert(c) PROVE Editor!Next \/ UNCHANGED EditorVars
  BY <1>1, <1>2, InsertImplements DEF Editor!Next
<1>3. CASE shell_backspace
  BY <1>1, <1>3, BackspaceImplements DEF Editor!Next
<1>4. CASE shell_delete
  BY <1>1, <1>4, DeleteImplements DEF Editor!Next
<1>5. CASE \/ shell_move_cursor_left \/ shell_move_cursor_right
           \/ shell_move_cursor_home \/ shell_move_cursor_end
  BY <1>1, <1>5, MoveImplements DEF Editor!Next
<1>6. CASE shell_clear_input
  BY <1>6, ClearImplements DEF shell_clear_input, historyVars, Editor!Next
<1>7. CASE KillToEnd
  BY <1>1, <1>7, KillToEndImplements DEF Editor!Next
<1>8. CASE KillWord
  BY <1>1, <1>8, KillWordImplements DEF Editor!Next
<1>9. CASE shell_history_up \/ shell_history_down
  BY <1>1, <1>9, HistoryImplements DEF Editor!Next
<1>10. CASE Enter
  BY <1>10, EnterImplements DEF Editor!Next
<1>11. CASE UNCHANGED vars
  BY <1>11, LogStays DEF vars, lineVars, historyVars, EditorVars, Left, Right, Part
<1> QED  BY <1>2, <1>3, <1>4, <1>5, <1>6, <1>7, <1>8, <1>9, <1>10, <1>11 DEF Next

\* The array with its terminator, the two indices and the ring implement the line
\* of text with a cursor in it and the log of the last commands.
THEOREM ShellImplementsEditor == Spec => EditorSpec
<1>1. Spec => Editor!Spec
  BY ShellRing, EditorInit, EditorNext, PTL DEF Spec, Editor!Spec
<1> QED  BY <1>1 DEF EditorSpec

----------------------------------------------------------------------------
(* The arguments of a command.                                             *)
(*                                                                         *)
(* Pieces is what parse_args makes of a text, told character by character  *)
(* and not argument by argument.  It is the common ground of the three     *)
(* definitions that ArgsKeepText compares: from any place where an         *)
(* argument ends, the arguments that parse_args still finds are the pieces *)
(* still to come; put together, the pieces so far are the letters so far;  *)
(* and as long as words fit, the pieces so far are the words so far.       *)

\* A character goes to the last piece.
Extend(s, c) == [s EXCEPT ![Len(s)] = Append(@, c)]

\* e is s with the character c at the end of its last piece.
Extends(e, s, c) ==
    /\ e \in Seq(Seq(Chars))
    /\ Len(e) = Len(s)
    /\ \A i \in 1..Len(s) : e[i] = IF i = Len(s) THEN Append(s[i], c) ELSE s[i]

LEMMA ExtendIs ==
    ASSUME NEW s \in Seq(Seq(Chars)), NEW c \in Chars
    PROVE  Extends(Extend(s, c), s, c)
<1> DEFINE W == Seq(Chars)
           n == Len(s)
           e == Extend(s, c)
<1>1. n \in Nat /\ s \in [1..n -> W]
  <2>1. s \in Seq(W)
    OBVIOUS
  <2> HIDE DEF W
  <2> QED  BY <2>1, LenProperties
<1>2. \A w \in W : Append(w, c) \in W
  OBVIOUS
<1>3. e = [s EXCEPT ![n] = Append(s[n], c)]
  BY DEF Extend
<1> HIDE DEF W, n, e
<1>4. e \in [1..n -> W]
  <2>1. CASE n \in 1..n
    <3>1. Append(s[n], c) \in W
      BY <1>1, <1>2, <2>1
    <3> QED  BY <1>1, <1>3, <3>1
  <2>2. CASE n \notin 1..n
    <3>1. e = [i \in 1..n |-> s[i]]
      BY <1>1, <1>3, <2>2
    <3> QED  BY <1>1, <3>1
  <2> QED  BY <2>1, <2>2
<1>5. e \in Seq(W)
  BY <1>1, <1>4, SeqDef
<1>6. IsSeq(e, n)
  BY <1>1, <1>4 DEF IsSeq
<1>7. Len(e) = n
  BY <1>1, <1>6, LenIs
<1>8. \A i \in 1..n : e[i] = IF i = n THEN Append(s[i], c) ELSE s[i]
  BY <1>1, <1>3
<1> QED  BY <1>5, <1>7, <1>8 DEF W, n, e, Extends

\* The loop of Letters.
LEMMA LettersIs ==
    ASSUME NEW T \in Seq(Chars)
    PROVE  \E f \in [0..Len(T) -> Seq(Chars)] :
               /\ f[0] = <<>>
               /\ \A i \in 1..Len(T) : f[i] = IF T[i] = Space THEN f[i - 1] ELSE Append(f[i - 1], T[i])
               /\ Letters(T) = f[Len(T)]
<1> DEFINE N == Len(T)
           Z == Seq(Chars)
           Step(i, x) == IF T[i] = Space THEN x ELSE Append(x, T[i])
           G == [i \in 1..N |-> [x \in Z |-> Step(i, x)]]
           IsLoop(g) == g = [n \in 0..N |-> IF n = 0 THEN <<>> ELSE Step(n, g[n - 1])]
           g == CHOOSE f : IsLoop(f)
<1>1. Letters(T) = g[N]
  BY DEF Letters
<1>2. N \in Nat
  OBVIOUS
<1>3. \A i \in 1..N : \A x \in Z : Step(i, x) \in Z
  OBVIOUS
<1>4. G \in [1..N -> [Z -> Z]]
  <2> HIDE DEF Z, N, Step
  <2> QED  BY <1>3
<1>5. PICK f \in [0..N -> Z] : f[0] = <<>> /\ \A i \in 1..N : f[i] = G[i][f[i - 1]]
  <2> DEFINE z == <<>>
  <2>1. z \in Z
    OBVIOUS
  <2> HIDE DEF Z, z, G, N
  <2>2. \E f \in [0..N -> Z] : Iterates(f, N, z, G)
    BY <1>2, <1>4, <2>1, Recursion
  <2> QED  BY <2>2 DEF Iterates, z
<1>6. \A i \in 1..N : f[i] = Step(i, f[i - 1])
  <2> TAKE i \in 1..N
  <2>1. i \in 0..N /\ i - 1 \in 0..N /\ i # 0
    BY <1>2
  <2>2. f[i - 1] \in Z
    BY <2>1
  <2> HIDE DEF Z, Step
  <2> QED  BY <1>5, <2>1, <2>2
<1>7. IsLoop(f)
  <2> HIDE DEF N, G
  <2>1. f = [n \in 0..N |-> f[n]]
    OBVIOUS
  <2>2. \A n \in 0..N : n = 0 \/ (n # 0 /\ n \in 1..N)
    BY <1>2
  <2>3. f[0] = <<>>
    BY <1>5
  <2>4. \A n \in 0..N : f[n] = IF n = 0 THEN <<>> ELSE Step(n, f[n - 1])
    <3> HIDE DEF Z, Step
    <3> QED  BY <1>6, <2>2, <2>3
  <2> HIDE DEF Step
  <2> QED  BY <2>1, <2>4
<1>8. IsLoop(g)
  <2> HIDE DEF IsLoop
  <2> QED  BY <1>7
<1> HIDE DEF g
<1>9. g[0] = <<>> /\ \A i \in 1..N : g[i] = Step(i, g[i - 1])
  <2> HIDE DEF N, Step
  <2>1. 0 \in 0..N /\ \A i \in 1..N : i \in 0..N /\ i # 0
    BY <1>2
  <2>2. \A n \in 0..N : g[n] = IF n = 0 THEN <<>> ELSE Step(n, g[n - 1])
    BY <1>8
  <2> QED  BY <2>1, <2>2
<1>10. \A i \in 0..N : g[i] = f[i]
  <2> DEFINE S == {i \in Nat : i <= N => g[i] = f[i]}
  <2> HIDE DEF Step
  <2>1. 0 \in S
    BY <1>5, <1>9
  <2>2. ASSUME NEW i \in Nat, i \in S PROVE i + 1 \in S
    <3> SUFFICES ASSUME i + 1 <= N PROVE g[i + 1] = f[i + 1]
      OBVIOUS
    <3>1. PICK j \in 1..N : j = i + 1
      BY <1>2
    <3>2. i = j - 1 /\ g[i] = f[i]
      BY <1>2, <2>2, <3>1
    <3> QED  BY <1>6, <1>9, <3>1, <3>2
  <2>3. \A i \in Nat : i \in S
    <3> HIDE DEF S
    <3> QED  BY <2>1, <2>2, InductionNat
  <2> QED  BY <1>2, <2>3
<1>11. g[N] = f[N]
  BY <1>2, <1>10
<1> QED  BY <1>1, <1>5, <1>6, <1>11

\* The loop of Words.
LEMMA WordsIs ==
    ASSUME NEW T \in Seq(Chars)
    PROVE  \E f \in [0..Len(T) -> Seq(Seq(Chars))] :
               /\ f[0] = <<>>
               /\ \A i \in 1..Len(T) : f[i] = IF T[i] = Space THEN f[i - 1]
                         ELSE IF i = 1 \/ T[i - 1] = Space THEN Append(f[i - 1], <<T[i]>>)
                         ELSE Extend(f[i - 1], T[i])
               /\ Words(T) = f[Len(T)]
<1> DEFINE N == Len(T)
           Z == Seq(Seq(Chars))
           Step(i, x) == IF T[i] = Space THEN x
                         ELSE IF i = 1 \/ T[i - 1] = Space THEN Append(x, <<T[i]>>)
                         ELSE Extend(x, T[i])
           G == [i \in 1..N |-> [x \in Z |-> Step(i, x)]]
           IsLoop(g) == g = [n \in 0..N |-> IF n = 0 THEN <<>> ELSE Step(n, g[n - 1])]
           g == CHOOSE f : IsLoop(f)
<1>1. Words(T) = g[N]
  BY DEF Words, Extend
<1>2. N \in Nat
  OBVIOUS
<1>3. \A i \in 1..N : \A x \in Z : Step(i, x) \in Z
  <2> TAKE i \in 1..N
  <2> TAKE x \in Z
  <2>1. T[i] \in Chars /\ <<T[i]>> \in Seq(Chars)
    OBVIOUS
  <2>2. Extend(x, T[i]) \in Z
    BY <2>1, ExtendIs DEF Extends
  <2>3. Append(x, <<T[i]>>) \in Z
    BY <2>1, AppendProperties
  <2> QED  BY <2>2, <2>3
<1>4. G \in [1..N -> [Z -> Z]]
  <2> HIDE DEF Z, N, Step
  <2> QED  BY <1>3
<1>5. PICK f \in [0..N -> Z] : f[0] = <<>> /\ \A i \in 1..N : f[i] = G[i][f[i - 1]]
  <2> DEFINE z == <<>>
  <2>1. z \in Z
    OBVIOUS
  <2> HIDE DEF Z, z, G, N
  <2>2. \E f \in [0..N -> Z] : Iterates(f, N, z, G)
    BY <1>2, <1>4, <2>1, Recursion
  <2> QED  BY <2>2 DEF Iterates, z
<1>6. \A i \in 1..N : f[i] = Step(i, f[i - 1])
  <2> TAKE i \in 1..N
  <2>1. i \in 0..N /\ i - 1 \in 0..N /\ i # 0
    BY <1>2
  <2>2. f[i - 1] \in Z
    BY <2>1
  <2> HIDE DEF Z, Step
  <2> QED  BY <1>5, <2>1, <2>2
<1>7. IsLoop(f)
  <2> HIDE DEF N, G
  <2>1. f = [n \in 0..N |-> f[n]]
    OBVIOUS
  <2>2. \A n \in 0..N : n = 0 \/ (n # 0 /\ n \in 1..N)
    BY <1>2
  <2>3. f[0] = <<>>
    BY <1>5
  <2>4. \A n \in 0..N : f[n] = IF n = 0 THEN <<>> ELSE Step(n, f[n - 1])
    <3> HIDE DEF Z, Step
    <3> QED  BY <1>6, <2>2, <2>3
  <2> HIDE DEF Step
  <2> QED  BY <2>1, <2>4
<1>8. IsLoop(g)
  <2> HIDE DEF IsLoop
  <2> QED  BY <1>7
<1> HIDE DEF g
<1>9. g[0] = <<>> /\ \A i \in 1..N : g[i] = Step(i, g[i - 1])
  <2> HIDE DEF N, Step
  <2>1. 0 \in 0..N /\ \A i \in 1..N : i \in 0..N /\ i # 0
    BY <1>2
  <2>2. \A n \in 0..N : g[n] = IF n = 0 THEN <<>> ELSE Step(n, g[n - 1])
    BY <1>8
  <2> QED  BY <2>1, <2>2
<1>10. \A i \in 0..N : g[i] = f[i]
  <2> DEFINE S == {i \in Nat : i <= N => g[i] = f[i]}
  <2> HIDE DEF Step
  <2>1. 0 \in S
    BY <1>5, <1>9
  <2>2. ASSUME NEW i \in Nat, i \in S PROVE i + 1 \in S
    <3> SUFFICES ASSUME i + 1 <= N PROVE g[i + 1] = f[i + 1]
      OBVIOUS
    <3>1. PICK j \in 1..N : j = i + 1
      BY <1>2
    <3>2. i = j - 1 /\ g[i] = f[i]
      BY <1>2, <2>2, <3>1
    <3> QED  BY <1>6, <1>9, <3>1, <3>2
  <2>3. \A i \in Nat : i \in S
    <3> HIDE DEF S
    <3> QED  BY <2>1, <2>2, InductionNat
  <2> QED  BY <1>2, <2>3
<1>11. g[N] = f[N]
  BY <1>2, <1>10
<1> QED  BY <1>1, <1>5, <1>6, <1>11

\* The loop of Joined.
LEMMA JoinedIs ==
    ASSUME NEW T \in Seq(Seq(Chars))
    PROVE  \E f \in [0..Len(T) -> Seq(Chars)] :
               /\ f[0] = <<>>
               /\ \A i \in 1..Len(T) : f[i] = f[i - 1] \o T[i]
               /\ Joined(T) = f[Len(T)]
<1> DEFINE N == Len(T)
           Z == Seq(Chars)
           Step(i, x) == x \o T[i]
           G == [i \in 1..N |-> [x \in Z |-> Step(i, x)]]
           IsLoop(g) == g = [n \in 0..N |-> IF n = 0 THEN <<>> ELSE Step(n, g[n - 1])]
           g == CHOOSE f : IsLoop(f)
<1>1. Joined(T) = g[N]
  BY DEF Joined
<1>2. N \in Nat
  OBVIOUS
<1>3. \A i \in 1..N : \A x \in Z : Step(i, x) \in Z
  <2> TAKE i \in 1..N
  <2> TAKE x \in Z
  <2>1. T[i] \in Seq(Chars)
    OBVIOUS
  <2> QED  BY <2>1, ConcatProperties
<1>4. G \in [1..N -> [Z -> Z]]
  <2> HIDE DEF Z, N, Step
  <2> QED  BY <1>3
<1>5. PICK f \in [0..N -> Z] : f[0] = <<>> /\ \A i \in 1..N : f[i] = G[i][f[i - 1]]
  <2> DEFINE z == <<>>
  <2>1. z \in Z
    OBVIOUS
  <2> HIDE DEF Z, z, G, N
  <2>2. \E f \in [0..N -> Z] : Iterates(f, N, z, G)
    BY <1>2, <1>4, <2>1, Recursion
  <2> QED  BY <2>2 DEF Iterates, z
<1>6. \A i \in 1..N : f[i] = Step(i, f[i - 1])
  <2> TAKE i \in 1..N
  <2>1. i \in 0..N /\ i - 1 \in 0..N /\ i # 0
    BY <1>2
  <2>2. f[i - 1] \in Z
    BY <2>1
  <2> HIDE DEF Z, Step
  <2> QED  BY <1>5, <2>1, <2>2
<1>7. IsLoop(f)
  <2> HIDE DEF N, G
  <2>1. f = [n \in 0..N |-> f[n]]
    OBVIOUS
  <2>2. \A n \in 0..N : n = 0 \/ (n # 0 /\ n \in 1..N)
    BY <1>2
  <2>3. f[0] = <<>>
    BY <1>5
  <2>4. \A n \in 0..N : f[n] = IF n = 0 THEN <<>> ELSE Step(n, f[n - 1])
    <3> HIDE DEF Z, Step
    <3> QED  BY <1>6, <2>2, <2>3
  <2> HIDE DEF Step
  <2> QED  BY <2>1, <2>4
<1>8. IsLoop(g)
  <2> HIDE DEF IsLoop
  <2> QED  BY <1>7
<1> HIDE DEF g
<1>9. g[0] = <<>> /\ \A i \in 1..N : g[i] = Step(i, g[i - 1])
  <2> HIDE DEF N, Step
  <2>1. 0 \in 0..N /\ \A i \in 1..N : i \in 0..N /\ i # 0
    BY <1>2
  <2>2. \A n \in 0..N : g[n] = IF n = 0 THEN <<>> ELSE Step(n, g[n - 1])
    BY <1>8
  <2> QED  BY <2>1, <2>2
<1>10. \A i \in 0..N : g[i] = f[i]
  <2> DEFINE S == {i \in Nat : i <= N => g[i] = f[i]}
  <2> HIDE DEF Step
  <2>1. 0 \in S
    BY <1>5, <1>9
  <2>2. ASSUME NEW i \in Nat, i \in S PROVE i + 1 \in S
    <3> SUFFICES ASSUME i + 1 <= N PROVE g[i + 1] = f[i + 1]
      OBVIOUS
    <3>1. PICK j \in 1..N : j = i + 1
      BY <1>2
    <3>2. i = j - 1 /\ g[i] = f[i]
      BY <1>2, <2>2, <3>1
    <3> QED  BY <1>6, <1>9, <3>1, <3>2
  <2>3. \A i \in Nat : i \in S
    <3> HIDE DEF S
    <3> QED  BY <2>1, <2>2, InductionNat
  <2> QED  BY <1>2, <2>3
<1>11. g[N] = f[N]
  BY <1>2, <1>10
<1> QED  BY <1>1, <1>5, <1>6, <1>11

LEMMA ExtendAppend ==
    ASSUME NEW r \in Seq(Seq(Chars)), NEW w \in Seq(Chars), NEW c \in Chars
    PROVE  Extend(Append(r, w), c) = Append(r, Append(w, c))
<1> DEFINE W == Seq(Chars)
           n == Len(r)
           s == Append(r, w)
           v == Append(w, c)
           t == Append(r, v)
           e == Extend(s, c)
<1>1. r \in Seq(W) /\ w \in W /\ v \in W /\ n \in Nat
  OBVIOUS
<1> HIDE DEF W, v
<1>2. /\ s \in Seq(W) /\ Len(s) = n + 1
      /\ \A i \in 1..n : s[i] = r[i]
      /\ s[n + 1] = w
  BY <1>1, AppendProperties
<1>3. /\ t \in Seq(W) /\ Len(t) = n + 1
      /\ \A i \in 1..n : t[i] = r[i]
      /\ t[n + 1] = v
  BY <1>1, AppendProperties
<1> HIDE DEF s, t, n
<1>4. /\ e \in Seq(W) /\ Len(e) = Len(s)
      /\ \A i \in 1..Len(s) : e[i] = IF i = Len(s) THEN Append(s[i], c) ELSE s[i]
  BY <1>2, ExtendIs DEF W, Extends
<1> HIDE DEF e
<1>5. IsSeq(e, n + 1) /\ IsSeq(t, n + 1) /\ n + 1 \in Nat
  BY <1>1, <1>2, <1>3, <1>4, FunctionIsSeq
<1>6. ASSUME NEW i \in 1..(n + 1) PROVE e[i] = t[i]
  <2>1. CASE i = n + 1
    BY <1>2, <1>3, <1>4, <2>1 DEF v
  <2>2. CASE i # n + 1
    <3>1. i \in 1..n
      BY <1>1, <2>2
    <3> QED  BY <1>2, <1>3, <1>4, <2>2, <3>1
  <2> QED  BY <2>1, <2>2
<1>7. e = t
  BY <1>5, <1>6, SeqsAreEqual
<1> QED  BY <1>7 DEF e, t, s, v

\* A sequence that is not empty is a sequence and a last element.
LEMMA LastOf ==
    ASSUME NEW S, NEW s \in Seq(S), Len(s) > 0
    PROVE  \E r \in Seq(S) : s = Append(r, s[Len(s)]) /\ Len(s) = Len(r) + 1
<1> DEFINE n == Len(s)
           r == SubSeq(s, 1, n - 1)
           t == Append(r, s[n])
<1>1. n \in Nat /\ n > 0 /\ s[n] \in S
  OBVIOUS
<1>2. /\ r \in Seq(S) /\ Len(r) = n - 1
      /\ \A i \in 1..(n - 1) : r[i] = s[i]
  <2>1. \A i \in 1..(n - 1) : s[i] \in S
    BY <1>1
  <2>2. /\ r \in Seq(S) /\ Len(r) = IF 1 <= n - 1 THEN (n - 1) - 1 + 1 ELSE 0
        /\ \A i \in 1..((n - 1) - 1 + 1) : r[i] = s[1 + i - 1]
    BY <1>1, <2>1, SubSeqProperties
  <2> HIDE DEF r, n
  <2>3. (n - 1) - 1 + 1 = n - 1 /\ (~(1 <= n - 1) => n - 1 = 0)
    BY <1>1
  <2>4. \A i \in 1..(n - 1) : 1 + i - 1 = i
    BY <1>1
  <2> QED  BY <2>2, <2>3, <2>4
<1> HIDE DEF r
<1>3. /\ t \in Seq(S) /\ Len(t) = n
      /\ \A i \in 1..(n - 1) : t[i] = r[i]
      /\ t[n] = s[n]
  <2>1. /\ t \in Seq(S) /\ Len(t) = Len(r) + 1
        /\ \A i \in 1..Len(r) : t[i] = r[i]
        /\ t[Len(r) + 1] = s[n]
    BY <1>1, <1>2, AppendProperties
  <2> HIDE DEF t
  <2> QED  BY <1>1, <1>2, <2>1
<1> HIDE DEF t
<1>4. IsSeq(s, n) /\ IsSeq(t, n)
  BY <1>3, FunctionIsSeq
<1>5. ASSUME NEW i \in 1..n PROVE s[i] = t[i]
  <2>1. i = n \/ i \in 1..(n - 1)
    BY <1>1
  <2> QED  BY <1>2, <1>3, <2>1
<1>6. s = t
  <2> HIDE DEF n
  <2> QED  BY <1>1, <1>4, <1>5, SeqsAreEqual
<1> QED  BY <1>1, <1>2, <1>6 DEF t

LEMMA ConcatAppend ==
    ASSUME NEW S, NEW r \in Seq(S), NEW s \in Seq(S), NEW w \in S
    PROVE  r \o Append(s, w) = Append(r \o s, w)
<1>1. <<w>> \in Seq(S) /\ r \o s \in Seq(S)
  OBVIOUS
<1>2. Append(s, w) = s \o <<w>> /\ Append(r \o s, w) = (r \o s) \o <<w>>
  BY <1>1, AppendIsConcat
<1>3. (r \o s) \o <<w>> = r \o (s \o <<w>>)
  BY <1>1, ConcatAssociative
<1> QED  BY <1>2, <1>3

\* Words put together are text, and a further word goes to its end.
LEMMA JoinedSeq == ASSUME NEW s \in Seq(Seq(Chars)) PROVE Joined(s) \in Seq(Chars)
<1>1. PICK f \in [0..Len(s) -> Seq(Chars)] : Joined(s) = f[Len(s)]
  BY JoinedIs
<1>2. Len(s) \in 0..Len(s)
  OBVIOUS
<1> QED  BY <1>1, <1>2

LEMMA JoinedEmpty == Joined(<<>>) = <<>>
<1> DEFINE s == <<>>
<1>1. s \in Seq(Seq(Chars)) /\ Len(s) = 0
  OBVIOUS
<1> HIDE DEF s
<1>2. PICK f \in [0..Len(s) -> Seq(Chars)] : f[0] = <<>> /\ Joined(s) = f[Len(s)]
  BY <1>1, JoinedIs
<1> QED  BY <1>1, <1>2 DEF s

LEMMA JoinedAppend ==
    ASSUME NEW s \in Seq(Seq(Chars)), NEW w \in Seq(Chars)
    PROVE  Joined(Append(s, w)) = Joined(s) \o w
<1> DEFINE W == Seq(Chars)
           n == Len(s)
           t == Append(s, w)
<1>1. n \in Nat /\ w \in W /\ s \in Seq(W)
  OBVIOUS
<1> HIDE DEF W
<1>2. /\ t \in Seq(W) /\ Len(t) = n + 1
      /\ \A i \in 1..n : t[i] = s[i]
      /\ t[n + 1] = w
  BY <1>1, AppendProperties
<1>3. PICK f \in [0..n -> W] :
         f[0] = <<>> /\ (\A i \in 1..n : f[i] = f[i - 1] \o s[i]) /\ Joined(s) = f[n]
  BY <1>1, JoinedIs DEF W
<1> HIDE DEF t
<1>4. PICK g \in [0..Len(t) -> W] :
         g[0] = <<>> /\ (\A i \in 1..Len(t) : g[i] = g[i - 1] \o t[i]) /\ Joined(t) = g[Len(t)]
  BY <1>2, JoinedIs DEF W
<1> HIDE DEF n
<1>5. \A i \in Nat : i <= n => g[i] = f[i]
  <2> DEFINE S == {i \in Nat : i <= n => g[i] = f[i]}
  <2>1. 0 \in S
    BY <1>3, <1>4
  <2>2. ASSUME NEW i \in Nat, i \in S PROVE i + 1 \in S
    <3> SUFFICES ASSUME i + 1 <= n PROVE g[i + 1] = f[i + 1]
      OBVIOUS
    <3>1. PICK j \in 1..n : j = i + 1
      BY <1>1
    <3>2. i = j - 1 /\ g[i] = f[i] /\ j \in 1..Len(t)
      BY <1>1, <1>2, <2>2, <3>1
    <3> QED  BY <1>2, <1>3, <1>4, <3>1, <3>2
  <2> HIDE DEF S
  <2>3. \A i \in Nat : i \in S
    BY <2>1, <2>2, InductionNat
  <2> QED  BY <2>3 DEF S
<1>6. PICK m \in 1..Len(t) : m = n + 1 /\ m - 1 = n /\ m = Len(t)
  BY <1>1, <1>2
<1>7. g[n] = f[n] /\ g[m] = g[m - 1] \o t[m]
  <2>1. n <= n
    BY <1>1
  <2>2. g[n] = f[n]
    BY <1>1, <1>5, <2>1
  <2> QED  BY <1>4, <2>2
<1>8. Joined(t) = Joined(s) \o w
  BY <1>2, <1>3, <1>4, <1>6, <1>7
<1> QED  BY <1>8 DEF t

LEMMA Assoc ==
    ASSUME NEW s \in Seq(Chars), NEW t \in Seq(Chars), NEW u \in Seq(Chars)
    PROVE  (s \o t) \o u = s \o (t \o u)
<1> DEFINE S == Chars
<1>1. s \in Seq(S) /\ t \in Seq(S) /\ u \in Seq(S)
  OBVIOUS
<1> HIDE DEF S
<1> QED  BY <1>1, ConcatAssociative

\* What the first of some words make is a prefix of what all of them make.
LEMMA JoinedConcat ==
    ASSUME NEW s \in Seq(Seq(Chars)), NEW t \in Seq(Seq(Chars))
    PROVE  \E u \in Seq(Chars) : Joined(s \o t) = Joined(s) \o u
<1> DEFINE W == Seq(Chars)
           Q(r) == \E u \in Seq(Chars) : Joined(s \o r) = Joined(s) \o u
           S == {n \in Nat : \A r \in Seq(W) : Len(r) = n => Q(r)}
<1>1. s \in Seq(W) /\ t \in Seq(W) /\ Joined(s) \in Seq(Chars)
  BY JoinedSeq
<1> HIDE DEF W
<1>2. 0 \in S
  <2> SUFFICES ASSUME NEW r \in Seq(W), Len(r) = 0 PROVE Q(r)
    <3> HIDE DEF Q
    <3> QED  OBVIOUS
  <2>1. r = <<>>
    BY EmptySeq
  <2>2. s \o r = s
    BY <1>1, <2>1, ConcatEmptySeq
  <2>3. Joined(s) = Joined(s) \o <<>>
    BY <1>1, ConcatEmptySeq
  <2>4. <<>> \in Seq(Chars)
    OBVIOUS
  <2> QED  BY <2>2, <2>3, <2>4
<1>3. ASSUME NEW n \in Nat, n \in S PROVE n + 1 \in S
  <2> SUFFICES ASSUME NEW r \in Seq(W), Len(r) = n + 1 PROVE Q(r)
    <3> HIDE DEF Q
    <3> QED  OBVIOUS
  <2>1. Len(r) > 0
    OBVIOUS
  <2>2. PICK q \in Seq(W) : r = Append(q, r[Len(r)]) /\ Len(r) = Len(q) + 1
    BY <2>1, LastOf
  <2>3. PICK w \in W : w = r[Len(r)] /\ r = Append(q, w)
    BY <2>1, <2>2
  <2>4. Len(q) = n
    BY <2>2
  <2>5. PICK u \in Seq(Chars) : Joined(s \o q) = Joined(s) \o u
    <3>1. Q(q)
      <4> HIDE DEF Q
      <4> QED  BY <1>3, <2>4
    <3> QED  BY <3>1
  <2>6. s \o r = Append(s \o q, w)
    BY <1>1, <2>3, ConcatAppend
  <2>7. s \o q \in Seq(W)
    BY <1>1, ConcatProperties
  <2>8. Joined(s \o r) = Joined(s \o q) \o w
    BY <2>6, <2>7, JoinedAppend DEF W
  <2>9. w \in Seq(Chars) /\ u \o w \in Seq(Chars)
    BY ConcatProperties DEF W
  <2>10. (Joined(s) \o u) \o w = Joined(s) \o (u \o w)
    BY <1>1, <2>9, Assoc, Zenon
  <2> QED  BY <2>5, <2>8, <2>9, <2>10
<1> HIDE DEF S
<1>4. \A n \in Nat : n \in S
  BY <1>2, <1>3, InductionNat
<1>5. Len(t) \in Nat
  OBVIOUS
<1>6. Q(t)
  <2> HIDE DEF Q
  <2> QED  BY <1>1, <1>4, <1>5 DEF S
<1> QED  BY <1>6

----------------------------------------------------------------------------
(* The pieces of a text.                                                   *)

\* The last piece fills an argument.
Full(s) == Len(s[Len(s)]) = MAX_ARG_LENGTH - 1

\* Every piece fits an argument.
Fits(s) == \A k \in 1..Len(s) : Len(s[k]) \in 1..(MAX_ARG_LENGTH - 1)

\* p[n] are the pieces of the first n characters: a new one begins after a space
\* and when the last one is full.
Pieces(p, T) ==
    /\ p \in [0..Len(T) -> Seq(Seq(Chars))]
    /\ p[0] = <<>>
    /\ \A i \in 1..Len(T) :
          p[i] = IF T[i] = Space THEN p[i - 1]
                 ELSE IF i = 1 \/ T[i - 1] = Space \/ Full(p[i - 1])
                      THEN Append(p[i - 1], <<T[i]>>)
                 ELSE Extend(p[i - 1], T[i])

LEMMA PiecesExist == ASSUME NEW T \in Seq(Chars) PROVE \E p : Pieces(p, T)
<1> DEFINE N == Len(T)
           Z == Seq(Seq(Chars))
           Step(i, x) == IF T[i] = Space THEN x
                         ELSE IF i = 1 \/ T[i - 1] = Space \/ Full(x)
                              THEN Append(x, <<T[i]>>)
                         ELSE Extend(x, T[i])
           G == [i \in 1..N |-> [x \in Z |-> Step(i, x)]]
           z == <<>>
<1>1. N \in Nat /\ z \in Z
  OBVIOUS
<1>2. \A i \in 1..N : \A x \in Z : Step(i, x) \in Z
  <2> TAKE i \in 1..N
  <2> TAKE x \in Z
  <2>1. T[i] \in Chars /\ <<T[i]>> \in Seq(Chars)
    OBVIOUS
  <2>2. Extend(x, T[i]) \in Z
    BY <2>1, ExtendIs DEF Extends
  <2>3. Append(x, <<T[i]>>) \in Z
    BY <2>1, AppendProperties
  <2> QED  BY <2>2, <2>3
<1>3. G \in [1..N -> [Z -> Z]]
  <2> HIDE DEF Z, N, Step
  <2> QED  BY <1>2
<1>4. PICK p \in [0..N -> Z] : p[0] = z /\ \A i \in 1..N : p[i] = G[i][p[i - 1]]
  <2> HIDE DEF Z, z, G, N
  <2>1. \E p \in [0..N -> Z] : Iterates(p, N, z, G)
    BY <1>1, <1>3, Recursion
  <2> QED  BY <2>1 DEF Iterates
<1>5. \A i \in 1..N : p[i] = Step(i, p[i - 1])
  <2> TAKE i \in 1..N
  <2>1. i - 1 \in 0..N
    BY <1>1
  <2>2. p[i - 1] \in Z
    BY <2>1
  <2> HIDE DEF Z, Step
  <2> QED  BY <1>4, <2>2
<1> QED  BY <1>4, <1>5 DEF Pieces

\* No piece is empty or outgrows an argument, and behind a letter there is one.
LEMMA PiecesFit ==
    ASSUME NEW T \in Seq(Chars), NEW p, Pieces(p, T), NEW n \in 0..Len(T)
    PROVE  /\ p[n] \in Seq(Seq(Chars))
           /\ Fits(p[n])
           /\ n # 0 /\ T[n] # Space => Len(p[n]) > 0
<1> DEFINE N == Len(T)
           W == Seq(Chars)
           M == MAX_ARG_LENGTH - 1
           Good(i) == Fits(p[i]) /\ (i # 0 /\ T[i] # Space => Len(p[i]) > 0)
           S == {i \in Nat : i <= N => Good(i)}
<1>1. N \in Nat /\ M \in Nat /\ M >= 1
  BY ShellAssumption
<1>2. \A i \in 0..N : p[i] \in Seq(W)
  BY DEF Pieces
<1>3. 0 \in S
  <2>1. Len(p[0]) = 0
    BY DEF Pieces
  <2> QED  BY <2>1 DEF Fits
<1>4. ASSUME NEW i \in Nat, i \in S PROVE i + 1 \in S
  <2> SUFFICES ASSUME i + 1 <= N PROVE Good(i + 1)
    OBVIOUS
  <2>1. PICK j \in 1..N : j = i + 1 /\ j - 1 = i /\ i \in 0..N
    BY <1>1
  <2>2. PICK s \in Seq(W) : s = p[i] /\ Fits(s) /\ (i # 0 /\ T[i] # Space => Len(s) > 0)
    BY <1>1, <1>2, <1>4, <2>1
  <2>3. PICK c \in Chars : c = T[j]
    BY <2>1
  <2>4. p[j] = IF c = Space THEN s
               ELSE IF j = 1 \/ T[i] = Space \/ Full(s) THEN Append(s, <<c>>)
               ELSE Extend(s, c)
    BY <2>1, <2>2, <2>3 DEF Pieces
  <2>5. CASE c = Space
    <3>1. p[j] = s
      BY <2>4, <2>5
    <3> QED  BY <2>1, <2>2, <2>3, <2>5, <3>1
  <2>6. CASE c # Space /\ (j = 1 \/ T[i] = Space \/ Full(s))
    <3>1. p[j] = Append(s, <<c>>)
      BY <2>4, <2>6
    <3>2. <<c>> \in W /\ Len(<<c>>) = 1
      BY <2>3
    <3> HIDE DEF W
    <3>3. /\ Len(p[j]) = Len(s) + 1
          /\ \A k \in 1..Len(s) : p[j][k] = s[k]
          /\ p[j][Len(s) + 1] = <<c>>
      BY <3>1, <3>2, AppendProperties
    <3>4. Len(s) \in Nat
      OBVIOUS
    <3>5. ASSUME NEW k \in 1..Len(p[j]) PROVE Len(p[j][k]) \in 1..M
      <4>1. k \in 1..Len(s) \/ k = Len(s) + 1
        BY <3>3, <3>4
      <4>2. CASE k \in 1..Len(s)
        BY <2>2, <3>3, <4>2 DEF Fits
      <4>3. CASE k = Len(s) + 1
        <5>1. p[j][k] = <<c>>
          BY <3>3, <4>3
        <5> QED  BY <1>1, <3>2, <5>1
      <4> QED  BY <4>1, <4>2, <4>3
    <3>6. Len(p[j]) > 0
      BY <3>3, <3>4
    <3> QED  BY <2>1, <3>5, <3>6 DEF Fits
  <2>7. CASE c # Space /\ ~(j = 1 \/ T[i] = Space \/ Full(s))
    <3>1. p[j] = Extend(s, c)
      BY <2>4, <2>7
    <3>2. Len(s) \in Nat /\ Len(s) > 0
      BY <2>1, <2>2, <2>7
    <3>3. /\ Len(p[j]) = Len(s)
          /\ \A k \in 1..Len(s) : p[j][k] = IF k = Len(s) THEN Append(s[k], c) ELSE s[k]
      <4> DEFINE e == Extend(s, c)
      <4>1. /\ Len(e) = Len(s)
            /\ \A k \in 1..Len(s) : e[k] = IF k = Len(s) THEN Append(s[k], c) ELSE s[k]
        <5>1. Extends(e, s, c)
          BY <2>2, <2>3, ExtendIs, Zenon
        <5> QED  BY <5>1 DEF Extends
      <4>2. p[j] = e
        BY <3>1
      <4> HIDE DEF e
      <4> QED  BY <4>1, <4>2
    <3>4. ASSUME NEW k \in 1..Len(p[j]) PROVE Len(p[j][k]) \in 1..M
      <4>1. k \in 1..Len(s) /\ s[k] \in W /\ Len(s[k]) \in 1..M
        BY <2>2, <3>3 DEF Fits
      <4>2. CASE k = Len(s)
        <5>1. Len(s[k]) # M
          BY <2>7, <4>2 DEF Full
        <5>2. Len(Append(s[k], c)) = Len(s[k]) + 1
          BY <4>1
        <5>3. p[j][k] = Append(s[k], c)
          BY <3>3, <4>1, <4>2
        <5> QED  BY <1>1, <4>1, <5>1, <5>2, <5>3
      <4> QED  BY <3>3, <4>1, <4>2
    <3> QED  BY <2>1, <3>2, <3>3, <3>4 DEF Fits
  <2> QED  BY <2>5, <2>6, <2>7
<1>5. \A i \in Nat : i \in S
  <2> HIDE DEF S
  <2> QED  BY <1>3, <1>4, InductionNat
<1>6. Good(n)
  <2> HIDE DEF Good
  <2> QED  BY <1>1, <1>5
<1> QED  BY <1>2, <1>6

\* Put together, the pieces are the letters.
LEMMA PiecesJoined ==
    ASSUME NEW T \in Seq(Chars), NEW p, Pieces(p, T)
    PROVE  Joined(p[Len(T)]) = Letters(T)
<1> DEFINE N == Len(T)
           W == Seq(Chars)
<1>1. N \in Nat
  OBVIOUS
<1>2. \A i \in 0..N : p[i] \in Seq(W)
  BY DEF Pieces
<1>3. PICK l \in [0..N -> W] :
         /\ l[0] = <<>>
         /\ \A i \in 1..N : l[i] = IF T[i] = Space THEN l[i - 1] ELSE Append(l[i - 1], T[i])
         /\ Letters(T) = l[N]
  BY LettersIs
<1> DEFINE S == {i \in Nat : i <= N => Joined(p[i]) = l[i]}
<1>4. 0 \in S
  BY <1>3, JoinedEmpty DEF Pieces
<1>5. ASSUME NEW i \in Nat, i \in S PROVE i + 1 \in S
  <2> SUFFICES ASSUME i + 1 <= N PROVE Joined(p[i + 1]) = l[i + 1]
    OBVIOUS
  <2>1. PICK j \in 1..N : j = i + 1 /\ j - 1 = i /\ i \in 0..N
    BY <1>1
  <2>2. PICK s \in Seq(W) : s = p[i] /\ Joined(s) = l[i]
    BY <1>1, <1>2, <1>5, <2>1
  <2>3. PICK c \in Chars : c = T[j]
    BY <2>1
  <2>4. p[j] = IF c = Space THEN s
               ELSE IF j = 1 \/ T[i] = Space \/ Full(s) THEN Append(s, <<c>>)
               ELSE Extend(s, c)
    BY <2>1, <2>2, <2>3 DEF Pieces
  <2>5. l[j] = IF c = Space THEN Joined(s) ELSE Append(Joined(s), c)
    BY <1>3, <2>1, <2>2, <2>3
  <2>6. Joined(s) \in Seq(Chars) /\ <<c>> \in W
    BY JoinedSeq
  <2>7. CASE c = Space
    BY <2>1, <2>4, <2>5, <2>7
  <2>8. CASE c # Space /\ (j = 1 \/ T[i] = Space \/ Full(s))
    <3>1. p[j] = Append(s, <<c>>)
      BY <2>4, <2>8
    <3>2. Joined(Append(s, <<c>>)) = Joined(s) \o <<c>>
      BY <2>6, JoinedAppend
    <3>3. Append(Joined(s), c) = Joined(s) \o <<c>>
      BY <2>6, AppendIsConcat
    <3> QED  BY <2>1, <2>5, <2>8, <3>1, <3>2, <3>3
  <2>9. CASE c # Space /\ ~(j = 1 \/ T[i] = Space \/ Full(s))
    <3>1. p[j] = Extend(s, c)
      BY <2>4, <2>9
    <3>2. i # 0 /\ T[i] # Space
      BY <2>1, <2>9
    <3>3. Len(s) > 0
      BY <2>1, <2>2, <3>2, PiecesFit
    <3>4. PICK r \in Seq(W), w \in W : s = Append(r, w)
      <4>1. s[Len(s)] \in W
        BY <3>3
      <4> HIDE DEF W
      <4> QED  BY <3>3, <4>1, LastOf
    <3>5. Extend(s, c) = Append(r, Append(w, c)) /\ Append(w, c) \in W
      BY <3>4, ExtendAppend
    <3>6. Joined(r) \in W
      BY JoinedSeq
    <3>7. Joined(s) = Joined(r) \o w /\ Joined(p[j]) = Joined(r) \o Append(w, c)
      BY <3>1, <3>4, <3>5, JoinedAppend
    <3>8. Joined(r) \o Append(w, c) = Append(Joined(r) \o w, c)
      BY <3>6, ConcatAppend
    <3> QED  BY <2>1, <2>5, <2>9, <3>7, <3>8
  <2> QED  BY <2>7, <2>8, <2>9
<1>6. \A i \in Nat : i \in S
  <2> HIDE DEF S
  <2> QED  BY <1>4, <1>5, InductionNat
<1> QED  BY <1>1, <1>3, <1>6

\* While every word fits an argument, the pieces are the words.
LEMMA PiecesAreWords ==
    ASSUME NEW T \in Seq(Chars), NEW p, Pieces(p, T),
           \A k \in 1..Len(Words(T)) : Len(Words(T)[k]) < MAX_ARG_LENGTH
    PROVE  p[Len(T)] = Words(T)
<1> DEFINE N == Len(T)
           W == Seq(Chars)
           Short(s) == \A k \in 1..Len(s) : Len(s[k]) < MAX_ARG_LENGTH
<1>1. N \in Nat /\ MAX_ARG_LENGTH \in Nat
  BY ShellAssumption
<1>2. PICK w \in [0..N -> Seq(W)] :
         /\ w[0] = <<>>
         /\ \A i \in 1..N : w[i] = IF T[i] = Space THEN w[i - 1]
                                   ELSE IF i = 1 \/ T[i - 1] = Space
                                        THEN Append(w[i - 1], <<T[i]>>)
                                   ELSE Extend(w[i - 1], T[i])
         /\ Words(T) = w[N]
  BY WordsIs
<1> DEFINE S == {i \in Nat : i <= N => (Short(w[i]) => p[i] = w[i])}
<1>3. 0 \in S
  BY <1>2 DEF Pieces
<1>4. ASSUME NEW i \in Nat, i \in S PROVE i + 1 \in S
  <2> SUFFICES ASSUME i + 1 <= N, Short(w[i + 1]) PROVE p[i + 1] = w[i + 1]
    <3> HIDE DEF Short
    <3> QED  OBVIOUS
  <2>1. PICK j \in 1..N : j = i + 1 /\ j - 1 = i /\ i \in 0..N
    BY <1>1
  <2>2. PICK s \in Seq(W) : s = w[i]
    BY <1>2, <2>1
  <2>3. Short(s) => p[i] = s
    <3> HIDE DEF Short
    <3> QED  BY <1>1, <1>4, <2>1, <2>2
  <2>4. PICK c \in Chars : c = T[j]
    BY <2>1
  <2>5. w[j] = IF c = Space THEN s
               ELSE IF j = 1 \/ T[i] = Space THEN Append(s, <<c>>)
               ELSE Extend(s, c)
    BY <1>2, <2>1, <2>2, <2>4
  <2>6. p[j] = IF c = Space THEN p[i]
               ELSE IF j = 1 \/ T[i] = Space \/ Full(p[i]) THEN Append(p[i], <<c>>)
               ELSE Extend(p[i], c)
    BY <2>1, <2>4 DEF Pieces
  <2>7. Short(w[j])
    BY <2>1
  <2>8. CASE c = Space
    <3>1. w[j] = s /\ p[j] = p[i]
      BY <2>5, <2>6, <2>8
    <3>2. Short(s)
      BY <2>7, <3>1
    <3> HIDE DEF Short
    <3> QED  BY <2>1, <2>3, <3>1, <3>2
  <2>9. CASE c # Space /\ (j = 1 \/ T[i] = Space)
    <3>1. w[j] = Append(s, <<c>>) /\ p[j] = Append(p[i], <<c>>)
      BY <2>5, <2>6, <2>9
    <3>2. <<c>> \in W
      BY <2>4
    <3> HIDE DEF W
    <3>3. /\ Len(w[j]) = Len(s) + 1
          /\ \A k \in 1..Len(s) : w[j][k] = s[k]
      BY <2>2, <3>1, <3>2, AppendProperties
    <3>4. Len(s) \in Nat
      BY <2>2
    <3>5. Short(s)
      BY <2>7, <3>3, <3>4
    <3> HIDE DEF Short
    <3> QED  BY <2>1, <2>3, <3>1, <3>5
  <2>10. CASE c # Space /\ ~(j = 1 \/ T[i] = Space)
    <3>1. w[j] = Extend(s, c)
      BY <2>5, <2>10
    <3>2. /\ Len(w[j]) = Len(s)
          /\ \A k \in 1..Len(s) : w[j][k] = IF k = Len(s) THEN Append(s[k], c) ELSE s[k]
      <4> DEFINE e == Extend(s, c)
      <4>1. /\ Len(e) = Len(s)
            /\ \A k \in 1..Len(s) : e[k] = IF k = Len(s) THEN Append(s[k], c) ELSE s[k]
        <5>1. Extends(e, s, c)
          BY <2>2, <2>4, ExtendIs, Zenon
        <5> QED  BY <5>1 DEF Extends
      <4>2. w[j] = e
        BY <3>1
      <4> HIDE DEF e
      <4> QED  BY <4>1, <4>2
    <3>3. \A k \in 1..Len(s) : Len(s[k]) \in Nat /\ Len(Append(s[k], c)) = Len(s[k]) + 1
      <4> TAKE k \in 1..Len(s)
      <4>1. s[k] \in W
        BY <2>2
      <4> QED  BY <2>4, <4>1
    <3>4. ASSUME NEW k \in 1..Len(s)
          PROVE  Len(s[k]) < MAX_ARG_LENGTH /\ (k = Len(s) => Len(s[k]) < MAX_ARG_LENGTH - 1)
      <4>1. Len(w[j][k]) < MAX_ARG_LENGTH
        BY <2>7, <3>2
      <4>2. Len(s[k]) \in Nat /\ Len(Append(s[k], c)) = Len(s[k]) + 1
        BY <3>3
      <4>3. CASE k = Len(s)
        <5>1. w[j][k] = Append(s[k], c)
          BY <3>2, <4>3
        <5> QED  BY <1>1, <4>1, <4>2, <5>1
      <4>4. CASE k # Len(s)
        <5>1. w[j][k] = s[k]
          BY <3>2, <4>4
        <5> QED  BY <4>1, <4>4, <5>1
      <4> QED  BY <4>3, <4>4
    <3>5. Short(s)
      BY <3>4
    <3>6. p[i] = s
      <4> HIDE DEF Short
      <4> QED  BY <2>3, <3>5
    <3>7. i # 0 /\ T[i] # Space
      BY <2>1, <2>10
    <3>8. Len(s) > 0
      BY <2>1, <3>6, <3>7, PiecesFit
    <3>9. ~Full(s)
      <4>1. PICK k \in 1..Len(s) : k = Len(s)
        BY <2>2, <3>8
      <4>2. Len(s[k]) < MAX_ARG_LENGTH - 1 /\ Len(s[k]) \in Nat
        BY <3>3, <3>4, <4>1
      <4> QED  BY <1>1, <4>1, <4>2 DEF Full
    <3>10. p[j] = Extend(s, c)
      BY <2>6, <2>10, <3>6, <3>9
    <3> QED  BY <2>1, <3>1, <3>10
  <2> QED  BY <2>8, <2>9, <2>10
<1>5. \A i \in Nat : i \in S
  <2> HIDE DEF S
  <2> QED  BY <1>3, <1>4, InductionNat
<1>6. Short(w[N])
  BY <1>2
<1> HIDE DEF Short
<1> QED  BY <1>1, <1>2, <1>5, <1>6

----------------------------------------------------------------------------
(* What parse_args finds.                                                  *)

\* The first loop stops at a letter or at the end.
LEMMA SkipIs ==
    ASSUME NEW T \in Seq(Chars), NEW i \in 1..(Len(T) + 1)
    PROVE  /\ Skip(T, i) \in i..(Len(T) + 1)
           /\ \A k \in i..(Skip(T, i) - 1) : T[k] = Space
           /\ Skip(T, i) = Len(T) + 1 \/ T[Skip(T, i)] # Space
<1> DEFINE N == Len(T)
           A == {k \in i..(N + 1) : k = N + 1 \/ T[k] # Space}
           first == Least(A)
<1>1. N \in Nat /\ i \in Nat /\ i >= 1 /\ i <= N + 1
  OBVIOUS
<1>2. A \subseteq Nat /\ A # {}
  <2>1. N + 1 \in A
    BY <1>1
  <2>2. A \subseteq Nat
    BY <1>1
  <2> QED  BY <2>1, <2>2
<1>3. first \in A /\ \A k \in A : first <= k
  <2> HIDE DEF A
  <2>1. \E a \in A : \A b \in A : a <= b
    BY <1>2, LeastNat
  <2> QED  BY <2>1 DEF Least
<1>4. Skip(T, i) = first
  BY DEF Skip
<1> HIDE DEF first, N
<1>5. first \in i..(N + 1) /\ (first = N + 1 \/ T[first] # Space)
  BY <1>3
<1>6. \A k \in i..(first - 1) : T[k] = Space
  <2> TAKE k \in i..(first - 1)
  <2>1. k \in i..(N + 1) /\ k < first
    BY <1>1, <1>5
  <2> QED  BY <1>1, <1>3, <1>5, <2>1
<1> QED  BY <1>4, <1>5, <1>6 DEF N

\* The second stops at a space, at the end, or when the argument is full.
LEMMA ResumeIs ==
    ASSUME NEW T \in Seq(Chars), NEW i \in 1..Len(T), T[i] # Space
    PROVE  LET next == Resume(T, i)
           IN  /\ next \in (i + 1)..(Len(T) + 1)
               /\ next <= i + MAX_ARG_LENGTH - 1
               /\ \A k \in i..(next - 1) : T[k] # Space
               /\ \/ next = Len(T) + 1 \/ T[next] = Space
                  \/ next = i + MAX_ARG_LENGTH - 1
<1> DEFINE N == Len(T)
           F == i + MAX_ARG_LENGTH - 1
           A == {k \in i..(N + 1) : k = N + 1 \/ T[k] = Space \/ k = F}
           next == Least(A)
<1>1. N \in Nat /\ i \in Nat /\ i >= 1 /\ i <= N /\ F \in Nat /\ F > i
  BY ShellAssumption
<1> HIDE DEF F
<1>2. A \subseteq Nat /\ N + 1 \in A
  BY <1>1
<1>3. next \in A /\ \A k \in A : next <= k
  <2> HIDE DEF A
  <2>1. \E a \in A : \A b \in A : a <= b
    BY <1>2, LeastNat
  <2> QED  BY <2>1 DEF Least
<1>4. Resume(T, i) = next
  BY DEF Resume, F
<1> HIDE DEF next, N
<1>5. next \in i..(N + 1) /\ (next = N + 1 \/ T[next] = Space \/ next = F)
  BY <1>3
<1>6. next # i
  BY <1>1, <1>5
<1>7. next <= F
  <2>1. CASE F \in A
    BY <1>3, <2>1
  <2>2. CASE F \notin A
    <3>1. F > N + 1
      BY <1>1, <2>2
    <3> QED  BY <1>1, <1>5, <3>1
  <2> QED  BY <2>1, <2>2
<1>8. \A k \in i..(next - 1) : T[k] # Space
  <2> TAKE k \in i..(next - 1)
  <2>1. k \in i..(N + 1) /\ k < next
    BY <1>1, <1>5
  <2> QED  BY <1>1, <1>3, <1>5, <2>1
<1>9. next \in (i + 1)..(N + 1)
  BY <1>1, <1>5, <1>6
<1> QED  BY <1>4, <1>5, <1>7, <1>8, <1>9 DEF N, F

\* Spaces make no piece.
LEMMA SpacesMakeNone ==
    ASSUME NEW T \in Seq(Chars), NEW p, Pieces(p, T), NEW i \in 0..Len(T), NEW j \in i..Len(T),
           \A k \in (i + 1)..j : T[k] = Space
    PROVE  p[j] = p[i]
<1> DEFINE N == Len(T)
           S == {d \in Nat : i + d <= j => p[i + d] = p[i]}
<1>1. N \in Nat /\ i \in Nat /\ j \in Nat /\ i <= j /\ j <= N
  OBVIOUS
<1>2. 0 \in S
  BY <1>1
<1>3. ASSUME NEW d \in Nat, d \in S PROVE d + 1 \in S
  <2> SUFFICES ASSUME i + (d + 1) <= j PROVE p[i + (d + 1)] = p[i]
    OBVIOUS
  <2>1. PICK k \in 1..N : k = i + (d + 1) /\ k - 1 = i + d /\ k \in (i + 1)..j
    BY <1>1
  <2>2. p[k] = p[k - 1]
    BY <2>1 DEF Pieces
  <2>3. p[i + d] = p[i]
    BY <1>1, <1>3, <2>1
  <2> QED  BY <2>1, <2>2, <2>3
<1> HIDE DEF S
<1>4. \A d \in Nat : d \in S
  BY <1>2, <1>3, InductionNat
<1>5. PICK d \in Nat : d = j - i /\ i + d = j
  BY <1>1
<1>6. d \in S /\ i + d <= j
  BY <1>1, <1>4, <1>5
<1>7. p[i + d] = p[i]
  BY <1>6 DEF S
<1> QED  BY <1>5, <1>7

\* Letters that an argument holds make one piece, where one begins.
LEMMA RunMakesOne ==
    ASSUME NEW T \in Seq(Chars), NEW p, Pieces(p, T), NEW i \in 1..Len(T), NEW j \in i..Len(T),
           i = 1 \/ T[i - 1] = Space \/ Full(p[i - 1]),
           \A k \in i..j : T[k] # Space,
           j < i + MAX_ARG_LENGTH - 1
    PROVE  p[j] = Append(p[i - 1], SubSeq(T, i, j))
<1> DEFINE N == Len(T)
           W == Seq(Chars)
           M == MAX_ARG_LENGTH - 1
           r == p[i - 1]
           Run(l) == SubSeq(T, i, l)
           S == {d \in Nat : i + d <= j => p[i + d] = Append(r, Run(i + d))}
<1>1. /\ N \in Nat /\ i \in Nat /\ j \in Nat /\ 1 <= i /\ i <= j /\ j <= N
      /\ M \in Nat /\ j - i < M
  BY ShellAssumption
<1>2. r \in Seq(W)
  <2>1. i - 1 \in 0..N
    BY <1>1
  <2> QED  BY <2>1 DEF Pieces
<1>3. \A l \in i..j : Run(l) \in W /\ Len(Run(l)) = l - i + 1
  <2> TAKE l \in i..j
  <2>1. \A k \in i..l : T[k] \in Chars
    BY <1>1
  <2>2. Run(l) \in W /\ Len(Run(l)) = IF i <= l THEN l - i + 1 ELSE 0
    BY <1>1, <2>1, SubSeqProperties
  <2> QED  BY <1>1, <2>2
<1>4. Run(i) = <<T[i]>>
  <2>1. \A k \in i..i : T[k] \in Chars
    BY <1>1
  <2>2. /\ Len(Run(i)) = IF i <= i THEN i - i + 1 ELSE 0
        /\ \A k \in 1..(i - i + 1) : Run(i)[k] = T[i + k - 1]
        /\ Run(i) \in W
    BY <1>1, <2>1, SubSeqProperties
  <2> HIDE DEF Run, W
  <2>3. Run(i) \in Seq(Chars) /\ Len(Run(i)) = 1
    BY <1>1, <2>2 DEF W
  <2>4. IsSeq(Run(i), 1) /\ IsSeq(<<T[i]>>, 1) /\ <<T[i]>>[1] = T[i]
    BY <2>3, FunctionIsSeq, SingleIs
  <2>5. Run(i)[1] = T[i]
    BY <1>1, <2>2
  <2>6. \A k \in 1..1 : Run(i)[k] = <<T[i]>>[k]
    BY <2>4, <2>5
  <2> QED  BY <2>4, <2>6, SeqsAreEqual
<1>5. \A l \in i..(j - 1) : Append(Run(l), T[l + 1]) = Run(l + 1)
  <2> TAKE l \in i..(j - 1)
  <2> DEFINE u == Append(Run(l), T[l + 1])
             v == Run(l + 1)
             n == l - i + 1
  <2>1. l + 1 \in i..j /\ l \in i..j /\ n \in Nat /\ (l + 1) - i + 1 = n + 1
        /\ l - i + 1 = n /\ 1 <= i /\ i <= N + 1 /\ i - 1 <= l /\ l + 1 <= N /\ l \in Nat
    BY <1>1
  <2>2. IsSeq(T, N)
    BY FunctionIsSeq
  <2>3. IsSeq(Run(l), n) /\ \A k \in 1..n : Run(l)[k] = T[i + k - 1]
    <3>1. l \in (i - 1)..N /\ i \in 1..(N + 1)
      BY <1>1, <2>1
    <3> HIDE DEF N
    <3>2. /\ IsSeq(SubSeq(T, i, l), l - i + 1)
          /\ \A k \in 1..(l - i + 1) : SubSeq(T, i, l)[k] = T[i + k - 1]
      BY <1>1, <2>2, <3>1, SubSeqIs
    <3> QED  BY <3>2
  <2>4. IsSeq(v, n + 1) /\ \A k \in 1..(n + 1) : v[k] = T[i + k - 1]
    <3>1. PICK m : m = l + 1 /\ m \in (i - 1)..N /\ i \in 1..(N + 1)
      BY <1>1, <2>1
    <3> HIDE DEF N
    <3>2. /\ IsSeq(SubSeq(T, i, m), m - i + 1)
          /\ \A k \in 1..(m - i + 1) : SubSeq(T, i, m)[k] = T[i + k - 1]
      BY <1>1, <2>2, <3>1, SubSeqIs
    <3>3. v = SubSeq(T, i, m) /\ m - i + 1 = n + 1
      BY <2>1, <3>1
    <3> QED  BY <3>2, <3>3
  <2> DEFINE x == T[l + 1]
             s == Run(l)
  <2> HIDE DEF Run, n, x, s
  <2>a. IsSeq(s, n) /\ u = Append(s, x)
    BY <2>3 DEF x, s
  <2>5. /\ IsSeq(u, n + 1)
        /\ \A k \in 1..n : u[k] = Run(l)[k]
        /\ u[n + 1] = T[l + 1]
    <3>1. /\ IsSeq(Append(s, x), n + 1)
          /\ \A k \in 1..n : Append(s, x)[k] = s[k]
          /\ Append(s, x)[n + 1] = x
      <4>1. n \in Nat /\ IsSeq(s, n)
        BY <2>1, <2>a
      <4> HIDE DEF u, v
      <4> QED  BY <4>1, AppendSeq DEF IsSeq
    <3> HIDE DEF u
    <3>2. s = Run(l) /\ x = T[l + 1]
      BY DEF s, x
    <3> QED  BY <2>a, <3>1, <3>2
  <2> HIDE DEF u, v
  <2>6. ASSUME NEW k \in 1..(n + 1) PROVE u[k] = v[k]
    <3>1. CASE k = n + 1
      <4>1. i + k - 1 = l + 1
        BY <1>1, <2>1, <3>1 DEF n
      <4> QED  BY <2>4, <2>5, <3>1, <4>1
    <3>2. CASE k # n + 1
      <4>1. k \in 1..n
        BY <2>1, <3>2
      <4> QED  BY <2>3, <2>4, <2>5, <4>1
    <3> QED  BY <3>1, <3>2
  <2>7. u = v
    <3>1. PICK m \in Nat : m = n + 1
      BY <2>1
    <3> QED  BY <2>4, <2>5, <2>6, <3>1, SeqsAreEqual
  <2> QED  BY <2>7 DEF u, v
<1>6. 0 \in S
  <2>1. p[i] = Append(p[i - 1], <<T[i]>>)
    <3>1. T[i] # Space
      BY <1>1
    <3> QED  BY <1>1, <3>1 DEF Pieces
  <2>2. i + 0 = i
    BY <1>1
  <2> HIDE DEF Run
  <2> QED  BY <1>4, <2>1, <2>2
<1> HIDE DEF Run, r
<1>7. ASSUME NEW d \in Nat, d \in S PROVE d + 1 \in S
  <2> SUFFICES ASSUME i + (d + 1) <= j PROVE p[i + (d + 1)] = Append(r, Run(i + (d + 1)))
    OBVIOUS
  <2>1. PICK k \in 1..N, l \in i..(j - 1) :
           k = i + (d + 1) /\ l = i + d /\ k = l + 1 /\ k - 1 = l /\ k \in i..j /\ l \in i..j
           /\ k # 1
    BY <1>1
  <2>2. p[l] = Append(r, Run(l))
    BY <1>1, <1>7, <2>1
  <2>3. PICK w \in W : w = Run(l) /\ Len(w) = l - i + 1
    BY <1>3, <2>1
  <2>4. PICK c \in Chars : c = T[k] /\ c # Space
    BY <2>1
  <2>5. T[l] # Space
    BY <2>1
  <2>6. ~Full(p[l])
    <3>1. w \in W /\ r \in Seq(W)
      BY <1>2, <2>3
    <3> HIDE DEF W
    <3>2. /\ Len(Append(r, w)) = Len(r) + 1
          /\ Append(r, w)[Len(r) + 1] = w
      BY <3>1, AppendProperties
    <3>3. Full(p[l]) <=> Len(w) = M
      BY <2>2, <2>3, <3>2 DEF Full
    <3>4. Len(w) < M
      BY <1>1, <2>1, <2>3
    <3> QED  BY <1>1, <3>3, <3>4
  <2>7. p[k] = Extend(p[l], c)
    <3>1. p[k] = IF T[k] = Space THEN p[k - 1]
                 ELSE IF k = 1 \/ T[k - 1] = Space \/ Full(p[k - 1])
                      THEN Append(p[k - 1], <<T[k]>>)
                 ELSE Extend(p[k - 1], T[k])
      BY <2>1 DEF Pieces
    <3> QED  BY <2>1, <2>4, <2>5, <2>6, <3>1
  <2>8. Extend(Append(r, w), c) = Append(r, Append(w, c))
    BY <1>2, <2>3, <2>4, ExtendAppend
  <2>9. Append(w, c) = Run(k)
    BY <1>5, <2>1, <2>3, <2>4
  <2> QED  BY <2>1, <2>2, <2>3, <2>7, <2>8, <2>9
<1> HIDE DEF S
<1>8. \A d \in Nat : d \in S
  BY <1>6, <1>7, InductionNat
<1>9. PICK d \in Nat : d = j - i /\ i + d = j
  BY <1>1
<1>10. p[j] = Append(r, Run(j))
  <2>1. d \in S /\ i + d <= j
    BY <1>1, <1>8, <1>9
  <2>2. p[i + d] = Append(r, Run(i + d))
    BY <2>1 DEF S
  <2> QED  BY <1>9, <2>2
<1> QED  BY <1>10 DEF r, Run

LEMMA AppendConcat ==
    ASSUME NEW r \in Seq(Seq(Chars)), NEW w \in Seq(Chars), NEW t \in Seq(Seq(Chars))
    PROVE  Append(r, w) \o t = r \o (<<w>> \o t)
<1> DEFINE S == Seq(Chars)
           u == <<w>>
<1>1. r \in Seq(S) /\ t \in Seq(S) /\ w \in S /\ u \in Seq(S)
  OBVIOUS
<1> HIDE DEF S
<1>2. Append(r, w) = r \o u
  BY <1>1, AppendIsConcat
<1> HIDE DEF u
<1>3. (r \o u) \o t = r \o (u \o t)
  BY <1>1, ConcatAssociative
<1> QED  BY <1>2, <1>3 DEF u

LEMMA LastAppended ==
    ASSUME NEW S, NEW r \in Seq(S), NEW w \in S
    PROVE  Append(r, w)[Len(Append(r, w))] = w
<1> DEFINE s == Append(r, w)
<1>1. Len(s) = Len(r) + 1 /\ s[Len(r) + 1] = w
  BY AppendProperties
<1> HIDE DEF s
<1>2. s[Len(s)] = w
  BY <1>1
<1> QED  BY <1>2 DEF s

\* The arguments are the first of the pieces.
LEMMA ArgumentsArePieces ==
    ASSUME NEW T \in Seq(Chars), NEW p, Pieces(p, T)
    PROVE  parse_args(T) = FirstArgs(p[Len(T)])
<1> DEFINE N == Len(T)
           W == Seq(Chars)
           D == 1..(N + 1)
           Z == Seq(W)
           E == {i \in D : Skip(T, i) > N}
           Resumed(i) == Resume(T, Skip(T, i))
           Arg(i) == SubSeq(T, Skip(T, i), Resumed(i) - 1)
           q == [i \in D |-> IF i \in E THEN i ELSE Resumed(i)]
           m == [i \in D |-> N + 1 - i]
           z == [i \in D |-> <<>>]
           G == [i \in D |-> [x \in Z |-> IF i \in E THEN x ELSE <<Arg(i)>> \o x]]
           IsLoop(g) == g = [i \in D |-> IF Skip(T, i) > N THEN <<>>
                                         ELSE <<Arg(i)>> \o g[Resumed(i)]]
           g == CHOOSE f : IsLoop(f)
<1>1. N \in Nat /\ 1 \in D /\ MAX_ARG_LENGTH \in Nat /\ MAX_ARG_LENGTH >= 2
  BY ShellAssumption
<1>2. parse_args(T) = FirstArgs(g[1])
  BY DEF parse_args, FirstArgs
<1>3. \A i \in D : /\ Skip(T, i) \in i..(N + 1)
                   /\ \A k \in i..(Skip(T, i) - 1) : T[k] = Space
                   /\ i \notin E => Skip(T, i) \in 1..N /\ T[Skip(T, i)] # Space
  <2> TAKE i \in D
  <2>1. /\ Skip(T, i) \in i..(N + 1)
        /\ \A k \in i..(Skip(T, i) - 1) : T[k] = Space
        /\ Skip(T, i) = N + 1 \/ T[Skip(T, i)] # Space
    BY SkipIs
  <2>2. i \notin E => ~(Skip(T, i) > N)
    OBVIOUS
  <2> QED  BY <1>1, <2>1, <2>2
<1>4. \A i \in D : i \notin E =>
         /\ Resumed(i) \in (Skip(T, i) + 1)..(N + 1)
         /\ Resumed(i) <= Skip(T, i) + MAX_ARG_LENGTH - 1
         /\ \A k \in Skip(T, i)..(Resumed(i) - 1) : T[k] # Space
         /\ Resumed(i) = N + 1 \/ T[Resumed(i)] = Space \/ Resumed(i) = Skip(T, i) + MAX_ARG_LENGTH - 1
  <2> TAKE i \in D
  <2> HAVE i \notin E
  <2>1. PICK f \in 1..N : f = Skip(T, i) /\ T[f] # Space
    BY <1>3
  <2>2. /\ Resume(T, f) \in (f + 1)..(Len(T) + 1)
        /\ Resume(T, f) <= f + MAX_ARG_LENGTH - 1
        /\ \A k \in f..(Resume(T, f) - 1) : T[k] # Space
        /\ \/ Resume(T, f) = Len(T) + 1 \/ T[Resume(T, f)] = Space
           \/ Resume(T, f) = f + MAX_ARG_LENGTH - 1
    BY <2>1, ResumeIs
  <2> QED  BY <2>1, <2>2
<1>5. \A i \in D : i \notin E => Resumed(i) \in D /\ Resumed(i) > i
  <2> TAKE i \in D
  <2> HAVE i \notin E
  <2>1. Skip(T, i) \in i..(N + 1) /\ Resumed(i) \in (Skip(T, i) + 1)..(N + 1)
    BY <1>3, <1>4
  <2> QED  BY <1>1, <2>1
<1>6. \A i \in D : i \notin E => Arg(i) \in W
  <2> TAKE i \in D
  <2> HAVE i \notin E
  <2>1. PICK f \in 1..N, l \in 0..N : f = Skip(T, i) /\ l = Resumed(i) - 1
    BY <1>1, <1>3, <1>4
  <2>2. \A k \in f..l : T[k] \in Chars
    BY <1>1
  <2>3. SubSeq(T, f, l) \in W
    BY <2>2, SubSeqProperties
  <2> QED  BY <2>1, <2>3
<1>7. \E f : IsLoop(f)
  <2> HIDE DEF Resumed, Arg
  <2>1. q \in [D -> D] /\ m \in [D -> Nat] /\ E \in SUBSET D
    BY <1>1, <1>5
  <2>2. z \in [D -> Z]
    OBVIOUS
  <2>3. G \in [D -> [Z -> Z]]
    <3>1. \A i \in D : \A x \in Z : (IF i \in E THEN x ELSE <<Arg(i)>> \o x) \in Z
      <4> TAKE i \in D
      <4> TAKE x \in Z
      <4>1. i \notin E => <<Arg(i)>> \in Seq(W)
        BY <1>6
      <4> HIDE DEF W
      <4> QED  BY <4>1, ConcatProperties
    <3> HIDE DEF D, Z, E
    <3> QED  BY <3>1
  <2>4. \A i \in D : i \notin E => m[q[i]] < m[i]
    <3> TAKE i \in D
    <3> HAVE i \notin E
    <3>1. q[i] = Resumed(i) /\ Resumed(i) \in D /\ Resumed(i) > i
      BY <1>5
    <3>2. m[q[i]] = N + 1 - Resumed(i) /\ m[i] = N + 1 - i
      BY <3>1
    <3> QED  BY <1>1, <3>1, <3>2
  <2>5. PICK f \in [D -> Z] : Descends(f, D, q, E, z, G)
    <3> HIDE DEF D, Z, m, q, E, z, G
    <3> QED  BY <2>1, <2>2, <2>3, <2>4, Descent
  <2>6. \A i \in D : f[i] = IF Skip(T, i) > N THEN <<>> ELSE <<Arg(i)>> \o f[Resumed(i)]
    <3> TAKE i \in D
    <3>1. f[i] = IF i \in E THEN z[i] ELSE G[i][f[q[i]]]
      BY <2>5 DEF Descends
    <3>2. CASE i \in E
      BY <3>1, <3>2
    <3>3. CASE i \notin E
      <4>1. q[i] = Resumed(i) /\ f[q[i]] \in Z
        BY <1>5, <3>3
      <4>2. G[i][f[q[i]]] = <<Arg(i)>> \o f[q[i]]
        <5> HIDE DEF Z, q, E
        <5> QED  BY <3>3, <4>1
      <4>3. ~(Skip(T, i) > N)
        BY <3>3
      <4> QED  BY <3>1, <3>3, <4>1, <4>2, <4>3
    <3> QED  BY <3>2, <3>3
  <2>7. f = [i \in D |-> f[i]]
    OBVIOUS
  <2>8. IsLoop(f)
    <3> HIDE DEF D, N
    <3> QED  BY <2>6, <2>7
  <2> QED  BY <2>8
<1>8. IsLoop(g)
  <2> HIDE DEF IsLoop
  <2> QED  BY <1>7
<1> HIDE DEF g
<1>9. \A i \in D : /\ i \in E => g[i] = <<>>
                   /\ i \notin E => g[i] = <<Arg(i)>> \o g[Resumed(i)]
  <2> HIDE DEF Arg, Resumed
  <2>1. \A i \in D : g[i] = IF Skip(T, i) > N THEN <<>> ELSE <<Arg(i)>> \o g[Resumed(i)]
    <3> HIDE DEF D, N
    <3> QED  BY <1>8
  <2> QED  BY <2>1
<1> DEFINE Begins(i) == \/ i = 1 \/ i = N + 1 \/ T[i] = Space
                        \/ T[i - 1] = Space \/ Full(p[i - 1])
           Rest(i) == g[i] \in Z /\ (Begins(i) => p[N] = p[i - 1] \o g[i])
           S == {d \in Nat : \A i \in D : N + 1 - i = d => Rest(i)}
<1>10. ASSUME NEW d \in Nat, \A e \in 0..(d - 1) : e \in S PROVE d \in S
  <2> SUFFICES ASSUME NEW i \in D, N + 1 - i = d PROVE Rest(i)
    <3> HIDE DEF Rest
    <3> QED  OBVIOUS
  <2>1. i - 1 \in 0..N /\ i \in Nat /\ i >= 1
    BY <1>1
  <2>2. PICK r \in Z : r = p[i - 1]
    BY <2>1 DEF Pieces
  <2>3. CASE i \in E
    <3>1. g[i] = <<>> /\ \A k \in i..N : T[k] = Space
      <4>1. Skip(T, i) = N + 1
        BY <1>1, <1>3, <2>3
      <4>2. \A k \in i..N : T[k] = Space
        <5>1. N = Skip(T, i) - 1
          BY <1>1, <4>1
        <5>2. \A k \in i..(Skip(T, i) - 1) : T[k] = Space
          BY <1>3
        <5> QED  BY <5>1, <5>2
      <4>3. g[i] = <<>>
        BY <1>9, <2>3
      <4> QED  BY <4>2, <4>3
    <3>2. p[N] = p[i - 1]
      <4>1. PICK h \in 0..N : h = i - 1 /\ h + 1 = i
        BY <2>1
      <4>2. N \in h..N
        BY <1>1
      <4> QED  BY <3>1, <4>1, <4>2, SpacesMakeNone
    <3>3. <<>> \in Z
      OBVIOUS
    <3>4. r \o <<>> = r
      BY ConcatEmptySeq
    <3> QED  BY <2>2, <3>1, <3>2, <3>3, <3>4
  <2>4. CASE i \notin E
    <3>1. PICK f \in 1..N, n \in D, h \in 0..N, l \in 1..N :
             /\ f = Skip(T, i) /\ n = Resumed(i) /\ h = f - 1 /\ l = n - 1
             /\ i <= f /\ f < n
             /\ l \in f..N /\ h \in (i - 1)..N
      <4>1. Skip(T, i) \in 1..N /\ Skip(T, i) \in i..(N + 1)
            /\ Resumed(i) \in (Skip(T, i) + 1)..(N + 1) /\ Resumed(i) \in D
        BY <1>3, <1>4, <1>5, <2>4
      <4> HIDE DEF Resumed
      <4> QED  BY <1>1, <2>1, <4>1
    <3>2. g[i] = <<Arg(i)>> \o g[n] /\ Arg(i) = SubSeq(T, f, l)
      BY <1>9, <2>4, <3>1
    <3>3. Rest(n)
      <4>1. PICK e \in 0..(d - 1) : e = N + 1 - n
        BY <1>1, <2>1, <3>1
      <4> HIDE DEF Rest
      <4> QED  BY <1>10, <4>1
    <3>4. PICK w \in W : w = Arg(i)
      BY <1>6, <2>4
    <3>5. PICK t \in Z : t = g[n]
      BY <3>3
    <3>6. <<w>> \in Z
      OBVIOUS
    <3>7. g[i] = <<w>> \o t /\ <<w>> \o t \in Z
      <4>1. g[i] = <<w>> \o t
        BY <3>2, <3>4, <3>5
      <4> HIDE DEF W
      <4> QED  BY <3>6, <4>1, ConcatProperties
    <3>8. ASSUME Begins(i) PROVE p[N] = r \o g[i]
      <4>1. p[h] = r
        <5>1. PICK b \in 0..N : b = i - 1 /\ b + 1 = i
          BY <2>1
        <5>2. h \in b..N /\ \A k \in (b + 1)..h : T[k] = Space
          BY <1>3, <3>1, <5>1
        <5>3. p[h] = p[b]
          BY <5>2, SpacesMakeNone
        <5> QED  BY <2>2, <5>1, <5>3
      <4>2. f = 1 \/ T[f - 1] = Space \/ Full(p[f - 1])
        <5>1. CASE f = i
          <6>1. T[f] # Space /\ f # N + 1
            <7> HIDE DEF E
            <7>1. T[Skip(T, i)] # Space
              BY <1>3, <2>4
            <7> QED  BY <1>1, <3>1, <7>1
          <6> QED  BY <3>8, <5>1, <6>1
        <5>2. CASE f # i
          <6>1. f - 1 \in i..(f - 1)
            BY <2>1, <3>1, <5>2, SMTT(20)
          <6> QED  BY <1>3, <3>1, <6>1
        <5> QED  BY <5>1, <5>2
      <4>3. \A k \in f..l : T[k] # Space
        BY <1>4, <2>4, <3>1
      <4>4. l < f + MAX_ARG_LENGTH - 1
        <5>1. n <= f + MAX_ARG_LENGTH - 1
          BY <1>4, <2>4, <3>1
        <5> QED  BY <1>1, <3>1, <5>1, SMTT(20)
      <4>5. p[l] = Append(p[f - 1], SubSeq(T, f, l))
        <5>1. f \in 1..N /\ l \in f..N
          BY <3>1
        <5> QED  BY <5>1, <4>2, <4>3, <4>4, RunMakesOne
      <4>6. p[l] = Append(r, w)
        BY <3>1, <3>2, <3>4, <4>1, <4>5
      <4>7. Begins(n)
        <5>1. CASE n = f + MAX_ARG_LENGTH - 1
          <6>1. Len(w) = MAX_ARG_LENGTH - 1
            <7>1. \A k \in f..l : T[k] \in Chars
              BY <1>1
            <7>2. Len(SubSeq(T, f, l)) = IF f <= l THEN l - f + 1 ELSE 0
              BY <7>1, SubSeqProperties
            <7>3. w = SubSeq(T, f, l)
              BY <3>2, <3>4
            <7>4. f \in Nat /\ l \in Nat /\ f <= l /\ l = n - 1
              <8> HIDE DEF W, Arg, Resumed
              <8> QED  BY <1>1, <3>1
            <7>5. n \in Nat
              BY <1>1, <3>1
            <7>6. Len(w) = l - f + 1
              BY <7>2, <7>3, <7>4
            <7> QED  BY <1>1, <5>1, <7>4, <7>5, <7>6
          <6>2. Full(p[l])
            <7> DEFINE s == Append(r, w)
            <7> HIDE DEF W
            <7>1. r \in Seq(W) /\ w \in W
              BY <2>2, <3>4
            <7>2. p[l] = s
              BY <4>6
            <7>3. s[Len(s)] = w
              BY <7>1, LastAppended
            <7> QED  BY <6>1, <7>2, <7>3 DEF Full
          <6> QED  BY <3>1, <6>2
        <5>2. CASE n # f + MAX_ARG_LENGTH - 1
          BY <1>4, <2>4, <3>1, <5>2
        <5> QED  BY <5>1, <5>2
      <4>8. p[N] = Append(r, w) \o t
        BY <3>1, <3>3, <3>5, <4>6, <4>7
      <4>9. Append(r, w) \o t = r \o (<<w>> \o t)
        BY AppendConcat
      <4> QED  BY <3>7, <4>8, <4>9
    <3> QED  BY <2>2, <3>7, <3>8
  <2> QED  BY <2>3, <2>4
<1> HIDE DEF S
<1>11. \A d \in Nat : d \in S
  BY <1>10, StrongInductionNat
<1>12. Rest(1)
  <2> HIDE DEF Rest
  <2>1. N + 1 - 1 \in Nat
    BY <1>1
  <2> QED  BY <1>1, <1>11, <2>1 DEF S
<1>13. p[N] = g[1]
  <2>1. p[1 - 1] = <<>>
    BY DEF Pieces
  <2>2. g[1] \in Z /\ p[N] = p[1 - 1] \o g[1]
    BY <1>12
  <2> HIDE DEF W
  <2> QED  BY <2>1, <2>2, ConcatEmptySeq
<1> QED  BY <1>2, <1>13

\* The beginning of a concatenation.
LEMMA FrontOfConcat ==
    ASSUME NEW S, NEW a \in Seq(S), NEW u \in Seq(S)
    PROVE  SubSeq(a \o u, 1, Len(a)) = a
<1> DEFINE n == Len(a)
           s == a \o u
           t == SubSeq(s, 1, n)
<1>1. n \in Nat /\ Len(u) \in Nat
  OBVIOUS
<1>2. /\ s \in Seq(S) /\ Len(s) = n + Len(u)
      /\ \A i \in 1..n : s[i] = a[i]
  <2>1. /\ s \in Seq(S) /\ Len(s) = n + Len(u)
        /\ \A i \in 1..(n + Len(u)) : s[i] = IF i <= n THEN a[i] ELSE u[i - n]
    BY ConcatProperties
  <2> HIDE DEF s
  <2> QED  BY <1>1, <2>1
<1> HIDE DEF s, n
<1>3. \A i \in 1..n : s[i] \in S
  BY <1>2 DEF n
<1>4. /\ t \in Seq(S)
      /\ Len(t) = IF 1 <= n THEN n - 1 + 1 ELSE 0
      /\ \A i \in 1..(n - 1 + 1) : t[i] = s[1 + i - 1]
  BY <1>1, <1>3, SubSeqProperties
<1> HIDE DEF t
<1>5. Len(t) = n /\ \A i \in 1..n : t[i] = s[i]
  <2>1. n - 1 + 1 = n /\ (~(1 <= n) => n = 0) /\ \A i \in 1..n : 1 + i - 1 = i
    BY <1>1
  <2> QED  BY <1>4, <2>1
<1>6. IsSeq(t, n) /\ IsSeq(a, n)
  BY <1>4, <1>5, FunctionIsSeq DEF n
<1>7. t = a
  BY <1>1, <1>2, <1>5, <1>6, SeqsAreEqual
<1> QED  BY <1>7 DEF t, s, n

\* The first arguments are those of the words, and a part of them.
LEMMA FirstArgsAre ==
    ASSUME NEW s \in Seq(Seq(Chars))
    PROVE  /\ FirstArgs(s) \in Seq(Seq(Chars))
           /\ Len(FirstArgs(s)) <= Len(s)
           /\ \A i \in 1..Len(FirstArgs(s)) : FirstArgs(s)[i] = s[i]
           /\ Len(FirstArgs(s)) < MAX_ARGS => FirstArgs(s) = s
           /\ \E t \in Seq(Seq(Chars)) : s = FirstArgs(s) \o t
<1> DEFINE W == Seq(Chars)
           n == Len(s)
           k == IF n < MAX_ARGS THEN n ELSE MAX_ARGS
           a == SubSeq(s, 1, k)
           t == SubSeq(s, k + 1, n)
<1>1. n \in Nat /\ MAX_ARGS \in Nat /\ MAX_ARGS > 0
  BY ShellAssumption
<1>2. k \in 0..n /\ (k < MAX_ARGS => k = n)
  BY <1>1
<1>3. FirstArgs(s) = a
  BY DEF FirstArgs
<1>4. s \in Seq(W) /\ \A i \in 1..n : s[i] \in W
  OBVIOUS
<1> HIDE DEF W, n, k
<1>5. /\ a \in Seq(W) /\ Len(a) = k
      /\ \A i \in 1..k : a[i] = s[i]
  <2>1. \A i \in 1..k : s[i] \in W
    BY <1>1, <1>2, <1>4
  <2>2. /\ a \in Seq(W) /\ Len(a) = IF 1 <= k THEN k - 1 + 1 ELSE 0
        /\ \A i \in 1..(k - 1 + 1) : a[i] = s[1 + i - 1]
    BY <1>1, <1>2, <2>1, SubSeqProperties
  <2> HIDE DEF a
  <2>3. k - 1 + 1 = k /\ (~(1 <= k) => k = 0) /\ \A i \in 1..k : 1 + i - 1 = i
    BY <1>1, <1>2
  <2> QED  BY <2>2, <2>3
<1>6. t \in Seq(W)
  <2>1. \A i \in (k + 1)..n : s[i] \in W
    BY <1>1, <1>2, <1>4
  <2> QED  BY <1>1, <1>2, <2>1, SubSeqProperties
<1>7. SubSeq(s, 1, n) = s
  <2>1. s \o <<>> = s
    BY <1>4, ConcatEmptySeq
  <2>2. <<>> \in Seq(W)
    OBVIOUS
  <2>3. SubSeq(s \o <<>>, 1, Len(s)) = s
    BY <1>4, <2>2, FrontOfConcat
  <2> QED  BY <2>1, <2>3 DEF n
<1>8. s = a \o t
  <2>1. 1 \in 1..(Len(s) + 1) /\ k \in (1 - 1)..Len(s) /\ n \in k..Len(s)
    BY <1>1, <1>2 DEF n
  <2>2. SubSeq(s, 1, k) \o SubSeq(s, k + 1, n) = SubSeq(s, 1, n)
    BY <1>4, <2>1, ConcatAdjacentSubSeq
  <2> QED  BY <1>7, <2>2
<1>9. k < MAX_ARGS => a = s
  BY <1>2, <1>7
<1> HIDE DEF a, t
<1>10. /\ a \in Seq(W) /\ Len(a) <= n
       /\ \A i \in 1..Len(a) : a[i] = s[i]
       /\ Len(a) < MAX_ARGS => a = s
       /\ \E u \in Seq(W) : s = a \o u
  <2>1. \E u \in Seq(W) : s = a \o u
    BY <1>6, <1>8
  <2>2. Len(a) <= n /\ (Len(a) < MAX_ARGS => a = s)
    BY <1>1, <1>2, <1>5, <1>9
  <2> QED  BY <1>5, <2>1, <2>2
<1> QED  BY <1>3, <1>10 DEF W, n

\* What parse_args keeps of a text.
LEMMA TextIsKept ==
    ASSUME NEW T \in Seq(Chars)
    PROVE  /\ \A i \in 1..Len(parse_args(T)) :
                 Len(parse_args(T)[i]) \in 1..(MAX_ARG_LENGTH - 1)
           /\ Joined(parse_args(T)) =
                 SubSeq(Letters(T), 1, Len(Joined(parse_args(T))))
           /\ Len(parse_args(T)) < MAX_ARGS => Len(Joined(parse_args(T))) = Len(Letters(T))
           /\ (\A k \in 1..Len(Words(T)) : Len(Words(T)[k]) < MAX_ARG_LENGTH) =>
                 parse_args(T) = FirstArgs(Words(T))
<1>1. PICK p : Pieces(p, T)
  BY PiecesExist
<1>2. Len(T) \in 0..Len(T)
  OBVIOUS
<1>3. PICK s \in Seq(Seq(Chars)) : s = p[Len(T)] /\ Fits(s)
  BY <1>1, <1>2, PiecesFit
<1>4. Joined(s) = Letters(T)
  BY <1>1, <1>3, PiecesJoined
<1>5. PICK a : a = FirstArgs(s) /\ parse_args(T) = a
  BY <1>1, <1>3, ArgumentsArePieces
<1>6. /\ a \in Seq(Seq(Chars)) /\ Len(a) <= Len(s)
      /\ \A i \in 1..Len(a) : a[i] = s[i]
      /\ Len(a) < MAX_ARGS => a = s
      /\ \E t \in Seq(Seq(Chars)) : s = a \o t
  BY <1>5, FirstArgsAre
<1>7. \A i \in 1..Len(a) : Len(a[i]) \in 1..(MAX_ARG_LENGTH - 1)
  <2> TAKE i \in 1..Len(a)
  <2>1. i \in 1..Len(s)
    BY <1>6
  <2> QED  BY <1>3, <1>6, <2>1 DEF Fits
<1>8. Joined(a) = SubSeq(Letters(T), 1, Len(Joined(a)))
  <2>1. PICK t \in Seq(Seq(Chars)) : s = a \o t
    BY <1>6
  <2>2. PICK u \in Seq(Chars) : Joined(a \o t) = Joined(a) \o u
    BY <1>6, JoinedConcat
  <2>3. Joined(a) \in Seq(Chars)
    BY <1>6, JoinedSeq
  <2>4. SubSeq(Joined(a) \o u, 1, Len(Joined(a))) = Joined(a)
    BY <2>3, FrontOfConcat
  <2> QED  BY <1>4, <2>1, <2>2, <2>4
<1>9. Len(a) < MAX_ARGS => Len(Joined(a)) = Len(Letters(T))
  BY <1>4, <1>6
<1>10. ASSUME \A k \in 1..Len(Words(T)) : Len(Words(T)[k]) < MAX_ARG_LENGTH
       PROVE  a = FirstArgs(Words(T))
  <2>1. p[Len(T)] = Words(T)
    BY <1>1, <1>10, PiecesAreWords
  <2> QED  BY <1>3, <1>5, <2>1
<1> QED  BY <1>5, <1>7, <1>8, <1>9, <1>10

\* The array holds a text.
LEMMA StringIsText == ASSUME LineOK PROVE String(input_buffer) \in Seq(Chars)
<1>1. PICK n \in Nat : n = input_index /\ n \in Cells
  BY ShellAssumption DEF LineOK, LineTypes, Cells
<1>2. strlen(input_buffer) = n
  BY <1>1, StrlenAt DEF LineOK, LineTypes, LineSound
<1>3. \A i \in 1..n : input_buffer[i - 1] \in Chars
  <2> SUFFICES ASSUME NEW i \in 1..n PROVE input_buffer[i - 1] \in Chars
    OBVIOUS
  <2>1. i - 1 \in Cells /\ i - 1 \in 0..(n - 1)
    BY <1>1, ShellAssumption DEF Cells
  <2> QED  BY <1>1, <2>1 DEF LineOK, LineTypes, LineSound
<1>4. String(input_buffer) \in [1..n -> Chars]
  BY <1>2, <1>3 DEF String
<1> QED  BY <1>4, SeqDef

\* No argument overflows its array or is empty, and put together the arguments
\* are the letters of the line as far as MAX_ARGS of them reach; they are its words
\* when every word fits.
THEOREM ShellArgsKeepText == Spec => []ArgsKeepText
<1>1. LineOK => ArgsKeepText
  <2> SUFFICES ASSUME LineOK PROVE ArgsKeepText
    OBVIOUS
  <2>1. PICK T \in Seq(Chars) : T = String(input_buffer)
    BY StringIsText
  <2> QED  BY <2>1, TextIsKept DEF ArgsKeepText
<1>2. ShellInv => ArgsKeepText
  BY <1>1 DEF ShellInv
<1> QED  BY <1>2, ShellInvariant, PTL

=============================================================================
