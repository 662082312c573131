------------------------------- MODULE Shell --------------------------------
(***************************************************************************)
(* The shell of shell.c: the input line with its cursor, the ring of past  *)
(* commands and the dispatch of a command.  An action is one call of       *)
(* input, of parse_command after it, or of one of the functions beside it. *)
(* They are atomic: the keyboard handler makes them, with interrupts off.  *)
(*                                                                         *)
(* input_buffer is the array with its stale characters and its terminator; *)
(* history and command_buffer are only ever read as strings, so they are   *)
(* sequences of characters.  What a command prints is left out.            *)
(***************************************************************************)
EXTENDS Integers, Sequences, FiniteSets

CONSTANTS
    Chars,              \* printable characters, 32..126
    Space,
    Nul,                \* the terminator of a string
    MAX_INPUT_LENGTH,   \* size of input_buffer
    MAX_HISTORY_ENTRIES,
    MAX_ARGS,           \* arguments that parse_args finds at most
    MAX_ARG_LENGTH,     \* size of an argument, with its terminator
    ExitCommand         \* the string "exit"

ASSUME ShellAssumption ==
    /\ Space \in Chars
    /\ Nul \notin Chars
    /\ MAX_INPUT_LENGTH \in Nat \ {0}
    /\ MAX_HISTORY_ENTRIES \in Nat \ {0}
    /\ MAX_ARGS \in Nat \ {0}
    /\ MAX_ARG_LENGTH \in Nat /\ MAX_ARG_LENGTH >= 2
    /\ ExitCommand \in Seq(Chars)

VARIABLES
    input_buffer, input_index, cursor_pos,
    command_buffer,
    history, history_index, history_current,
    ran                 \* what parse_command did last

lineVars == <<input_buffer, input_index, cursor_pos>>
historyVars == <<history, history_index, history_current>>
commandVars == <<command_buffer, ran>>
vars == <<lineVars, historyVars, commandVars>>

Cells == 0..(MAX_INPUT_LENGTH - 1)
Slots == 0..(MAX_HISTORY_ENTRIES - 1)

Least(S) == CHOOSE x \in S : \A y \in S : x <= y
Greatest(S) == CHOOSE x \in S : \A y \in S : y <= x

----------------------------------------------------------------------------
(* Strings in arrays (memory.c).                                           *)

strlen(buf) == Least({i \in Cells : buf[i] = Nul})

String(buf) == [i \in 1..strlen(buf) |-> buf[i - 1]]

\* Faulty variant: the terminator is not copied.
strcpy_unterminated(buf, s) ==
    [i \in Cells |-> IF i < Len(s) THEN s[i + 1] ELSE buf[i]]

\* strcpy(buf, s): what was beyond the terminator stays.
strcpy(buf, s) ==
    [i \in Cells |-> IF i < Len(s) THEN s[i + 1]
                     ELSE IF i = Len(s) THEN Nul ELSE buf[i]]

\* for (i = from; i < to; i++) buf[i] = buf[i + n]
ShiftDown(buf, from, to, n) ==
    [i \in Cells |-> IF i \in from..(to - 1) THEN buf[i + n] ELSE buf[i]]

\* for (i = from; i > to; i--) buf[i] = buf[i - 1]
ShiftUp(buf, from, to) ==
    [i \in Cells |-> IF i \in (to + 1)..from THEN buf[i - 1] ELSE buf[i]]

----------------------------------------------------------------------------
(* Editing.                                                                *)

\* Faulty variant: the bound leaves no room for the terminator.
HasRoom_tight == input_index < MAX_INPUT_LENGTH

HasRoom == input_index < MAX_INPUT_LENGTH - 1

\* input, a printable character.
Insert(c) ==
    /\ IF HasRoom
       THEN /\ input_buffer' =
                 [ShiftUp(input_buffer, input_index, cursor_pos)
                     EXCEPT ![cursor_pos] = c, ![input_index + 1] = Nul]
            /\ cursor_pos' = cursor_pos + 1
            /\ input_index' = input_index + 1
       ELSE UNCHANGED lineVars
    /\ UNCHANGED <<historyVars, commandVars>>

\* Remove the n characters at from.
Remove(from, n) ==
    /\ input_buffer' =
          [ShiftDown(input_buffer, from, input_index, n)
              EXCEPT ![input_index - n] = Nul]
    /\ input_index' = input_index - n

shell_backspace ==
    /\ IF cursor_pos > 0
       THEN Remove(cursor_pos - 1, 1) /\ cursor_pos' = cursor_pos - 1
       ELSE UNCHANGED lineVars
    /\ UNCHANGED <<historyVars, commandVars>>

shell_delete ==
    /\ IF cursor_pos < input_index
       THEN Remove(cursor_pos, 1) /\ UNCHANGED cursor_pos
       ELSE UNCHANGED lineVars
    /\ UNCHANGED <<historyVars, commandVars>>

MoveCursor(to) ==
    /\ cursor_pos' = to
    /\ UNCHANGED <<input_buffer, input_index, historyVars, commandVars>>

shell_move_cursor_left == MoveCursor(IF cursor_pos > 0 THEN cursor_pos - 1 ELSE 0)

shell_move_cursor_right ==
    MoveCursor(IF cursor_pos < input_index THEN cursor_pos + 1 ELSE cursor_pos)

shell_move_cursor_home == MoveCursor(0)

shell_move_cursor_end == MoveCursor(input_index)

ClearLine ==
    /\ input_index' = 0
    /\ cursor_pos' = 0
    /\ input_buffer' = [input_buffer EXCEPT ![0] = Nul]

\* Ctrl+U; shell_cancel_input and Ctrl+C do the same to the line.
shell_clear_input ==
    /\ ClearLine
    /\ UNCHANGED <<historyVars, commandVars>>

shell_cancel_input == shell_clear_input

\* Ctrl+K
KillToEnd ==
    /\ input_buffer' = [input_buffer EXCEPT ![cursor_pos] = Nul]
    /\ input_index' = cursor_pos
    /\ UNCHANGED <<cursor_pos, historyVars, commandVars>>

\* Ctrl+W: the two while loops and the if after them.
WordStart ==
    LET letter == Greatest({k \in 0..(cursor_pos - 1) : k = 0 \/ input_buffer[k] # Space})
        at == Greatest({k \in 0..letter : k = 0 \/ input_buffer[k] = Space})
    IN  IF input_buffer[at] = Space THEN at + 1 ELSE at

KillWord ==
    /\ IF cursor_pos > 0
       THEN LET n == cursor_pos - WordStart
            IN  /\ input_buffer' =
                      [ShiftDown(input_buffer, WordStart, input_index - n, n)
                          EXCEPT ![input_index - n] = Nul]
                /\ input_index' = input_index - n
                /\ cursor_pos' = WordStart
       ELSE UNCHANGED lineVars
    /\ UNCHANGED <<historyVars, commandVars>>

----------------------------------------------------------------------------
(* History.                                                                *)

Before(slot) == (slot - 1 + MAX_HISTORY_ENTRIES) % MAX_HISTORY_ENTRIES
After(slot) == (slot + 1) % MAX_HISTORY_ENTRIES

\* Faulty variant: repeats are looked for in the slot to be written.
IsRepeat_oldest(command) == history[history_index] = command

IsRepeat(command) ==
    /\ history[Before(history_index)] # <<>>
    /\ history[Before(history_index)] = command

\* Faulty variant: an empty command is remembered.
shell_add_to_history_blank(command) ==
    IF IsRepeat(command)
    THEN /\ history_current' = history_index
         /\ UNCHANGED <<history, history_index>>
    ELSE /\ history' = [history EXCEPT ![history_index] = command]
         /\ history_index' = After(history_index)
         /\ history_current' = After(history_index)

shell_add_to_history(command) ==
    IF command = <<>>
    THEN UNCHANGED historyVars
    ELSE shell_add_to_history_blank(command)

\* strcpy(input_buffer, history[slot]) and the cursor at its end.
Show(slot) ==
    /\ history_current' = slot
    /\ input_buffer' = strcpy(input_buffer, history[slot])
    /\ input_index' = Len(history[slot])
    /\ cursor_pos' = Len(history[slot])

shell_history_up ==
    /\ IF history[Before(history_current)] # <<>>
       THEN Show(Before(history_current))
       ELSE UNCHANGED <<lineVars, history_current>>
    /\ UNCHANGED <<history, history_index, commandVars>>

shell_history_down ==
    /\ IF After(history_current) # history_index
       THEN Show(After(history_current))
       ELSE ClearLine /\ history_current' = history_index
    /\ UNCHANGED <<history, history_index, commandVars>>

----------------------------------------------------------------------------
(* Commands.                                                               *)

\* Where the word at or after i begins.
Skip(command, i) ==
    Least({k \in i..(Len(command) + 1) : k = Len(command) + 1 \/ command[k] # Space})

\* Faulty variant: the character that did not fit is skipped.
Resume_after(command, i) ==
    LET k == Least({m \in i..(Len(command) + 1) :
                       \/ m = Len(command) + 1 \/ command[m] = Space
                       \/ m = i + MAX_ARG_LENGTH - 1})
    IN  IF k <= Len(command) THEN k + 1 ELSE k

\* Where the argument that begins at i has ended: at the end of the word, or
\* when the array is full.
Resume(command, i) ==
    Least({k \in i..(Len(command) + 1) :
              \/ k = Len(command) + 1 \/ command[k] = Space
              \/ k = i + MAX_ARG_LENGTH - 1})

\* A word that does not fit goes on in the next argument.
parse_args(command) ==
    LET args[i \in 1..(Len(command) + 1)] ==
            LET first == Skip(command, i)
                next == Resume(command, first)
            IN  IF first > Len(command) THEN <<>>
                ELSE <<SubSeq(command, first, next - 1)>> \o args[next]
        n == Len(args[1])
    IN  SubSeq(args[1], 1, IF n < MAX_ARGS THEN n ELSE MAX_ARGS)

\* parse_command.  Only a command other than exit empties command_buffer.
parse_command(command) ==
    /\ ran' = IF parse_args(command) = <<>> THEN "nothing"
              ELSE IF parse_args(command)[1] = ExitCommand THEN "exit" ELSE "command"
    /\ command_buffer' = IF ran' = "command" THEN <<>> ELSE command

\* input('\n') and then parse_command.
Enter ==
    LET line == String([input_buffer EXCEPT ![input_index] = Nul])
    IN  /\ shell_add_to_history(line)
        /\ input_index' = 0
        /\ cursor_pos' = 0
        /\ input_buffer' = [input_buffer EXCEPT ![input_index] = Nul, ![0] = Nul]
        /\ parse_command(line)

----------------------------------------------------------------------------
\* After shell_init.
Init ==
    /\ input_buffer = [i \in Cells |-> Nul]
    /\ input_index = 0
    /\ cursor_pos = 0
    /\ command_buffer = <<>>
    /\ history = [s \in Slots |-> <<>>]
    /\ history_index = 0
    /\ history_current = 0
    /\ ran = "nothing"

Next ==
    \/ \E c \in Chars : Insert(c)
    \/ shell_backspace \/ shell_delete
    \/ shell_move_cursor_left \/ shell_move_cursor_right
    \/ shell_move_cursor_home \/ shell_move_cursor_end
    \/ shell_clear_input \/ KillToEnd \/ KillWord
    \/ shell_history_up \/ shell_history_down
    \/ Enter

Spec == Init /\ [][Next]_vars

----------------------------------------------------------------------------
(* Properties.                                                             *)

Strings == UNION {[1..n -> Chars] : n \in Cells}

TypeOK ==
    /\ input_buffer \in [Cells -> Chars \cup {Nul}]
    /\ input_index \in Cells
    /\ cursor_pos \in Cells
    /\ command_buffer \in Strings
    /\ history \in [Slots -> Strings]
    /\ history_index \in Slots
    /\ history_current \in Slots
    /\ ran \in {"nothing", "exit", "command"}

\* The text in input_buffer is as long as input_index says and the cursor is
\* in it or at its end, after any mixture of insertions, shifts and recalls:
\* the terminator is never lost, and nothing stale shows up behind it.
LineSound ==
    /\ cursor_pos <= input_index
    /\ input_buffer[input_index] = Nul
    /\ \A i \in 0..(input_index - 1) : input_buffer[i] # Nul

\* What cmd_history prints: the slots from the next to be written on, but those
\* that are empty.
cmd_history ==
    LET shown[n \in 0..MAX_HISTORY_ENTRIES] ==
            IF n = 0 THEN <<>>
            ELSE LET command == history[(history_index + n - 1) % MAX_HISTORY_ENTRIES]
                 IN  IF command = <<>> THEN shown[n - 1] ELSE Append(shown[n - 1], command)
    IN  shown[MAX_HISTORY_ENTRIES]

\* Going back from history_index through the ring one finds the remembered
\* commands, newest first, and then only empty slots: shell_history_up, which
\* stops at an empty slot, never stops before the oldest.
NoHoles ==
    \A k \in 1..MAX_HISTORY_ENTRIES :
        LET slot == (history_index - k + MAX_HISTORY_ENTRIES) % MAX_HISTORY_ENTRIES
            n == Len(cmd_history)
        IN  history[slot] = IF k <= n THEN cmd_history[n - k + 1] ELSE <<>>

\* The characters of a line that are no spaces.
Letters(text) ==
    LET letters[n \in 0..Len(text)] ==
            IF n = 0 THEN <<>>
            ELSE IF text[n] = Space THEN letters[n - 1]
            ELSE Append(letters[n - 1], text[n])
    IN  letters[Len(text)]

\* The words of a line, each a run of characters between spaces.
Words(text) ==
    LET words[n \in 0..Len(text)] ==
            IF n = 0 THEN <<>>
            ELSE IF text[n] = Space THEN words[n - 1]
            ELSE IF n = 1 \/ text[n - 1] = Space
                 THEN Append(words[n - 1], <<text[n]>>)
            ELSE [words[n - 1] EXCEPT ![Len(words[n - 1])] = Append(@, text[n])]
    IN  words[Len(text)]

\* Words put together.
Joined(words) ==
    LET joined[n \in 0..Len(words)] ==
            IF n = 0 THEN <<>> ELSE joined[n - 1] \o words[n]
    IN  joined[Len(words)]

\* The first MAX_ARGS of some words.
FirstArgs(words) ==
    SubSeq(words, 1, IF Len(words) < MAX_ARGS THEN Len(words) ELSE MAX_ARGS)

\* parse_args of whatever is typed: no argument overflows its array or is
\* empty, and put together the arguments are the text without its spaces, as
\* far as MAX_ARGS of them reach.  When every word fits, they are the words.
ArgsKeepText ==
    LET text == String(input_buffer)
        args == parse_args(text)
        kept == Len(Joined(args))
    IN  /\ \A n \in 1..Len(args) : Len(args[n]) \in 1..(MAX_ARG_LENGTH - 1)
        /\ Joined(args) = SubSeq(Letters(text), 1, kept)
        /\ Len(args) < MAX_ARGS => kept = Len(Letters(text))
        /\ (\A n \in 1..Len(Words(text)) : Len(Words(text)[n]) < MAX_ARG_LENGTH) =>
               args = FirstArgs(Words(text))

\* n characters of the line from the index from on.
Part(from, n) == [i \in 1..n |-> input_buffer[from + i - 1]]

Editor == INSTANCE LineEditor WITH
    before <- Part(0, cursor_pos),
    after <- Part(cursor_pos, input_index - cursor_pos),
    log <- cmd_history,
    Capacity <- MAX_INPUT_LENGTH - 1,
    Depth <- MAX_HISTORY_ENTRIES

\* The array, its two indices and the ring behave as a line of text with a
\* cursor in it and a log of the last commands.
EditorSpec == Editor!Spec

=============================================================================
