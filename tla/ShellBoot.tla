----------------------------- MODULE ShellBoot ------------------------------
(***************************************************************************)
(* kmain enables interrupts (main.c) before it calls shell_init, so that   *)
(* the keyboard handler may run, to its end, between any two stores of     *)
(* shell_init.  The variables are not volatile: the compiler may emit the  *)
(* stores in any order before the call of memset, which goes through the   *)
(* history from its first entry to its last.                               *)
(*                                                                         *)
(* Of the shell's operations only those the keyboard calls take part.      *)
(***************************************************************************)
EXTENDS Shell

VARIABLE todo       \* stores of shell_init that are still to be made

bootVars == <<vars, todo>>

Variables == {"input_index", "cursor_pos", "history_index", "history_current",
              "input_buffer", "command_buffer"}

Stores == {<<v, 0>> : v \in Variables} \cup {<<"history", s>> : s \in Slots}

\* The memory of the image is zero, as shell_init will leave it.
BootInit == Init /\ todo = Stores

\* Store the initial value of one variable, or clear one entry in memset.
shell_init(store) ==
    LET of(v) == store[1] = v
    IN  /\ store \in todo
        /\ of("history") =>
              \A other \in todo : other[1] = "history" /\ store[2] <= other[2]
        /\ todo' = todo \ {store}
        /\ input_index' = IF of("input_index") THEN 0 ELSE input_index
        /\ cursor_pos' = IF of("cursor_pos") THEN 0 ELSE cursor_pos
        /\ history_index' = IF of("history_index") THEN 0 ELSE history_index
        /\ history_current' = IF of("history_current") THEN 0 ELSE history_current
        /\ input_buffer' = [input_buffer EXCEPT ![0] = IF of("input_buffer") THEN Nul ELSE @]
        /\ command_buffer' = IF of("command_buffer") THEN <<>> ELSE command_buffer
        /\ history' = [history EXCEPT ![store[2]] = IF of("history") THEN <<>> ELSE @]
        /\ UNCHANGED ran

\* What the keyboard handler may do.
KeyPressed ==
    /\ \/ \E c \in Chars : Insert(c)
       \/ shell_backspace \/ shell_move_cursor_left \/ shell_move_cursor_right
       \/ shell_cancel_input
       \/ Enter
    /\ UNCHANGED todo

BootNext == (\E store \in Stores : shell_init(store)) \/ KeyPressed

BootSpec == BootInit /\ [][BootNext]_bootVars

----------------------------------------------------------------------------

\* cursor_pos is a position within the text of the input buffer (shell.c:31)
\* once shell_init is done.
CursorInText ==
    todo = {} => \A i \in 0..(cursor_pos - 1) : input_buffer[i] # Nul

=============================================================================
