------------------------------- MODULE Screen -------------------------------
(***************************************************************************)
(* What the shell puts on the screen: the text cursor and the drawing of   *)
(* draw.c, and the printing, prompt, redrawing and scrolling of shell.c.   *)
(*                                                                         *)
(* An action of the user is a key that the shell answers.  It queues what  *)
(* the handler then prints, in order, and the steps below print it; no     *)
(* other key is handled before the queue is empty, since the handler runs  *)
(* with interrupts off.  Shell shows how the keys change the line; here    *)
(* any edit may leave any line.                                            *)
(*                                                                         *)
(* kmain prints too: shell_init runs after sti, so that a key may be       *)
(* handled between any two steps of it, and kmain then goes on wherever    *)
(* the key has left the text cursor.  The steps are whole characters and   *)
(* whole lines; an interrupt in the middle of one is not followed, and of  *)
(* a screen that a key has disturbed in this way nothing is said until the *)
(* shell clears it (Disturbed).                                            *)
(*                                                                         *)
(* A pixel holds the character whose ink is on it, and a character inks    *)
(* its whole cell.  Ink drawn on the ink of another character leaves       *)
(* something that is neither.  The words of a message do not matter to     *)
(* the screen: each is one letter, the same letter only if they could be   *)
(* the same.                                                               *)
(***************************************************************************)
EXTENDS Integers, Sequences

CONSTANTS
    fb_width, fb_height,
    fb_pitch,       \* from one row of the framebuffer to the next, in pixels
    char_width, line_height,
    Lines,          \* the lines that are typed, a few of all there are
    MaxEarly        \* bound on the keys that disturb shell_init's output

Space == " "
Letters == {"$", "t", "^", "a", "o", "e"}

ASSUME ScreenAssumption ==
    /\ char_width \in Nat \ {0} /\ line_height \in Nat \ {0}
    /\ fb_width \in Nat /\ 3 * char_width < fb_width
    \* The welcome and the prompt fit.
    /\ fb_height \in Nat /\ 4 * line_height < fb_height
    /\ fb_pitch \in Nat /\ fb_width <= fb_pitch /\ fb_pitch \div 4 <= fb_width
    \* No line of the framebuffer is moved onto one still to be moved.
    /\ fb_width <= line_height * (fb_pitch \div 4)
    /\ <<>> \in Lines /\ \A text \in Lines : text \in Seq(Letters \cup {Space})
    /\ MaxEarly \in Nat

VARIABLES
    cursor_position_x, cursor_position_y,
    fb,             \* what every pixel shows
    line,           \* input_buffer, as a string
    todo,           \* what the handler has still to print
    boot,           \* what kmain has still to do of shell_init
    scrolled,       \* whether shell_scroll_up ran since the screen was cleared
    early           \* keys handled since one was handled in shell_init, unless
                    \* the shell has cleared the screen in the meantime

\* A key was handled in shell_init and the screen is still what came of it.
Disturbed == early # 0

cursor == <<cursor_position_x, cursor_position_y>>
vars == <<cursor, fb, line, todo, boot, scrolled, early>>

Newline == "newline"
Prompt == "prompt"
InputLine == "input line"
Clear == "clear"
Reset == "reset"
Chars == Letters \cup {Space}
Items == Chars \cup {Newline, Prompt, InputLine, Clear, Reset}

\* What is printed next: kmain goes on when the handler is done.
Printing == IF todo # <<>> THEN todo ELSE boot
Item == Head(Printing)

Blank == "blank"
Mixed == "mixed"
Shown == Letters \cup {Blank, Mixed}
Pixels == 0..(fb_height * fb_pitch - 1)
Column(u) == u % fb_pitch
Row(u) == u \div fb_pitch

----------------------------------------------------------------------------
(* Drawing (draw.c).                                                       *)

\* Whether u is a pixel of the screen in the lines of height h from y.
OnLine(u, y, h) == Column(u) < fb_width /\ Row(u) \in y..(y + h - 1)

\* Faulty variant: the pixels of the prompt are left.
draw_rect_narrow(f, x, y, width, height) ==
    [u \in Pixels |->
        IF OnLine(u, y, height) /\ Column(u) \in (x + 2 * char_width)..(x + width - 1)
        THEN Blank ELSE f[u]]

\* With bg_color.
draw_rect(f, x, y, width, height) ==
    [u \in Pixels |->
        IF OnLine(u, y, height) /\ Column(u) \in x..(x + width - 1) THEN Blank ELSE f[u]]

Over(old, new) == IF old \in {Blank, new} THEN new ELSE Mixed

\* Faulty variant: what is beyond the right edge goes on in the next line.
draw_string_unclipped(f, x, y, str) ==
    LET At(u) == Column(u) + ((Row(u) - y) \div line_height) * fb_width
        k(u) == (At(u) - x) \div char_width + 1
    IN  [u \in Pixels |->
            IF Row(u) >= y /\ k(u) \in 1..Len(str) /\ str[k(u)] # Space
            THEN Over(f[u], str[k(u)]) ELSE f[u]]

\* Character by character; what is beyond an edge is not drawn, and a space
\* has no ink.
draw_string(f, x, y, str) ==
    LET k(u) == (Column(u) - x) \div char_width + 1
    IN  [u \in Pixels |->
            IF OnLine(u, y, line_height) /\ k(u) \in 1..Len(str) /\ str[k(u)] # Space
            THEN Over(f[u], str[k(u)]) ELSE f[u]]

draw_ascii_char(f, x, y, c) == draw_string(f, x, y, <<c>>)

clear_screen == [u \in Pixels |-> IF Column(u) < fb_width THEN Blank ELSE fb[u]]

move_cursor_right(amount) ==
    IF cursor_position_x + amount < fb_width
    THEN cursor_position_x + amount ELSE fb_width - 1

move_cursor_up(y, amount) == IF y >= amount THEN y - amount ELSE 0

----------------------------------------------------------------------------
(* Printing (shell.c).                                                     *)

\* Faulty variant: what is cleared is counted in bytes.
shell_scroll_up_bytes(f) ==
    LET pitch == fb_pitch \div 4
        last == (fb_height - line_height) * pitch
        end == (fb_height - 1) * fb_pitch * 4 + fb_width
    IN  [u \in Pixels \cup 0..(end - 1) |->
            IF u \in last..(end - 1) THEN Blank
            ELSE IF u < last THEN f[u + line_height * pitch]
            ELSE f[u]]

\* shell_scroll_up, and every place of memory that it writes to.  It takes
\* fb_pitch for a number of bytes.  Ascending, the first loop reads no pixel
\* that it has written.
shell_scroll_up(f) ==
    LET pitch == fb_pitch \div 4
        last == (fb_height - line_height) * pitch
        end == (fb_height - 1) * pitch + fb_width
    IN  [u \in Pixels \cup 0..(end - 1) |->
            IF u \in last..(end - 1) THEN Blank
            ELSE IF u < last THEN f[u + line_height * pitch]
            ELSE f[u]]

\* Faulty variant: the screen is scrolled only once the line is below it.
Full_late(y) == y >= fb_height

Full(y) == y >= fb_height - line_height

\* Where move_cursor_to goes from here, unless it is below the screen.
LineBelow ==
    LET below == cursor_position_y + line_height
    IN  IF below < fb_height THEN below ELSE cursor_position_y

\* On a screen that shows f.
shell_newline(f) ==
    /\ cursor_position_x' = 0
    /\ IF Full(LineBelow)
       THEN /\ cursor_position_y' = move_cursor_up(LineBelow, line_height)
            /\ fb' = shell_scroll_up(f)
            /\ scrolled' = TRUE
       ELSE /\ cursor_position_y' = LineBelow
            /\ fb' = f
            /\ UNCHANGED scrolled

PrintNewline ==
    /\ Item = Newline
    /\ shell_newline(fb)

Wraps(x) == x >= fb_width - char_width

\* shell_print_color, a character that is not a control character.
PrintChar ==
    /\ Item \in Chars
    /\ LET f == draw_ascii_char(fb, cursor_position_x, cursor_position_y, Item)
           x == move_cursor_right(char_width)
       IN  IF Wraps(x)
           THEN shell_newline(f)
           ELSE /\ cursor_position_x' = x
                /\ fb' = f
                /\ UNCHANGED <<cursor_position_y, scrolled>>

PrintPrompt ==
    /\ Item = Prompt
    /\ fb' = draw_string(fb, cursor_position_x, cursor_position_y, <<"$", Space>>)
    /\ cursor_position_x' = move_cursor_right(2 * char_width)
    /\ UNCHANGED <<cursor_position_y, scrolled>>

\* The line with its prompt, which is left of the text cursor.  Nothing sets
\* cursor_visible, so that no block cursor is drawn.
shell_draw_input_line ==
    LET x == cursor_position_x - 2 * char_width
        y == cursor_position_y
    IN  /\ Item = InputLine
        /\ fb' = draw_string(draw_rect(fb, x, y, fb_width - x, line_height),
                             x, y, <<"$", Space>> \o line)
        /\ UNCHANGED <<cursor, scrolled>>

\* clear_screen and move_cursor_to(0, 0).
ClearScreen ==
    /\ Item = Clear
    /\ fb' = clear_screen
    /\ cursor_position_x' = 0
    /\ cursor_position_y' = 0
    /\ scrolled' = FALSE

\* The stores of shell_init to the input line.
ResetLine ==
    /\ Item = Reset
    /\ line' = <<>>
    /\ UNCHANGED <<cursor, fb, scrolled>>

PrintItem ==
    /\ Printing # <<>>
    /\ IF todo # <<>>
       THEN todo' = Tail(todo) /\ UNCHANGED boot
       ELSE boot' = Tail(boot) /\ UNCHANGED todo
    /\ early' = IF Item = Clear /\ boot = <<>> THEN 0 ELSE early
    /\ \/ ResetLine
       \/ /\ UNCHANGED line
          /\ \/ PrintNewline \/ PrintChar \/ PrintPrompt
             \/ shell_draw_input_line \/ ClearScreen

----------------------------------------------------------------------------
(* What the shell prints.                                                  *)

shell_print_welcome == <<"o", Newline, "a", Newline, Newline>>

\* Two of the lines of a longer list.
cmd_help == <<"a", Newline, "o", Newline>>

\* The name, if there is one, is one more word.
cmd_hello == <<"o", Newline>>

\* The arguments: any text.
cmd_echo(text) == text \o <<Newline>>

\* The heading and one of the commands.
cmd_history(text) == <<"o", Newline, Space, Space>> \o text \o <<Newline>>

shell_error(text) == <<"e">> \o text \o <<Newline>>

shell_success == <<"o", Newline>>

\* What a command that was typed as text prints.
Output(command, text) ==
    CASE command = "nothing" -> <<>>
      [] command = "hello" -> cmd_hello
      [] command = "help" -> cmd_help
      [] command = "clear" -> <<Clear>>
      [] command = "echo" -> cmd_echo(text)
      [] command = "history" -> cmd_history(text)
      [] command = "exit" -> shell_success
      [] command = "unknown" -> shell_error(text) \o cmd_hello

\* After every command but exit there is a prompt.
parse_command(command, text) ==
    Output(command, text) \o (IF command = "exit" THEN <<>> ELSE <<Prompt, InputLine>>)

Commands == {"nothing", "hello", "help", "clear", "echo", "history", "exit", "unknown"}

----------------------------------------------------------------------------
(* Keys.                                                                   *)

\* Every operation on the line ends by drawing it.
Edit(text) ==
    /\ line' = text
    /\ todo' = <<InputLine>>

\* input('\n') and parse_command.
Enter(command) ==
    /\ line = <<>> => command = "nothing"
    /\ line' = <<>>
    /\ todo' = <<Newline, InputLine>> \o parse_command(command, line)

shell_cancel_input ==
    /\ line' = <<>>
    /\ todo' = <<InputLine, Newline, "^", "a", Newline, Prompt, InputLine>>

\* input(12)
Redraw ==
    /\ todo' = <<Clear, Prompt, InputLine>>
    /\ UNCHANGED line

\* Ctrl+L as keyboard.c does it.
CancelAndClear ==
    /\ line' = <<>>
    /\ todo' = <<InputLine, Newline, "^", "a", Newline, Prompt, InputLine, Clear, Prompt>>

\* kmain has begun with shell_init and not ended it.
Initializing == boot # <<>> /\ Head(boot) # Reset

\* A key that clears the screen is always followed.
Bounded == early' > MaxEarly => boot = <<>> /\ \E i \in 1..Len(todo') : todo'[i] = Clear

Key ==
    /\ todo = <<>>
    /\ early' = IF Disturbed \/ Initializing THEN early + 1 ELSE 0
    /\ UNCHANGED <<cursor, fb, boot, scrolled>>
    /\ \/ \E text \in Lines : Edit(text)
       \/ \E command \in Commands : Enter(command)
       \/ shell_cancel_input
       \/ Redraw
       \/ CancelAndClear
    /\ Bounded

----------------------------------------------------------------------------
shell_init == <<Reset, Clear>> \o shell_print_welcome \o <<Prompt>>

\* kmain has cleared the screen and enabled interrupts.  What it does before
\* it calls shell_init, it does not print on the screen.
Init ==
    /\ cursor_position_x = 0
    /\ cursor_position_y = 0
    /\ fb = [u \in Pixels |-> Blank]
    /\ line = <<>>
    /\ todo = <<>>
    /\ boot = shell_init
    /\ scrolled = FALSE
    /\ early = 0

Next == PrintItem \/ Key

Spec == Init /\ [][Next]_vars

----------------------------------------------------------------------------
(* Properties.                                                             *)

\* Also: nothing is drawn outside the framebuffer.
TypeOK ==
    /\ cursor_position_x \in 0..(fb_width - 1)
    /\ cursor_position_y \in 0..(fb_height - 1)
    /\ fb \in [Pixels -> Shown]
    /\ line \in Lines
    /\ todo \in Seq(Items) /\ boot \in Seq(Items)
    /\ scrolled \in BOOLEAN /\ early \in Nat

\* The line of the text cursor is wholly on the screen and has room for one
\* more character, after any wrapping and scrolling: nothing printed is lost
\* at an edge, and move_cursor_right and move_cursor_to never have to clamp
\* or to refuse.
CursorInside ==
    ~Disturbed =>
        /\ cursor_position_x + char_width < fb_width
        /\ cursor_position_y + line_height < fb_height

\* What the line of the text cursor should show in a column.
LineShows(column) ==
    LET text == IF cursor_position_x = 0 THEN line ELSE <<"$", Space>> \o line
        k == column \div char_width + 1
    IN  IF k \in 1..Len(text) /\ text[k] # Space THEN text[k] ELSE Blank

\* While the shell waits for a key, its line shows the prompt, as much of the
\* typed text as fits and nothing else, whatever was printed there before,
\* unless a key was handled in shell_init and the screen not cleared since.
\* Only before shell_init and after exit, which prints no prompt, the text
\* cursor is in column 0.
LineShown ==
    (~Disturbed /\ ~Initializing /\ todo = <<>> /\ cursor_position_x # 0) =>
        \A u \in Pixels :
            OnLine(u, cursor_position_y, line_height) => fb[u] = LineShows(Column(u))

\* Beyond the width a row of the framebuffer may have pixels that nobody sees.
Visible == {u \in Pixels : Column(u) < fb_width}

\* Until the screen has scrolled, no character is drawn on another one, unless
\* a key was handled in shell_init.
LegibleUntilScroll == ~Disturbed /\ ~scrolled => \A u \in Visible : fb[u] # Mixed

\* Whether printing the next item runs shell_scroll_up.
Scrolls ==
    /\ \/ Item = Newline
       \/ Item \in Chars /\ Wraps(move_cursor_right(char_width))
    /\ Full(LineBelow)

\* Whatever is printed changes only the line of the text cursor, except where
\* it clears the screen or breaks the line at the bottom of it: what was
\* printed above stays, also on a screen that has scrolled before.
OutputStays ==
    [][ \A u \in Pixels :
            fb'[u] # fb[u] =>
                \/ OnLine(u, cursor_position_y, line_height)
                \/ Scrolls \/ Item = Clear ]_vars

\* "help - Show this help message" (shell.c:376), and the same of all output:
\* no line of it is drawn on another one.
OutputLegible == Disturbed \/ \A u \in Visible : fb[u] # Mixed

=============================================================================
