------------------------------ MODULE Keyboard ------------------------------
(***************************************************************************)
(* The PS/2 keyboard driver of keyboard.c on top of the shell: scancode    *)
(* set 1 with its E0 prefix, the modifier flags and what each key does to  *)
(* the input line.  keyboard_handler takes one byte and runs to its end    *)
(* with interrupts off; Interrupts shows that it gets every byte once and  *)
(* in order.                                                               *)
(*                                                                         *)
(* The keyboard itself is external: the keys that are physically down, and *)
(* on the wire the bytes of events not handled yet.  A key that is held    *)
(* repeats its make code.  PrintScreen, like the cursor keys with NumLock  *)
(* on, wraps its code in a fake shift, which has the prefix too.           *)
(*                                                                         *)
(* Of the two scancode maps the entries of the keys below are kept, one    *)
(* for each way the driver has of treating a key.                          *)
(***************************************************************************)
EXTENDS Integers, Sequences

CONSTANTS
    Keys,                   \* the keys that are used
    MaxWire,                \* bound: bytes on the wire
    MAX_INPUT_LENGTH, MAX_HISTORY_ENTRIES

VARIABLES
    caps_lock_on, shift_pressed, ctrl_pressed, alt_pressed,
    extended_scancode,
    input_buffer, input_index, cursor_pos,
    command_buffer, ran,
    history, history_index, history_current,
    down,                   \* keys physically down
    wire,                   \* bytes sent and not handled, oldest first
    cut                     \* what init_keyboard has done to the prefix of an
                            \* event it came into: "prefix" when the first
                            \* byte has lost it, "shift" when that was a fake
                            \* shift and Shift is on for it, "no" otherwise

flagVars == <<caps_lock_on, shift_pressed, ctrl_pressed, alt_pressed>>
lineVars == <<input_buffer, input_index, cursor_pos>>
shellVars == <<lineVars, command_buffer, ran, history, history_index, history_current>>
keyVars == <<down, wire, cut>>
vars == <<flagVars, extended_scancode, shellVars, keyVars>>

Printable == {"a", "A", "c", "C", "l", "L", "/", "?", "*", " "}

Shell == INSTANCE Shell WITH
    Chars <- Printable, Space <- " ", Nul <- "", ExitCommand <- <<"c">>,
    MAX_ARGS <- 8, MAX_ARG_LENGTH <- 32

----------------------------------------------------------------------------
(* The keyboard.                                                           *)

\* The codes a key sends when it goes down, with their prefixes.
Codes ==
    [lshift |-> <<"x2A">>, rshift |-> <<"x36">>, lctrl |-> <<"x1D">>,
     rctrl |-> <<"xE0", "x1D">>, lalt |-> <<"x38">>, ralt |-> <<"xE0", "x38">>,
     caps |-> <<"x3A">>, backspace |-> <<"x0E">>, enter |-> <<"x1C">>,
     kp_enter |-> <<"xE0", "x1C">>, left |-> <<"xE0", "x4B">>,
     right |-> <<"xE0", "x4D">>, kp_4 |-> <<"x4B">>, home |-> <<"xE0", "x47">>,
     prtsc |-> <<"xE0", "x2A", "xE0", "x37">>, lwin |-> <<"xE0", "x5B">>,
     a |-> <<"x1E">>, c |-> <<"x2E">>, l |-> <<"x26">>, slash |-> <<"x35">>,
     kp_slash |-> <<"xE0", "x35">>, space |-> <<"x39">>]

ASSUME KeyboardAssumption == Keys \subseteq DOMAIN Codes /\ MaxWire \in Nat

\* The bytes of an event of k.  A break code comes with the prefix of its
\* make code, and PrintScreen lets go of the fake shift last.
Bytes(k, make) ==
    LET codes == IF k = "prtsc" /\ ~make
                 THEN <<"xE0", "x37", "xE0", "x2A">> ELSE Codes[k]
    IN  [i \in 1..Len(codes) |->
            [code |-> codes[i], make |-> make,
             prefixed |-> i > 1 /\ codes[i - 1] = "xE0"]]

\* k goes down, or is held and repeats.
Press(k) ==
    /\ Len(wire) + Len(Codes[k]) <= MaxWire
    /\ down' = down \cup {k}
    /\ wire' = wire \o Bytes(k, TRUE)
    /\ UNCHANGED <<flagVars, extended_scancode, shellVars, cut>>

Release(k) ==
    /\ k \in down
    /\ Len(wire) + Len(Codes[k]) <= MaxWire
    /\ down' = down \ {k}
    /\ wire' = wire \o Bytes(k, FALSE)
    /\ UNCHANGED <<flagVars, extended_scancode, shellVars, cut>>

----------------------------------------------------------------------------
(* Decoding.                                                               *)

scancode_map ==
    [x2A |-> "KEY_LSHIFT", x36 |-> "KEY_RSHIFT", x1D |-> "KEY_CTRL",
     x38 |-> "KEY_ALT", x3A |-> "KEY_CAPS", x0E |-> "KEY_BACKSPACE",
     x1C |-> "KEY_ENTER", x4B |-> "KEY_LEFT", x4D |-> "KEY_RIGHT",
     x47 |-> "KEY_HOME", x37 |-> "*", x1E |-> "a", x2E |-> "c", x26 |-> "l",
     x35 |-> "/", x39 |-> " "]

extended_scancode_map ==
    [x4B |-> "KEY_LEFT", x4D |-> "KEY_RIGHT", x47 |-> "KEY_HOME",
     x1C |-> "KEY_ENTER", x1D |-> "KEY_CTRL", x38 |-> "KEY_ALT"]

\* map[code]; an entry that is not there is 0, KEY_UNKNOWN.
Entry(map, code) == IF code \in DOMAIN map THEN map[code] ELSE "KEY_UNKNOWN"

\* What keyboard_handler makes of a byte.
Decoded(byte) ==
    IF byte.code = "xE0" THEN "KEY_UNKNOWN"
    ELSE Entry(IF extended_scancode THEN extended_scancode_map ELSE scancode_map,
               byte.code)

\* Faulty variant: the flag is reset only for a code that is in the map.
ExtendedAfter_sticky(byte) ==
    byte.code = "xE0" \/ (extended_scancode /\ Decoded(byte) = "KEY_UNKNOWN")

ExtendedAfter(byte) == byte.code = "xE0"

Capital(c) == CASE c = "a" -> "A" [] c = "c" -> "C" [] c = "l" -> "L"

\* get_character: the case of a letter, shift_map for the rest.
get_character(key) ==
    IF key \in {"a", "c", "l"}
    THEN IF caps_lock_on # shift_pressed THEN Capital(key) ELSE key
    ELSE IF shift_pressed /\ key = "/" THEN "?" ELSE key

----------------------------------------------------------------------------
(* keyboard_handler.                                                       *)

ShiftNames == {"KEY_LSHIFT", "KEY_RSHIFT"}
Modifiers == ShiftNames \cup {"KEY_CTRL", "KEY_ALT", "KEY_CAPS"}

\* Faulty variant: a modifier flag toggles on every event of its key.
handle_modifier_key_toggle(key, pressed) ==
    /\ shift_pressed' = IF key \in ShiftNames
                        THEN ~shift_pressed ELSE shift_pressed
    /\ ctrl_pressed' = IF key = "KEY_CTRL" THEN pressed ELSE ctrl_pressed
    /\ alt_pressed' = IF key = "KEY_ALT" THEN pressed ELSE alt_pressed
    /\ caps_lock_on' = (caps_lock_on # (key = "KEY_CAPS" /\ pressed))

handle_modifier_key(key, pressed) ==
    /\ shift_pressed' = IF key \in ShiftNames
                        THEN pressed ELSE shift_pressed
    /\ ctrl_pressed' = IF key = "KEY_CTRL" THEN pressed ELSE ctrl_pressed
    /\ alt_pressed' = IF key = "KEY_ALT" THEN pressed ELSE alt_pressed
    /\ caps_lock_on' = (caps_lock_on # (key = "KEY_CAPS" /\ pressed))

\* Home and the other keys of handle_special_key only write to the log.
handle_special_key(key, pressed) ==
    CASE pressed /\ key = "KEY_LEFT" -> Shell!shell_move_cursor_left
      [] pressed /\ key = "KEY_RIGHT" -> Shell!shell_move_cursor_right
      [] OTHER -> UNCHANGED shellVars

\* cmd_clear, which follows for Ctrl+L, concerns the screen.
handle_printable_key(key, pressed) ==
    LET c == get_character(key)
    IN  CASE pressed /\ ctrl_pressed /\ c \in {"c", "C", "l", "L"} -> Shell!shell_cancel_input
          [] pressed /\ ~ctrl_pressed /\ ~alt_pressed -> Shell!Insert(c)
          [] OTHER -> UNCHANGED shellVars

\* The input line, the history and the command.
Edits(key, pressed) ==
    CASE key \in Modifiers \cup {"KEY_UNKNOWN"} -> UNCHANGED shellVars
      [] key = "KEY_BACKSPACE" -> IF pressed THEN Shell!shell_backspace ELSE UNCHANGED shellVars
      [] key = "KEY_ENTER" -> IF pressed THEN Shell!Enter ELSE UNCHANGED shellVars
      [] key \in {"KEY_LEFT", "KEY_RIGHT", "KEY_HOME"} -> handle_special_key(key, pressed)
      [] OTHER -> handle_printable_key(key, pressed)

\* The fake shift counts until the next event of a Shift key.
CutAfter(key, pressed) ==
    CASE cut = "prefix" /\ key \in ShiftNames /\ pressed -> "shift"
      [] cut = "shift" /\ key \notin ShiftNames -> "shift"
      [] OTHER -> "no"

keyboard_handler ==
    /\ wire # <<>>
    /\ LET byte == Head(wire)
           key == Decoded(byte)
       IN  /\ extended_scancode' = ExtendedAfter(byte)
           /\ IF key \in Modifiers
              THEN handle_modifier_key(key, byte.make)
              ELSE UNCHANGED flagVars
           /\ Edits(key, byte.make)
           /\ cut' = CutAfter(key, byte.make)
    /\ wire' = Tail(wire)
    /\ UNCHANGED down

----------------------------------------------------------------------------
\* After init_keyboard and shell_init.  init_keyboard throws away what the
\* controller has (keyboard.c:241), wherever that is in an event: keys may be
\* down, and the rest of the event comes.
Init ==
    /\ caps_lock_on = FALSE /\ shift_pressed = FALSE
    /\ ctrl_pressed = FALSE /\ alt_pressed = FALSE
    /\ extended_scancode = FALSE
    /\ Shell!Init
    /\ \E k \in Keys, make \in BOOLEAN :
          LET bytes == Bytes(k, make)
          IN  /\ down \in {d \in SUBSET Keys : (k \in d) = make}
              /\ \E n \in 1..(Len(bytes) + 1) : wire = SubSeq(bytes, n, Len(bytes))
    /\ cut = IF wire # <<>> /\ Head(wire).prefixed THEN "prefix" ELSE "no"

Next ==
    \/ \E k \in Keys : Press(k) \/ Release(k)
    \/ keyboard_handler

Spec == Init /\ [][Next]_vars

----------------------------------------------------------------------------
(* Properties.                                                             *)

\* Every code is looked up in the map it was sent for, with nothing but one
\* flag to carry the prefix from one interrupt to the next: also after codes
\* that no map has, and when events of several keys follow each other.  The one
\* exception is a code whose prefix init_keyboard has thrown away.
PrefixInStep ==
    wire # <<>> => extended_scancode = (Head(wire).prefixed /\ cut # "prefix")

\* A key that is no longer down leaves no modifier on once its events have
\* been handled, whatever was held together and in whatever order it was let
\* go.  The fake shift of PrintScreen never counts as one, unless
\* init_keyboard has thrown away its prefix: then Shift stays on until the next
\* event of a Shift key.
NoStuckModifier ==
    wire = <<>> =>
        /\ shift_pressed => down \cap {"lshift", "rshift"} # {} \/ cut = "shift"
        /\ ctrl_pressed => down \cap {"lctrl", "rctrl"} # {}
        /\ alt_pressed => down \cap {"lalt", "ralt"} # {}

\* The help text: Ctrl+A moves to the beginning of the line, and so does
\* Home.
HelpHome ==
    [][keyboard_handler /\ Head(wire).make
       /\ \/ ctrl_pressed /\ Decoded(Head(wire)) = "a"
          \/ Decoded(Head(wire)) = "KEY_HOME"
       => cursor_pos' = 0]_vars

=============================================================================
