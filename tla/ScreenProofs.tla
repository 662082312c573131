---------------------------- MODULE ScreenProofs ----------------------------
(***************************************************************************)
(* Proofs about the screen for every size of screen and of characters.     *)
(***************************************************************************)
EXTENDS Screen, SequenceTheorems, TLAPS

----------------------------------------------------------------------------
(* Drawing.                                                                *)

\* A rectangle leaves a screen.
LEMMA RectType ==
    ASSUME NEW f \in [Pixels -> Shown], NEW x, NEW y, NEW width, NEW height
    PROVE  draw_rect(f, x, y, width, height) \in [Pixels -> Shown]
BY DEF draw_rect, Shown

\* So does a string.
LEMMA StringType ==
    ASSUME NEW f \in [Pixels -> Shown], NEW x, NEW y, NEW str \in Seq(Chars)
    PROVE  draw_string(f, x, y, str) \in [Pixels -> Shown]
<1> DEFINE k(u) == (Column(u) - x) \div char_width + 1
           new(u) == IF OnLine(u, y, line_height) /\ k(u) \in 1..Len(str)
                        /\ str[k(u)] # Space
                     THEN Over(f[u], str[k(u)]) ELSE f[u]
<1>1. ASSUME NEW u \in Pixels
      PROVE  new(u) \in Shown
  <2>1. f[u] \in Shown
    OBVIOUS
  <2>2. ASSUME NEW i \in 1..Len(str), str[i] # Space
        PROVE  Over(f[u], str[i]) \in Shown
    <3>1. str[i] \in Letters
      BY <2>2 DEF Chars
    <3> QED  BY <3>1 DEF Over, Shown
  <2> HIDE DEF k
  <2> QED  BY <2>1, <2>2
<1>2. draw_string(f, x, y, str) = [u \in Pixels |-> new(u)]
  BY DEF draw_string
<1> HIDE DEF new
<1> QED  BY <1>1, <1>2

\* shell_scroll_up reads no pixel outside the framebuffer.
LEMMA ScrollInside ==
    ASSUME NEW u \in Pixels, u < (fb_height - line_height) * (fb_pitch \div 4)
    PROVE  u + line_height * (fb_pitch \div 4) \in Pixels
<1> USE ScreenAssumption
<1> DEFINE p == fb_pitch \div 4
<1>1. p \in Nat /\ p <= fb_pitch
  OBVIOUS
<1>2. (fb_height - line_height) * p + line_height * p = fb_height * p
  BY <1>1
<1>3. fb_height * p <= fb_height * fb_pitch
  BY <1>1
<1>4. /\ line_height * p \in Nat /\ fb_height * p \in Nat /\ fb_height * fb_pitch \in Nat
      /\ (fb_height - line_height) * p \in Int
  BY <1>1
<1> HIDE DEF p
<1>5. ASSUME NEW a \in Nat, NEW b \in Nat, NEW c \in Int, NEW d \in Nat,
             u \in Nat, u < c, c + a = b, b <= d
      PROVE  u + a \in 0..(d - 1)
  BY <1>5
<1>6. u < (fb_height - line_height) * p /\ u \in Nat
  BY DEF Pixels, p
<1>7. u + line_height * p \in 0..(fb_height * fb_pitch - 1)
  BY <1>2, <1>3, <1>4, <1>5, <1>6
<1> QED  BY <1>7 DEF Pixels, p

\* It writes to none either.
LEMMA ScrollWrites ==
    Pixels \cup 0..(((fb_height - 1) * (fb_pitch \div 4) + fb_width) - 1) = Pixels
<1> USE ScreenAssumption
<1> DEFINE p == fb_pitch \div 4
           h == fb_height - 1
<1>1. p \in Nat /\ p <= fb_pitch /\ h \in Nat /\ fb_height = h + 1
  OBVIOUS
<1>2. h * p <= h * fb_pitch /\ h * p \in Nat /\ h * fb_pitch \in Nat
  BY <1>1
<1>3. fb_height * fb_pitch = h * fb_pitch + fb_pitch
  BY <1>1
<1> HIDE DEF p, h
<1>4. ASSUME NEW a \in Nat, NEW b \in Nat, NEW c \in Nat, NEW w \in Nat, a <= b, w <= c
      PROVE  (0..((b + c) - 1)) \cup 0..((a + w) - 1) = 0..((b + c) - 1)
  BY <1>4
<1>5. /\ (0..((h * fb_pitch + fb_pitch) - 1)) \cup 0..((h * p + fb_width) - 1)
         = 0..((h * fb_pitch + fb_pitch) - 1)
  BY <1>2, <1>4
<1> QED  BY <1>3, <1>5 DEF Pixels, p, h

\* Scrolling leaves a screen.
LEMMA ScrollType ==
    ASSUME NEW f \in [Pixels -> Shown]
    PROVE  shell_scroll_up(f) \in [Pixels -> Shown]
<1> DEFINE pitch == fb_pitch \div 4
           last == (fb_height - line_height) * pitch
           end == (fb_height - 1) * pitch + fb_width
           new(u) == IF u \in last..(end - 1) THEN Blank
                     ELSE IF u < last THEN f[u + line_height * pitch] ELSE f[u]
<1>1. ASSUME NEW u \in Pixels
      PROVE  new(u) \in Shown
  <2>1. u < last => u + line_height * pitch \in Pixels
    BY ScrollInside
  <2>2. Blank \in Shown
    BY DEF Shown
  <2> HIDE DEF last, end, pitch
  <2> QED  BY <2>1, <2>2
<1>2. shell_scroll_up(f) = [u \in Pixels \cup 0..(end - 1) |-> new(u)]
  BY DEF shell_scroll_up
<1>3. Pixels \cup 0..(end - 1) = Pixels
  BY ScrollWrites
<1> HIDE DEF new, end
<1> QED  BY <1>1, <1>2, <1>3

----------------------------------------------------------------------------
(* The text cursor.                                                        *)

\* A prompt is printed after a newline or on a cleared screen, with at most
\* the empty line drawn in between: at the left edge.
AtMargin(q, x) ==
    \A i \in 1..Len(q) : q[i] = Prompt =>
        \/ i = 1 /\ x = 0
        \/ i > 1 /\ q[i - 1] \in {Newline, Clear}
        \/ i = 2 /\ q[1] = InputLine /\ x = 0
        \/ i > 2 /\ q[i - 1] = InputLine /\ q[i - 2] = Newline

\* The typed line is drawn at the left edge or behind a prompt, and what is
\* printed last is no part of a line of output.
Margins == {0, 2 * char_width}

Poised(q, x) ==
    /\ \A i \in 1..Len(q) : q[i] = InputLine =>
          \/ i = 1 /\ x \in Margins
          \/ i > 1 /\ q[i - 1] \in {Newline, Prompt}
    /\ IF q = <<>> THEN x \in Margins ELSE q[Len(q)] \notin Chars

\* The shell clears the screen only to print a prompt on it, and the line after
\* the prompt unless the line is empty.
AfterClear(q, text) ==
    \A i \in 1..Len(q) : q[i] = Clear =>
        \/ Len(q) = i + 2 /\ q[i + 1] = Prompt /\ q[i + 2] = InputLine
        \/ Len(q) = i + 1 /\ q[i + 1] = Prompt /\ text = <<>>

\* What is printed.
Prints == Items \ {Reset}

\* kmain has not begun with shell_init, or has begun and not ended, or has ended.
Queued ==
    /\ todo \in Seq(Prints)
    /\ boot = shell_init \/ boot \in Seq(Prints)
    /\ AfterClear(todo, line)

Types == TypeOK /\ Queued

\* What is printed before the next key may be handled, if shell_init is not
\* disturbed: its own output, once it has begun.
Queue == IF Initializing THEN boot ELSE todo

IInv ==
    /\ Types /\ CursorInside
    /\ ~Disturbed =>
        /\ AtMargin(Queue, cursor_position_x)
        /\ Initializing => todo = <<>>

\* A new line is at the left edge and on the screen, wherever the cursor was,
\* and wholly on it if the line before was, scrolled or not.
LEMMA NewlineInside ==
    ASSUME TypeOK, NEW f \in [Pixels -> Shown], shell_newline(f)
    PROVE  /\ cursor_position_x' = 0
           /\ cursor_position_y' \in 0..(fb_height - 1)
           /\ cursor_position_y + line_height < fb_height =>
                cursor_position_y' + line_height < fb_height
           /\ fb' \in [Pixels -> Shown]
           /\ scrolled' \in BOOLEAN
<1> DEFINE below == cursor_position_y + line_height
<1>1. /\ cursor_position_y \in Nat /\ cursor_position_y < fb_height
      /\ line_height \in Nat /\ line_height > 0
      /\ fb_height \in Nat
  BY ScreenAssumption DEF TypeOK
<1>2. /\ LineBelow \in Nat /\ LineBelow < fb_height
      /\ below < fb_height => LineBelow = below
      /\ LineBelow # below => LineBelow = cursor_position_y
  BY <1>1 DEF LineBelow
<1>3. CASE Full(LineBelow)
  <2>1. /\ cursor_position_x' = 0
        /\ cursor_position_y' = move_cursor_up(LineBelow, line_height)
        /\ fb' = shell_scroll_up(f)
        /\ scrolled' = TRUE
    BY <1>3 DEF shell_newline
  <2>2. /\ cursor_position_y' \in Nat /\ cursor_position_y' <= LineBelow
        /\ below < fb_height => cursor_position_y' = cursor_position_y
    BY <1>1, <1>2, <2>1 DEF move_cursor_up
  <2>3. cursor_position_y' \in 0..(fb_height - 1)
    BY <1>1, <1>2, <2>2
  <2> QED  BY <2>1, <2>2, <2>3, ScrollType
<1>4. CASE ~Full(LineBelow)
  <2>1. /\ cursor_position_x' = 0
        /\ cursor_position_y' = LineBelow
        /\ fb' = f
        /\ scrolled' = scrolled
    BY <1>4 DEF shell_newline
  <2>2. ~(LineBelow >= fb_height - line_height)
    BY <1>4 DEF Full
  <2>3. scrolled' \in BOOLEAN
    BY <2>1 DEF TypeOK
  <2>4. cursor_position_y' \in 0..(fb_height - 1)
    BY <1>1, <1>2, <2>1
  <2>5. cursor_position_y' + line_height < fb_height
    BY <1>1, <1>2, <2>1, <2>2
  <2> QED  BY <2>1, <2>3, <2>4, <2>5
<1> QED  BY <1>3, <1>4

----------------------------------------------------------------------------
(* The queue of output.                                                    *)

\* It stays so when its head, which may bring the cursor to the left edge, has
\* been printed.
LEMMA TailAtMargin ==
    ASSUME NEW q \in Seq(Prints), q # <<>>, NEW x, NEW z, AtMargin(q, x),
           q[1] \in {Newline, Clear} => z = 0,
           q[1] = InputLine => z = x
    PROVE  AtMargin(Tail(q), z)
<1>1. Len(q) \in Nat /\ Len(q) > 0 /\ Len(Tail(q)) = Len(q) - 1
  OBVIOUS
<1>2. \A i \in 1..Len(Tail(q)) : Tail(q)[i] = q[i + 1] /\ i + 1 \in 1..Len(q)
  BY <1>1
<1>3. SUFFICES ASSUME NEW i \in 1..Len(Tail(q)), Tail(q)[i] = Prompt
               PROVE  \/ i = 1 /\ z = 0
                      \/ i > 1 /\ Tail(q)[i - 1] \in {Newline, Clear}
                      \/ i = 2 /\ Tail(q)[1] = InputLine /\ z = 0
                      \/ i > 2 /\ Tail(q)[i - 1] = InputLine /\ Tail(q)[i - 2] = Newline
  BY DEF AtMargin
<1>4. /\ i > 1 => Tail(q)[i - 1] = q[i]
      /\ i > 2 => Tail(q)[i - 2] = q[i - 1]
      /\ i = 2 => Tail(q)[1] = q[2]
  BY <1>1, <1>2
<1>5. \/ q[i] \in {Newline, Clear}
      \/ i = 1 /\ q[1] = InputLine /\ x = 0
      \/ i > 1 /\ q[i] = InputLine /\ q[i - 1] = Newline
  <2>1. q[i + 1] = Prompt /\ i + 1 \in 1..Len(q) /\ i \in Nat /\ i > 0
    BY <1>1, <1>2, <1>3
  <2>2. i + 1 - 1 = i /\ i + 1 - 2 = i - 1
    BY <2>1
  <2> QED  BY <2>1, <2>2 DEF AtMargin
<1> QED  BY <1>4, <1>5

LEMMA Pair ==
    ASSUME NEW S, NEW s \in Seq(S)
    PROVE  (Len(s) = 1 => s = <<s[1]>>) /\ (Len(s) = 2 => s = <<s[1], s[2]>>)
OBVIOUS

LEMMA TailAfterClear ==
    ASSUME NEW q \in Seq(Prints), q # <<>>, NEW text, AfterClear(q, text)
    PROVE  /\ AfterClear(Tail(q), text)
           /\ q[1] = Clear =>
                \/ Tail(q) = <<Prompt, InputLine>>
                \/ Tail(q) = <<Prompt>> /\ text = <<>>
<1> DEFINE t == Tail(q)
           n == Len(q)
           m == Len(t)
<1>1. /\ n \in Nat /\ n > 0 /\ m = n - 1 /\ t \in Seq(Prints)
      /\ \A i \in 1..m : t[i] = q[i + 1] /\ i + 1 \in 1..n
  <2>1. n \in Nat /\ n > 0 /\ m = n - 1 /\ t \in Seq(Prints)
    OBVIOUS
  <2> QED  BY <2>1
<1>2. \A i \in 1..n : q[i] = Clear =>
        \/ n = i + 2 /\ q[i + 1] = Prompt /\ q[i + 2] = InputLine
        \/ n = i + 1 /\ q[i + 1] = Prompt /\ text = <<>>
  BY DEF AfterClear
<1> HIDE DEF t, n, m
<1>3. ASSUME NEW i \in 1..m, t[i] = Clear
      PROVE  \/ m = i + 2 /\ t[i + 1] = Prompt /\ t[i + 2] = InputLine
             \/ m = i + 1 /\ t[i + 1] = Prompt /\ text = <<>>
  <2>1. q[i + 1] = Clear /\ i + 1 \in 1..n
    BY <1>1, <1>3
  <2>2. \/ n = (i + 1) + 2 /\ q[(i + 1) + 1] = Prompt /\ q[(i + 1) + 2] = InputLine
        \/ n = (i + 1) + 1 /\ q[(i + 1) + 1] = Prompt /\ text = <<>>
    BY <1>2, <2>1
  <2> QED  BY <1>1, <2>2
<1>4. ASSUME q[1] = Clear
      PROVE  t = <<Prompt, InputLine>> \/ (t = <<Prompt>> /\ text = <<>>)
  <2>1. \/ n = 3 /\ q[2] = Prompt /\ q[3] = InputLine
        \/ n = 2 /\ q[2] = Prompt /\ text = <<>>
    BY <1>1, <1>2, <1>4
  <2>2. \/ m = 2 /\ t[1] = Prompt /\ t[2] = InputLine
        \/ m = 1 /\ t[1] = Prompt /\ text = <<>>
    BY <1>1, <2>1
  <2>3. CASE m = 2
    BY <1>1, <2>2, <2>3, Pair DEF m
  <2>4. CASE m = 1
    BY <1>1, <2>2, <2>4, Pair DEF m
  <2> QED  BY <2>2, <2>3, <2>4
<1>5. AfterClear(t, text)
  BY <1>3 DEF AfterClear, m
<1> QED  BY <1>4, <1>5 DEF t

\* Output of the shell: a cleared screen, or words that end with a newline.
Words == Chars \cup {Newline}

Plain(out) ==
    \/ out = <<Clear>>
    \/ out \in Seq(Words) /\ (out # <<>> => out[Len(out)] = Newline)

LEMMA PlainConcat ==
    ASSUME NEW before \in Seq(Words), NEW after \in Seq(Words),
           after # <<>>, after[Len(after)] = Newline
    PROVE  Plain(before \o after)
BY DEF Plain

\* Every command's output is such.
LEMMA OutputPlain ==
    ASSUME NEW command \in Commands, NEW text \in Lines
    PROVE  /\ Plain(Output(command, text))
           /\ command = "exit" => Output(command, text) # <<Clear>>
<1>1. text \in Seq(Words)
  <2>1. Letters \cup {Space} \subseteq Words
    BY DEF Words, Chars
  <2>2. text \in Seq(Letters \cup {Space})
    BY ScreenAssumption
  <2> QED  BY <2>1, <2>2
<1>2. {"o", "a", "e", Space, Newline} \subseteq Words
  BY DEF Words, Chars, Letters, Space, Newline
<1>3. <<>> \in Seq(Words) /\ <<Newline>> \in Seq(Words)
  BY <1>2
<1>4. cmd_hello \in Seq(Words) /\ cmd_help \in Seq(Words) /\ shell_success \in Seq(Words)
  BY <1>2 DEF cmd_hello, cmd_help, shell_success
<1>5. /\ Plain(<<>>) /\ Plain(<<Clear>>)
      /\ Plain(cmd_hello) /\ Plain(cmd_help) /\ Plain(shell_success)
  BY <1>3, <1>4 DEF Plain, cmd_hello, cmd_help, shell_success
<1>6. Plain(cmd_echo(text))
  BY <1>1, <1>3, PlainConcat DEF cmd_echo
<1>7. Plain(cmd_history(text))
  <2>1. <<"o", Newline, Space, Space>> \o text \in Seq(Words)
    BY <1>1, <1>2
  <2> QED  BY <1>3, <2>1, PlainConcat DEF cmd_history
<1>8. Plain(shell_error(text) \o cmd_hello)
  <2>1. shell_error(text) \in Seq(Words)
    BY <1>1, <1>2 DEF shell_error
  <2>2. cmd_hello # <<>> /\ cmd_hello[Len(cmd_hello)] = Newline
    BY DEF cmd_hello
  <2> QED  BY <1>4, <2>1, <2>2, PlainConcat
<1>9. shell_success # <<Clear>>
  BY DEF shell_success
<1> QED  BY <1>5, <1>6, <1>7, <1>8, <1>9 DEF Output, Commands

LEMMA ItemsDiffer ==
    /\ Prompt \notin {Newline, InputLine, Clear, "^", "a"}
    /\ {Newline, InputLine, Clear, Prompt, Reset} \cap Chars = {}
    /\ Clear \notin {Newline, InputLine, Prompt, Reset, "^", "a"}
    /\ InputLine \notin {Newline, Prompt, Reset, "^", "a"}
    /\ Reset \notin {Newline, InputLine, Clear, Prompt}
BY DEF Prompt, Reset, Newline, InputLine, Clear, Chars, Letters, Space

\* What Enter queues is such that the prompt comes to the left edge.
LEMMA EnterAtMargin ==
    ASSUME NEW out, Plain(out), NEW x, NEW end \in {<<>>, <<Prompt, InputLine>>},
           out = <<Clear>> => end = <<Prompt, InputLine>>
    PROVE  LET q == <<Newline, InputLine>> \o (out \o end)
           IN  /\ q \in Seq(Prints) /\ AtMargin(q, x) /\ Poised(q, x)
               /\ \A text : AfterClear(q, text)
               /\ q # <<>> /\ q[Len(q)] # Prompt
<1> DEFINE q == <<Newline, InputLine>> \o (out \o end)
           n == Len(out)
<1>1. out \in Seq(Prints) /\ n \in Nat /\ Newline \in Prints /\ InputLine \in Prints
      /\ Prompt \in Prints
  <2>1. {Newline, InputLine, Prompt, Clear} \subseteq Prints /\ Words \subseteq Prints
    BY ItemsDiffer DEF Prints, Items, Words, Newline, InputLine, Prompt, Clear, Reset
  <2>2. out \in Seq(Prints)
    BY <2>1 DEF Plain
  <2> QED  BY <2>1, <2>2
<1>2. end \in Seq(Prints)
  <2>1. <<>> \in Seq(Prints) /\ <<Prompt, InputLine>> \in Seq(Prints)
    BY <1>1
  <2> QED  BY <2>1
<1>3. q \in Seq(Prints)
  BY <1>1, <1>2
<1>4. Len(q) = n + 2 + Len(end) /\ Len(end) \in {0, 2}
  BY <1>1, <1>2
<1>5. /\ q[1] = Newline /\ q[2] = InputLine
      /\ \A i \in 1..n : q[i + 2] = out[i]
      /\ \A i \in 1..Len(end) : q[n + 2 + i] = end[i]
  BY <1>1, <1>2
<1>6. ASSUME NEW i \in 1..n, out # <<Clear>>
       PROVE  out[i] \notin {Prompt, InputLine, Clear}
  <2>1. {Prompt, InputLine, Clear} \cap Words = {}
    BY ItemsDiffer DEF Words
  <2>2. out[i] \in Words
    BY <1>6 DEF Plain
  <2> QED  BY <2>1, <2>2
<1>7. out = <<Clear>> => n = 1 /\ out[1] = Clear /\ end = <<Prompt, InputLine>>
  OBVIOUS
<1>8. \A i \in 1..n : out[i] # Prompt /\ out[i] # InputLine
  <2>1. ASSUME NEW i \in 1..n
        PROVE  out[i] # Prompt /\ out[i] # InputLine
    <3>1. CASE out = <<Clear>>
      BY <1>7, <3>1, ItemsDiffer
    <3>2. CASE out # <<Clear>>
      BY <1>6, <3>2
    <3> QED  BY <3>1, <3>2
  <2> HIDE DEF n
  <2> QED  BY <2>1
<1>9. ASSUME NEW i \in 1..n, out[i] = Clear
       PROVE  n = 1 /\ end = <<Prompt, InputLine>>
  BY <1>6, <1>7, <1>9
<1>10. Newline # Prompt /\ InputLine # Prompt
  BY DEF Newline, InputLine, Prompt
<1>11. n > 0 => out[n] \in {Newline, Clear}
  BY <1>1 DEF Plain
<1> HIDE DEF q
<1>12. ASSUME NEW i \in 1..Len(q), q[i] = Prompt
      PROVE  i = n + 3
  <2>1. i # 1 /\ i # 2
    BY <1>5, <1>10, <1>12
  <2>2. ~(i \in 3..(n + 2))
    <3>1. SUFFICES ASSUME i \in 3..(n + 2) PROVE FALSE
      OBVIOUS
    <3>2. i - 2 \in 1..n /\ (i - 2) + 2 = i
      BY <1>1, <3>1
    <3>3. q[i] = out[i - 2]
      BY <1>5, <3>2
    <3> QED  BY <1>8, <1>12, <3>2, <3>3
  <2>3. i # n + 4
    <3>1. SUFFICES ASSUME i = n + 4 PROVE FALSE
      OBVIOUS
    <3>2. end = <<Prompt, InputLine>>
      BY <1>1, <1>4, <3>1
    <3>3. q[n + 2 + 2] = end[2] /\ n + 2 + 2 = n + 4
      BY <1>1, <1>5, <3>2
    <3> QED  BY <1>10, <1>12, <3>1, <3>2, <3>3
  <2>4. /\ i \in Int /\ i >= 1 /\ i <= n + 2 + Len(end)
        /\ Len(end) = 0 \/ Len(end) = 2
    BY <1>1, <1>4
  <2>5. ASSUME NEW a \in Int, NEW m \in Nat, NEW e \in {0, 2}, a >= 1, a <= m + 2 + e,
               a # 1, a # 2, ~(a \in 3..(m + 2)), a # m + 4
        PROVE  a = m + 3
    BY <2>5
  <2> HIDE DEF n
  <2> QED  BY <1>1, <2>1, <2>2, <2>3, <2>4, <2>5
<1>13. n > 0 => q[n + 2] \in {Newline, Clear}
  BY <1>1, <1>5, <1>11
<1>14. AtMargin(q, x)
  <2>1. SUFFICES ASSUME NEW i \in 1..Len(q), q[i] = Prompt
                 PROVE  \/ i > 1 /\ q[i - 1] \in {Newline, Clear}
                        \/ i > 2 /\ q[i - 1] = InputLine /\ q[i - 2] = Newline
    BY DEF AtMargin
  <2>2. i = n + 3 /\ i - 1 = n + 2 /\ i - 2 = n + 1
    BY <1>1, <1>12, <2>1
  <2> QED  BY <1>1, <1>5, <1>13, <2>2
<1>15. ASSUME NEW i \in 1..Len(q), q[i] = InputLine
       PROVE  i > 1 /\ q[i - 1] \in {Newline, Prompt}
  <2>1. CASE i \in 1..2
    <3>1. i # 1
      BY <1>5, <1>15 DEF Newline, InputLine
    <3>2. i = 2 /\ 2 - 1 = 1
      BY <2>1, <3>1
    <3> QED  BY <1>5, <3>2
  <2>2. CASE i \in 3..(n + 2)
    <3>1. i - 2 \in 1..n /\ (i - 2) + 2 = i
      BY <1>1, <2>2
    <3>2. q[i] = out[i - 2]
      BY <1>5, <3>1
    <3> QED  BY <1>8, <1>15, <3>1, <3>2
  <2>3. CASE i \in (n + 3)..(n + 4)
    <3>1. end = <<Prompt, InputLine>>
      BY <1>1, <1>4, <2>3
    <3>2. q[n + 2 + 1] = Prompt /\ q[n + 2 + 2] = InputLine
      BY <1>5, <3>1
    <3>3. n + 2 + 1 = n + 3 /\ n + 2 + 2 = n + 4 /\ (n + 4) - 1 = n + 3 /\ n + 4 > 1
      BY <1>1
    <3>4. i = n + 3 \/ i = n + 4
      BY <1>1, <2>3
    <3> QED  BY <1>10, <1>15, <3>2, <3>3, <3>4
  <2>4. i \in 1..2 \/ i \in 3..(n + 2) \/ i \in (n + 3)..(n + 4)
    <3>1. i \in Int /\ i >= 1 /\ i <= n + 2 + Len(end) /\ (Len(end) = 0 \/ Len(end) = 2)
      BY <1>1, <1>4
    <3>2. n \in Nat
      BY <1>1
    <3>3. ASSUME NEW a \in Int, NEW m \in Nat, NEW e \in Int, a >= 1, a <= m + 2 + e,
                 e = 0 \/ e = 2
          PROVE  a \in 1..2 \/ a \in 3..(m + 2) \/ a \in (m + 3)..(m + 4)
      BY <3>3
    <3>4. Len(end) \in Int
      BY <3>1
    <3> HIDE DEF n
    <3> QED  BY <3>1, <3>2, <3>3, <3>4
  <2> HIDE DEF n
  <2> QED  BY <2>1, <2>2, <2>3, <2>4
<1>16. q # <<>> /\ q[Len(q)] \in {InputLine, Newline, Clear}
  <2>1. CASE end = <<Prompt, InputLine>>
    <3>1. Len(q) = n + 2 + 2 /\ q[n + 2 + 2] = end[2] /\ end[2] = InputLine
      BY <1>1, <1>4, <1>5, <2>1
    <3> QED  BY <1>1, <1>3, <3>1
  <2>2. CASE end = <<>> /\ n > 0
    <3>1. Len(q) = n + 2
      BY <1>1, <1>4, <2>2
    <3> QED  BY <1>1, <1>3, <1>13, <2>2, <3>1
  <2>3. CASE end = <<>> /\ n = 0
    <3>1. Len(q) = 2
      BY <1>1, <1>4, <2>3
    <3> QED  BY <1>3, <1>5, <3>1
  <2> QED  BY <1>1, <2>1, <2>2, <2>3
<1>17. \A text : AfterClear(q, text)
  <2>1. SUFFICES ASSUME NEW i \in 1..Len(q), q[i] = Clear
                 PROVE  Len(q) = i + 2 /\ q[i + 1] = Prompt /\ q[i + 2] = InputLine
    BY DEF AfterClear
  <2>2. i \notin {1, 2}
    BY <1>5, <2>1, ItemsDiffer
  <2>3. CASE i \in 3..(n + 2)
    <3>1. i - 2 \in 1..n /\ (i - 2) + 2 = i
      BY <1>1, <2>3
    <3>2. q[i] = out[i - 2]
      BY <1>5, <3>1
    <3>3. n = 1 /\ end = <<Prompt, InputLine>>
      BY <1>9, <2>1, <3>1, <3>2
    <3>4. i = 3 /\ Len(end) = 2 /\ end[1] = Prompt /\ end[2] = InputLine
      BY <2>3, <3>3
    <3>5. Len(q) = 5 /\ q[4] = Prompt /\ q[5] = InputLine
      <4>1. n + 2 + 1 = 4 /\ n + 2 + 2 = 5 /\ 1 \in 1..Len(end) /\ 2 \in 1..Len(end)
        BY <3>3, <3>4
      <4> QED  BY <1>4, <1>5, <3>3, <3>4, <4>1
    <3> QED  BY <3>4, <3>5
  <2>4. CASE i \in (n + 3)..(n + 4)
    <3>1. Len(end) = 2
      BY <1>1, <1>4, <2>4
    <3>2. end = <<Prompt, InputLine>>
      BY <3>1
    <3>3. q[n + 2 + 1] = Prompt /\ q[n + 2 + 2] = InputLine
      BY <1>5, <3>1, <3>2
    <3>4. i = n + 2 + 1 \/ i = n + 2 + 2
      BY <1>1, <2>4
    <3> QED  BY <2>1, <3>3, <3>4, ItemsDiffer
  <2>5. i \in {1, 2} \/ i \in 3..(n + 2) \/ i \in (n + 3)..(n + 4)
    <3> HIDE DEF n
    <3>1. n \in Nat /\ Len(end) \in Int /\ Len(q) = n + 2 + Len(end)
      BY <1>1, <1>2, <1>4
    <3>2. Len(end) = 0 \/ Len(end) = 2
      BY <1>4
    <3>3. ASSUME NEW a \in Int, NEW m \in Nat, NEW e \in Int, a >= 1, a <= m + 2 + e,
                 e = 0 \/ e = 2
          PROVE  a \in {1, 2} \/ a \in 3..(m + 2) \/ a \in (m + 3)..(m + 4)
      BY <3>3
    <3>4. i \in Int /\ i >= 1 /\ i <= n + 2 + Len(end)
      BY <3>1
    <3> QED  BY <3>1, <3>2, <3>3, <3>4
  <2> QED  BY <2>2, <2>3, <2>4, <2>5
<1>18. Poised(q, x) /\ q[Len(q)] # Prompt
  BY <1>15, <1>16, ItemsDiffer DEF Poised
<1> QED  BY <1>3, <1>14, <1>16, <1>17, <1>18 DEF q

----------------------------------------------------------------------------
(* What is printed, and where.                                             *)

\* s is w with two items before it and one behind it.
Encloses(s, b, c, w, p) ==
    /\ Len(s) = Len(w) + 3 /\ s[1] = b /\ s[2] = c /\ s[Len(w) + 3] = p
    /\ \A i \in 1..Len(w) : s[i + 2] = w[i]

LEMMA Wrapped ==
    ASSUME NEW S, NEW b \in S, NEW c \in S, NEW p \in S, NEW w \in Seq(S), NEW s \in Seq(S),
           Encloses(s, b, c, w, p)
    PROVE  (<<b, c>> \o w) \o <<p>> = s
<1> USE DEF Encloses
<1> DEFINE t == (<<b, c>> \o w) \o <<p>>
<1>1. /\ t \in Seq(S) /\ Len(t) = Len(w) + 3 /\ t[1] = b /\ t[2] = c /\ t[Len(w) + 3] = p
      /\ \A i \in 1..Len(w) : t[i + 2] = w[i]
  OBVIOUS
<1> HIDE DEF t
<1>2. ASSUME NEW i \in 1..Len(t)
      PROVE  t[i] = s[i]
  <2>1. CASE i = 1 \/ i = 2 \/ i = Len(w) + 3
    BY <1>1, <2>1
  <2>2. CASE i # 1 /\ i # 2 /\ i # Len(w) + 3
    <3>1. i - 2 \in 1..Len(w) /\ (i - 2) + 2 = i
      BY <1>1, <2>2
    <3> QED  BY <1>1, <3>1
  <2> QED  BY <2>1, <2>2
<1>3. t = s
  BY <1>1, <1>2, SeqEqual
<1> QED  BY <1>3 DEF t

\* shell_init, and what is left of it after its first stores.
LEMMA ShellInit ==
    /\ shell_init \in Seq(Items) /\ shell_init # <<>> /\ Head(shell_init) = Reset
    /\ Tail(shell_init) = <<Clear, "o", Newline, "a", Newline, Newline, Prompt>>
    /\ Tail(shell_init) \in Seq(Prints)
<1> DEFINE w == <<"o", Newline, "a", Newline, Newline>>
           s == <<Reset, Clear, "o", Newline, "a", Newline, Newline, Prompt>>
<1>1. {Clear, "o", "a", Newline, Prompt} \subseteq Prints /\ Prints \subseteq Items
      /\ Reset \in Items
  BY ItemsDiffer DEF Prints, Items, Chars, Letters, Space, Reset
<1>2. /\ Clear \in Items /\ "o" \in Items /\ Newline \in Items /\ "a" \in Items
      /\ Prompt \in Items /\ Reset \in Items
  BY <1>1
<1>3. /\ w \in Seq(Items) /\ Len(w) = 5 /\ w[1] = "o" /\ w[2] = Newline
      /\ w[3] = "a" /\ w[4] = Newline /\ w[5] = Newline
  BY <1>2
<1>4. /\ s \in Seq(Items) /\ Len(s) = 8 /\ s[1] = Reset /\ s[2] = Clear /\ s[3] = "o"
      /\ s[4] = Newline /\ s[5] = "a" /\ s[6] = Newline /\ s[7] = Newline /\ s[8] = Prompt
  BY <1>2
<1>5. /\ s # <<>> /\ Head(s) = Reset
      /\ Tail(s) = <<Clear, "o", Newline, "a", Newline, Newline, Prompt>>
  OBVIOUS
<1>6. <<Clear, "o", Newline, "a", Newline, Newline, Prompt>> \in Seq(Prints)
  BY <1>1
<1> HIDE DEF w, s
<1>7. \A i \in 1..5 : s[i + 2] = w[i]
  <2>1. 1..5 = {1, 2, 3, 4, 5}
    OBVIOUS
  <2>2. 1 + 2 = 3 /\ 2 + 2 = 4 /\ 3 + 2 = 5 /\ 4 + 2 = 6 /\ 5 + 2 = 7
    OBVIOUS
  <2> QED  BY <1>3, <1>4, <2>1, <2>2
<1>8. Encloses(s, Reset, Clear, w, Prompt)
  <2>1. Len(s) = Len(w) + 3 /\ s[Len(w) + 3] = Prompt
    BY <1>3, <1>4
  <2>2. \A i \in 1..Len(w) : s[i + 2] = w[i]
    BY <1>3, <1>7
  <2> QED  BY <1>4, <2>1, <2>2 DEF Encloses
<1>9. (<<Reset, Clear>> \o w) \o <<Prompt>> = s
  BY <1>2, <1>3, <1>4, <1>8, Wrapped, Zenon
<1>10. shell_init = s
  BY <1>9 DEF shell_init, shell_print_welcome, w
<1> QED  BY <1>4, <1>5, <1>6, <1>10

LEMMA PrintsItems == ASSUME NEW q \in Seq(Prints) PROVE q \in Seq(Items)
<1>1. Prints \subseteq Items
  BY DEF Prints
<1> QED  BY <1>1

\* Whatever is printed, wherever the cursor is, the cursor stays on the screen
\* and the screen a screen.
LEMMA PrintTypes ==
    ASSUME TypeOK, Printing \in Seq(Items), Printing # <<>>,
           \/ PrintNewline \/ PrintChar \/ PrintPrompt
           \/ shell_draw_input_line \/ ClearScreen
    PROVE  /\ cursor_position_x' \in 0..(fb_width - 1)
           /\ cursor_position_y' \in 0..(fb_height - 1)
           /\ fb' \in [Pixels -> Shown]
           /\ scrolled' \in BOOLEAN
<1> USE ScreenAssumption
<1>1. /\ cursor_position_x \in Nat /\ cursor_position_x < fb_width
      /\ cursor_position_y \in 0..(fb_height - 1)
      /\ fb \in [Pixels -> Shown] /\ scrolled \in BOOLEAN /\ line \in Lines
  BY DEF TypeOK
<1>2. ASSUME NEW amount \in Nat
      PROVE  move_cursor_right(amount) \in 0..(fb_width - 1)
  BY <1>1 DEF move_cursor_right
<1>3. CASE PrintNewline
  <2>1. shell_newline(fb) /\ 0 \in 0..(fb_width - 1)
    BY <1>3 DEF PrintNewline
  <2> QED  BY <1>1, <2>1, NewlineInside
<1>4. CASE PrintChar
  <2> DEFINE f == draw_ascii_char(fb, cursor_position_x, cursor_position_y, Item)
             x == move_cursor_right(char_width)
  <2>1. f \in [Pixels -> Shown]
    <3>1. <<Item>> \in Seq(Chars)
      BY <1>4 DEF PrintChar
    <3> QED  BY <1>1, <3>1, StringType DEF draw_ascii_char
  <2>2. CASE Wraps(x)
    <3>1. shell_newline(f) /\ 0 \in 0..(fb_width - 1)
      BY <1>4, <2>2 DEF PrintChar
    <3> HIDE DEF f
    <3> QED  BY <2>1, <3>1, NewlineInside
  <2>3. CASE ~Wraps(x)
    <3>1. /\ cursor_position_x' = x /\ cursor_position_y' = cursor_position_y
          /\ fb' = f /\ scrolled' = scrolled
      BY <1>4, <2>3 DEF PrintChar
    <3> QED  BY <1>1, <1>2, <2>1, <3>1
  <2> QED  BY <2>2, <2>3
<1>5. CASE PrintPrompt
  <2>1. fb' \in [Pixels -> Shown]
    <3>1. <<"$", Space>> \in Seq(Chars)
      BY DEF Chars, Letters
    <3> QED  BY <1>1, <1>5, <3>1, StringType DEF PrintPrompt
  <2>2. 2 * char_width \in Nat
    OBVIOUS
  <2> QED  BY <1>1, <1>2, <1>5, <2>1, <2>2 DEF PrintPrompt
<1>6. CASE shell_draw_input_line
  <2>1. fb' \in [Pixels -> Shown]
    <3>1. <<"$", Space>> \o line \in Seq(Chars)
      BY <1>1 DEF Chars, Letters
    <3> QED  BY <1>1, <1>6, <3>1, RectType, StringType DEF shell_draw_input_line
  <2>2. UNCHANGED <<cursor_position_x, cursor_position_y, scrolled>>
    BY <1>6 DEF shell_draw_input_line, cursor
  <2>3. cursor_position_x \in 0..(fb_width - 1)
    BY <1>1
  <2> QED  BY <1>1, <2>1, <2>2, <2>3
<1>7. CASE ClearScreen
  <2>1. fb' \in [Pixels -> Shown]
    BY <1>1, <1>7 DEF ClearScreen, clear_screen, Shown
  <2>2. 0 \in 0..(fb_width - 1) /\ 0 \in 0..(fb_height - 1)
    OBVIOUS
  <2> QED  BY <1>7, <2>1, <2>2 DEF ClearScreen
<1> QED  BY <1>3, <1>4, <1>5, <1>6, <1>7

\* What a key queues.
LEMMA KeyQueues ==
    ASSUME line \in Lines, Key
    PROVE  /\ line' \in Lines /\ todo' \in Seq(Prints)
           /\ AfterClear(todo', line') /\ AtMargin(todo', cursor_position_x)
<1>1. {Clear, "^", "a", Newline, Prompt, InputLine} \subseteq Prints
  BY ItemsDiffer DEF Prints, Items, Chars, Letters, Reset
<1>2. <<>> \in Lines
  BY ScreenAssumption
<1>3. ASSUME NEW text \in Lines, Edit(text)
      PROVE  /\ line' \in Lines /\ todo' \in Seq(Prints)
             /\ AfterClear(todo', line') /\ AtMargin(todo', cursor_position_x)
  <2>1. todo' = <<InputLine>> /\ line' = text
    BY <1>3 DEF Edit
  <2>2. todo' \in Seq(Prints) /\ Len(todo') = 1 /\ todo'[1] = InputLine
    BY <1>1, <2>1
  <2>3. \A i \in 1..1 : todo'[i] # Prompt /\ todo'[i] # Clear
    BY <2>2, ItemsDiffer
  <2> QED  BY <2>1, <2>2, <2>3 DEF AtMargin, AfterClear
<1>4. ASSUME NEW command \in Commands, Enter(command)
      PROVE  /\ line' \in Lines /\ todo' \in Seq(Prints)
             /\ AfterClear(todo', line') /\ AtMargin(todo', cursor_position_x)
  <2> DEFINE out == Output(command, line)
  <2>1. PICK end \in {<<>>, <<Prompt, InputLine>>} :
             /\ todo' = <<Newline, InputLine>> \o (out \o end)
             /\ command # "exit" => end = <<Prompt, InputLine>>
    BY <1>4 DEF Enter, parse_command
  <2>2. Plain(out) /\ (out = <<Clear>> => end = <<Prompt, InputLine>>)
    BY <2>1, OutputPlain
  <2>3. line' \in Lines
    BY <1>2, <1>4 DEF Enter
  <2> HIDE DEF out
  <2> QED  BY <2>1, <2>2, <2>3, EnterAtMargin
<1>5. CASE shell_cancel_input
  <2>1. todo' = <<InputLine, Newline, "^", "a", Newline, Prompt, InputLine>> /\ line' \in Lines
    BY <1>2, <1>5 DEF shell_cancel_input
  <2>2. /\ todo' \in Seq(Prints) /\ Len(todo') = 7
        /\ todo'[1] = InputLine /\ todo'[2] = Newline /\ todo'[3] = "^" /\ todo'[4] = "a"
        /\ todo'[5] = Newline /\ todo'[6] = Prompt /\ todo'[7] = InputLine
    BY <1>1, <2>1
  <2>3. AtMargin(todo', cursor_position_x)
    <3>1. SUFFICES ASSUME NEW i \in 1..7, todo'[i] = Prompt
                   PROVE  i > 1 /\ todo'[i - 1] \in {Newline, Clear}
      BY <2>2 DEF AtMargin
    <3>2. i = 6
      BY <2>2, <3>1, ItemsDiffer
    <3> QED  BY <2>2, <3>2
  <2>4. \A i \in 1..7 : todo'[i] # Clear
    BY <2>2, ItemsDiffer
  <2> QED  BY <2>1, <2>2, <2>3, <2>4 DEF AfterClear
<1>6. CASE Redraw
  <2>1. todo' = <<Clear, Prompt, InputLine>> /\ line' \in Lines
    BY <1>6 DEF Redraw
  <2>2. /\ todo' \in Seq(Prints) /\ Len(todo') = 3
        /\ todo'[1] = Clear /\ todo'[2] = Prompt /\ todo'[3] = InputLine
    BY <1>1, <2>1
  <2>3. AtMargin(todo', cursor_position_x)
    <3>1. SUFFICES ASSUME NEW i \in 1..3, todo'[i] = Prompt
                   PROVE  i > 1 /\ todo'[i - 1] \in {Newline, Clear}
      BY <2>2 DEF AtMargin
    <3>2. i = 2
      BY <2>2, <3>1, ItemsDiffer
    <3> QED  BY <2>2, <3>2
  <2>4. \A i \in 1..3 : todo'[i] = Clear => i = 1
    BY <2>2, ItemsDiffer
  <2> QED  BY <2>1, <2>2, <2>3, <2>4 DEF AfterClear
<1>7. CASE CancelAndClear
  <2>1. /\ todo' = <<InputLine, Newline, "^", "a", Newline, Prompt, InputLine, Clear, Prompt>>
        /\ line' = <<>>
    BY <1>7 DEF CancelAndClear
  <2>2. /\ todo' \in Seq(Prints) /\ Len(todo') = 9
        /\ todo'[1] = InputLine /\ todo'[2] = Newline /\ todo'[3] = "^" /\ todo'[4] = "a"
        /\ todo'[5] = Newline /\ todo'[6] = Prompt /\ todo'[7] = InputLine
        /\ todo'[8] = Clear /\ todo'[9] = Prompt
    BY <1>1, <2>1
  <2>3. AtMargin(todo', cursor_position_x)
    <3>1. SUFFICES ASSUME NEW i \in 1..9, todo'[i] = Prompt
                   PROVE  i > 1 /\ todo'[i - 1] \in {Newline, Clear}
      BY <2>2 DEF AtMargin
    <3>2. i = 6 \/ i = 9
      BY <2>2, <3>1, ItemsDiffer
    <3> QED  BY <2>2, <3>2
  <2>4. \A i \in 1..9 : todo'[i] = Clear => i = 8
    BY <2>2, ItemsDiffer
  <2> QED  BY <1>2, <2>1, <2>2, <2>3, <2>4 DEF AfterClear
<1> QED  BY <1>3, <1>4, <1>5, <1>6, <1>7 DEF Key

\* Everything that prints.
Draws ==
    \/ PrintNewline \/ PrintChar \/ PrintPrompt \/ shell_draw_input_line \/ ClearScreen

\* A step of the handler, of kmain before it prints, or of kmain when it prints.
LEMMA Turn ==
    ASSUME Types, PrintItem
    PROVE  /\ Printing \in Seq(Items) /\ Printing # <<>> /\ Item = Printing[1]
           /\ \/ /\ todo # <<>> /\ todo' = Tail(todo) /\ boot' = boot
                 /\ Draws /\ line' = line
              \/ /\ todo = <<>> /\ todo' = <<>>
                 /\ boot = shell_init /\ boot' = Tail(shell_init) /\ ResetLine
              \/ /\ todo = <<>> /\ todo' = <<>>
                 /\ boot \in Seq(Prints) /\ boot # <<>> /\ boot' = Tail(boot)
                 /\ Draws /\ line' = line
<1>1. /\ Printing # <<>> /\ todo \in Seq(Prints) /\ todo \in Seq(Items) /\ boot \in Seq(Items)
      /\ boot = shell_init \/ boot \in Seq(Prints)
  BY DEF PrintItem, Types, TypeOK, Queued
<1>2. Printing \in Seq(Items)
  BY <1>1 DEF Printing
<1>3. Item = Printing[1]
  BY <1>1, <1>2 DEF Item
<1>4. ResetLine \/ (Draws /\ line' = line)
  BY DEF PrintItem, Draws
<1>5. ASSUME Printing \in Seq(Prints)
      PROVE  Draws /\ line' = line
  <2>1. Item # Reset
    BY <1>1, <1>3, <1>5 DEF Prints
  <2> QED  BY <1>4, <2>1 DEF ResetLine
<1>6. CASE todo # <<>>
  BY <1>1, <1>2, <1>3, <1>5, <1>6 DEF PrintItem, Printing
<1>7. CASE todo = <<>>
  <2>1. boot # <<>> /\ Printing = boot /\ boot' = Tail(boot) /\ todo' = <<>>
    BY <1>1, <1>7 DEF PrintItem, Printing
  <2>2. CASE boot = shell_init
    <3>1. Item = Reset
      BY <2>1, <2>2, ShellInit DEF Item
    <3>2. ~Draws
      BY <3>1, ItemsDiffer
         DEF Draws, PrintNewline, PrintChar, PrintPrompt, shell_draw_input_line, ClearScreen
    <3> QED  BY <1>1, <1>2, <1>3, <1>4, <1>7, <2>1, <2>2, <3>2
  <2>3. CASE boot \in Seq(Prints)
    BY <1>1, <1>2, <1>3, <1>5, <1>7, <2>1, <2>3
  <2> QED  BY <1>1, <2>2, <2>3
<1> QED  BY <1>6, <1>7

\* Of these, the ones that leave the screen undisturbed.
LEMMA UndisturbedTurn ==
    ASSUME IInv, PrintItem, ~Disturbed'
    PROVE  /\ Initializing' => todo' = <<>>
           /\ \/ /\ Disturbed /\ ClearScreen /\ line' = line /\ Queue' = todo'
                 /\ \/ todo' = <<Prompt, InputLine>>
                    \/ todo' = <<Prompt>> /\ line = <<>>
              \/ /\ ~Disturbed /\ Queue = <<>> /\ Queue' = Tail(shell_init) /\ ResetLine
              \/ /\ ~Disturbed /\ Queue \in Seq(Prints) /\ Queue # <<>> /\ Item = Queue[1]
                 /\ Queue' = Tail(Queue) /\ Draws /\ line' = line
<1>1. /\ Types /\ AfterClear(todo, line) /\ todo \in Seq(Prints)
      /\ Printing \in Seq(Items) /\ Printing # <<>> /\ Item = Printing[1]
      /\ ~Disturbed => (Initializing => todo = <<>>)
  BY Turn DEF IInv, Types, Queued
<1>2. CASE Disturbed
  <2>1. Item = Clear /\ boot = <<>>
    BY <1>2 DEF Disturbed, PrintItem
  <2>2. todo # <<>> /\ Printing = todo
    BY <1>1, <2>1 DEF Printing
  <2>3. todo' = Tail(todo) /\ boot' = <<>> /\ Draws /\ line' = line
    BY <1>1, <2>1, <2>2, Turn
  <2>4. ClearScreen
    BY <2>1, <2>3, ItemsDiffer
       DEF Draws, PrintNewline, PrintChar, PrintPrompt, shell_draw_input_line
  <2>5. todo' = <<Prompt, InputLine>> \/ (todo' = <<Prompt>> /\ line = <<>>)
    BY <1>1, <2>1, <2>2, <2>3, TailAfterClear
  <2>6. ~Initializing' /\ Queue' = todo'
    BY <2>3 DEF Initializing, Queue
  <2> QED  BY <1>2, <2>3, <2>4, <2>5, <2>6
<1>3. CASE ~Disturbed
  <2>1. CASE todo # <<>> /\ todo' = Tail(todo) /\ boot' = boot /\ Draws /\ line' = line
    <3>1. ~Initializing /\ ~Initializing'
      BY <1>1, <1>3, <2>1 DEF Initializing
    <3>2. Queue = todo /\ Queue' = todo' /\ Printing = todo
      BY <2>1, <3>1 DEF Queue, Printing
    <3> QED  BY <1>1, <1>3, <2>1, <3>1, <3>2
  <2>2. CASE /\ todo = <<>> /\ todo' = <<>>
             /\ boot = shell_init /\ boot' = Tail(shell_init) /\ ResetLine
    <3>1. Queue = <<>>
      BY <2>2, ShellInit DEF Queue, Initializing
    <3>2. boot' # <<>> /\ Head(boot') = Clear
      <4>1. boot' = <<Clear, "o", Newline, "a", Newline, Newline, Prompt>>
        BY <2>2, ShellInit
      <4> QED  BY <4>1
    <3>3. Queue' = Tail(shell_init)
      BY <2>2, <3>2, ItemsDiffer DEF Queue, Initializing
    <3> QED  BY <1>3, <2>2, <3>1, <3>3
  <2>3. CASE /\ todo = <<>> /\ todo' = <<>>
             /\ boot \in Seq(Prints) /\ boot # <<>> /\ boot' = Tail(boot)
             /\ Draws /\ line' = line
    <3>1. ASSUME NEW q \in Seq(Prints), q # <<>>
          PROVE  Head(q) # Reset
      BY <3>1 DEF Prints
    <3>2. Queue = boot /\ Printing = boot
      BY <2>3, <3>1 DEF Queue, Initializing, Printing
    <3>3. boot' \in Seq(Prints)
      BY <2>3
    <3>4. Queue' = boot'
      <4>1. CASE boot' = <<>>
        BY <2>3, <4>1 DEF Queue, Initializing
      <4>2. CASE boot' # <<>>
        BY <3>1, <3>3, <4>2 DEF Queue, Initializing
      <4> QED  BY <4>1, <4>2
    <3> QED  BY <1>1, <1>3, <2>3, <3>2, <3>4
  <2> QED  BY <1>1, <2>1, <2>2, <2>3, Turn
<1> QED  BY <1>2, <1>3

\* The same of keys: one before shell_init or after it.
LEMMA UndisturbedKey ==
    ASSUME IInv, Key, ~Disturbed'
    PROVE  /\ ~Disturbed /\ Queue = <<>> /\ Queue' = todo' /\ ~Initializing'
           /\ UNCHANGED <<cursor_position_x, cursor_position_y, fb, scrolled>>
<1>1. early' # 0 \/ (~Disturbed /\ ~Initializing)
  BY DEF Key, IInv, Types, TypeOK
<1>2. todo = <<>> /\ UNCHANGED <<cursor_position_x, cursor_position_y, fb, boot, scrolled>>
  BY DEF Key, cursor
<1> QED  BY <1>1, <1>2 DEF Disturbed, Queue, Initializing

----------------------------------------------------------------------------
(* The invariant.                                                          *)

LEMMA InitInv == Init => IInv
<1> SUFFICES ASSUME Init PROVE IInv
  OBVIOUS
<1>1. /\ todo = <<>> /\ boot = shell_init /\ early = 0 /\ line = <<>> /\ ~scrolled
      /\ cursor_position_x = 0 /\ cursor_position_y = 0
  BY DEF Init
<1>2. fb \in [Pixels -> Shown]
  BY DEF Init, Shown
<1>3. TypeOK
  <2>1. /\ cursor_position_x \in 0..(fb_width - 1) /\ cursor_position_y \in 0..(fb_height - 1)
        /\ line \in Lines /\ early \in Nat
    BY <1>1, ScreenAssumption
  <2>2. todo \in Seq(Items) /\ boot \in Seq(Items)
    BY <1>1, ShellInit
  <2>3. scrolled \in BOOLEAN
    BY DEF Init
  <2> QED  BY <1>2, <2>1, <2>2, <2>3 DEF TypeOK
<1>4. Len(todo) = 0 /\ todo \in Seq(Prints)
  BY <1>1
<1>5. Queued
  BY <1>1, <1>4 DEF Queued, AfterClear
<1>6. CursorInside
  BY <1>1, ScreenAssumption DEF CursorInside
<1>7. Queue = <<>> /\ AtMargin(Queue, cursor_position_x)
  <2>1. ~Initializing
    BY <1>1, ShellInit DEF Initializing
  <2> QED  BY <1>1, <1>4, <2>1 DEF Queue, AtMargin
<1> QED  BY <1>1, <1>3, <1>5, <1>6, <1>7 DEF IInv, Types

\* Printing keeps the types, on a disturbed screen too.
LEMMA TypesPrint == Types /\ PrintItem => Types'
<1> SUFFICES ASSUME Types, PrintItem PROVE Types'
  OBVIOUS
<1>1. /\ Printing \in Seq(Items) /\ Printing # <<>>
      /\ TypeOK /\ todo \in Seq(Prints) /\ boot \in Seq(Items) /\ line \in Lines
      /\ AfterClear(todo, line) /\ early \in Nat /\ <<>> \in Lines
  BY Turn, ScreenAssumption DEF Types, TypeOK, Queued
<1>2. early' \in Nat
  BY <1>1 DEF PrintItem
<1>3. /\ cursor_position_x' \in 0..(fb_width - 1)
      /\ cursor_position_y' \in 0..(fb_height - 1)
      /\ fb' \in [Pixels -> Shown]
      /\ scrolled' \in BOOLEAN
      /\ line' \in Lines
  <2>1. CASE Draws /\ line' = line
    BY <1>1, <2>1, PrintTypes DEF Draws
  <2>2. CASE ResetLine
    <3>1. line' = <<>> /\ UNCHANGED <<cursor_position_x, cursor_position_y, fb, scrolled>>
      BY <2>2 DEF ResetLine, cursor
    <3> QED  BY <1>1, <3>1 DEF TypeOK
  <2> QED  BY <2>1, <2>2, Turn
<1>4. todo' \in Seq(Prints) /\ AfterClear(todo', line')
  <2>1. CASE todo # <<>> /\ todo' = Tail(todo) /\ line' = line
    BY <1>1, <2>1, TailAfterClear
  <2>2. CASE todo' = <<>>
    <3>1. Len(todo') = 0 /\ todo' \in Seq(Prints)
      BY <2>2
    <3> QED  BY <3>1 DEF AfterClear
  <2> QED  BY <2>1, <2>2, Turn
<1>5. /\ boot' = shell_init \/ boot' \in Seq(Prints)
      /\ boot' \in Seq(Items)
  <2>1. CASE boot' = boot
    BY <2>1 DEF Types, TypeOK, Queued
  <2>2. CASE boot' = Tail(shell_init)
    BY <2>2, ShellInit, PrintsItems
  <2>3. CASE boot \in Seq(Prints) /\ boot # <<>> /\ boot' = Tail(boot)
    <3>1. boot' \in Seq(Prints)
      BY <2>3
    <3> QED  BY <3>1, PrintsItems
  <2> QED  BY <2>1, <2>2, <2>3, Turn
<1>6. todo' \in Seq(Items)
  BY <1>4, PrintsItems
<1> QED  BY <1>2, <1>3, <1>4, <1>5, <1>6 DEF Types, TypeOK, Queued

LEMMA TypesKey == Types /\ Key => Types'
<1> SUFFICES ASSUME Types, Key PROVE Types'
  OBVIOUS
<1>1. UNCHANGED <<cursor_position_x, cursor_position_y, fb, boot, scrolled>> /\ line \in Lines
      /\ early \in Nat /\ early' = IF Disturbed \/ Initializing THEN early + 1 ELSE 0
  BY DEF Key, cursor, Types, TypeOK
<1>2. /\ line' \in Lines /\ todo' \in Seq(Prints) /\ AfterClear(todo', line')
  BY <1>1, KeyQueues
<1>3. todo' \in Seq(Items)
  BY <1>2, PrintsItems
<1>4. early' \in Nat
  BY <1>1
<1> QED  BY <1>1, <1>2, <1>3, <1>4 DEF Types, TypeOK, Queued

\* A step that leaves the screen undisturbed leaves its line on the screen and
\* its queue as it should be.
LEMMA PrintInv == IInv /\ PrintItem => IInv'
<1> SUFFICES ASSUME IInv, PrintItem PROVE IInv'
  OBVIOUS
<1> USE ScreenAssumption
<1>1. Types /\ Types' /\ TypeOK
  BY TypesPrint DEF IInv, Types
<1> DEFINE Inside(x, y) == x + char_width < fb_width /\ y + line_height < fb_height
<1>2. SUFFICES ASSUME ~Disturbed'
               PROVE  /\ Inside(cursor_position_x', cursor_position_y')
                      /\ AtMargin(Queue', cursor_position_x')
                      /\ Initializing' => todo' = <<>>
  BY <1>1 DEF IInv, CursorInside
<1>3. Initializing' => todo' = <<>>
  BY <1>2, UndisturbedTurn
<1>4. CASE /\ Disturbed /\ ClearScreen /\ line' = line /\ Queue' = todo'
           /\ \/ todo' = <<Prompt, InputLine>>
              \/ todo' = <<Prompt>> /\ line = <<>>
  <2>1. cursor_position_x' = 0 /\ cursor_position_y' = 0
    BY <1>4 DEF ClearScreen
  <2>2. Inside(0, 0)
    OBVIOUS
  <2>3. \A i \in 1..Len(Queue') : Queue'[i] = Prompt => i = 1
    BY <1>4, ItemsDiffer
  <2> QED  BY <1>3, <2>1, <2>2, <2>3 DEF AtMargin
<1>5. CASE ~Disturbed /\ Queue = <<>> /\ Queue' = Tail(shell_init) /\ ResetLine
  <2>1. UNCHANGED <<cursor_position_x, cursor_position_y>>
    BY <1>5 DEF ResetLine, cursor
  <2>2. Inside(cursor_position_x, cursor_position_y)
    BY <1>5 DEF IInv, CursorInside
  <2> DEFINE s == Queue'
  <2>3. s = <<Clear, "o", Newline, "a", Newline, Newline, Prompt>>
    BY <1>5, ShellInit
  <2>4. /\ Len(s) = 7 /\ s[1] = Clear /\ s[2] = "o" /\ s[3] = Newline /\ s[4] = "a"
        /\ s[5] = Newline /\ s[6] = Newline /\ s[7] = Prompt
    BY <2>3
  <2> HIDE DEF s
  <2>5. AtMargin(s, cursor_position_x')
    <3>1. SUFFICES ASSUME NEW i \in 1..7, s[i] = Prompt
                   PROVE  i > 1 /\ s[i - 1] \in {Newline, Clear}
      BY <2>4 DEF AtMargin
    <3>2. Prompt \notin {Clear, "o", Newline, "a"}
      BY DEF Prompt, Clear, Newline
    <3>3. i = 7
      BY <2>4, <3>1, <3>2
    <3> QED  BY <2>4, <3>3
  <2> QED  BY <1>3, <2>1, <2>2, <2>5 DEF s
<1>6. CASE /\ ~Disturbed /\ Queue \in Seq(Prints) /\ Queue # <<>> /\ Item = Queue[1]
           /\ Queue' = Tail(Queue) /\ Draws /\ line' = line
  <2>1. /\ Inside(cursor_position_x, cursor_position_y)
        /\ AtMargin(Queue, cursor_position_x)
        /\ cursor_position_x \in Nat /\ cursor_position_y \in Nat
        /\ fb \in [Pixels -> Shown]
    BY <1>1, <1>6 DEF IInv, CursorInside, TypeOK
  <2>2. ASSUME Inside(cursor_position_x', cursor_position_y'),
               Item \in {Newline, Clear} => cursor_position_x' = 0,
               Item = InputLine => cursor_position_x' = cursor_position_x
        PROVE  /\ Inside(cursor_position_x', cursor_position_y')
               /\ AtMargin(Queue', cursor_position_x')
    BY <1>6, <2>1, <2>2, TailAtMargin
  <2>3. 0 + char_width < fb_width
    OBVIOUS
  <2>4. ASSUME NEW f \in [Pixels -> Shown], shell_newline(f)
        PROVE  cursor_position_x' = 0 /\ Inside(cursor_position_x', cursor_position_y')
    BY <1>1, <2>1, <2>3, <2>4, NewlineInside
  <2>5. CASE PrintNewline
    <3>1. shell_newline(fb) /\ Item = Newline
      BY <2>5 DEF PrintNewline
    <3> QED  BY <1>3, <2>1, <2>2, <2>4, <3>1, ItemsDiffer
  <2>6. CASE PrintChar
    <3> DEFINE f == draw_ascii_char(fb, cursor_position_x, cursor_position_y, Item)
               x == move_cursor_right(char_width)
    <3>1. Item \in Chars /\ Item \notin {Newline, Clear, InputLine}
      BY <2>6, ItemsDiffer DEF PrintChar
    <3>2. CASE Wraps(x)
      <4>1. f \in [Pixels -> Shown]
        <5>1. <<Item>> \in Seq(Chars)
          BY <3>1
        <5> QED  BY <2>1, <5>1, StringType DEF draw_ascii_char
      <4>2. shell_newline(f)
        BY <2>6, <3>2 DEF PrintChar
      <4> QED  BY <1>3, <2>2, <2>4, <3>1, <4>1, <4>2
    <3>3. CASE ~Wraps(x)
      <4>1. cursor_position_x' = x /\ cursor_position_y' = cursor_position_y
        BY <2>6, <3>3 DEF PrintChar
      <4>2. x + char_width < fb_width
        BY <2>1, <3>3 DEF Wraps, move_cursor_right
      <4> QED  BY <1>3, <2>1, <2>2, <3>1, <4>1, <4>2
    <3> QED  BY <3>2, <3>3
  <2>7. CASE PrintPrompt
    <3>1. Item = Prompt /\ cursor_position_x = 0
      <4>1. Queue[1] = Prompt /\ 1 \in 1..Len(Queue)
        BY <1>6, <2>7 DEF PrintPrompt
      <4> QED  BY <1>6, <2>1, <4>1 DEF AtMargin
    <3>2. cursor_position_x' = 2 * char_width /\ cursor_position_y' = cursor_position_y
      BY <2>7, <3>1 DEF PrintPrompt, move_cursor_right
    <3>3. Inside(cursor_position_x', cursor_position_y')
      BY <2>1, <3>2
    <3> QED  BY <1>3, <2>2, <3>1, <3>3, ItemsDiffer
  <2>8. CASE shell_draw_input_line
    <3>1. Item = InputLine /\ UNCHANGED <<cursor_position_x, cursor_position_y>>
      BY <2>8 DEF shell_draw_input_line, cursor
    <3> QED  BY <1>3, <2>1, <2>2, <3>1, ItemsDiffer
  <2>9. CASE ClearScreen
    <3>1. Item = Clear /\ cursor_position_x' = 0 /\ cursor_position_y' = 0
      BY <2>9 DEF ClearScreen
    <3>2. Inside(0, 0)
      OBVIOUS
    <3> QED  BY <1>3, <2>2, <3>1, <3>2, ItemsDiffer
  <2> QED  BY <1>6, <2>5, <2>6, <2>7, <2>8, <2>9 DEF Draws
<1> QED  BY <1>2, <1>4, <1>5, <1>6, UndisturbedTurn

\* A key: what it queues.
LEMMA KeyInv == IInv /\ Key => IInv'
<1> SUFFICES ASSUME IInv, Key PROVE IInv'
  OBVIOUS
<1>1. Types' /\ line \in Lines
  BY TypesKey DEF IInv, Types, TypeOK
<1>2. SUFFICES ASSUME ~Disturbed'
               PROVE  /\ /\ cursor_position_x' + char_width < fb_width
                         /\ cursor_position_y' + line_height < fb_height
                      /\ AtMargin(Queue', cursor_position_x')
                      /\ Initializing' => todo' = <<>>
  BY <1>1 DEF IInv, CursorInside
<1>3. /\ ~Disturbed /\ Queue' = todo' /\ ~Initializing'
      /\ UNCHANGED <<cursor_position_x, cursor_position_y>>
  BY <1>2, UndisturbedKey
<1> QED  BY <1>1, <1>3, KeyQueues DEF IInv, CursorInside

LEMMA Inductive == Spec => []IInv
<1>1. IInv /\ [Next]_vars => IInv'
  <2>1. IInv /\ UNCHANGED vars => IInv'
    BY DEF IInv, Types, TypeOK, Queued, CursorInside, Disturbed, Queue, Initializing, vars, cursor
  <2> QED  BY <2>1, PrintInv, KeyInv DEF Next
<1> QED  BY <1>1, InitInv, PTL DEF Spec

\* The cursor stays on the screen and nothing is drawn outside the framebuffer,
\* for every size of screen and of characters, however many keys are handled
\* while shell_init prints.
THEOREM TypeCorrect == Spec => []TypeOK
<1>1. IInv => TypeOK
  BY DEF IInv, Types
<1> QED  BY <1>1, Inductive, PTL

\* On every screen wider than three characters and higher than four lines, what
\* the shell prints is printed within the screen, unless a key was handled in
\* shell_init and the screen not cleared since.
THEOREM StaysInside == Spec => []CursorInside
<1>1. IInv => CursorInside
  BY DEF IInv
<1> QED  BY <1>1, Inductive, PTL

\* Whatever is printed disturbs no line of the screen but the one the cursor is
\* in, except in the step that clears the screen or scrolls it.
THEOREM OnlyOneLineChanges == Spec => OutputStays
<1> DEFINE Stays == \A u \in Pixels :
                        fb'[u] # fb[u] =>
                            \/ OnLine(u, cursor_position_y, line_height)
                            \/ Scrolls \/ Item = Clear
<1>1. ASSUME NEW x, NEW str
      PROVE  \A u \in Pixels :
                draw_string(fb, x, cursor_position_y, str)[u] # fb[u] =>
                    OnLine(u, cursor_position_y, line_height)
  BY DEF draw_string
<1>2. ASSUME NEW f, shell_newline(f), ~Full(LineBelow)
      PROVE  fb' = f
  BY <1>2 DEF shell_newline
<1>3. ASSUME PrintItem
      PROVE  Stays
  <2>1. CASE PrintNewline
    BY <1>2, <2>1 DEF PrintNewline, Scrolls
  <2>2. CASE PrintChar
    <3> DEFINE f == draw_ascii_char(fb, cursor_position_x, cursor_position_y, Item)
    <3>1. ~Scrolls => fb' = f
      BY <1>2, <2>2 DEF PrintChar, Scrolls
    <3>2. \A u \in Pixels : f[u] # fb[u] => OnLine(u, cursor_position_y, line_height)
      BY <1>1 DEF draw_ascii_char
    <3> QED  BY <3>1, <3>2
  <2>3. CASE PrintPrompt
    BY <1>1, <2>3 DEF PrintPrompt
  <2>4. CASE shell_draw_input_line
    BY <2>4 DEF shell_draw_input_line, draw_string, draw_rect
  <2>5. CASE ClearScreen
    BY <2>5 DEF ClearScreen
  <2>6. CASE ResetLine
    BY <2>6 DEF ResetLine
  <2> QED  BY <1>3, <2>1, <2>2, <2>3, <2>4, <2>5, <2>6 DEF PrintItem
<1>4. ASSUME Key
      PROVE  Stays
  BY <1>4 DEF Key
<1>5. Next => Stays
  BY <1>3, <1>4 DEF Next
<1> HIDE DEF Stays
<1>6. [Next]_vars => [Stays]_vars
  BY <1>5
<1> QED  BY <1>6, PTL DEF Spec, OutputStays, Stays

----------------------------------------------------------------------------
(* What is ahead of the text cursor, until the screen scrolls.             *)

Legible(f) == \A u \in Visible : f[u] # Mixed

\* The lines below the one at y are blank.
BlankBelow(f, y) == \A u \in Visible : Row(u) >= y + line_height => f[u] = Blank

\* The line at y is blank from column x on.
BlankRight(f, x, y) ==
    \A u \in Visible : OnLine(u, y, line_height) /\ Column(u) >= x => f[u] = Blank

\* What may be printed although there is ink at the cursor: it goes elsewhere
\* or wipes the line first.
Overs == {Newline, InputLine, Clear}

\* The typed line is drawn last, or something that needs no room follows it.
InputLast(q, text) ==
    \A i \in 1..Len(q) : q[i] = InputLine =>
        text = <<>> \/ i = Len(q) \/ q[i + 1] \in Overs

\* A screen on which the queue q may be printed.
Ready(f, q, x, y) ==
    /\ Legible(f)
    /\ BlankBelow(f, y)
    /\ q = <<>> \/ q[1] \in Overs \/ BlankRight(f, x, y)

Ahead ==
    ~Disturbed =>
        /\ InputLast(Queue, line)
        /\ ~scrolled => Ready(fb, Queue, cursor_position_x, cursor_position_y)

LEMMA QuotientAtLeast ==
    ASSUME NEW a \in Int, NEW c \in Nat \ {0}, NEW n \in Nat, a >= n * c
    PROVE  a \div c >= n
<1> DEFINE q == a \div c
           r == a % c
<1>1. a = c * q + r /\ r \in 0..(c - 1) /\ q \in Int
  OBVIOUS
<1> HIDE DEF q, r
<1>2. CASE q < n
  <2>1. q + 1 <= n /\ c * (q + 1) <= c * n
    BY <1>1, <1>2
  <2>2. c * (q + 1) = c * q + c /\ c * n = n * c
    BY <1>1
  <2>3. a < c * q + c
    BY <1>1
  <2> QED  BY <1>1, <2>1, <2>2, <2>3
<1> QED  BY <1>1, <1>2 DEF q

LEMMA QuotientNegative ==
    ASSUME NEW a \in Int, NEW c \in Nat \ {0}, a < 0
    PROVE  a \div c < 0
OBVIOUS

LEMMA RowColumn ==
    ASSUME NEW u \in Pixels
    PROVE  u \in Nat /\ Column(u) \in Nat /\ Row(u) \in Int
<1>1. fb_pitch \in Nat /\ fb_pitch > 0 /\ u \in Nat
  BY ScreenAssumption DEF Pixels
<1> QED  BY <1>1 DEF Column, Row

\* A string drawn where the line is blank is legible, and leaves blank what is
\* right of it and every other line.
LEMMA DrawnOnBlank ==
    ASSUME NEW f \in [Pixels -> Shown], NEW x \in Int, NEW y \in Int, NEW str \in Seq(Chars),
           Legible(f), BlankRight(f, x, y), BlankBelow(f, y)
    PROVE  LET g == draw_string(f, x, y, str)
           IN  /\ Legible(g) /\ BlankBelow(g, y)
               /\ BlankRight(g, x + Len(str) * char_width, y)
<1> DEFINE g == draw_string(f, x, y, str)
           k(u) == (Column(u) - x) \div char_width + 1
           n == Len(str)
<1>1. ASSUME NEW u \in Pixels
      PROVE  g[u] = IF OnLine(u, y, line_height) /\ k(u) \in 1..n /\ str[k(u)] # Space
                    THEN Over(f[u], str[k(u)]) ELSE f[u]
  BY DEF draw_string
<1>2. ASSUME NEW u \in Pixels
      PROVE  k(u) \in Int /\ (Column(u) < x => k(u) < 1)
             /\ (Column(u) >= x + n * char_width => k(u) > n)
  <2>1. /\ Column(u) - x \in Int /\ char_width \in Nat \ {0} /\ n \in Nat
        /\ n * char_width \in Int /\ Column(u) \in Int
    BY RowColumn, ScreenAssumption
  <2>2. (Column(u) - x) \div char_width \in Int
    BY <2>1
  <2>3. Column(u) < x => (Column(u) - x) \div char_width < 0
    <3>1. Column(u) < x => Column(u) - x < 0
      BY <2>1
    <3> HIDE DEF n
    <3> QED  BY <2>1, <3>1, QuotientNegative
  <2>4. Column(u) >= x + n * char_width => (Column(u) - x) \div char_width >= n
    <3>1. Column(u) >= x + n * char_width => Column(u) - x >= n * char_width
      BY <2>1
    <3> QED  BY <2>1, <3>1, QuotientAtLeast
  <2> HIDE DEF n
  <2> QED  BY <2>1, <2>2, <2>3, <2>4
<1> HIDE DEF g, k
<1>3. ASSUME NEW u \in Visible, OnLine(u, y, line_height), k(u) \in 1..n, str[k(u)] # Space
      PROVE  g[u] = str[k(u)] /\ g[u] # Mixed
  <2>1. u \in Pixels /\ Column(u) >= x
    BY <1>2, <1>3, RowColumn DEF Visible
  <2>2. f[u] = Blank
    BY <1>3, <2>1 DEF BlankRight
  <2>3. str[k(u)] \in Letters
    BY <1>3 DEF Chars
  <2>4. Mixed \notin Letters
    BY DEF Mixed, Letters
  <2> QED  BY <1>1, <1>3, <2>1, <2>2, <2>3, <2>4 DEF Over
<1>4. Legible(g)
  BY <1>1, <1>3 DEF Legible, Visible
<1>5. BlankBelow(g, y)
  <2>1. ASSUME NEW u \in Visible, Row(u) >= y + line_height
        PROVE  ~OnLine(u, y, line_height)
    BY <2>1, RowColumn, ScreenAssumption DEF OnLine, Visible
  <2> QED  BY <1>1, <2>1 DEF BlankBelow, Visible
<1>6. BlankRight(g, x + n * char_width, y)
  <2>1. SUFFICES ASSUME NEW u \in Visible, OnLine(u, y, line_height),
                        Column(u) >= x + n * char_width
                 PROVE  g[u] = Blank
    BY DEF BlankRight
  <2>2. u \in Pixels /\ k(u) \in Int /\ k(u) > n
    BY <1>2, <2>1 DEF Visible
  <2>3. Column(u) >= x
    <3>1. n * char_width >= 0 /\ n * char_width \in Int
      BY ScreenAssumption
    <3> QED  BY <2>1, <2>2, <3>1, RowColumn
  <2> QED  BY <1>1, <2>1, <2>2, <2>3 DEF BlankRight
<1> QED  BY <1>4, <1>5, <1>6 DEF g

\* A new line that does not scroll is blank.
LEMMA NewlineBlank ==
    ASSUME TypeOK, NEW f, shell_newline(f), ~scrolled',
           cursor_position_y + line_height < fb_height,
           Legible(f), BlankBelow(f, cursor_position_y)
    PROVE  /\ Legible(fb') /\ BlankBelow(fb', cursor_position_y')
           /\ BlankRight(fb', cursor_position_x', cursor_position_y')
<1>1. /\ cursor_position_y \in Nat /\ line_height \in Nat /\ line_height > 0
      /\ fb_height \in Nat /\ cursor_position_y + line_height < fb_height
  BY ScreenAssumption DEF TypeOK
<1>2. cursor_position_y' = cursor_position_y + line_height /\ fb' = f
  BY <1>1 DEF shell_newline, LineBelow
<1>3. ASSUME NEW u \in Visible, Row(u) >= cursor_position_y'
      PROVE  fb'[u] = Blank
  BY <1>2, <1>3 DEF BlankBelow
<1>4. ASSUME NEW u \in Visible,
             Row(u) >= cursor_position_y' + line_height
             \/ OnLine(u, cursor_position_y', line_height)
      PROVE  Row(u) >= cursor_position_y'
  BY <1>1, <1>2, <1>4, RowColumn DEF OnLine, Visible
<1> QED  BY <1>2, <1>3, <1>4 DEF BlankBelow, BlankRight

LEMMA AheadInit == Init => Ahead
<1> SUFFICES ASSUME Init PROVE Ahead
  OBVIOUS
<1>1. line = <<>> /\ fb = [u \in Pixels |-> Blank]
  BY DEF Init
<1>2. Queue = <<>>
  BY ShellInit DEF Init, Queue, Initializing
<1>3. \A u \in Visible : fb[u] = Blank
  BY <1>1 DEF Visible
<1>4. Blank # Mixed
  BY DEF Blank, Mixed
<1> QED  BY <1>1, <1>2, <1>3, <1>4 DEF Ahead, Ready, InputLast, Legible, BlankBelow

LEMMA TailInputLast ==
    ASSUME NEW q \in Seq(Prints), q # <<>>, NEW text, InputLast(q, text)
    PROVE  /\ InputLast(Tail(q), text)
           /\ q[1] = InputLine =>
                text = <<>> \/ Tail(q) = <<>> \/ Tail(q)[1] \in Overs
<1>1. /\ Len(q) \in Nat /\ Len(q) > 0 /\ Len(Tail(q)) = Len(q) - 1
      /\ Tail(q) \in Seq(Prints)
  OBVIOUS
<1>2. \A i \in 1..Len(Tail(q)) : Tail(q)[i] = q[i + 1] /\ i + 1 \in 1..Len(q)
  BY <1>1
<1>3. InputLast(Tail(q), text)
  <2>1. SUFFICES ASSUME NEW i \in 1..Len(Tail(q)), Tail(q)[i] = InputLine
                 PROVE  text = <<>> \/ i = Len(Tail(q)) \/ Tail(q)[i + 1] \in Overs
    BY DEF InputLast
  <2> DEFINE t == Tail(q)
             n == Len(q)
             m == Len(t)
  <2>2. text = <<>> \/ i + 1 = n \/ q[(i + 1) + 1] \in Overs
    BY <1>2, <2>1 DEF InputLast
  <2>3. i \in 1..m /\ m = n - 1 /\ n \in Nat /\ \A l \in 1..m : t[l] = q[l + 1]
    BY <1>1, <1>2
  <2> HIDE DEF t, n, m
  <2>4. i # m => i + 1 \in 1..m
    BY <2>3
  <2>5. i + 1 = n => i = m
    BY <2>3
  <2>6. text = <<>> \/ i = m \/ t[i + 1] \in Overs
    BY <2>2, <2>3, <2>4, <2>5
  <2> QED  BY <2>6 DEF t, m
<1>4. ASSUME q[1] = InputLine, text # <<>>, Tail(q) # <<>>
      PROVE  Tail(q)[1] \in Overs
  <2>1. 1 \in 1..Len(q) /\ 1 # Len(q) /\ 1 \in 1..Len(Tail(q))
    BY <1>1, <1>4
  <2>2. q[1 + 1] \in Overs
    BY <1>4, <2>1 DEF InputLast
  <2> QED  BY <1>2, <2>1, <2>2
<1> QED  BY <1>3, <1>4

\* A cleared screen is ready for everything.
LEMMA ClearedReady ==
    ASSUME ClearScreen, NEW q
    PROVE  Ready(fb', q, cursor_position_x', cursor_position_y')
<1>1. \A u \in Visible : fb'[u] = Blank
  BY DEF ClearScreen, clear_screen, Visible
<1> QED  BY <1>1 DEF Ready, Legible, BlankBelow, BlankRight, Blank, Mixed

\* Everything that is printed on a screen that is ready for it.
LEMMA ReadyPrint ==
    ASSUME IInv, Queue \in Seq(Prints), Queue # <<>>, Item = Queue[1], Draws,
           Queue' = Tail(Queue), line' = line, ~Disturbed, ~scrolled',
           InputLast(Queue, line),
           ~scrolled => Ready(fb, Queue, cursor_position_x, cursor_position_y)
    PROVE  Ready(fb', Queue', cursor_position_x', cursor_position_y')
<1> USE ScreenAssumption
<1>1. /\ TypeOK /\ fb \in [Pixels -> Shown] /\ line \in Lines
      /\ cursor_position_x \in Int /\ cursor_position_x >= 0
      /\ cursor_position_x + char_width < fb_width
      /\ cursor_position_y \in Int /\ cursor_position_y + line_height < fb_height
      /\ AtMargin(Queue, cursor_position_x)
  BY DEF IInv, Types, TypeOK, CursorInside
<1>2. ASSUME Item \notin Overs, ~scrolled
      PROVE  /\ Legible(fb) /\ BlankBelow(fb, cursor_position_y)
             /\ BlankRight(fb, cursor_position_x, cursor_position_y)
  BY <1>2 DEF Ready
<1>3. ASSUME NEW f, shell_newline(f), Legible(f), BlankBelow(f, cursor_position_y)
      PROVE  Ready(fb', Queue', cursor_position_x', cursor_position_y')
  BY <1>1, <1>3, NewlineBlank DEF Ready
<1>4. CASE PrintNewline
  <2>1. shell_newline(fb)
    BY <1>4 DEF PrintNewline
  <2>2. ~scrolled
    BY <2>1 DEF shell_newline
  <2> QED  BY <1>3, <2>1, <2>2 DEF Ready
<1>5. CASE PrintChar
  <2> DEFINE f == draw_ascii_char(fb, cursor_position_x, cursor_position_y, Item)
             x == move_cursor_right(char_width)
  <2>1. Item \in Chars /\ Item \notin Overs
    BY <1>5, ItemsDiffer DEF PrintChar, Overs
  <2>2. ~scrolled
    BY <1>5 DEF PrintChar, shell_newline
  <2>3. /\ Legible(f) /\ BlankBelow(f, cursor_position_y)
        /\ BlankRight(f, cursor_position_x + char_width, cursor_position_y)
    <3>1. <<Item>> \in Seq(Chars) /\ Len(<<Item>>) * char_width = char_width
      BY <2>1
    <3> QED  BY <1>1, <1>2, <2>1, <2>2, <3>1, DrawnOnBlank DEF draw_ascii_char
  <2>4. CASE Wraps(x)
    <3>1. shell_newline(f)
      BY <1>5, <2>4 DEF PrintChar
    <3> HIDE DEF f
    <3> QED  BY <1>3, <2>3, <3>1
  <2>5. CASE ~Wraps(x)
    <3>1. cursor_position_x' = x /\ fb' = f /\ cursor_position_y' = cursor_position_y
      BY <1>5, <2>5 DEF PrintChar
    <3>2. x = cursor_position_x + char_width
      BY <1>1 DEF move_cursor_right
    <3> QED  BY <2>3, <3>1, <3>2 DEF Ready
  <2> QED  BY <2>4, <2>5
<1>6. CASE PrintPrompt
  <2> DEFINE f == draw_string(fb, cursor_position_x, cursor_position_y, <<"$", Space>>)
  <2>1. Item = Prompt /\ Item \notin Overs
    BY <1>6, ItemsDiffer DEF PrintPrompt, Overs
  <2>2. fb' = f /\ cursor_position_y' = cursor_position_y /\ ~scrolled
        /\ cursor_position_x' = move_cursor_right(2 * char_width)
    BY <1>6 DEF PrintPrompt
  <2>3. /\ Legible(f) /\ BlankBelow(f, cursor_position_y)
        /\ BlankRight(f, cursor_position_x + 2 * char_width, cursor_position_y)
    <3>1. <<"$", Space>> \in Seq(Chars) /\ Len(<<"$", Space>>) = 2
      BY DEF Chars, Letters
    <3> QED  BY <1>1, <1>2, <2>1, <2>2, <3>1, DrawnOnBlank
  <2>4. cursor_position_x = 0
    <3>1. 1 \in 1..Len(Queue) /\ Queue[1] = Prompt
      BY <2>1
    <3>2. AtMargin(Queue, cursor_position_x)
      BY <1>1
    <3> QED  BY <3>1, <3>2 DEF AtMargin
  <2>5. cursor_position_x' = cursor_position_x + 2 * char_width
    BY <2>2, <2>4 DEF move_cursor_right
  <2> QED  BY <2>2, <2>3, <2>5 DEF Ready
<1>7. CASE shell_draw_input_line
  <2> DEFINE x == cursor_position_x - 2 * char_width
             y == cursor_position_y
             f == draw_rect(fb, x, y, fb_width - x, line_height)
             str == <<"$", Space>> \o line
  <2>1. /\ Item = InputLine /\ fb' = draw_string(f, x, y, str)
        /\ UNCHANGED <<cursor_position_x, cursor_position_y, scrolled>>
    BY <1>7 DEF shell_draw_input_line, cursor
  <2>2. x \in Int /\ y \in Int
    BY <1>1
  <2>3. str \in Seq(Chars) /\ (line = <<>> => Len(str) = 2)
    <3>1. line \in Seq(Chars)
      BY <1>1 DEF Chars
    <3>2. <<"$", Space>> \in Seq(Chars) /\ Len(<<"$", Space>>) = 2
      BY DEF Chars, Letters
    <3> QED  BY <3>1, <3>2
  <2>4. Legible(fb) /\ BlankBelow(fb, y)
    BY <2>1 DEF Ready
  <2>5. ASSUME NEW u \in Pixels
        PROVE  f[u] = IF OnLine(u, y, line_height) /\ Column(u) \in x..(x + (fb_width - x) - 1)
                      THEN Blank ELSE fb[u]
    BY DEF draw_rect
  <2>6. f \in [Pixels -> Shown]
    BY <1>1, RectType
  <2> HIDE DEF f
  <2>7. Legible(f)
    BY <2>4, <2>5 DEF Legible, Visible, Blank, Mixed
  <2>8. BlankBelow(f, y)
    BY <2>4, <2>5 DEF BlankBelow, Visible
  <2>9. BlankRight(f, x, y)
    <3>1. SUFFICES ASSUME NEW u \in Visible, OnLine(u, y, line_height), Column(u) >= x
                   PROVE  f[u] = Blank
      BY DEF BlankRight
    <3>2. Column(u) \in x..(x + (fb_width - x) - 1) /\ u \in Pixels
      BY <2>2, <3>1, RowColumn DEF Visible
    <3> QED  BY <2>5, <3>1, <3>2
  <2>10. /\ Legible(fb') /\ BlankBelow(fb', y)
         /\ BlankRight(fb', x + Len(str) * char_width, y)
    <3> HIDE DEF x, y, str
    <3> QED  BY <2>1, <2>2, <2>3, <2>6, <2>7, <2>8, <2>9, DrawnOnBlank
  <2>11. line = <<>> => x + Len(str) * char_width = cursor_position_x
    <3>1. x + 2 * char_width = cursor_position_x
      BY <1>1
    <3> QED  BY <2>3, <3>1
  <2>12. line = <<>> \/ Queue' = <<>> \/ Queue'[1] \in Overs
    BY <2>1, TailInputLast
  <2> QED  BY <2>1, <2>10, <2>11, <2>12 DEF Ready
<1>8. CASE ClearScreen
  BY <1>8, ClearedReady
<1> QED  BY <1>4, <1>5, <1>6, <1>7, <1>8 DEF Draws

LEMMA AheadPrint == IInv /\ Ahead /\ PrintItem => Ahead'
<1> SUFFICES ASSUME IInv, Ahead, PrintItem, ~Disturbed'
             PROVE  /\ InputLast(Queue', line')
                    /\ ~scrolled' =>
                         Ready(fb', Queue', cursor_position_x', cursor_position_y')
  BY DEF Ahead
<1>1. CASE /\ Disturbed /\ ClearScreen /\ line' = line /\ Queue' = todo'
           /\ \/ todo' = <<Prompt, InputLine>>
              \/ todo' = <<Prompt>> /\ line = <<>>
  <2>1. InputLast(Queue', line')
    <3>1. ASSUME NEW i \in 1..Len(Queue'), Queue'[i] = InputLine
          PROVE  i = Len(Queue')
      BY <1>1, <3>1, ItemsDiffer
    <3> QED  BY <3>1 DEF InputLast
  <2> QED  BY <1>1, <2>1, ClearedReady
<1>2. CASE ~Disturbed /\ Queue = <<>> /\ Queue' = Tail(shell_init) /\ ResetLine
  <2>1. line' = <<>> /\ UNCHANGED <<cursor_position_x, cursor_position_y, fb, scrolled>>
    BY <1>2 DEF ResetLine, cursor
  <2>2. Queue'[1] = Clear
    <3>1. Queue' = <<Clear, "o", Newline, "a", Newline, Newline, Prompt>>
      BY <1>2, ShellInit
    <3> QED  BY <3>1
  <2> QED  BY <1>2, <2>1, <2>2 DEF Ahead, Ready, InputLast, Overs
<1>3. CASE /\ ~Disturbed /\ Queue \in Seq(Prints) /\ Queue # <<>> /\ Item = Queue[1]
           /\ Queue' = Tail(Queue) /\ Draws /\ line' = line
  <2>1. InputLast(Queue', line')
    BY <1>3, TailInputLast DEF Ahead
  <2>2. ASSUME ~scrolled'
        PROVE  Ready(fb', Queue', cursor_position_x', cursor_position_y')
    BY <1>3, <2>2, ReadyPrint DEF Ahead
  <2> QED  BY <2>1, <2>2
<1> QED  BY <1>1, <1>2, <1>3, UndisturbedTurn

\* A key leaves the screen as it is, and begins with what needs no room.
LEMMA AheadKey == IInv /\ Ahead /\ Key => Ahead'
<1> SUFFICES ASSUME IInv, Ahead, Key, ~Disturbed' PROVE Ahead'
  BY DEF Ahead
<1>1. /\ ~Disturbed /\ Queue' = todo'
      /\ UNCHANGED <<cursor_position_x, cursor_position_y, fb, scrolled>>
  BY UndisturbedKey
<1>2. SUFFICES todo'[1] \in Overs /\ InputLast(todo', line')
  BY <1>1 DEF Ahead, Ready
<1>3. ASSUME line' = <<>> PROVE InputLast(todo', line')
  BY <1>3 DEF InputLast
<1>4. ASSUME NEW text \in Lines, Edit(text)
      PROVE  todo'[1] \in Overs /\ InputLast(todo', line')
  <2>1. todo' = <<InputLine>>
    BY <1>4 DEF Edit
  <2>2. Len(todo') = 1 /\ todo'[1] = InputLine
    BY <2>1
  <2> QED  BY <2>2 DEF Overs, InputLast
<1>5. ASSUME NEW command \in Commands, Enter(command)
      PROVE  todo'[1] \in Overs /\ InputLast(todo', line')
  <2>1. todo' = <<Newline, InputLine>> \o parse_command(command, line) /\ line' = <<>>
    BY <1>5 DEF Enter
  <2>2. PICK end \in {<<>>, <<Prompt, InputLine>>} :
             parse_command(command, line) = Output(command, line) \o end
    BY DEF parse_command
  <2>3. parse_command(command, line) \in Seq(Prints)
    <3>1. line \in Lines
      BY DEF IInv, Types, TypeOK
    <3>2. Output(command, line) \in Seq(Prints)
      <4>1. Words \subseteq Prints /\ Clear \in Prints
        BY ItemsDiffer DEF Words, Prints, Items, Newline, Reset
      <4>2. Plain(Output(command, line))
        BY <3>1, OutputPlain
      <4>3. ASSUME NEW out, Plain(out)
            PROVE  out \in Seq(Prints)
        <5>1. <<Clear>> \in Seq(Prints)
          BY <4>1
        <5>2. CASE out \in Seq(Words)
          BY <4>1, <5>2
        <5> QED  BY <4>3, <5>1, <5>2 DEF Plain
      <4> QED  BY <4>2, <4>3
    <3>3. Prompt \in Prints /\ InputLine \in Prints
      BY ItemsDiffer DEF Prints, Items
    <3>4. end \in Seq(Prints)
      <4>1. <<>> \in Seq(Prints) /\ <<Prompt, InputLine>> \in Seq(Prints)
        BY <3>3
      <4> QED  BY <4>1
    <3> DEFINE out == Output(command, line)
    <3> HIDE DEF out
    <3>5. out \o end \in Seq(Prints)
      BY <3>2, <3>4 DEF out
    <3> QED  BY <2>2, <3>5 DEF out
  <2>4. Newline \in Prints /\ InputLine \in Prints
    BY ItemsDiffer DEF Prints, Items
  <2>5. todo'[1] = Newline
    <3> DEFINE rest == parse_command(command, line)
    <3> HIDE DEF rest
    <3>1. rest \in Seq(Prints) /\ todo' = <<Newline, InputLine>> \o rest
      BY <2>1, <2>3 DEF rest
    <3> QED  BY <2>4, <3>1
  <2> QED  BY <1>3, <2>1, <2>5 DEF Overs
<1>6. CASE shell_cancel_input
  BY <1>3, <1>6 DEF shell_cancel_input, Overs
<1>7. CASE Redraw
  <2>1. todo' = <<Clear, Prompt, InputLine>>
    BY <1>7 DEF Redraw
  <2>2. Len(todo') = 3 /\ todo'[1] = Clear /\ todo'[2] = Prompt /\ 1..3 = {1, 2, 3}
    BY <2>1
  <2>3. Clear # InputLine /\ Prompt # InputLine
    BY DEF Clear, Prompt, InputLine
  <2> QED  BY <2>2, <2>3 DEF Overs, InputLast
<1>8. CASE CancelAndClear
  BY <1>3, <1>8 DEF CancelAndClear, Overs
<1> QED  BY <1>4, <1>5, <1>6, <1>7, <1>8 DEF Key

LEMMA AheadInvariant == Spec => []Ahead
<1>1. IInv /\ Ahead /\ [Next]_vars => Ahead'
  <2>1. Ahead /\ UNCHANGED vars => Ahead'
    BY DEF Ahead, Disturbed, Queue, Initializing, vars, cursor
  <2> QED  BY <2>1, AheadPrint, AheadKey DEF Next
<1> QED  BY <1>1, AheadInit, Inductive, PTL DEF Spec

\* On every screen, until it scrolls, nothing is printed where there is ink: the
\* shell prints ahead of everything, and clears the one line that it prints
\* again, unless a key was handled in shell_init and the screen not cleared
\* since.
THEOREM LegibleBeforeScrolling == Spec => []LegibleUntilScroll
<1>1. Ahead => LegibleUntilScroll
  BY DEF Ahead, Ready, Legible, LegibleUntilScroll
<1> QED  BY <1>1, AheadInvariant, PTL

----------------------------------------------------------------------------
(* The input line on the screen.                                           *)

\* The welcome is printed and does not scroll.
Welcoming(q, x, y) ==
    \/ q = <<Clear, "o", Newline, "a", Newline, Newline, Prompt>>
    \/ q = <<"o", Newline, "a", Newline, Newline, Prompt>> /\ x = 0 /\ y = 0
    \/ q = <<Newline, "a", Newline, Newline, Prompt>> /\ y = 0
    \/ q = <<"a", Newline, Newline, Prompt>> /\ x = 0 /\ y = line_height
    \/ q = <<Newline, Newline, Prompt>> /\ y = line_height
    \/ q = <<Newline, Prompt>> /\ y = 2 * line_height
    \/ q = <<Prompt>>

\* A prompt that no typed line follows is printed on a blank line, for an empty
\* line of input: after the welcome, and by Ctrl+L.
BarePrompt ==
    (Queue # <<>> /\ Queue[Len(Queue)] = Prompt) =>
        /\ line = <<>>
        /\ \/ Len(Queue) > 1 /\ Queue[Len(Queue) - 1] = Clear
           \/ /\ scrolled => Queue[1] = Clear
              /\ Welcoming(Queue, cursor_position_x, cursor_position_y)

LineInv ==
    /\ LineShown
    /\ ~Disturbed => Poised(Queue, cursor_position_x) /\ BarePrompt

LEMMA TailPoised ==
    ASSUME NEW q \in Seq(Prints), q # <<>>, NEW x, NEW z, Poised(q, x),
           q[1] \in {Newline, Clear} => z = 0,
           q[1] = Prompt => z = 2 * char_width,
           q[1] = InputLine => z = x
    PROVE  Poised(Tail(q), z)
<1> DEFINE t == Tail(q)
           n == Len(q)
           m == Len(t)
<1>1. /\ n \in Nat /\ n > 0 /\ m = n - 1 /\ t \in Seq(Prints)
      /\ (t = <<>> <=> m = 0)
      /\ \A i \in 1..m : t[i] = q[i + 1] /\ i + 1 \in 1..n
  <2>1. n \in Nat /\ n > 0 /\ m = n - 1 /\ t \in Seq(Prints)
    OBVIOUS
  <2>2. \A i \in 1..m : t[i] = q[i + 1] /\ i + 1 \in 1..n
    BY <2>1
  <2>3. t = <<>> <=> m = 0
    <3> HIDE DEF t
    <3> QED  BY <2>1, EmptySeq
  <2> QED  BY <2>1, <2>2, <2>3
<1>2. q[n] \notin Chars
  BY DEF Poised
<1>3. q[1] \in Prints
  BY <1>1
<1> HIDE DEF t, n, m
<1>4. ASSUME NEW i \in 1..m, t[i] = InputLine
      PROVE  \/ i = 1 /\ z \in Margins
             \/ i > 1 /\ t[i - 1] \in {Newline, Prompt}
  <2>1. q[i + 1] = InputLine /\ i + 1 \in 1..n /\ i + 1 # 1 /\ (i + 1) - 1 = i
    BY <1>1, <1>4
  <2>2. q[i] \in {Newline, Prompt}
    BY <2>1 DEF Poised, n
  <2>3. i = 1 => z \in Margins
    BY <2>2 DEF Margins
  <2>4. i > 1 => t[i - 1] = q[i]
    <3>1. i > 1 => i - 1 \in 1..m /\ (i - 1) + 1 = i
      BY <1>1
    <3> QED  BY <1>1, <3>1
  <2>5. i = 1 \/ i > 1
    BY <1>1
  <2> QED  BY <2>2, <2>3, <2>4, <2>5
<1>5. CASE t = <<>>
  <2>1. n = 1 /\ q[1] \notin Chars
    BY <1>1, <1>2, <1>5
  <2>2. q[1] \in {Newline, Prompt, InputLine, Clear}
    BY <1>3, <2>1 DEF Prints, Items
  <2>3. q[1] = InputLine => x \in Margins
    BY <1>1, <2>1 DEF Poised, n
  <2>4. z \in Margins
    BY <2>2, <2>3 DEF Margins
  <2> QED  BY <1>4, <1>5, <2>4 DEF Poised, t, m
<1>6. CASE t # <<>>
  <2>1. m \in 1..m /\ t[m] = q[n]
    <3>1. m \in 1..m /\ m + 1 = n
      BY <1>1, <1>6
    <3> QED  BY <1>1, <3>1
  <2> QED  BY <1>2, <1>4, <1>6, <2>1 DEF Poised, t, m
<1> QED  BY <1>5, <1>6

\* What a line shows on which a string was drawn from the left edge, when it
\* was blank.
LEMMA DrawnFromMargin ==
    ASSUME NEW f, NEW y, NEW str, NEW u \in Visible, OnLine(u, y, line_height),
           f[u] = Blank
    PROVE  LET k == Column(u) \div char_width + 1
           IN  draw_string(f, 0, y, str)[u] =
                   IF k \in 1..Len(str) /\ str[k] # Space THEN str[k] ELSE Blank
<1>1. Column(u) - 0 = Column(u) /\ u \in Pixels
  BY RowColumn DEF Visible
<1> QED  BY <1>1 DEF draw_string, Over

LEMMA LineInit == Init => LineInv
<1> SUFFICES ASSUME Init PROVE LineInv
  OBVIOUS
<1>1. Queue = <<>> /\ cursor_position_x = 0
  BY ShellInit DEF Init, Queue, Initializing
<1>2. cursor_position_x \in Margins /\ Len(Queue) = 0
  BY <1>1 DEF Margins
<1> QED  BY <1>1, <1>2 DEF LineInv, LineShown, Poised, BarePrompt

LEMMA LineKey == IInv /\ LineInv /\ Key => LineInv'
<1> SUFFICES ASSUME IInv, LineInv, Key, ~Disturbed' PROVE LineInv'
  BY DEF LineInv, LineShown
<1>1. /\ ~Disturbed /\ Queue' = todo' /\ cursor_position_x' = cursor_position_x
      /\ cursor_position_x \in Margins
  BY UndisturbedKey DEF LineInv, Poised
<1>2. ASSUME todo' # <<>>, Poised(todo', cursor_position_x),
             todo'[Len(todo')] = Prompt =>
                line' = <<>> /\ Len(todo') > 1 /\ todo'[Len(todo') - 1] = Clear
      PROVE  LineInv'
  BY <1>1, <1>2 DEF LineInv, BarePrompt, LineShown
<1>3. /\ Prompt # InputLine /\ Clear # InputLine /\ Newline # InputLine
      /\ InputLine \notin {"^", "a"}
  BY DEF Prompt, Clear, Newline, InputLine
<1>4. InputLine \notin Chars /\ Prompt \notin Chars
  BY DEF Prompt, InputLine, Chars, Letters, Space
<1>5. ASSUME NEW text \in Lines, Edit(text)
      PROVE  LineInv'
  <2>1. todo' = <<InputLine>>
    BY <1>5 DEF Edit
  <2>2. Len(todo') = 1 /\ todo'[1] = InputLine /\ todo' # <<>> /\ 1..1 = {1}
    BY <2>1
  <2> QED  BY <1>1, <1>2, <1>3, <1>4, <2>2 DEF Poised
<1>6. ASSUME NEW command \in Commands, Enter(command)
      PROVE  LineInv'
  <2> DEFINE out == Output(command, line)
  <2>1. PICK end \in {<<>>, <<Prompt, InputLine>>} :
             /\ todo' = <<Newline, InputLine>> \o (out \o end)
             /\ command # "exit" => end = <<Prompt, InputLine>>
    BY <1>6 DEF Enter, parse_command
  <2>2. Plain(out) /\ (out = <<Clear>> => end = <<Prompt, InputLine>>)
    BY <2>1, OutputPlain DEF IInv, Types, TypeOK
  <2> HIDE DEF out
  <2> QED  BY <1>2, <2>1, <2>2, EnterAtMargin
<1>7. CASE shell_cancel_input
  <2>1. todo' = <<InputLine, Newline, "^", "a", Newline, Prompt, InputLine>>
    BY <1>7 DEF shell_cancel_input
  <2>2. /\ Len(todo') = 7 /\ todo' # <<>> /\ 1..7 = {1, 2, 3, 4, 5, 6, 7}
        /\ todo'[1] = InputLine /\ todo'[2] = Newline /\ todo'[3] = "^" /\ todo'[4] = "a"
        /\ todo'[5] = Newline /\ todo'[6] = Prompt /\ todo'[7] = InputLine
    BY <2>1
  <2>3. \A i \in 1..7 : todo'[i] = InputLine => i = 1 \/ i = 7
    BY <1>3, <2>2
  <2>4. 7 > 1 /\ 7 - 1 = 6
    OBVIOUS
  <2>5. Poised(todo', cursor_position_x)
    BY <1>1, <1>4, <2>2, <2>3, <2>4 DEF Poised
  <2> QED  BY <1>2, <1>3, <2>2, <2>5
<1>8. CASE Redraw
  <2>1. todo' = <<Clear, Prompt, InputLine>>
    BY <1>8 DEF Redraw
  <2>2. /\ Len(todo') = 3 /\ todo' # <<>> /\ 1..3 = {1, 2, 3} /\ 3 > 1 /\ 3 - 1 = 2
        /\ todo'[1] = Clear /\ todo'[2] = Prompt /\ todo'[3] = InputLine
    BY <2>1
  <2>3. \A i \in 1..3 : todo'[i] = InputLine => i = 3
    BY <1>3, <2>2
  <2>4. Poised(todo', cursor_position_x)
    BY <1>4, <2>2, <2>3 DEF Poised
  <2> QED  BY <1>2, <1>3, <2>2, <2>4
<1>9. CASE CancelAndClear
  <2>1. /\ todo' = <<InputLine, Newline, "^", "a", Newline, Prompt, InputLine, Clear, Prompt>>
        /\ line' = <<>>
    BY <1>9 DEF CancelAndClear
  <2>2. /\ Len(todo') = 9 /\ todo' # <<>> /\ 1..9 = {1, 2, 3, 4, 5, 6, 7, 8, 9}
        /\ todo'[1] = InputLine /\ todo'[2] = Newline /\ todo'[3] = "^" /\ todo'[4] = "a"
        /\ todo'[5] = Newline /\ todo'[6] = Prompt /\ todo'[7] = InputLine
        /\ todo'[8] = Clear /\ todo'[9] = Prompt
    BY <2>1
  <2>3. \A i \in 1..9 : todo'[i] = InputLine => i = 1 \/ i = 7
    BY <1>3, <2>2
  <2>4. 7 > 1 /\ 7 - 1 = 6 /\ 9 > 1 /\ 9 - 1 = 8
    OBVIOUS
  <2>5. Poised(todo', cursor_position_x)
    BY <1>1, <1>4, <2>2, <2>3, <2>4 DEF Poised
  <2> QED  BY <1>2, <2>1, <2>2, <2>4, <2>5
<1> QED  BY <1>5, <1>6, <1>7, <1>8, <1>9 DEF Key

\* A line break or a character of the welcome leaves room for the rest of it.
LEMMA WelcomeStep ==
    ASSUME Draws, Queue # <<>>, Item = Queue[1], Queue' = Tail(Queue),
           scrolled => Item = Clear,
           Welcoming(Queue, cursor_position_x, cursor_position_y), Queue' # <<>>
    PROVE  /\ ~scrolled'
           /\ Welcoming(Queue', cursor_position_x', cursor_position_y')
<1> USE ScreenAssumption
<1>1. Queue' = Tail(Queue) /\ Queue # <<>>
  OBVIOUS
<1>2. ASSUME NEW f, shell_newline(f),
             cursor_position_y \in {0, line_height, 2 * line_height}, ~scrolled
      PROVE  ~scrolled' /\ cursor_position_x' = 0
             /\ cursor_position_y' = cursor_position_y + line_height
  <2> DEFINE below == cursor_position_y + line_height
  <2>1. below < fb_height /\ ~(below >= fb_height - line_height)
    BY <1>2
  <2>2. ~Full(below)
    BY <2>1 DEF Full
  <2>3. LineBelow = below
    BY <2>1 DEF LineBelow
  <2> HIDE DEF below
  <2> QED  BY <1>2, <2>2, <2>3 DEF shell_newline, below
<1>3. ASSUME Item = Newline
      PROVE  shell_newline(fb) /\ ~scrolled
  BY <1>3, ItemsDiffer
     DEF Draws, PrintNewline, PrintChar, PrintPrompt, shell_draw_input_line, ClearScreen,
         Newline, Prompt, InputLine, Clear
<1>4. ASSUME Item \in {"o", "a"}, cursor_position_x = 0
      PROVE  cursor_position_y' = cursor_position_y /\ ~scrolled'
  <2>1. PrintChar
    BY <1>4 DEF Draws, PrintNewline, PrintPrompt, shell_draw_input_line, ClearScreen,
                Newline, Prompt, InputLine, Clear
  <2>2. move_cursor_right(char_width) = char_width /\ ~Wraps(char_width)
    BY <1>4 DEF move_cursor_right, Wraps
  <2>3. ~scrolled
    BY <1>4 DEF Clear
  <2> QED  BY <2>1, <2>2, <2>3 DEF PrintChar
<1>5. ASSUME Item = Clear
      PROVE  cursor_position_x' = 0 /\ cursor_position_y' = 0 /\ ~scrolled'
  BY <1>5 DEF Draws, PrintNewline, PrintChar, PrintPrompt, shell_draw_input_line,
              ClearScreen, Chars, Letters, Space, Newline, Prompt, InputLine, Clear
<1>6. CASE Queue = <<Clear, "o", Newline, "a", Newline, Newline, Prompt>>
  <2>1. Item = Clear /\ Queue' = <<"o", Newline, "a", Newline, Newline, Prompt>>
    BY <1>1, <1>6
  <2> QED  BY <1>5, <2>1 DEF Welcoming
<1>7. CASE Queue = <<"o", Newline, "a", Newline, Newline, Prompt>>
           /\ cursor_position_x = 0 /\ cursor_position_y = 0
  <2>1. Item = "o" /\ Queue' = <<Newline, "a", Newline, Newline, Prompt>>
    BY <1>1, <1>7
  <2> QED  BY <1>4, <1>7, <2>1 DEF Welcoming
<1>8. CASE Queue = <<Newline, "a", Newline, Newline, Prompt>> /\ cursor_position_y = 0
  <2>1. Item = Newline /\ Queue' = <<"a", Newline, Newline, Prompt>>
    BY <1>1, <1>8
  <2>2. /\ ~scrolled' /\ cursor_position_x' = 0
        /\ cursor_position_y' = cursor_position_y + line_height
    BY <1>2, <1>3, <1>8, <2>1
  <2> QED  BY <1>8, <2>1, <2>2 DEF Welcoming
<1>9. CASE Queue = <<"a", Newline, Newline, Prompt>>
           /\ cursor_position_x = 0 /\ cursor_position_y = line_height
  <2>1. Item = "a" /\ Queue' = <<Newline, Newline, Prompt>>
    BY <1>1, <1>9
  <2> QED  BY <1>4, <1>9, <2>1 DEF Welcoming
<1>10. CASE Queue = <<Newline, Newline, Prompt>> /\ cursor_position_y = line_height
  <2>1. Item = Newline /\ Queue' = <<Newline, Prompt>>
    BY <1>1, <1>10
  <2>2. ~scrolled' /\ cursor_position_y' = cursor_position_y + line_height
    BY <1>2, <1>3, <1>10, <2>1
  <2> QED  BY <1>10, <2>1, <2>2 DEF Welcoming
<1>11. CASE Queue = <<Newline, Prompt>> /\ cursor_position_y = 2 * line_height
  <2>1. Item = Newline /\ Queue' = <<Prompt>>
    BY <1>1, <1>11
  <2>2. ~scrolled'
    BY <1>2, <1>3, <1>11, <2>1
  <2> QED  BY <2>1, <2>2 DEF Welcoming
<1>12. CASE Queue = <<Prompt>>
  <2>1. Tail(<<Prompt>>) = <<>>
    OBVIOUS
  <2> QED  BY <1>1, <1>12, <2>1
<1> QED  BY <1>6, <1>7, <1>8, <1>9, <1>10, <1>11, <1>12 DEF Welcoming

LEMMA FirstAt ==
    ASSUME NEW q, 1 \in 1..Len(q), NEW x
    PROVE  /\ AtMargin(q, x) /\ q[1] = Prompt => x = 0
           /\ Poised(q, x) /\ q[1] = InputLine => x \in Margins
<1>1. ~(1 > 1) /\ ~(1 > 2) /\ 1 # 2
  OBVIOUS
<1>2. ASSUME AtMargin(q, x), q[1] = Prompt
      PROVE  x = 0
  BY <1>1, <1>2 DEF AtMargin
<1>3. ASSUME Poised(q, x), q[1] = InputLine
      PROVE  x \in Margins
  BY <1>1, <1>3 DEF Poised
<1> QED  BY <1>2, <1>3

\* Where each item leaves the cursor.
LEMMA DrawsAt ==
    ASSUME IInv, ~Disturbed, Queue \in Seq(Prints), Queue # <<>>, Item = Queue[1], Draws
    PROVE  /\ Item \in {Newline, Clear} => cursor_position_x' = 0
           /\ Item = Prompt => cursor_position_x = 0 /\ cursor_position_x' = 2 * char_width
           /\ Item = InputLine => cursor_position_x' = cursor_position_x
           /\ Item = Clear => ~scrolled'
<1> USE ScreenAssumption
<1>1. Item = Prompt => cursor_position_x = 0
  <2>1. 1 \in 1..Len(Queue)
    OBVIOUS
  <2>2. AtMargin(Queue, cursor_position_x)
    BY DEF IInv
  <2> QED  BY <2>1, <2>2, FirstAt
<1>2. CASE PrintNewline
  <2>1. Item = Newline /\ cursor_position_x' = 0
    BY <1>2 DEF PrintNewline, shell_newline
  <2> QED  BY <2>1, ItemsDiffer
<1>3. CASE PrintChar
  <2>1. Item \in Chars
    BY <1>3 DEF PrintChar
  <2> QED  BY <2>1, ItemsDiffer
<1>4. CASE PrintPrompt
  <2>1. Item = Prompt /\ cursor_position_x' = move_cursor_right(2 * char_width)
    BY <1>4 DEF PrintPrompt
  <2>2. cursor_position_x' = 2 * char_width
    BY <1>1, <2>1 DEF move_cursor_right
  <2> QED  BY <1>1, <2>1, <2>2, ItemsDiffer
<1>5. CASE shell_draw_input_line
  <2>1. Item = InputLine /\ cursor_position_x' = cursor_position_x
    BY <1>5 DEF shell_draw_input_line, cursor
  <2> QED  BY <2>1, ItemsDiffer
<1>6. CASE ClearScreen
  <2>1. Item = Clear /\ cursor_position_x' = 0 /\ ~scrolled'
    BY <1>6 DEF ClearScreen
  <2> QED  BY <2>1, ItemsDiffer
<1> QED  BY <1>2, <1>3, <1>4, <1>5, <1>6 DEF Draws

\* A prompt at the end of the queue stays bare.
LEMMA TailBare ==
    ASSUME IInv, ~Disturbed, Queue \in Seq(Prints), Queue # <<>>, Item = Queue[1], Draws,
           Queue' = Tail(Queue), line' = line, BarePrompt
    PROVE  BarePrompt'
<1>1. SUFFICES ASSUME Queue' # <<>>, Queue'[Len(Queue')] = Prompt
               PROVE  /\ line' = <<>>
                      /\ \/ Len(Queue') > 1 /\ Queue'[Len(Queue') - 1] = Clear
                         \/ /\ scrolled' => Queue'[1] = Clear
                            /\ Welcoming(Queue', cursor_position_x', cursor_position_y')
  BY DEF BarePrompt
<1> DEFINE q == Queue
           t == Queue'
           n == Len(q)
           m == Len(t)
<1>2. /\ n \in Nat /\ m = n - 1 /\ m > 0 /\ m \in Nat /\ t \in Seq(Prints)
      /\ \A i \in 1..m : t[i] = q[i + 1]
  <2> HIDE DEF q
  <2>1. q \in Seq(Prints) /\ q # <<>> /\ t = Tail(q) /\ t # <<>>
    BY <1>1 DEF q
  <2> HIDE DEF t
  <2>2. t \in Seq(Prints) /\ m = n - 1 /\ n \in Nat
    BY <2>1
  <2>3. m > 0 /\ m \in Nat
    BY <2>1, <2>2
  <2> QED  BY <2>1, <2>2, <2>3
<1>3. t[m] = Prompt /\ q[1] = Item
  BY <1>1
<1>4. (q[n] = Prompt) =>
        /\ line = <<>>
        /\ \/ n > 1 /\ q[n - 1] = Clear
           \/ /\ scrolled => Item = Clear
              /\ Welcoming(Queue, cursor_position_x, cursor_position_y)
  BY DEF BarePrompt
<1>5. Item = Clear => ~scrolled'
  BY DrawsAt
<1> HIDE DEF q, t, n, m
<1>6. m \in 1..m /\ m + 1 = n /\ q[n] = Prompt
  <2>1. m \in 1..m /\ m + 1 = n
    BY <1>2
  <2> QED  BY <1>2, <1>3, <2>1
<1>7. CASE q[n - 1] = Clear /\ m > 1
  <2>1. m - 1 \in 1..m /\ (m - 1) + 1 = n - 1
    BY <1>2, <1>7
  <2>2. t[m - 1] = Clear
    BY <1>2, <1>7, <2>1
  <2> QED  BY <1>4, <1>6, <1>7, <2>2 DEF t, m
<1>8. CASE q[n - 1] = Clear /\ m = 1
  <2>1. n - 1 = 1
    BY <1>2, <1>8
  <2>2. Item = Clear /\ t[1] = Prompt
    BY <1>3, <1>8, <2>1
  <2>3. t = <<Prompt>>
    BY <1>2, <1>8, <2>2, Pair DEF m
  <2> QED  BY <1>4, <1>5, <1>6, <2>2, <2>3 DEF Welcoming, t
<1>9. CASE /\ scrolled => Item = Clear
           /\ Welcoming(Queue, cursor_position_x, cursor_position_y)
  BY <1>1, <1>4, <1>6, <1>9, WelcomeStep
<1>10. m > 1 \/ m = 1
  BY <1>2
<1>11. n > 1 /\ q[n - 1] = Clear => m > 1 \/ m = 1
  BY <1>10
<1> QED  BY <1>4, <1>6, <1>7, <1>8, <1>9, <1>11

\* What the line shows when the last of the queue is printed.
LEMMA LastDrawn ==
    ASSUME IInv, Ahead, ~Disturbed, Queue \in Seq(Prints), Queue # <<>>, Item = Queue[1],
           Queue' = Tail(Queue), Draws, line' = line, Poised(Queue, cursor_position_x), BarePrompt,
           Queue' = <<>>, cursor_position_x' # 0,
           NEW u \in Pixels, OnLine(u, cursor_position_y', line_height)
    PROVE  fb'[u] = LineShows(Column(u))'
<1> USE ScreenAssumption
<1>1. Len(Queue) = 1 /\ 1 \in 1..Len(Queue) /\ u \in Visible
  <2> DEFINE q == Queue
  <2>1. q \in Seq(Prints) /\ q # <<>> /\ Tail(q) = <<>>
    OBVIOUS
  <2> HIDE DEF q
  <2>2. Len(q) = 1
    <3>1. Len(q) \in Nat /\ Len(q) > 0 /\ Len(Tail(q)) = Len(q) - 1
      BY <2>1
    <3>2. Len(Tail(q)) = 0
      BY <2>1, EmptySeq
    <3> QED  BY <3>1, <3>2
  <2> QED  BY <2>2 DEF q, OnLine, Visible
<1>2. Item \in {Prompt, InputLine}
  <2>1. Item \notin Chars
    BY <1>1 DEF Poised
  <2>2. Item \in Items
    BY <1>1 DEF Prints
  <2>3. Item # Reset
    BY <1>1 DEF Prints
  <2> QED  BY <2>1, <2>2, <2>3, DrawsAt DEF Items
<1> DEFINE str == <<"$", Space>> \o line
           k == Column(u) \div char_width + 1
<1>3. LineShows(Column(u))' =
          IF k \in 1..Len(str) /\ str[k] # Space THEN str[k] ELSE Blank
  BY DEF LineShows
<1>4. CASE Item = InputLine
  <2>1. shell_draw_input_line
    BY <1>4, ItemsDiffer
       DEF Draws, PrintNewline, PrintChar, PrintPrompt, ClearScreen
  <2> DEFINE x == cursor_position_x - 2 * char_width
             f == draw_rect(fb, x, cursor_position_y, fb_width - x, line_height)
  <2>2. fb' = draw_string(f, x, cursor_position_y, str)
        /\ cursor_position_y' = cursor_position_y
    BY <2>1 DEF shell_draw_input_line, cursor
  <2>3. x = 0
    <3>1. cursor_position_x \in Margins
      BY <1>1, <1>4, FirstAt
    <3>2. cursor_position_x # 0
      BY <1>4, DrawsAt
    <3> QED  BY <3>1, <3>2 DEF Margins
  <2>4. f[u] = Blank
    <3>1. Column(u) \in 0..(0 + (fb_width - 0) - 1)
      BY RowColumn DEF OnLine
    <3> QED  BY <2>2, <2>3, <3>1 DEF draw_rect
  <2> HIDE DEF x, f, str
  <2>5. draw_string(f, 0, cursor_position_y, str)[u] =
            IF k \in 1..Len(str) /\ str[k] # Space THEN str[k] ELSE Blank
    BY <1>1, <2>2, <2>4, DrawnFromMargin
  <2> QED  BY <1>3, <2>2, <2>3, <2>5
<1>5. CASE Item = Prompt
  <2>1. PrintPrompt
    BY <1>5, ItemsDiffer
       DEF Draws, PrintNewline, PrintChar, shell_draw_input_line, ClearScreen
  <2>2. cursor_position_x = 0
    BY <1>5, DrawsAt
  <2>3. /\ fb' = draw_string(fb, 0, cursor_position_y, <<"$", Space>>)
        /\ cursor_position_y' = cursor_position_y
    BY <2>1, <2>2 DEF PrintPrompt
  <2>4. line = <<>> /\ ~scrolled
    BY <1>1, <1>5, ItemsDiffer DEF BarePrompt
  <2>5. fb[u] = Blank
    <3>1. BlankRight(fb, 0, cursor_position_y)
      BY <1>5, <2>2, <2>4, ItemsDiffer DEF Ahead, Ready, Overs
    <3>2. Column(u) >= 0
      BY RowColumn
    <3> QED  BY <1>1, <2>3, <3>1, <3>2 DEF BlankRight
  <2>6. str = <<"$", Space>>
    BY <2>4
  <2> HIDE DEF str
  <2>7. draw_string(fb, 0, cursor_position_y, str)[u] =
            IF k \in 1..Len(str) /\ str[k] # Space THEN str[k] ELSE Blank
    BY <1>1, <2>3, <2>5, DrawnFromMargin
  <2> QED  BY <1>3, <2>3, <2>6, <2>7
<1> QED  BY <1>2, <1>4, <1>5

LEMMA LinePrint == IInv /\ Ahead /\ LineInv /\ PrintItem => LineInv'
<1> SUFFICES ASSUME IInv, Ahead, LineInv, PrintItem, ~Disturbed'
             PROVE  LineShown' /\ Poised(Queue', cursor_position_x') /\ BarePrompt'
  BY DEF LineInv, LineShown
<1>1. CASE /\ Disturbed /\ ClearScreen /\ line' = line /\ Queue' = todo'
           /\ \/ todo' = <<Prompt, InputLine>>
              \/ todo' = <<Prompt>> /\ line = <<>>
  <2>1. ~scrolled' /\ todo' # <<>>
    BY <1>1 DEF ClearScreen
  <2>2. CASE todo' = <<Prompt, InputLine>>
    <3>1. /\ Len(Queue') = 2 /\ Queue'[1] = Prompt /\ Queue'[2] = InputLine
          /\ 1..2 = {1, 2} /\ Queue' # <<>> /\ 2 > 1 /\ 2 - 1 = 1
      BY <1>1, <2>2
    <3> QED  BY <2>1, <3>1, ItemsDiffer DEF Poised, BarePrompt, LineShown
  <2>3. CASE todo' = <<Prompt>> /\ line = <<>>
    <3>1. Len(Queue') = 1 /\ Queue'[1] = Prompt /\ 1..1 = {1} /\ Queue' # <<>>
      BY <1>1, <2>3
    <3>2. Welcoming(Queue', cursor_position_x', cursor_position_y')
      BY <1>1, <2>3 DEF Welcoming
    <3> QED  BY <1>1, <2>1, <2>3, <3>1, <3>2, ItemsDiffer DEF Poised, BarePrompt, LineShown
  <2> QED  BY <1>1, <2>2, <2>3
<1>2. CASE ~Disturbed /\ Queue = <<>> /\ Queue' = Tail(shell_init) /\ ResetLine
  <2> DEFINE s == <<Clear, "o", Newline, "a", Newline, Newline, Prompt>>
  <2>1. Queue' = s /\ line' = <<>>
    BY <1>2, ShellInit DEF ResetLine
  <2>2. /\ Len(s) = 7 /\ s # <<>> /\ 1..7 = {1, 2, 3, 4, 5, 6, 7}
        /\ s[1] = Clear /\ s[2] = "o" /\ s[3] = Newline /\ s[4] = "a"
        /\ s[5] = Newline /\ s[6] = Newline /\ s[7] = Prompt
    OBVIOUS
  <2>3. \A i \in 1..7 : s[i] # InputLine
    BY <2>2 DEF Clear, Newline, Prompt, InputLine
  <2>4. Poised(Queue', cursor_position_x')
    BY <2>1, <2>2, <2>3, ItemsDiffer DEF Poised
  <2>5. BarePrompt'
    BY <2>1, <2>2 DEF BarePrompt, Welcoming
  <2>6. LineShown'
    <3>1. Initializing' \/ Queue' = todo'
      BY DEF Queue
    <3> QED  BY <2>1, <2>2, <3>1 DEF LineShown
  <2> QED  BY <2>4, <2>5, <2>6
<1>3. CASE /\ ~Disturbed /\ Queue \in Seq(Prints) /\ Queue # <<>> /\ Item = Queue[1]
           /\ Queue' = Tail(Queue) /\ Draws /\ line' = line
  <2>1. Poised(Queue, cursor_position_x) /\ BarePrompt
    BY <1>3 DEF LineInv
  <2>2. Poised(Queue', cursor_position_x')
    BY <1>3, <2>1, DrawsAt, TailPoised
  <2>3. BarePrompt'
    BY <1>3, <2>1, TailBare
  <2>4. LineShown'
    <3>1. SUFFICES ASSUME ~Initializing', todo' = <<>>, cursor_position_x' # 0,
                          NEW u \in Pixels, OnLine(u, cursor_position_y', line_height)
                   PROVE  fb'[u] = LineShows(Column(u))'
      BY DEF LineShown
    <3>2. Queue' = <<>>
      BY <3>1 DEF Queue
    <3> QED  BY <1>3, <2>1, <3>1, <3>2, LastDrawn
  <2> QED  BY <2>2, <2>3, <2>4
<1> QED  BY <1>1, <1>2, <1>3, UndisturbedTurn

\* Whenever the shell waits for a key its line shows the prompt and the typed text
\* and nothing else, on every screen that has room for the welcome, scrolled or
\* not, whatever was printed there and however long the text is, unless a key
\* was handled in shell_init and the screen not cleared since.
THEOREM LineIsShown == Spec => []LineShown
<1>1. IInv /\ Ahead /\ LineInv /\ [Next]_vars => LineInv'
  <2>1. LineInv /\ UNCHANGED vars => LineInv'
    BY DEF LineInv, BarePrompt, LineShown, LineShows, Disturbed, Queue, Initializing, vars, cursor
  <2> QED  BY <2>1, LineKey, LinePrint DEF Next
<1>2. LineInv => LineShown
  BY DEF LineInv
<1> QED  BY <1>1, <1>2, LineInit, AheadInvariant, Inductive, PTL DEF Spec

=============================================================================
