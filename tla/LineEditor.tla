----------------------------- MODULE LineEditor -----------------------------
(***************************************************************************)
(* What the shell's input line and its history promise: a line of text     *)
(* with a cursor in it, and a log of the last commands.  The line is the   *)
(* text before the cursor and the text after it, so that no operation here *)
(* can have a cursor outside the text, a length that disagrees with the    *)
(* text or a character left behind; Shell, which edits an array of char    *)
(* with two indices, is shown to implement this.                           *)
(***************************************************************************)
EXTENDS Integers, Sequences

CONSTANTS
    Chars,      \* the printable characters
    Space,      \* the one that separates words
    Capacity,   \* the longest line
    Depth       \* the most commands remembered

VARIABLES
    before,     \* the text to the left of the cursor
    after,      \* the text from the cursor on
    log         \* commands entered, oldest first, no two neighbours equal

vars == <<before, after, log>>

Front(s) == SubSeq(s, 1, Len(s) - 1)
Last(s) == s[Len(s)]
Newest(s, n) == IF Len(s) <= n THEN s ELSE SubSeq(s, Len(s) - n + 1, Len(s))

Init ==
    /\ before = <<>>
    /\ after = <<>>
    /\ log = <<>>

Insert(c) ==
    /\ Len(before) + Len(after) < Capacity
    /\ before' = Append(before, c)
    /\ UNCHANGED <<after, log>>

Backspace ==
    /\ before # <<>>
    /\ before' = Front(before)
    /\ UNCHANGED <<after, log>>

Delete ==
    /\ after # <<>>
    /\ after' = Tail(after)
    /\ UNCHANGED <<before, log>>

Left ==
    /\ before # <<>>
    /\ before' = Front(before)
    /\ after' = <<Last(before)>> \o after
    /\ UNCHANGED log

Right ==
    /\ after # <<>>
    /\ before' = Append(before, Head(after))
    /\ after' = Tail(after)
    /\ UNCHANGED log

Home ==
    /\ before' = <<>>
    /\ after' = before \o after
    /\ UNCHANGED log

End ==
    /\ before' = before \o after
    /\ after' = <<>>
    /\ UNCHANGED log

\* Forget the text after the cursor.
KillToEnd ==
    /\ after' = <<>>
    /\ UNCHANGED <<before, log>>

\* A word and the spaces after it, w characters and then spaces only.
IsWord(s, w) ==
    /\ \A i \in 1..w : s[i] # Space
    /\ \A i \in (w + 1)..Len(s) : s[i] = Space

Blank(s) == \A i \in 1..Len(s) : s[i] = Space

\* Forget the last word before the cursor with the spaces after it.  What
\* stays is empty or ends in a space; a space the line begins with stays.
KillWord ==
    /\ \E n \in 0..Len(before) :
          LET killed == SubSeq(before, n + 1, Len(before))
          IN  /\ before' = SubSeq(before, 1, n)
              /\ n = 0 \/ before[n] = Space
              /\ \E w \in 0..Len(killed) :
                    /\ IsWord(killed, w)
                    /\ w = 0 => Blank(before) /\ n <= 1
    /\ UNCHANGED <<after, log>>

\* A line that is not empty is remembered, unless it repeats the last one.
Enter ==
    LET line == before \o after
    IN  /\ log' = IF \/ line = <<>>
                     \/ log # <<>> /\ Last(log) = line
                  THEN log
                  ELSE Newest(Append(log, line), Depth)
        /\ before' = <<>>
        /\ after' = <<>>

\* A remembered command, or nothing, takes the place of the line.
Recall ==
    /\ \/ before' = <<>>
       \/ \E i \in 1..Len(log) : before' = log[i]
    /\ after' = <<>>
    /\ UNCHANGED log

Next ==
    \/ \E c \in Chars : Insert(c)
    \/ Backspace \/ Delete \/ Left \/ Right \/ Home \/ End
    \/ KillToEnd \/ KillWord \/ Enter \/ Recall

Spec == Init /\ [][Next]_vars

=============================================================================
