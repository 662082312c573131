---------------------------- MODULE MCShellBoot -----------------------------
(* Boot with a short line, a short ring and two characters.                *)
EXTENDS ShellBoot

MCChars == {"x", " "}
MCExit == <<"x">>

=============================================================================
