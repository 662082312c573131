------------------------------ MODULE MCShell -------------------------------
(* The shell on a short line, a short ring and two characters.             *)
EXTENDS Shell

MCChars == {"x", " "}
MCExit == <<"x">>

=============================================================================
