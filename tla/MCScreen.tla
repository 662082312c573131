------------------------------ MODULE MCScreen ------------------------------
(* The screen with lines that are empty, short, spaced and too long for it. *)
EXTENDS Screen

MCLines == {<<>>, <<"a">>, <<Space, "t">>, <<"t", "a", "t">>}

=============================================================================
