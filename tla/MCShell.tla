------------------------------ MODULE MCShell ------------------------------
(***************************************************************************)
(* The lines that are typed into the shell.                                *)
(***************************************************************************)
EXTENDS Shell

MCLines == {<<"echo", "wc">>, <<"echo", "wc", "wc">>, <<"echo", "echo">>,
            <<"program", "wc">>, <<"program">>, <<"exit">>}

=============================================================================
