---------------------------- MODULE MCDriverFile ----------------------------
(***************************************************************************)
(* DriverConn with commands of several statements, one of which loads a    *)
(* local file.                                                             *)
(***************************************************************************)
EXTENDS DriverConn

FileAnswers == [exec |-> {<<"infile">>, <<"okMore", "infile">>}]

Loaded == {<<"ok">>}

\* The next statement's answer follows that of the one that loads the file.
LoadedMore == {<<"okMore", "ok">>}

=============================================================================
