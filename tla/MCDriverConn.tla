---------------------------- MODULE MCDriverConn ----------------------------
(***************************************************************************)
(* DriverConn with the answers a MySQL server gives to each operation.     *)
(***************************************************************************)
EXTENDS DriverConn

Simple == {<<"ok">>, <<"err">>}

MCAnswers ==
    [ping |-> Simple, begin |-> Simple, beginLevel |-> Simple, commit |-> Simple,
     prepare |-> {<<"stmt">>, <<"err">>},
     exec |-> {<<"ok">>, <<"err">>, <<"errReadOnly">>, <<"infile">>,
               <<"okMore", "cols", "row", "eofMore", "ok">>, <<"okMore", "err">>},
     query |-> {<<"ok">>, <<"err">>, <<"cols", "row", "eof">>,
                <<"okMore", "cols", "row", "eofMore", "ok">>,
                <<"cols", "row", "err">>, <<"cols", "eofMore", "err">>},
     stmtQuery |-> {<<"ok">>, <<"cols", "row", "eof">>, <<"cols", "eofMore", "ok">>},
     stmtExec |-> {<<"ok">>, <<"cols", "row", "eofMore", "ok">>}]

MCAfterFile == {<<"ok">>, <<"err">>, <<"okMore", "ok">>}

ASSUME MCProtocol == Protocol

=============================================================================
