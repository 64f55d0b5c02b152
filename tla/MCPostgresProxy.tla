--------------------------- MODULE MCPostgresProxy ---------------------------
(* PostgresProxy for TLC: a configuration and the shapes of results.       *)
EXTENDS PostgresProxy, TLC

\* The second secondary is switched off by its weight, the third cannot be opened.
MCWeights == <<2, 0, 3, 1>>

Column(n, t) == [name |-> n, type |-> t]

\* Equal names with different types, and a type dataTypeLookup does not know.
MCColumnSets == {<<Column("a", "INT4"), Column("a", "TEXT"), Column("b", "JSONB")>>}

\* The first session's SELECT is part of a transaction, or comes after it; then
\* the second competes with it for the connections.
CONSTANTS s1, s2

MCScript ==
    s1 :> <<{"begin"}, {"write", "end"}, {"select"}>> @@ s2 :> <<{"select"}>>

\* One SELECT, while the main server ends the session.
MCScriptOne == s1 :> <<{"select"}>>

=============================================================================
