----------------------------- MODULE Statements -----------------------------
(***************************************************************************)
(* The kinds of command a MySQL client sends, what the proxy can see of    *)
(* them and what they do on the main server.                               *)
(*                                                                         *)
(* The proxy looks at the command byte (buffer[4] = 3, COM_QUERY) and at   *)
(* three anchored, case-insensitive patterns over the trimmed text:        *)
(* ^(select), ^(begin|start transaction) and ^(commit|rollback).  A kind   *)
(* stands for all commands with the same answers to these four questions   *)
(* and the same effect on the session's transaction.                       *)
(***************************************************************************)

Plain == {
    "select",       \* SELECT without side effects
    "write",        \* INSERT, UPDATE, DELETE
    "begin",        \* BEGIN, START TRANSACTION
    "end",          \* COMMIT, ROLLBACK
    "other"}        \* login packets, COM_PING, COM_INIT_DB: not COM_QUERY

Subtle == {
    "selectWrite",  \* SELECT ... FOR UPDATE, SELECT f() where f modifies data
    "rollbackTo",   \* ROLLBACK TO SAVEPOINT sp: the transaction goes on
    "chain",        \* COMMIT AND CHAIN: the next transaction begins at once
    "autocommit0",  \* SET autocommit = 0: opens a transaction silently
    "ddl",          \* CREATE TABLE: commits implicitly
    "execBegin",    \* COM_STMT_EXECUTE of a prepared START TRANSACTION
    "stmtClose"}    \* COM_STMT_CLOSE: the server sends no reply

Kinds == Plain \cup Subtle

\* buffer[4] == 3
IsQuery(k) == k \notin {"other", "execBegin", "stmtClose"}

\* p.regex[0], p.regex[1], p.regex[2]
MatchSelect(k) == k \in {"select", "selectWrite"}

MatchBegin(k) == k = "begin"

MatchEnd(k) == k \in {"end", "rollbackTo", "chain"}

\* p.inTrans after delegateSelect has looked at a COM_QUERY that it leaves to
\* the main server: the two tests run one after the other.
TrackTrans(k, inTrans) ==
    IF MatchEnd(k) THEN FALSE ELSE inTrans \/ MatchBegin(k)

\* What the main server knows of a session: an explicit transaction is open,
\* and statements outside one commit by themselves.
NoTx == [open |-> FALSE, auto |-> TRUE]

TxStates == [open : BOOLEAN, auto : BOOLEAN]

InTransaction(tx) == tx.open \/ ~tx.auto

\* The same after the server has executed k.
TxAfter(k, tx) ==
    [open |-> \/ k \in {"begin", "chain", "execBegin"}
              \/ tx.open /\ k \notin {"end", "ddl"},
     auto |-> tx.auto /\ k # "autocommit0"]

\* The kinds that the proxy's guess of the transaction is made for: those that
\* open one are seen to, and those seen to end one do.
Tracked == Plain \cup {"selectWrite", "ddl"}

\* Every command but one that closes a prepared statement is answered.
HasReply(k) == k # "stmtClose"

=============================================================================
