----------------------------- MODULE DriverConn -----------------------------
(***************************************************************************)
(* mysql/: one MysqlConn after Connect, its caller, the watcher goroutine  *)
(* that startWatcher leaves behind, and the server.                        *)
(*                                                                         *)
(* database/sql makes one call at a time and keeps the connection until    *)
(* Rows are closed.  Call n has context n; a context may be cancelled at   *)
(* any time, and then the watcher closes the connection under the caller's *)
(* feet.  A server answers at once, later, or never.  An answer is a       *)
(* sequence of packets: "cols" stands for a column count, the columns and  *)
(* their EOF, "stmt" for the answer to a prepare with its definitions, and *)
(* "okMore" and "eofMore" carry statusMoreResultsExists.                   *)
(***************************************************************************)
EXTENDS Integers, Sequences, FiniteSets

CONSTANTS
    Answers,        \* the answers of a server, per operation
    AfterFile,      \* its answers when it has been sent the file it asked for,
    AfterNoFile,    \* and when the file could not be read
    MaxCalls,       \* bound: calls on the connection
    None            \* no error, no operation

Ops == DOMAIN Answers

Packets == {"ok", "okMore", "cols", "infile", "stmt", "row", "eof", "eofMore", "err", "errReadOnly"}

\* What a call reads next, the errors it returns, and what it knows of its Rows.
Modes == {"one", "header", "skip", "row", "drop"}

Errors == {"ctx", "bad", "invalid", "err"}

RowsStates == {"open", "more", "end", "drain"}

ASSUME DriverAssumption ==
    /\ MaxCalls \in Nat
    /\ None \notin Ops \cup Modes \cup Errors \cup RowsStates
    /\ \A op \in Ops : Answers[op] \subseteq Seq(Packets)
    /\ AfterFile \cup AfterNoFile \subseteq Seq(Packets)
    /\ "beginLevel" \in Ops => "begin" \in Ops

VARIABLES
    call,       \* the call in progress: number, operation, where it is, what it
                \* reads next, its error, and its Rows
    conn,       \* closed, closech, canceled, watching, reset, len(mc.result.affectedRows)
    watcher,    \* the watcher goroutine, the context it has, and the channel to it
    wire,       \* the socket, unread packets, the command the server works on, the
                \* results it has produced for the call, and the commands it ran a part of
    cancelled   \* contexts that were cancelled

vars == <<call, conn, watcher, wire, cancelled>>

\* Ping, BeginTx, Commit and Rollback look at closed before anything else.
ChecksFirst(op) == op \in {"ping", "begin", "beginLevel", "commit"}

\* Ping, Commit, Rollback and the SET TRANSACTION of BeginTx write without a
\* second look at closed.
ChecksLater(op) == op \notin {"ping", "beginLevel", "commit"}

IsQuery(op) == op \in {"query", "stmtQuery"}

\* Commit and Rollback have no context.
HasContext(op) == op # "commit"

Headers == {"ok", "okMore", "cols", "infile"}

\* The results in a sequence of packets; and the server carried out something,
\* more than to ask for a file.
Results(a) == Cardinality({i \in DOMAIN a : a[i] \in Headers})

Ran(a) == \E i \in DOMAIN a : a[i] \in Headers \ {"infile"}

Calls == [n : 0..MaxCalls, op : Ops \cup {None},
          pc : {"idle", "enter", "watch", "check", "write", "read", "file",
                "rows", "copy", "finish", "after"},
          mode : Modes \cup {None}, ret : Errors \cup {None}, rows : RowsStates \cup {None}]

ConnStates == [closed : BOOLEAN, closech : BOOLEAN, canceled : 0..MaxCalls,
               watching : BOOLEAN, reset : BOOLEAN, result : Nat]

Watchers == [pc : {"idle", "watch", "swap", "close", "clear", "ended"},
             ctx : 0..MaxCalls, chan : Seq(1..MaxCalls)]

Wires == [link : {"up", "down", "shut"}, stream : Seq(Packets),
          asked : Ops \cup {None}, results : Nat, ran : SUBSET Ops]

TypeOK ==
    /\ call \in Calls
    /\ conn \in ConnStates
    /\ watcher \in Watchers
    /\ wire \in Wires
    /\ cancelled \subseteq 1..MaxCalls

Init ==
    /\ call = [n |-> 0, op |-> None, pc |-> "idle", mode |-> None, ret |-> None, rows |-> None]
    /\ conn = [closed |-> FALSE, closech |-> FALSE, canceled |-> 0, watching |-> FALSE,
               reset |-> FALSE, result |-> 0]
    /\ watcher = [pc |-> "idle", ctx |-> 0, chan |-> <<>>]
    /\ wire = [link |-> "up", stream |-> <<>>, asked |-> None, results |-> 0, ran |-> {}]
    /\ cancelled = {}

\* cleanup by the caller: the first one to set closed closes the rest.
Cleanup(c) == IF c.closed THEN c ELSE [c EXCEPT !.closed = TRUE, !.closech = TRUE, !.result = 0]

Shut(w, c) == IF c.closed THEN w ELSE [w EXCEPT !.link = "shut", !.asked = None]

GiveUp == conn' = Cleanup(conn) /\ wire' = Shut(wire, conn)

\* The caller holds Rows: an error goes to it, and finish waits for Rows.Close.
HoldsRows == call.rows \in {"open", "more", "end"}

\* The call, or the call on its Rows, returns to the caller.
Ends(ret) == call' = [call EXCEPT !.pc = IF HoldsRows THEN "rows" ELSE "finish",
                                  !.ret = ret, !.mode = None]

\* An error of the socket is the context's error if the watcher closed it.
SocketError(other) == IF conn.canceled # 0 THEN "ctx" ELSE other

\* mc.error().
ConnError == IF conn.closed THEN SocketError("invalid") ELSE None

-----------------------------------------------------------------------------
(***************************************************************************)
(* The way into a call.                                                    *)
(***************************************************************************)

Start(op) ==
    /\ call.pc = "idle"
    /\ call.n < MaxCalls
    /\ call' = [n |-> call.n + 1, op |-> op, pc |-> "enter", mode |-> None, ret |-> None, rows |-> None]
    /\ wire' = [wire EXCEPT !.results = 0, !.ran = {}]
    /\ UNCHANGED <<conn, watcher, cancelled>>

\* database/sql takes the connection from its pool.
ResetSession ==
    /\ call.pc = "idle"
    /\ ~conn.closed /\ ~conn.reset
    /\ conn' = [conn EXCEPT !.reset = TRUE]
    /\ UNCHANGED <<call, watcher, wire, cancelled>>

\* The first lines of Ping, BeginTx, Commit and Rollback; the others begin with
\* watchCancel.
Enter ==
    /\ call.pc = "enter"
    /\ call' = IF ChecksFirst(call.op) /\ conn.closed
               THEN [call EXCEPT !.pc = "idle", !.ret = IF call.op = "commit" THEN "invalid" ELSE "bad"]
               ELSE [call EXCEPT !.pc = IF HasContext(call.op) THEN "watch" ELSE "check"]
    /\ UNCHANGED <<conn, watcher, wire, cancelled>>

\* watchCancel: the connection was cancelled before, the context is cancelled
\* already, it cannot be cancelled, or it is handed to the watcher.
WatchCancel ==
    /\ call.pc = "watch"
    /\ \/ /\ conn.watching
          /\ GiveUp
          /\ call' = [call EXCEPT !.pc = "check"]
          /\ UNCHANGED watcher
       \/ /\ ~conn.watching /\ call.n \in cancelled
          /\ call' = [call EXCEPT !.pc = "idle", !.ret = "ctx"]
          /\ UNCHANGED <<conn, watcher, wire>>
       \/ /\ ~conn.watching /\ call.n \notin cancelled
          /\ call' = [call EXCEPT !.pc = "check"]
          /\ \/ UNCHANGED <<conn, watcher>>
             \/ /\ conn' = [conn EXCEPT !.watching = TRUE]
                /\ watcher' = [watcher EXCEPT !.chan = Append(@, call.n)]
          /\ UNCHANGED wire
    /\ UNCHANGED cancelled

\* Mutant: the results of the call before are not cleared.
ClearResultNot(c) == c

ClearResult(c) == [c EXCEPT !.result = 0]

\* begin, Exec, query, Prepare and the statements look at closed here; the
\* arguments may not be convertible, or too long for a packet; then clearResult.
Check ==
    /\ call.pc = "check"
    /\ \/ conn.closed /\ ChecksLater(call.op) /\ Ends("bad") /\ UNCHANGED conn
       \/ /\ ~conn.closed \/ ~ChecksLater(call.op)
          /\ call' = [call EXCEPT !.pc = "write"]
          /\ conn' = ClearResult(conn)
       \/ call.op # "ping" /\ ~conn.closed /\ Ends("err") /\ UNCHANGED conn
    /\ UNCHANGED <<watcher, wire, cancelled>>

-----------------------------------------------------------------------------
(***************************************************************************)
(* writePacket.                                                            *)
(***************************************************************************)

\* What the call reads first: an OK packet, the answer to a prepare, or the
\* header of a result set, before which an entry is added to mc.result.
FirstMode(op) == IF op \in {"ping", "prepare"} THEN "one" ELSE "header"

Entry(mode) == IF mode = "header" THEN 1 ELSE 0

\* takeBuffer finds bytes of an earlier answer in the buffer, or connCheck finds
\* that the server has closed the connection, or has sent what nobody reads.
CheckFails ==
    /\ call.pc = "write"
    /\ \E busy \in BOOLEAN :
           /\ IF busy THEN wire.stream # <<>> ELSE conn.reset /\ (wire.link # "up" \/ wire.stream # <<>>)
           /\ conn' = IF busy THEN conn ELSE [Cleanup(conn) EXCEPT !.reset = FALSE]
           /\ wire' = IF busy THEN wire ELSE Shut(wire, conn)
    /\ Ends("bad")
    /\ UNCHANGED <<watcher, cancelled>>

\* The command is written.  If the server has gone the write may still succeed.
WriteCommand ==
    /\ call.pc = "write"
    /\ wire.link # "shut"
    /\ wire' = [wire EXCEPT !.asked = IF wire.link = "up" THEN call.op ELSE None]
    /\ call' = [call EXCEPT !.pc = "read", !.mode = FirstMode(call.op)]
    /\ conn' = [conn EXCEPT !.result = @ + Entry(FirstMode(call.op)), !.reset = FALSE]
    /\ UNCHANGED <<watcher, cancelled>>

\* The write fails before a byte was written, which markBadConn turns into
\* driver.ErrBadConn, or later, when the connection is given up; Prepare
\* returns driver.ErrBadConn for both.
WriteFails ==
    /\ call.pc = "write"
    /\ wire.link # "up"
    /\ conn.reset => wire.link = "down"
    /\ \/ /\ Ends(IF call.op = "prepare" THEN "bad" ELSE SocketError("bad"))
          /\ conn' = [conn EXCEPT !.reset = FALSE]
          /\ UNCHANGED wire
       \/ /\ wire.link = "down" /\ conn.canceled = 0
          /\ Ends(IF call.op = "prepare" THEN "bad" ELSE "invalid")
          /\ conn' = [Cleanup(conn) EXCEPT !.reset = FALSE] /\ wire' = Shut(wire, conn)
    /\ UNCHANGED <<watcher, cancelled>>

-----------------------------------------------------------------------------
(***************************************************************************)
(* Reading an answer.                                                      *)
(***************************************************************************)

\* Mutant: discardResults is not called.
AfterResultNoDiscard(more) ==
    call' = IF IsQuery(call.op) /\ call.rows # "drain"
            THEN [call EXCEPT !.pc = "rows", !.mode = None, !.rows = "end"]
            ELSE [call EXCEPT !.pc = "copy", !.mode = None]

\* Mutant: another result set is waited for.
AfterResultMore(more) ==
    call' = IF more \/ call.rows = "drain" THEN [call EXCEPT !.mode = "header"]
            ELSE IF IsQuery(call.op)
                 THEN [call EXCEPT !.pc = "rows", !.mode = None, !.rows = "end"]
                 ELSE [call EXCEPT !.pc = "copy", !.mode = None]

\* The next result set, if the server has announced one: discardResults for a
\* call that wants no rows and for Rows.Close, nextNotEmptyResultSet for a query.
AfterResult(more) ==
    call' = IF more THEN [call EXCEPT !.mode = "header"]
            ELSE IF IsQuery(call.op) /\ call.rows # "drain"
                 THEN [call EXCEPT !.pc = "rows", !.mode = None, !.rows = "end"]
                 ELSE [call EXCEPT !.pc = "copy", !.mode = None]

NextEntry(more) == conn' = [conn EXCEPT !.result = @ + IF more THEN 1 ELSE 0]

\* An OK packet announces another result, which is read by this call unless it is
\* the first of a statement's query, whose BinaryRows have no connection then.
GoesOn(p) == p = "okMore" /\ (call.op = "stmtQuery" => call.rows # None)

\* readResultSetHeaderPacket and, for a result with columns, readColumns, after
\* which a query returns, or readUntilEOF.
ReadHeader(p) ==
    \/ /\ p \in {"ok", "okMore"}
       /\ AfterResult(GoesOn(p)) /\ NextEntry(GoesOn(p))
    \/ /\ p = "cols"
       /\ call' = IF IsQuery(call.op) /\ call.rows # "drain"
                  THEN [call EXCEPT !.pc = "rows", !.mode = None, !.rows = "open"]
                  ELSE [call EXCEPT !.mode = "skip"]
       /\ UNCHANGED conn
    \/ p = "infile" /\ call' = [call EXCEPT !.pc = "file"] /\ UNCHANGED conn

\* readUntilEOF.
SkipRows(p) ==
    \/ p = "row" /\ UNCHANGED <<call, conn>>
    \/ /\ p \in {"eof", "eofMore"}
       /\ AfterResult(p = "eofMore") /\ NextEntry(p = "eofMore")

\* readRow: a value may not parse; the end of a result set sets done.
ReadRow(p) ==
    /\ \/ p = "row" /\ \E ret \in {None, "err"} : Ends(ret)
       \/ /\ p \in {"eof", "eofMore"}
          /\ call' = [call EXCEPT !.pc = "rows", !.mode = None,
                                  !.rows = IF p = "eofMore" THEN "more" ELSE "end"]
    /\ UNCHANGED conn

\* readResultOK, readPrepareResultPacket, or the packet that follows a file that
\* could not be sent.
ReadOne(p) ==
    \/ call.mode = "drop" /\ Ends("err") /\ UNCHANGED conn
    \/ /\ call.mode = "one" /\ call.op \in {"ping", "prepare"}
       /\ call' = [call EXCEPT !.pc = "copy", !.mode = None]
       /\ UNCHANGED conn
    \/ /\ call.mode = "one" /\ call.op \notin {"ping", "prepare"}
       /\ AfterResult(GoesOn(p)) /\ NextEntry(GoesOn(p))

\* handleErrorPacket.  The read-only errors close the connection; readRow has
\* forgotten it before it looks at the packet, nextResultSet has not, and has
\* reset done before it reads the header.
ReadError(p) ==
    /\ call' = [call EXCEPT !.pc = IF HoldsRows THEN "rows" ELSE "finish", !.mode = None,
                            !.ret = IF p = "errReadOnly" THEN "bad" ELSE "err",
                            !.rows = IF call.mode = "row" THEN "end"
                                     ELSE IF HoldsRows THEN "open" ELSE @]
    /\ conn' = IF p = "errReadOnly" THEN Cleanup(conn) ELSE conn

\* readPacket returns a packet.  Bytes that were received before the watcher
\* closed the socket can still be read from the buffer.
ReadPacket ==
    /\ call.pc = "read"
    /\ wire.stream # <<>>
    /\ LET p == Head(wire.stream)
           error == p \in {"err", "errReadOnly"} /\ call.mode # "drop"
       IN  /\ \/ error /\ ReadError(p)
              \/ ~error /\ call.mode = "header" /\ ReadHeader(p)
              \/ ~error /\ call.mode = "skip" /\ SkipRows(p)
              \/ ~error /\ call.mode = "row" /\ ReadRow(p)
              \/ ~error /\ call.mode \in {"one", "drop"} /\ ReadOne(p)
           /\ wire' = [IF error /\ p = "errReadOnly" THEN Shut(wire, conn) ELSE wire
                           EXCEPT !.stream = Tail(@)]
    /\ UNCHANGED <<watcher, cancelled>>

\* Mutant: a lost connection is reported as one on which nothing was done.
LostIsRetried == Ends(SocketError("bad")) /\ IF conn.canceled # 0 THEN UNCHANGED <<conn, wire>> ELSE GiveUp

\* The socket fails under the call: cancelled, or the connection is lost and
\* closed for good.  If there was no file to be sent, that is the error returned.
Lost == Ends(IF call.mode = "drop" THEN "err" ELSE SocketError("invalid")) /\ IF conn.canceled # 0 THEN UNCHANGED <<conn, wire>> ELSE GiveUp

ReadFails ==
    /\ call.pc = "read"
    /\ wire.link = "shut" \/ (wire.link = "down" /\ wire.stream = <<>>)
    /\ Lost
    /\ UNCHANGED <<watcher, cancelled>>

\* The error of a write of which nothing was written, where the file is sent:
\* Exec, and query for the header it reads itself, pass it to markBadConn.
NoWrite == IF call.op = "exec" \/ (call.op = "query" /\ call.rows = None /\ conn.result = 1)
           THEN "bad" ELSE "err"

\* handleInFileRequest: the file is sent and its result read, or, if it cannot
\* be opened or read, an empty packet is sent and the packet that answers it
\* dropped.  A write may fail as that of a command does.
SendFile ==
    /\ call.pc = "file"
    /\ \/ /\ wire.link = "up"
          /\ \E sent \in BOOLEAN : \E a \in IF sent THEN AfterFile ELSE AfterNoFile :
                 /\ call' = [call EXCEPT !.pc = "read", !.mode = IF sent THEN "one" ELSE "drop"]
                 /\ wire' = [wire EXCEPT !.stream = a, !.results = @ + Results(Tail(a)),
                                         !.ran = IF Ran(a) THEN @ \cup {call.op} ELSE @]
          /\ UNCHANGED conn
       \/ wire.link # "up" /\ Lost
       \/ wire.link # "up" /\ Ends(SocketError(NoWrite)) /\ UNCHANGED <<conn, wire>>
    /\ UNCHANGED <<watcher, cancelled>>

\* The call has succeeded; Exec copies mc.result for the caller.  After SET
\* TRANSACTION, BeginTx goes on to begin.
CopyResult ==
    /\ call.pc = "copy"
    /\ IF call.op = "beginLevel"
       THEN /\ call' = [call EXCEPT !.op = "begin", !.pc = "check"]
            /\ wire' = [wire EXCEPT !.results = 0]
       ELSE Ends(None) /\ UNCHANGED wire
    /\ UNCHANGED <<conn, watcher, cancelled>>

-----------------------------------------------------------------------------
(***************************************************************************)
(* Rows.                                                                   *)
(***************************************************************************)

\* Next, while the result set has not ended and no error was returned.
RowsNext ==
    /\ call.pc = "rows" /\ call.ret = None /\ call.rows = "open"
    /\ call' = IF conn.closed THEN [call EXCEPT !.ret = ConnError]
               ELSE [call EXCEPT !.pc = "read", !.mode = "row"]
    /\ UNCHANGED <<conn, watcher, wire, cancelled>>

\* NextResultSet.
NextResultSet ==
    /\ call.pc = "rows" /\ call.ret = None /\ call.rows \in {"open", "more"}
    /\ IF conn.closed THEN call' = [call EXCEPT !.ret = ConnError] /\ UNCHANGED conn
       ELSE /\ call' = [call EXCEPT !.pc = "read", !.mode = IF call.rows = "open" THEN "skip" ELSE "header"]
            /\ NextEntry(call.rows = "more")
    /\ UNCHANGED <<watcher, wire, cancelled>>

\* Rows.Close, which calls finish first.
RowsClose ==
    /\ call.pc = "rows"
    /\ call' = [call EXCEPT !.pc = "finish"]
    /\ UNCHANGED <<conn, watcher, wire, cancelled>>

\* The call returns, or Rows.Close reads what is left of the answer, or
\* PrepareContext looks at its context once more.
Return ==
    IF call.rows \in {"open", "more"} /\ conn.closed
    THEN call' = [call EXCEPT !.pc = "idle", !.ret = ConnError]
    ELSE IF call.rows \in {"open", "more"}
    THEN call' = [call EXCEPT !.pc = "read", !.ret = None, !.rows = "drain",
                              !.mode = IF call.rows = "open" THEN "skip" ELSE "header"]
    ELSE call' = [call EXCEPT !.pc = IF call.op = "prepare" /\ call.ret = None THEN "after" ELSE "idle"]

\* Rows.Close clears the result, and discardResults adds an entry for a header.
ReturnResult == IF call.rows = "more" /\ ~conn.closed THEN 1
                ELSE IF call.rows = "open" /\ ~conn.closed THEN 0 ELSE conn.result

\* Mutant: the caller does not wait until the watcher has let go of the context.
FinishNoWait ==
    /\ call.pc = "finish"
    /\ Return
    /\ conn' = [conn EXCEPT !.watching = FALSE, !.result = ReturnResult]
    /\ UNCHANGED watcher
    /\ UNCHANGED <<wire, cancelled>>

\* finish: the caller meets the watcher, or the connection is closed.
Finish ==
    /\ call.pc = "finish"
    /\ Return
    /\ \/ /\ ~conn.watching \/ conn.closech
          /\ conn' = [conn EXCEPT !.result = ReturnResult]
          /\ UNCHANGED watcher
       \/ /\ conn.watching /\ watcher.pc = "watch"
          /\ conn' = [conn EXCEPT !.watching = FALSE, !.result = ReturnResult]
          /\ watcher' = [watcher EXCEPT !.pc = "idle"]
    /\ UNCHANGED <<wire, cancelled>>

\* The end of PrepareContext: if the context has ended, the statement is closed
\* with a command that has no answer.
PrepareReturns ==
    /\ call.pc = "after"
    /\ call' = [call EXCEPT !.pc = "idle", !.ret = IF call.n \in cancelled THEN "ctx" ELSE None]
    /\ UNCHANGED <<conn, watcher, wire, cancelled>>

\* Close by database/sql, between calls.
Close ==
    /\ call.pc = "idle"
    /\ ~conn.closed
    /\ GiveUp
    /\ UNCHANGED <<call, watcher, cancelled>>

-----------------------------------------------------------------------------
(***************************************************************************)
(* The goroutine of startWatcher.                                          *)
(***************************************************************************)

TakeContext ==
    /\ watcher.pc = "idle"
    /\ watcher.chan # <<>>
    /\ watcher' = [pc |-> "watch", ctx |-> Head(watcher.chan), chan |-> Tail(watcher.chan)]
    /\ UNCHANGED <<call, conn, wire, cancelled>>

WatcherEnds ==
    /\ watcher.pc \in {"idle", "watch"}
    /\ conn.closech
    /\ watcher' = [watcher EXCEPT !.pc = "ended"]
    /\ UNCHANGED <<call, conn, wire, cancelled>>

\* ctx.Done(): cancel stores the error of the context.
SeeCancel ==
    /\ watcher.pc = "watch"
    /\ watcher.ctx \in cancelled
    /\ watcher' = [watcher EXCEPT !.pc = "swap"]
    /\ conn' = [conn EXCEPT !.canceled = watcher.ctx]
    /\ UNCHANGED <<call, wire, cancelled>>

\* cleanup by the watcher: only the first one to set closed goes on.
SwapClosed ==
    /\ watcher.pc = "swap"
    /\ conn' = [conn EXCEPT !.closed = TRUE]
    /\ watcher' = [watcher EXCEPT !.pc = IF conn.closed THEN "idle" ELSE "close"]
    /\ UNCHANGED <<call, wire, cancelled>>

\* Mutant: the socket is left to the caller.
CloseSocketNot ==
    /\ watcher.pc = "close"
    /\ conn' = [conn EXCEPT !.closech = TRUE]
    /\ watcher' = [watcher EXCEPT !.pc = "clear"]
    /\ UNCHANGED <<call, wire, cancelled>>

\* Mutant: closech stays open.
CloseSocketOnly ==
    /\ watcher.pc = "close"
    /\ wire' = [wire EXCEPT !.link = "shut", !.asked = None]
    /\ watcher' = [watcher EXCEPT !.pc = "clear"]
    /\ UNCHANGED <<call, conn, cancelled>>

\* closech and the socket are closed.
CloseSocket ==
    /\ watcher.pc = "close"
    /\ conn' = [conn EXCEPT !.closech = TRUE]
    /\ wire' = [wire EXCEPT !.link = "shut", !.asked = None]
    /\ watcher' = [watcher EXCEPT !.pc = "clear"]
    /\ UNCHANGED <<call, cancelled>>

\* clearResult, by the watcher, on the result of a call that may be running.
WatcherClears ==
    /\ watcher.pc = "clear"
    /\ conn' = ClearResult(conn)
    /\ watcher' = [watcher EXCEPT !.pc = "idle"]
    /\ UNCHANGED <<call, wire, cancelled>>

-----------------------------------------------------------------------------
(***************************************************************************)
(* Contexts, the server and the network.                                   *)
(***************************************************************************)

CancelContext ==
    /\ call.pc # "idle"
    /\ HasContext(call.op)
    /\ call.n \notin cancelled
    /\ cancelled' = cancelled \cup {call.n}
    /\ UNCHANGED <<call, conn, watcher, wire>>

ServerAnswers(a) ==
    /\ wire.asked # None /\ wire.link = "up"
    /\ a \in Answers[wire.asked]
    /\ wire' = [wire EXCEPT !.stream = a, !.asked = None, !.results = Results(a),
                            !.ran = IF Ran(a) THEN @ \cup {wire.asked} ELSE @]
    /\ UNCHANGED <<call, conn, watcher, cancelled>>

\* The connection breaks: what the server had sent arrives, or is lost, and a
\* command that is being worked on may have been carried out.
LinkFails ==
    /\ wire.link = "up"
    /\ \E arrived \in {wire.stream, <<>>}, ran \in {wire.ran, wire.ran \cup ({wire.asked} \ {None})} :
           wire' = [wire EXCEPT !.link = "down", !.asked = None, !.stream = arrived, !.ran = ran]
    /\ UNCHANGED <<call, conn, watcher, cancelled>>

-----------------------------------------------------------------------------

CallerStep ==
    \/ Enter \/ WatchCancel \/ Check \/ CheckFails \/ WriteCommand \/ WriteFails
    \/ ReadPacket \/ ReadFails \/ SendFile \/ CopyResult
    \/ RowsNext \/ NextResultSet \/ RowsClose \/ Finish \/ PrepareReturns

WatcherStep ==
    \/ TakeContext \/ WatcherEnds \/ SeeCancel
    \/ SwapClosed \/ CloseSocket \/ WatcherClears

Next ==
    \/ \E op \in Ops : Start(op)
    \/ ResetSession \/ Close
    \/ CallerStep \/ WatcherStep
    \/ CancelContext
    \/ \E op \in Ops : \E a \in Answers[op] : ServerAnswers(a)
    \/ LinkFails

Spec == Init /\ [][Next]_vars

\* Goroutines that can go on do; a caller closes the Rows it was given.  The
\* server may never answer.
FairSpec ==
    /\ Spec
    /\ WF_vars(CallerStep) /\ SF_vars(RowsClose)
    /\ WF_vars(WatcherStep)

-----------------------------------------------------------------------------
(***************************************************************************)
(* The answers of a server that follows the protocol.                      *)
(***************************************************************************)

\* The packets that may come first in an answer or in the next result of one,
\* among the rows of a result, and as an answer by themselves.
FirstPackets == {"ok", "okMore", "cols", "infile", "err", "errReadOnly"}

RowPackets == {"row", "eof", "eofMore", "err"}

SinglePackets == {"ok", "stmt", "err", "errReadOnly"}

\* The packets that may follow p; none, if p is the last one of an answer or
\* the server waits for a file.
Follow(p) ==
    IF p \in {"okMore", "eofMore"} THEN FirstPackets \ {"errReadOnly", "infile"}
    ELSE IF p \in {"cols", "row"} THEN RowPackets
    ELSE {}

\* An answer, or the rest of one, up to its end.
Chained(q) ==
    \A i \in DOMAIN q :
        IF i = Len(q) THEN Follow(q[i]) = {} ELSE q[i + 1] \in Follow(q[i])

\* What comes first in the answer to an operation.  One statement is prepared, and
\* not LOAD DATA: no OK packet of it announces more.
FirstOf(op) ==
    IF FirstMode(op) = "one" THEN SinglePackets
    ELSE IF op = "stmtQuery" THEN FirstPackets \ {"okMore", "infile"} ELSE FirstPackets

\* The server follows the protocol, says that it is read-only and asks for a file
\* before it carries out any part of a command, and a statement whose file could
\* not be read is the last of its command.
Protocol ==
    /\ \A op \in Ops : \A a \in Answers[op] : a # <<>> /\ Chained(a) /\ a[1] \in FirstOf(op)
    /\ \A a \in AfterFile : a # <<>> /\ Chained(a) /\ a[1] \in {"ok", "okMore", "err"}
    /\ AfterNoFile \subseteq {<<"ok">>, <<"err">>}

-----------------------------------------------------------------------------
(***************************************************************************)
(* Properties.                                                             *)
(***************************************************************************)

\* A prepared statement and SET TRANSACTION are gone with the connection.
SessionOnly == {"prepare", "beginLevel"}

\* driver.ErrBadConn makes database/sql run the call again on another
\* connection: it is returned only for a call of which the server has carried
\* out nothing that outlives the connection (markBadConn, errBadConnNoWrite).
RetrySafe ==
    call.pc = "idle" /\ call.ret = "bad" => wire.ran \subseteq SessionOnly

\* The watcher never closes the connection for a context other than that of the
\* call that has it: finish does not return before the watcher let go.
CancelOwn ==
    watcher.pc \in {"watch", "swap", "close"} /\ ~conn.closed =>
        watcher.ctx = call.n /\ call.pc # "idle"

\* A command is written on an open connection only when nothing of an earlier
\* answer is left to be read: the answer that follows is its own.
CleanStart ==
    call.pc = "write" /\ ~conn.closed => wire.stream = <<>>

\* When Exec succeeds, mc.result has one entry for every result of the answer,
\* earlier calls' entries gone; the exception is a call that is being cancelled.
ResultCounts ==
    call.pc = "copy" /\ call.op \in {"exec", "stmtExec"}
        /\ call.n \notin cancelled => conn.result = wire.results

Watched == conn.watching /\ (watcher.ctx = call.n \/ call.n \in {watcher.chan[i] : i \in DOMAIN watcher.chan})

\* A cancelled context ends the call it was given to, or the call on its Rows,
\* whatever the server does.
CancelEnds ==
    call.pc \in {"check", "write", "read", "file"} /\ Watched /\ call.n \in cancelled
        ~> call.pc \in {"idle", "rows"}

\* No goroutine is left behind by a closed connection.
WatcherGone == conn.closed ~> watcher.pc = "ended"

\* Rows.Close that has packets to read, or a broken connection, returns: it
\* stops reading at the end of the answer (readUntilEOF, discardResults).  If
\* nothing is left because NextResultSet met an error packet, it does not.
RowsCloseDrains ==
    call.rows = "drain" /\ call.pc = "read" /\ (wire.stream # <<>> \/ wire.link # "up")
        ~> call.pc = "idle"

=============================================================================
