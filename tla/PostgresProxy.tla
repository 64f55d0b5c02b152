---------------------------- MODULE PostgresProxy ----------------------------
(***************************************************************************)
(* proxy/postgres.go: the sessions of one PostgreSQL proxy.                *)
(*                                                                         *)
(* As in MysqlProxy every session has a goroutine that reads commands and  *)
(* one that copies what the main server sends, and both write to the       *)
(* client.  Here a replica's answer is not copied: database/sql reads the  *)
(* rows and writeDataRow encodes them again, message by message.  The      *)
(* connections of a replica are those of database/sql, of which at most    *)
(* MaxOpen are in use; the next Query waits.                               *)
(*                                                                         *)
(* A client sends one message at a time and waits for ReadyForQuery; a     *)
(* Read returns it whole, or is too short for delegateSelect to survive.   *)
(* The main server also speaks unasked: notices, and a last FATAL.  The    *)
(* kinds of Statements stand for 'Q' messages, but "other" and "execBegin" *)
(* for the other message types (login, extended protocol).                 *)
(***************************************************************************)
EXTENDS Integers, Sequences, FiniteSets, Statements

CONSTANTS
    Sessions,       \* client connections
    Weights,        \* the secondaries of the configuration, by their weights
    Unopened,       \* those of them for which sqlx.Open fails
    MaxOpen,        \* SetMaxOpenConns
    ColumnSets,     \* the shapes of results: sequences of a name and a type
    Script,         \* bound: per session, the kinds its first, second... command has
    MaxRows,        \* bound: rows of a result
    MaxFaults,      \* bound: failures and notices in a behaviour
    None            \* no command, no replica, no result

ASSUME PostgresAssumption ==
    /\ Weights \in Seq(Int)
    /\ \E i \in DOMAIN Weights : Weights[i] > 0 /\ i \notin Unopened
    /\ MaxOpen \in Nat \ {0}
    /\ \A cols \in ColumnSets : Len(cols) \in Nat /\ DOMAIN cols = 1..Len(cols)
    /\ Script \in [Sessions -> Seq(SUBSET Kinds)]
    /\ MaxRows \in Nat /\ MaxFaults \in Nat

VARIABLES
    client,     \* per session: state, number of commands sent, the command not
                \* yet read by the proxy, messages received for it, and what
                \* was written to it unasked: how many of them came before
    proxy,      \* per session: where handleInbound is, p.inTrans, the replica
                \* chosen, its rows, and whether an answer was given up
    main,       \* per session: remoteConn, handleOutbound, the two directions of
                \* the connection and the transaction of the session
    faults      \* number of failures and notices so far

vars == <<client, proxy, main, faults>>

-----------------------------------------------------------------------------
(***************************************************************************)
(* The replicas in use and the choice between them.                        *)
(***************************************************************************)

\* The loop of initDB, after n of the secondaries: one whose weight is not
\* positive, or which cannot be opened, is left out.
dbs[n \in 0..Len(Weights)] ==
    IF n = 0 THEN <<>>
    ELSE IF Weights[n] > 0 /\ n \notin Unopened THEN Append(dbs[n - 1], n) ELSE dbs[n - 1]

initDB == dbs[Len(Weights)]

\* currentWeight after n turns of chooseByWeight's loop; totalWeight at the end.
currentWeight[n \in 0..Len(initDB)] ==
    IF n = 0 THEN 0 ELSE currentWeight[n - 1] + Weights[initDB[n]]

totalWeight == currentWeight[Len(initDB)]

\* Mutant: <= instead of <.
chooseByWeightOff(r) ==
    LET hit == {n \in 1..Len(initDB) : r <= currentWeight[n]}
    IN  initDB[IF hit = {} THEN 1 ELSE CHOOSE n \in hit : \A k \in hit : n <= k]

chooseByWeight(r) ==
    LET hit == {n \in 1..Len(initDB) : r < currentWeight[n]}
    IN  initDB[IF hit = {} THEN 1 ELSE CHOOSE n \in hit : \A k \in hit : n <= k]

-----------------------------------------------------------------------------
(***************************************************************************)
(* Results and messages.                                                   *)
(***************************************************************************)

\* dataTypeLookup, for two of the types it knows; any other type is sent as BYTEA.
OID(t) == CASE t = "INT4" -> 23 [] t = "TEXT" -> 25 [] OTHER -> 17

\* Mutant: the description is made from the column types in another order.
prepareRowDescriptionMixed(cols) == [i \in DOMAIN cols |-> OID(cols[1].type)]

\* The object identifiers in the row description.  The types are looked up by
\* column name in a map in which the last of equal names wins.
prepareRowDescription(cols) ==
    [i \in DOMAIN cols |->
        LET same == {j \in DOMAIN cols : cols[j].name = cols[i].name}
        IN  OID(cols[CHOOSE j \in same : \A k \in same : k <= j].type)]

\* What database/sql returns for a Query: the shape, the number of rows, how
\* many of them were written to the client, and whether an error ended them.
Results == [cols : ColumnSets, size : 0..MaxRows, count : 0..MaxRows, cut : BOOLEAN]

\* A message to the client: the command it answers, who wrote it, and its
\* content: the description, the count, or the transaction status.
Message(t, b, k, c) == [tag |-> t, by |-> b, kind |-> k, info |-> c]

Waiting == {"waiting", "stalled"}

\* What a message says, besides what it is.
Infos == {None} \cup BOOLEAN \cup 0..MaxRows \cup {prepareRowDescription(c) : c \in ColumnSets}

Messages == [tag : Nat, by : {"main", "replica"},
             kind : {"desc", "row", "body", "complete", "ready"}, info : Infos]

\* NoticeResponse, NotificationResponse and ParameterStatus may come at any time;
\* a FATAL error says why the server ends the session.
Strays == [kind : {"notice", "fatal"}, at : Nat]

Clients == [st : {"new", "idle", "gone"} \cup Waiting, req : Nat, in : Kinds \cup {None},
            got : Seq(Messages), stray : SUBSET Strays]

Proxies == [pc : {"off", "dial", "read", "query", "desc", "rows", "complete", "ready", "done"},
            inTrans : BOOLEAN,
            db : {chooseByWeight(r) : r \in 0..(totalWeight - 1)} \cup {None},
            rows : Results \cup {None}, dropped : BOOLEAN]

Mains == [link : {"none", "open", "fatal", "dead", "closed"}, out : {"off", "run", "done"},
          in : Seq(Nat \X Kinds), back : Seq(Messages), tx : TxStates]

TypeOK ==
    /\ client \in [Sessions -> Clients]
    /\ proxy \in [Sessions -> Proxies]
    /\ main \in [Sessions -> Mains]
    /\ faults \in 0..MaxFaults

Init ==
    /\ client = [s \in Sessions |-> [st |-> "new", req |-> 0, in |-> None,
                                     got |-> <<>>, stray |-> {}]]
    /\ proxy = [s \in Sessions |-> [pc |-> "off", inTrans |-> FALSE, db |-> None,
                                    rows |-> None, dropped |-> FALSE]]
    /\ main = [s \in Sessions |-> [link |-> "none", out |-> "off", in |-> <<>>,
                                   back |-> <<>>, tx |-> NoTx]]
    /\ faults = 0

\* A message reaches the client's socket; ReadyForQuery ends the answer.  For a
\* client that has left the write is lost.
Received(c, m) ==
    IF c.st = "gone" THEN c
    ELSE [c EXCEPT !.got = Append(@, m), !.st = IF m.kind = "ready" THEN "idle" ELSE @]

\* So does what answers no command.
ReceivedStray(c, k) ==
    IF c.st = "gone" THEN c
    ELSE [c EXCEPT !.stray = @ \cup {[kind |-> k, at |-> Len(c.got)]}]

-----------------------------------------------------------------------------
(***************************************************************************)
(* Clients.                                                                *)
(***************************************************************************)

\* listener.AcceptTCP, go p.service()
Accept(s) ==
    /\ client[s].st = "new"
    /\ proxy[s].pc = "off"
    /\ client' = [client EXCEPT ![s].st = "idle"]
    /\ proxy' = [proxy EXCEPT ![s].pc = "dial"]
    /\ UNCHANGED main

ClientSend(s) ==
    /\ client[s].st = "idle"
    /\ client[s].req < Len(Script[s])
    /\ \E k \in Script[s][client[s].req + 1] :
        client' = [client EXCEPT ![s] =
            [st |-> "waiting", req |-> @.req + 1, in |-> k, got |-> <<>>, stray |-> {}]]
    /\ proxy' = [proxy EXCEPT ![s].dropped = FALSE]
    /\ UNCHANGED main

\* The client stops reading: once the socket's buffers are full a Write blocks.
ClientStall(s) ==
    /\ client[s].st = "waiting"
    /\ client' = [client EXCEPT ![s].st = "stalled"]
    /\ UNCHANGED <<proxy, main>>

\* The client closes its socket at any time ...
ClientLeave(s) ==
    /\ client[s].st \in {"idle"} \cup Waiting
    /\ client' = [client EXCEPT ![s].st = "gone", ![s].got = <<>>, ![s].stray = {}]
    /\ UNCHANGED <<proxy, main>>

\* ... or sees that the proxy has closed it.
ClientClosed(s) == proxy[s].pc = "done" /\ ClientLeave(s)

-----------------------------------------------------------------------------
(***************************************************************************)
(* service, handleInbound and delegateSelect.                              *)
(***************************************************************************)

DialMain(s) ==
    /\ proxy[s].pc = "dial"
    /\ proxy' = [proxy EXCEPT ![s].pc = "read"]
    /\ main' = [main EXCEPT ![s].link = "open", ![s].out = "run"]
    /\ UNCHANGED client

\* "Remote connection failed": only the deferred localConn.Close() runs.
DialMainFail(s) ==
    /\ proxy[s].pc = "dial"
    /\ proxy' = [proxy EXCEPT ![s].pc = "done"]
    /\ UNCHANGED <<client, main>>

\* handleInbound returns: the deferred calls of service close both sockets.
EndService(s, inTrans) ==
    /\ proxy' = [proxy EXCEPT ![s].pc = "done", ![s].inTrans = inTrans]
    /\ main' = [main EXCEPT ![s].link = "closed", ![s].in = <<>>, ![s].back = <<>>]

\* Mutant: handleInbound goes on after an EOF.
ReadEOFIgnored(s) ==
    /\ proxy[s].pc = "read"
    /\ client[s].st = "gone" /\ client[s].in = None
    /\ UNCHANGED <<client, proxy, main>>

\* localConn.Read returns io.EOF or an error.
ReadEOF(s) ==
    /\ proxy[s].pc = "read"
    /\ client[s].st = "gone" /\ client[s].in = None
    /\ EndService(s, proxy[s].inTrans)
    /\ UNCHANGED client

\* Mutant: p.inTrans is not looked at.
ToReplicaAlways(s) == IsQuery(client[s].in) /\ MatchSelect(client[s].in)

\* A 'Q' message with a SELECT, outside a transaction as far as is known.
ToReplica(s) ==
    /\ IsQuery(client[s].in)
    /\ MatchSelect(client[s].in)
    /\ ~proxy[s].inTrans

\* The message is for the main server.  A Write to a connection that the server
\* has dropped succeeds or fails; if it fails handleInbound returns.
ForwardToMain(s) ==
    /\ proxy[s].pc = "read"
    /\ client[s].in # None
    /\ ~ToReplica(s)
    /\ LET k == client[s].in
           guess == IF IsQuery(k) THEN TrackTrans(k, proxy[s].inTrans) ELSE proxy[s].inTrans
       IN  \/ /\ proxy' = [proxy EXCEPT ![s].inTrans = guess]
              /\ main' = [main EXCEPT ![s].in =
                             IF main[s].link = "open" THEN Append(@, <<client[s].req, k>>) ELSE @]
           \/ /\ main[s].link \in {"fatal", "dead"}
              /\ EndService(s, guess)
    /\ client' = [client EXCEPT ![s].in = None]

\* A session of a process that has ended, and its connection to the main server.
Ended(p) == [p EXCEPT !.pc = "done", !.db = None, !.rows = None]

Severed(m) == [m EXCEPT !.link = "closed", !.out = "done", !.in = <<>>, !.back = <<>>]

\* The Read returns 'Q' and less than the length that should follow it:
\* string(buffer)[5:end] panics, nobody recovers, and the process ends with all
\* its sessions.
ReadShort(s) ==
    /\ proxy[s].pc = "read"
    /\ client[s].in # None
    /\ IsQuery(client[s].in)
    /\ client' = [client EXCEPT ![s].in = None]
    /\ proxy' = [t \in Sessions |-> Ended(proxy[t])]
    /\ main' = [t \in Sessions |-> Severed(main[t])]

ChooseDb(s) ==
    /\ proxy[s].pc = "read"
    /\ client[s].in # None
    /\ ToReplica(s)
    /\ \E r \in 0..(totalWeight - 1) :
        proxy' = [proxy EXCEPT ![s].db = chooseByWeight(r), ![s].pc = "query"]
    /\ client' = [client EXCEPT ![s].in = None]
    /\ UNCHANGED main

-----------------------------------------------------------------------------
(***************************************************************************)
(* writeDataRow.                                                           *)
(***************************************************************************)

\* Sessions with a connection of replica d in use: they have rows open.
Using(d) == {t \in Sessions : proxy[t].db = d /\ proxy[t].rows # None}

\* Mutant: rows.Close() is not called.
ReturnOfOpen(p, dropped) == [p EXCEPT !.pc = "read", !.dropped = dropped]

\* writeDataRow returns; rows.Close() gives the connection back.
ReturnOf(p, dropped) ==
    [p EXCEPT !.pc = "read", !.db = None, !.rows = None, !.dropped = dropped]

\* db.Query has a connection and a result ...
Query(s) ==
    /\ proxy[s].pc = "query"
    /\ Cardinality(Using(proxy[s].db)) < MaxOpen
    /\ \E c \in ColumnSets, n \in 0..MaxRows :
        proxy' = [proxy EXCEPT ![s].pc = "desc",
                               ![s].rows = [cols |-> c, size |-> n, count |-> 0, cut |-> FALSE]]
    /\ UNCHANGED <<client, main>>

\* ... or fails, as do rows.Columns, rows.ColumnTypes and rows.Scan when the
\* connection is lost: the error is returned to delegateSelect, which drops it.
QueryFails(s) ==
    /\ \/ proxy[s].pc = "query" /\ Cardinality(Using(proxy[s].db)) < MaxOpen
       \/ proxy[s].pc = "desc"
       \/ proxy[s].pc = "rows" /\ proxy[s].rows.count < proxy[s].rows.size
    /\ proxy' = [proxy EXCEPT ![s] = ReturnOf(@, TRUE)]
    /\ UNCHANGED <<client, main>>

\* One localConn.Write of writeDataRow, after which it is at label next.  It
\* blocks while the client does not read; it may fail once the client has left.
Write(s, kind, info, next) ==
    /\ client[s].st # "stalled"
    /\ \/ /\ client' = [client EXCEPT ![s] =
                            Received(@, Message(client[s].req, "replica", kind, info))]
          /\ proxy' = [proxy EXCEPT ![s] = next]
       \/ /\ client[s].st = "gone"
          /\ proxy' = [proxy EXCEPT ![s] = ReturnOf(@, TRUE)]
          /\ UNCHANGED client
    /\ UNCHANGED main

WriteDesc(s) ==
    /\ proxy[s].pc = "desc"
    /\ Write(s, "desc", prepareRowDescription(proxy[s].rows.cols), [proxy[s] EXCEPT !.pc = "rows"])

\* rows.Next() returns a row.
WriteRow(s) ==
    /\ proxy[s].pc = "rows"
    /\ proxy[s].rows.count < proxy[s].rows.size
    /\ Write(s, "row", None, [proxy[s] EXCEPT !.rows.count = @ + 1])

\* Mutant: the loop stops one row early.
RowsEndEarly(s) ==
    /\ proxy[s].pc = "rows"
    /\ proxy[s].rows.count + 1 >= proxy[s].rows.size
    /\ proxy' = [proxy EXCEPT ![s].pc = "complete"]
    /\ UNCHANGED <<client, main>>

\* rows.Next() returns false at the end ...
RowsEnd(s) ==
    /\ proxy[s].pc = "rows"
    /\ proxy[s].rows.count = proxy[s].rows.size
    /\ proxy' = [proxy EXCEPT ![s].pc = "complete"]
    /\ UNCHANGED <<client, main>>

\* ... and also when the replica fails before it.  rows.Err() would tell, but is
\* looked at after the last message only.
RowsCut(s) ==
    /\ proxy[s].pc = "rows"
    /\ proxy[s].rows.count < proxy[s].rows.size
    /\ proxy' = [proxy EXCEPT ![s].pc = "complete", ![s].rows.cut = TRUE]
    /\ UNCHANGED <<client, main>>

WriteComplete(s) ==
    /\ proxy[s].pc = "complete"
    /\ Write(s, "complete", proxy[s].rows.count, [proxy[s] EXCEPT !.pc = "ready"])

\* Mutant: ReadyForQuery is sent again and again.
WriteReadyTwice(s) ==
    /\ proxy[s].pc = "ready"
    /\ Write(s, "ready", FALSE, proxy[s])

\* ReadyForQuery with TxStatus 'I': not in a transaction.
WriteReady(s) ==
    /\ proxy[s].pc = "ready"
    /\ Write(s, "ready", FALSE, ReturnOf(proxy[s], FALSE))

-----------------------------------------------------------------------------
(***************************************************************************)
(* handleOutbound and the main server.                                     *)
(***************************************************************************)

\* Mutant: handleOutbound loses what it has read when it is the last message.
CopyFromMainLossy(s) ==
    /\ main[s].out = "run" /\ main[s].back # <<>>
    /\ client[s].st # "stalled"
    /\ main' = [main EXCEPT ![s].back = <<>>]
    /\ client' = [client EXCEPT ![s] = Received(@, Head(main[s].back))]
    /\ UNCHANGED proxy

\* remoteConn.Read and localConn.Write.
CopyFromMain(s) ==
    /\ main[s].out = "run" /\ main[s].back # <<>>
    /\ client[s].st # "stalled"
    /\ \/ /\ main' = [main EXCEPT ![s].back = Tail(@)]
          /\ client' = [client EXCEPT ![s] = Received(@, Head(main[s].back))]
       \/ /\ client[s].st = "gone"
          /\ main' = [main EXCEPT ![s].out = "done", ![s].back = Tail(@)]
          /\ UNCHANGED client
    /\ UNCHANGED proxy

\* What the main server says unasked while it serves, read and written as it
\* comes, whatever handleInbound is writing at the time.
CopyNotice(s) ==
    /\ main[s].out = "run" /\ main[s].link = "open"
    /\ client[s].st # "stalled"
    /\ client' = [client EXCEPT ![s] = ReceivedStray(@, "notice")]
    /\ UNCHANGED <<proxy, main>>

\* Its FATAL comes after all its answers.
CopyFatal(s) ==
    /\ main[s].out = "run" /\ main[s].back = <<>>
    /\ main[s].link = "fatal"
    /\ client[s].st # "stalled"
    /\ client' = [client EXCEPT ![s] = ReceivedStray(@, "fatal")]
    /\ main' = [main EXCEPT ![s].link = "dead"]
    /\ UNCHANGED proxy

\* Read fails: the server has closed the connection, or service has.
OutboundEnds(s) ==
    /\ main[s].out = "run" /\ main[s].back = <<>>
    /\ main[s].link \in {"dead", "closed"}
    /\ main' = [main EXCEPT ![s].out = "done"]
    /\ UNCHANGED <<client, proxy>>

\* The transaction after a command: PostgreSQL's DDL is part of it, COMMIT AND
\* CHAIN needs one, and there is no autocommit to switch off.
TxThen(k, tx) ==
    [open |-> \/ k \in {"begin", "execBegin"}
              \/ tx.open /\ k # "end",
     auto |-> tx.auto]

\* The main server executes a command.  One that fails leaves a transaction as
\* it is (aborted, but open); its answer ends with the status of the session.
MainExecutes(s) ==
    /\ main[s].in # <<>>
    /\ LET c == Head(main[s].in)
       IN  \E tx \in {TxThen(c[2], main[s].tx)} \cup
                     (IF c[2] = "write" THEN {main[s].tx} ELSE {}) :
            main' = [main EXCEPT ![s].in = Tail(@), ![s].tx = tx,
                        ![s].back = @ \o <<Message(c[1], "main", "body", None),
                                           Message(c[1], "main", "ready", tx.open)>>]
    /\ UNCHANGED <<client, proxy>>

\* The main server drops the session, with a FATAL message or without.
MainDrops(s) ==
    /\ main[s].link = "open"
    /\ \E l \in {"fatal", "dead"} :
        main' = [main EXCEPT ![s].link = l, ![s].in = <<>>, ![s].tx = NoTx]
    /\ UNCHANGED <<client, proxy>>

Inbound(s) ==
    \/ DialMain(s) \/ ReadEOF(s) \/ ForwardToMain(s) \/ ChooseDb(s)
    \/ Query(s) \/ WriteDesc(s) \/ WriteRow(s) \/ RowsEnd(s)
    \/ WriteComplete(s) \/ WriteReady(s)

Outbound(s) == CopyFromMain(s) \/ CopyFatal(s) \/ OutboundEnds(s)

Failure(s) ==
    \/ ClientStall(s) \/ ClientLeave(s)
    \/ DialMainFail(s) \/ ReadShort(s) \/ QueryFails(s) \/ RowsCut(s)
    \/ CopyNotice(s) \/ MainDrops(s)

Next ==
    \E s \in Sessions :
        \/ /\ \/ Accept(s) \/ ClientSend(s) \/ ClientClosed(s)
              \/ Inbound(s) \/ Outbound(s) \/ MainExecutes(s)
           /\ UNCHANGED faults
        \/ /\ faults < MaxFaults
           /\ faults' = faults + 1
           /\ Failure(s)

Spec == Init /\ [][Next]_vars

\* Goroutines run when they can, servers answer, and a client whose socket was
\* closed notices.  database/sql gives a free connection to one of the requests
\* that wait, whichever it picks, hence strong fairness for Query.
FairSpec ==
    /\ Spec
    /\ \A s \in Sessions :
        /\ WF_vars(Inbound(s) /\ UNCHANGED faults)
        /\ SF_vars(Query(s) /\ UNCHANGED faults)
        /\ WF_vars(Outbound(s) /\ UNCHANGED faults)
        /\ WF_vars(MainExecutes(s) /\ UNCHANGED faults)
        /\ WF_vars(ClientClosed(s) /\ UNCHANGED faults)

-----------------------------------------------------------------------------
(***************************************************************************)
(* Properties.                                                             *)
(***************************************************************************)

\* A replica that is chosen has a positive weight, and chooseByWeight gives it
\* exactly as many of the random numbers below totalWeight as its weight says;
\* the secondaries left out by initDB get none of them.
FairShare ==
    \A s \in Sessions :
        LET d == proxy[s].db
        IN  d # None => /\ Weights[d] > 0 /\ d \notin Unopened
                        /\ Cardinality({r \in 0..(totalWeight - 1) : chooseByWeight(r) = d})
                             = Weights[d]

\* Although two goroutines write to the client's socket and a replica's answer
\* is put together message by message, what the client has received answers
\* its own last command, comes from one server, is a description, rows and a
\* completion in that order, and ends with ReadyForQuery.  Notices may lie
\* anywhere in it; nothing of the main server's follows its FATAL, though the
\* rest of a replica's answer may.
OneAnswer ==
    \A s \in Sessions :
        LET got == client[s].got
            rank == [desc |-> 1, row |-> 2, body |-> 2, complete |-> 3, ready |-> 4]
        IN  /\ \A i \in DOMAIN got : got[i].tag = client[s].req /\ got[i].by = got[1].by
            /\ \A i \in 1..(Len(got) - 1) :
                \/ rank[got[i].kind] < rank[got[i + 1].kind]
                \/ got[i].kind = "row" /\ got[i + 1].kind = "row"
            /\ \A f \in client[s].stray : f.kind = "fatal" =>
                /\ \A n \in client[s].stray : n.at <= f.at
                /\ \A i \in DOMAIN got : got[i].by = "main" => i <= f.at

\* "When the proxy's backend is PostgreSQL, cients use the PostgreSQL protocol":
\* FATAL ends a session, so that no message follows it.
NothingAfterFatal ==
    \A s \in Sessions : \A f \in client[s].stray :
        f.kind = "fatal" => f.at = Len(client[s].got)

\* The transaction status in ReadyForQuery is the session's status on the main
\* server, although writeDataRow always says "idle": a SELECT is answered by a
\* replica only outside a transaction.
StatusTrue ==
    \A s \in Sessions :
        LET got == client[s].got
        IN  (client[s].st = "idle" /\ got # <<>> /\ main[s].link = "open")
                => got[Len(got)].info = main[s].tx.open

\* CommandComplete counts the rows the client has received, and those are all
\* rows of the result unless the replica failed before the end.
ResultWhole ==
    \A s \in Sessions :
        LET got == client[s].got
            rows == {i \in DOMAIN got : got[i].kind = "row"}
        IN  \A i \in DOMAIN got : got[i].kind = "complete" =>
                /\ got[i].info = Cardinality(rows)
                /\ proxy[s].pc = "ready" /\ ~proxy[s].rows.cut
                    => Cardinality(rows) = proxy[s].rows.size

\* Every column is described with its own type, unless a later column of the
\* result has the same name.
ColumnTypes ==
    \A s \in Sessions :
        LET got == client[s].got
        IN  (got # <<>> /\ got[1].kind = "desc" /\ proxy[s].rows # None) =>
                \A i \in DOMAIN proxy[s].rows.cols :
                    LET cols == proxy[s].rows.cols
                    IN  \/ got[1].info[i] = OID(cols[i].type)
                        \/ \E j \in DOMAIN cols : j > i /\ cols[j].name = cols[i].name

\* A client that has stopped reading while connections are short.
Stalled == \E t \in Sessions : client[t].st = "stalled"

\* Every command is answered, unless a client stops reading, the main server
\* drops the session, or a replica's failure was dropped by delegateSelect.
Answered ==
    \A s \in Sessions :
        client[s].st = "waiting"
            ~> \/ client[s].st # "waiting" \/ main[s].link \in {"fatal", "dead"}
               \/ proxy[s].dropped \/ Stalled

\* A SELECT that waits for one of MaxOpen connections gets one, unless clients
\* that do not read keep them all.
QueryProceeds ==
    \A s \in Sessions :
        proxy[s].pc = "query"
            ~> (proxy[s].pc # "query" \/ Stalled)

\* When a client has left both goroutines of its session end, and its replica
\* connection has been given back, unless other clients keep it from getting one.
SessionEnds ==
    \A s \in Sessions :
        (client[s].st = "gone" /\ proxy[s].pc # "off")
            ~> \/ proxy[s].pc = "done" /\ main[s].out # "run" /\ proxy[s].rows = None
               \/ Stalled

=============================================================================
