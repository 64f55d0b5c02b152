----------------------------- MODULE MysqlProxy -----------------------------
(***************************************************************************)
(* proxy/mysql.go: the sessions of one MySQL proxy, the pools of replica   *)
(* connections they share, and the way a replica's answer is copied to the *)
(* client while it is read (Query1, Next1 and readPacket1 of mysql/).      *)
(*                                                                         *)
(* Every session has two goroutines: service/handleInbound, which reads    *)
(* commands and either forwards them to the main server or answers them    *)
(* from a replica, and handleOutbound, which copies what the main server   *)
(* sends.  Both write to the client's socket.                              *)
(*                                                                         *)
(* A client is synchronous: it sends a command when the answer to the one  *)
(* before is complete, so a Read returns one command (Routing has the      *)
(* clients for which it does not).  A reply is a sequence of packets       *)
(* tagged with the command they answer; the tags exist in the model only.  *)
(* A pool is what ConnectionPool is shown to implement: an idle connection *)
(* is taken, or a new one dialled; Put keeps it if there is room.          *)
(***************************************************************************)
EXTENDS Integers, Sequences, FiniteSets, Statements

CONSTANTS
    Sessions,       \* client connections
    Dbs,            \* the secondaries, one pool each
    Conns,          \* identities of replica connections
    MaxConns,       \* capacity of a pool
    Commands,       \* the kinds of command clients send
    MaxRequests,    \* bound: commands per session
    MaxRows,        \* bound: rows in the answer of a replica
    Faults,         \* which faults occur: "dial", "drop", "main", "leave"
    None            \* no connection, no command

ASSUME ProxyAssumption ==
    /\ Commands \subseteq {k \in Kinds : HasReply(k)}
    /\ MaxConns \in Nat \ {0}
    /\ MaxRequests \in Nat
    /\ MaxRows \in Nat
    /\ Faults \subseteq {"dial", "drop", "main", "leave"}
    /\ None \notin Conns \cup Dbs \cup Commands
    /\ None \notin Sessions \X Nat

VARIABLES
    client,     \* per session: "new", "idle", "waiting" or "gone"
    req,        \* per session: number of commands the client has sent
    inbox,      \* per session: the command in the proxy's receive buffer
    got,        \* per session: packets of answers written to the client's
                \* socket since its last command, in the order of the writes
    stray,      \* per session: what was written to it besides: who said it,
                \* and after how many packets of got
    svc,        \* per session: where service/handleInbound is
    inTrans,    \* per session: p.inTrans
    db,         \* per session: the pool chosen by weight
    conn,       \* per session: the replica connection between Get and Put
    out,        \* per session: handleOutbound is "off", "run" or "done"
    main,       \* per session: remoteConn is "none", "open", "bye" (dropped by
                \* the server, whose last words are on their way), "dead" or "closed"
    toMain,     \* per session: commands on their way to the main server
    fromMain,   \* per session: packets on their way back
    tx,         \* per session: its transaction on the main server
    idle,       \* per pool: the connections in it
    link,       \* per replica connection: "closed", "open", "stale" (dropped
                \* by the replica), "bye" (dropped, with its last words unread)
                \* or "busy" (only the header of these has been read)
    asked,      \* per replica connection: the command the replica answers
    sent,       \* per replica connection: packets of that answer sent so far
    stream      \* per replica connection: packets not read yet

sessionVars == <<client, req, inbox, got, stray, svc, inTrans, db, conn>>
mainVars == <<out, main, toMain, fromMain, tx>>
replicaVars == <<link, asked, sent, stream>>
vars == <<sessionVars, mainVars, idle, replicaVars>>

SvcValues == {"off", "dial", "read", "get", "query", "header", "rows",
              "spin", "put", "done"}

\* The command session s waits for an answer to.
Tag(s) == <<s, req[s]>>

Tags == Sessions \X (0..MaxRequests)

\* The packets of an answer.  "ok" and "err" are answers by themselves, "head"
\* stands for the column count, the columns and their EOF packet, and an
\* answer with rows is ended by "eof" or "err".
Packets == [tag : Tags, kind : {"ok", "err", "head", "row", "eof"}, by : {"main", "replica"}]

Packet(t, k, b) == [tag |-> t, kind |-> k, by |-> b]

Last(p) == p.kind \in {"ok", "err", "eof"}

\* A packet that answers no command: a server says why it drops a session, with
\* an ERR packet numbered 0 (a timeout, a shutdown).
Strays == [by : {"main", "replica"}, at : Nat]

TypeOK ==
    /\ client \in [Sessions -> {"new", "idle", "waiting", "gone"}]
    /\ req \in [Sessions -> 0..MaxRequests]
    /\ inbox \in [Sessions -> Commands \cup {None}]
    /\ got \in [Sessions -> Seq(Packets)]
    /\ stray \in [Sessions -> SUBSET Strays]
    /\ svc \in [Sessions -> SvcValues]
    /\ inTrans \in [Sessions -> BOOLEAN]
    /\ db \in [Sessions -> Dbs \cup {None}]
    /\ conn \in [Sessions -> Conns \cup {None}]
    /\ out \in [Sessions -> {"off", "run", "done"}]
    /\ main \in [Sessions -> {"none", "open", "bye", "dead", "closed"}]
    /\ toMain \in [Sessions -> Seq(Tags \X Commands)]
    /\ fromMain \in [Sessions -> Seq(Packets)]
    /\ tx \in [Sessions -> TxStates]
    /\ idle \in [Dbs -> SUBSET Conns]
    /\ link \in [Conns -> {"closed", "open", "stale", "bye", "busy"}]
    /\ asked \in [Conns -> Tags \cup {None}]
    /\ sent \in [Conns -> Nat]
    /\ stream \in [Conns -> Seq(Packets)]

Init ==
    /\ client = [s \in Sessions |-> "new"]
    /\ req = [s \in Sessions |-> 0]
    /\ inbox = [s \in Sessions |-> None]
    /\ got = [s \in Sessions |-> <<>>]
    /\ stray = [s \in Sessions |-> {}]
    /\ svc = [s \in Sessions |-> "off"]
    /\ inTrans = [s \in Sessions |-> FALSE]
    /\ db = [s \in Sessions |-> None]
    /\ conn = [s \in Sessions |-> None]
    /\ out = [s \in Sessions |-> "off"]
    /\ main = [s \in Sessions |-> "none"]
    /\ toMain = [s \in Sessions |-> <<>>]
    /\ fromMain = [s \in Sessions |-> <<>>]
    /\ tx = [s \in Sessions |-> NoTx]
    /\ idle = [d \in Dbs |-> {}]
    /\ link = [c \in Conns |-> "closed"]
    /\ asked = [c \in Conns |-> None]
    /\ sent = [c \in Conns |-> 0]
    /\ stream = [c \in Conns |-> <<>>]

Goto(s, l) == svc' = [svc EXCEPT ![s] = l]

\* A packet is written to the client's socket.  Errors of the writes made
\* while a replica's answer is copied are ignored, so a client that has left
\* makes no difference to them.
Deliver(s, p) ==
    IF client[s] = "gone"
    THEN UNCHANGED <<client, got>>
    ELSE /\ got' = [got EXCEPT ![s] = Append(@, p)]
         /\ client' = [client EXCEPT ![s] = IF Last(p) THEN "idle" ELSE @]

\* The same for what answers no command.  What a client makes of it is its own
\* affair: it may leave.
DeliverStray(s, b) ==
    stray' = [stray EXCEPT ![s] =
        IF client[s] = "gone" THEN @ ELSE @ \cup {[by |-> b, at |-> Len(got[s])]}]

-----------------------------------------------------------------------------
(***************************************************************************)
(* Clients.                                                                *)
(***************************************************************************)

\* AcceptTCP; go p.service()
Accept(s) ==
    /\ client[s] = "new"
    /\ client' = [client EXCEPT ![s] = "idle"]
    /\ Goto(s, "dial")
    /\ UNCHANGED <<req, inbox, got, stray, inTrans, db, conn, mainVars, idle, replicaVars>>

ClientSend(s, k) ==
    /\ client[s] = "idle"
    /\ svc[s] # "done"
    /\ inbox[s] = None
    /\ req[s] < MaxRequests
    /\ inbox' = [inbox EXCEPT ![s] = k]
    /\ req' = [req EXCEPT ![s] = @ + 1]
    /\ got' = [got EXCEPT ![s] = <<>>]
    /\ stray' = [stray EXCEPT ![s] = {}]
    /\ client' = [client EXCEPT ![s] = "waiting"]
    /\ UNCHANGED <<svc, inTrans, db, conn, mainVars, idle, replicaVars>>

\* The client closes its socket, at any time.
ClientLeave(s) ==
    /\ "leave" \in Faults
    /\ client[s] \in {"idle", "waiting"}
    /\ client' = [client EXCEPT ![s] = "gone"]
    /\ got' = [got EXCEPT ![s] = <<>>]
    /\ stray' = [stray EXCEPT ![s] = {}]
    /\ UNCHANGED <<req, inbox, svc, inTrans, db, conn, mainVars, idle, replicaVars>>

\* The client sees that the proxy has closed its socket.
ClientClosed(s) ==
    /\ svc[s] = "done"
    /\ client[s] \in {"idle", "waiting"}
    /\ client' = [client EXCEPT ![s] = "gone"]
    /\ got' = [got EXCEPT ![s] = <<>>]
    /\ stray' = [stray EXCEPT ![s] = {}]
    /\ UNCHANGED <<req, inbox, svc, inTrans, db, conn, mainVars, idle, replicaVars>>

-----------------------------------------------------------------------------
(***************************************************************************)
(* service and handleInbound.                                              *)
(***************************************************************************)

DialMain(s) ==
    /\ svc[s] = "dial"
    /\ Goto(s, "read")
    /\ main' = [main EXCEPT ![s] = "open"]
    /\ out' = [out EXCEPT ![s] = "run"]
    /\ UNCHANGED <<client, req, inbox, got, stray, inTrans, db, conn,
                   toMain, fromMain, tx, idle, replicaVars>>

\* "Remote connection failed": only the deferred localConn.Close() runs.
DialMainFail(s) ==
    /\ "main" \in Faults
    /\ svc[s] = "dial"
    /\ Goto(s, "done")
    /\ UNCHANGED <<client, req, inbox, got, stray, inTrans, db, conn, mainVars, idle, replicaVars>>

\* handleInbound returns: service closes both sockets.
EndService(s) ==
    /\ Goto(s, "done")
    /\ main' = [main EXCEPT ![s] = "closed"]
    /\ toMain' = [toMain EXCEPT ![s] = <<>>]
    /\ fromMain' = [fromMain EXCEPT ![s] = <<>>]

\* Mutant: handleInbound goes on after an EOF.
ReadEOFIgnored(s) ==
    /\ svc[s] = "read"
    /\ inbox[s] = None
    /\ client[s] = "gone"
    /\ UNCHANGED vars

\* localConn.Read returns io.EOF, or an error.
ReadEOF(s) ==
    /\ svc[s] = "read"
    /\ inbox[s] = None
    /\ client[s] = "gone"
    /\ EndService(s)
    /\ UNCHANGED <<client, req, inbox, got, stray, inTrans, db, conn, out, tx, idle, replicaVars>>

\* Mutant: p.inTrans is not looked at.
ToReplicaAlways(s, k) == IsQuery(k) /\ MatchSelect(k)

\* delegateSelect sends a command to a replica if it is a SELECT outside a
\* transaction, as far as the proxy knows.
ToReplica(s, k) == IsQuery(k) /\ MatchSelect(k) /\ ~inTrans[s]

\* Mutant: a command that ends a transaction is not written to remoteConn.
ForwardToMainLost(s) ==
    /\ svc[s] = "read"
    /\ inbox[s] # None
    /\ ~ToReplica(s, inbox[s])
    /\ inTrans' = [inTrans EXCEPT ![s] = TrackTrans(inbox[s], @)]
    /\ toMain' = [toMain EXCEPT ![s] =
                      IF MatchEnd(inbox[s]) THEN @ ELSE Append(@, <<Tag(s), inbox[s]>>)]
    /\ inbox' = [inbox EXCEPT ![s] = None]
    /\ UNCHANGED <<client, req, got, stray, svc, db, conn, out, main, fromMain, tx, idle, replicaVars>>

\* Mutant: the command is written to remoteConn twice.
ForwardToMainTwice(s) ==
    /\ svc[s] = "read"
    /\ inbox[s] # None
    /\ ~ToReplica(s, inbox[s])
    /\ inTrans' = [inTrans EXCEPT ![s] =
                       IF IsQuery(inbox[s]) THEN TrackTrans(inbox[s], @) ELSE @]
    /\ toMain' = [toMain EXCEPT ![s] =
                      IF main[s] = "open" THEN @ \o <<<<Tag(s), inbox[s]>>, <<Tag(s), inbox[s]>>>> ELSE @]
    /\ inbox' = [inbox EXCEPT ![s] = None]
    /\ UNCHANGED <<client, req, got, stray, svc, db, conn, out, main, fromMain, tx, idle, replicaVars>>

\* delegateSelect leaves the command to the main server, remoteConn.Write.  A
\* write to a connection that the server has dropped may still succeed.
ForwardToMain(s) ==
    /\ svc[s] = "read"
    /\ inbox[s] # None
    /\ ~ToReplica(s, inbox[s])
    /\ inTrans' = [inTrans EXCEPT ![s] =
                       IF IsQuery(inbox[s]) THEN TrackTrans(inbox[s], @) ELSE @]
    /\ toMain' = [toMain EXCEPT ![s] =
                      IF main[s] = "open" THEN Append(@, <<Tag(s), inbox[s]>>) ELSE @]
    /\ inbox' = [inbox EXCEPT ![s] = None]
    /\ UNCHANGED <<client, req, got, stray, svc, db, conn, out, main, fromMain, tx, idle, replicaVars>>

\* The write fails: handleInbound returns.
ForwardFails(s) ==
    /\ svc[s] = "read"
    /\ inbox[s] # None
    /\ ~ToReplica(s, inbox[s])
    /\ main[s] \in {"bye", "dead"}
    /\ inTrans' = [inTrans EXCEPT ![s] =
                       IF IsQuery(inbox[s]) THEN TrackTrans(inbox[s], @) ELSE @]
    /\ inbox' = [inbox EXCEPT ![s] = None]
    /\ EndService(s)
    /\ UNCHANGED <<client, req, got, stray, db, conn, out, tx, idle, replicaVars>>

\* Mutant: a SELECT answered by a replica is forwarded to the main server too.
ChooseDbAndForward(s) ==
    /\ svc[s] = "read"
    /\ inbox[s] # None
    /\ ToReplica(s, inbox[s])
    /\ \E d \in Dbs : db' = [db EXCEPT ![s] = d]
    /\ toMain' = [toMain EXCEPT ![s] = Append(@, <<Tag(s), inbox[s]>>)]
    /\ inbox' = [inbox EXCEPT ![s] = None]
    /\ Goto(s, "get")
    /\ UNCHANGED <<client, req, got, stray, inTrans, conn, out, main, fromMain, tx, idle, replicaVars>>

\* chooseByWeight: any secondary, since a pool without weight is left out.
ChooseDb(s) ==
    /\ svc[s] = "read"
    /\ inbox[s] # None
    /\ ToReplica(s, inbox[s])
    /\ \E d \in Dbs : db' = [db EXCEPT ![s] = d]
    /\ inbox' = [inbox EXCEPT ![s] = None]
    /\ Goto(s, "get")
    /\ UNCHANGED <<client, req, got, stray, inTrans, conn, mainVars, idle, replicaVars>>

\* db.Get() finds an idle connection ...
GetIdle(s) ==
    /\ svc[s] = "get"
    /\ \E c \in idle[db[s]] :
        /\ idle' = [idle EXCEPT ![db[s]] = @ \ {c}]
        /\ conn' = [conn EXCEPT ![s] = c]
    /\ Goto(s, "query")
    /\ UNCHANGED <<client, req, inbox, got, stray, inTrans, db, mainVars, replicaVars>>

\* ... or dials a new one ...
GetNew(s) ==
    /\ svc[s] = "get"
    /\ idle[db[s]] = {}
    /\ \E c \in Conns :
        /\ \A t \in Sessions : conn[t] # c
        /\ \A d \in Dbs : c \notin idle[d]
        /\ conn' = [conn EXCEPT ![s] = c]
        /\ link' = [link EXCEPT ![c] = "open"]
        /\ asked' = [asked EXCEPT ![c] = None]
        /\ sent' = [sent EXCEPT ![c] = 0]
        /\ stream' = [stream EXCEPT ![c] = <<>>]
    /\ Goto(s, "query")
    /\ UNCHANGED <<client, req, inbox, got, stray, inTrans, db, mainVars, idle>>

\* ... or fails: delegateSelect returns (true, err), and handleInbound looks at
\* the error only if the flag is false.
GetFails(s) ==
    /\ "dial" \in Faults
    /\ svc[s] = "get"
    /\ idle[db[s]] = {}
    /\ db' = [db EXCEPT ![s] = None]
    /\ Goto(s, "read")
    /\ UNCHANGED <<client, req, inbox, got, stray, inTrans, conn, mainVars, idle, replicaVars>>

\* Query1 writes the command, which may succeed on a connection that the replica
\* has dropped.  takeBuffer would refuse if packets of an earlier answer were
\* still in the buffer; CleanIdle says that there are none.
Query(s) ==
    /\ svc[s] = "query"
    /\ link[conn[s]] \notin {"closed", "busy"}
    /\ asked' = [asked EXCEPT ![conn[s]] = IF link[conn[s]] = "open" THEN Tag(s) ELSE None]
    /\ Goto(s, "header")
    /\ UNCHANGED <<client, req, inbox, got, stray, inTrans, db, conn, mainVars, idle,
                   link, sent, stream>>

\* Query1 returns an error, which delegateSelect drops: the connection is closed
\* already, takeBuffer refuses, or the write fails.  Only the last closes the
\* connection, unless nothing was written (errBadConnNoWrite).
QueryFails(s) ==
    /\ svc[s] = "query"
    /\ link[conn[s]] # "open"
    /\ \E l \in {link[conn[s]]} \cup (IF link[conn[s]] = "busy" THEN {} ELSE {"closed"}) :
        link' = [link EXCEPT ![conn[s]] = l]
    /\ Goto(s, "put")
    /\ UNCHANGED <<client, req, inbox, got, stray, inTrans, db, conn, mainVars, idle,
                   asked, sent, stream>>

\* Mutant: the copying stops as soon as a write to the client fails.
CopyPacketGivesUp(s) ==
    /\ svc[s] \in {"header", "rows"}
    /\ stream[conn[s]] # <<>>
    /\ LET p == Head(stream[conn[s]])
       IN  /\ Deliver(s, p)
           /\ Goto(s, IF Last(p) \/ client[s] = "gone" THEN "put" ELSE "rows")
    /\ stream' = [stream EXCEPT ![conn[s]] = Tail(@)]
    /\ UNCHANGED <<req, inbox, stray, inTrans, db, conn, mainVars, idle, link, asked, sent>>

\* Mutant: writeDataRow does not read the rows.
CopyPacketOnce(s) ==
    /\ svc[s] = "header"
    /\ stream[conn[s]] # <<>>
    /\ Deliver(s, Head(stream[conn[s]]))
    /\ Goto(s, "put")
    /\ stream' = [stream EXCEPT ![conn[s]] = Tail(@)]
    /\ UNCHANGED <<req, inbox, stray, inTrans, db, conn, mainVars, idle, link, asked, sent>>

\* readPacket1: every packet is copied to the client as it is read.  Query1 is
\* finished by "ok" and "err", the loop of writeDataRow by "eof" and, one call
\* of Next1 later, by "err".
CopyPacket(s) ==
    /\ svc[s] \in {"header", "rows"}
    /\ stream[conn[s]] # <<>>
    /\ LET p == Head(stream[conn[s]])
       IN  /\ Deliver(s, p)
           /\ Goto(s, IF Last(p) THEN "put" ELSE "rows")
    /\ stream' = [stream EXCEPT ![conn[s]] = Tail(@)]
    /\ UNCHANGED <<req, inbox, stray, inTrans, db, conn, mainVars, idle, link, asked, sent>>

\* readPacket1 finds the replica's last words instead of an answer: it writes
\* their header to the client before it compares the sequence numbers, returns
\* ErrPktSync and leaves the connection open, with the rest in its buffer.
\* Nothing of the kind comes inside an answer, whose packets precede it.
ReadGoodbye(s) ==
    /\ svc[s] = "header"
    /\ stream[conn[s]] = <<>>
    /\ link[conn[s]] = "bye"
    /\ DeliverStray(s, "replica")
    /\ link' = [link EXCEPT ![conn[s]] = "busy"]
    /\ Goto(s, "put")
    /\ UNCHANGED <<client, req, inbox, got, inTrans, db, conn, mainVars, idle,
                   asked, sent, stream>>

\* The replica is gone, and its last words with it if the read fails at once:
\* readPacket1 closes the connection.  In Query1 that is an
\* error; in writeDataRow's loop Next1 returns ErrInvalidConn, now and forever,
\* and the loop ends only on io.EOF.
CopyFails(s) ==
    /\ svc[s] \in {"header", "rows"}
    /\ stream[conn[s]] = <<>>
    /\ link[conn[s]] \in {"stale", "bye"}
    /\ link' = [link EXCEPT ![conn[s]] = "closed"]
    /\ Goto(s, IF svc[s] = "header" THEN "put" ELSE "spin")
    /\ UNCHANGED <<client, req, inbox, got, stray, inTrans, db, conn, mainVars, idle,
                   asked, sent, stream>>

\* The deferred db.Put(conn).
Put(s) ==
    /\ svc[s] = "put"
    /\ IF Cardinality(idle[db[s]]) < MaxConns
       THEN /\ idle' = [idle EXCEPT ![db[s]] = @ \cup {conn[s]}]
            /\ UNCHANGED link
       ELSE /\ link' = [link EXCEPT ![conn[s]] = "closed"]
            /\ UNCHANGED idle
    /\ conn' = [conn EXCEPT ![s] = None]
    /\ db' = [db EXCEPT ![s] = None]
    /\ Goto(s, "read")
    /\ UNCHANGED <<client, req, inbox, got, stray, inTrans, mainVars, asked, sent, stream>>

-----------------------------------------------------------------------------
(***************************************************************************)
(* handleOutbound.                                                         *)
(***************************************************************************)

CopyFromMain(s) ==
    /\ out[s] = "run"
    /\ fromMain[s] # <<>>
    /\ Deliver(s, Head(fromMain[s]))
    /\ fromMain' = [fromMain EXCEPT ![s] = Tail(@)]
    /\ UNCHANGED <<req, inbox, stray, svc, inTrans, db, conn, out, main, toMain, tx, idle, replicaVars>>

\* After its answers the main server's last words are copied too, whatever
\* handleInbound is writing at the time.
CopyGoodbye(s) ==
    /\ out[s] = "run"
    /\ fromMain[s] = <<>>
    /\ main[s] = "bye"
    /\ DeliverStray(s, "main")
    /\ main' = [main EXCEPT ![s] = "dead"]
    /\ UNCHANGED <<client, req, inbox, got, svc, inTrans, db, conn,
                   out, toMain, fromMain, tx, idle, replicaVars>>

\* localConn.Write fails.
CopyFromMainFails(s) ==
    /\ out[s] = "run"
    /\ fromMain[s] # <<>> \/ main[s] = "bye"
    /\ client[s] = "gone"
    /\ out' = [out EXCEPT ![s] = "done"]
    /\ UNCHANGED <<sessionVars, main, toMain, fromMain, tx, idle, replicaVars>>

\* remoteConn.Read fails: the goroutine ends and tells nobody.
OutboundEnds(s) ==
    /\ out[s] = "run"
    /\ fromMain[s] = <<>>
    /\ main[s] \in {"dead", "closed"}
    /\ out' = [out EXCEPT ![s] = "done"]
    /\ UNCHANGED <<sessionVars, main, toMain, fromMain, tx, idle, replicaVars>>

-----------------------------------------------------------------------------
(***************************************************************************)
(* The servers (external).                                                 *)
(***************************************************************************)

\* The main server executes a command and answers it.  A command that fails
\* has no effect, or rolls the transaction back (a deadlock).
MainExecutes(s) ==
    /\ main[s] = "open"
    /\ toMain[s] # <<>>
    /\ LET t == Head(toMain[s])[1]
           k == Head(toMain[s])[2]
       IN  \/ /\ tx' = [tx EXCEPT ![s] = TxAfter(k, @)]
              /\ fromMain' = [fromMain EXCEPT ![s] =
                    @ \o IF MatchSelect(k)
                         THEN <<Packet(t, "head", "main"), Packet(t, "eof", "main")>>
                         ELSE <<Packet(t, "ok", "main")>>]
           \/ /\ k # "end"
              /\ \E u \in {tx[s], [tx[s] EXCEPT !.open = FALSE]} : tx' = [tx EXCEPT ![s] = u]
              /\ fromMain' = [fromMain EXCEPT ![s] = Append(@, Packet(t, "err", "main"))]
    /\ toMain' = [toMain EXCEPT ![s] = Tail(@)]
    /\ UNCHANGED <<sessionVars, out, main, idle, replicaVars>>

\* The main server drops the session, with last words or without.
MainDrops(s) ==
    /\ "main" \in Faults
    /\ main[s] = "open"
    /\ \E m \in {"bye", "dead"} : main' = [main EXCEPT ![s] = m]
    /\ toMain' = [toMain EXCEPT ![s] = <<>>]
    /\ tx' = [tx EXCEPT ![s] = NoTx]
    /\ UNCHANGED <<sessionVars, out, fromMain, idle, replicaVars>>

\* A replica sends the next packet of its answer.
ReplicaAnswers(c) ==
    /\ asked[c] # None
    /\ \E k \in IF sent[c] = 0 THEN {"ok", "err", "head"}
                ELSE {"eof", "err"} \cup (IF sent[c] <= MaxRows THEN {"row"} ELSE {}) :
        LET p == Packet(asked[c], k, "replica")
        IN  /\ stream' = [stream EXCEPT ![c] = Append(@, p)]
            /\ asked' = [asked EXCEPT ![c] = IF Last(p) THEN None ELSE @]
            /\ sent' = [sent EXCEPT ![c] = IF Last(p) THEN 0 ELSE @ + 1]
    /\ UNCHANGED <<sessionVars, mainVars, idle, link>>

\* A replica drops a connection; packets not read yet may be lost with it.  It
\* has last words for a connection that waits for a command.
ReplicaDrops(c) ==
    /\ "drop" \in Faults
    /\ link[c] = "open"
    /\ \/ /\ link' = [link EXCEPT ![c] = "stale"]
          /\ \E q \in {stream[c], <<>>} : stream' = [stream EXCEPT ![c] = q]
       \/ /\ asked[c] = None
          /\ link' = [link EXCEPT ![c] = "bye"]
          /\ UNCHANGED stream
    /\ asked' = [asked EXCEPT ![c] = None]
    /\ sent' = [sent EXCEPT ![c] = 0]
    /\ UNCHANGED <<sessionVars, mainVars, idle>>

-----------------------------------------------------------------------------
Service(s) ==
    \/ DialMain(s) \/ DialMainFail(s) \/ ReadEOF(s)
    \/ ForwardToMain(s) \/ ForwardFails(s)
    \/ ChooseDb(s) \/ GetIdle(s) \/ GetNew(s) \/ GetFails(s)
    \/ Query(s) \/ QueryFails(s) \/ CopyPacket(s) \/ ReadGoodbye(s)
    \/ CopyFails(s) \/ Put(s)

Outbound(s) ==
    CopyFromMain(s) \/ CopyGoodbye(s) \/ CopyFromMainFails(s) \/ OutboundEnds(s)

Next ==
    \/ \E s \in Sessions :
        \/ Accept(s)
        \/ \E k \in Commands : ClientSend(s, k)
        \/ ClientLeave(s)
        \/ ClientClosed(s)
        \/ Service(s)
        \/ Outbound(s)
        \/ MainExecutes(s)
        \/ MainDrops(s)
    \/ \E c \in Conns : ReplicaAnswers(c) \/ ReplicaDrops(c)

Spec == Init /\ [][Next]_vars

\* Goroutines that can run do, servers answer, and a client notices a closed
\* socket.  Clients need not send anything and nothing need fail.
Fairness ==
    /\ \A s \in Sessions :
        /\ WF_vars(Service(s))
        /\ WF_vars(Outbound(s))
        /\ WF_vars(MainExecutes(s))
        /\ WF_vars(ClientClosed(s))
    /\ \A c \in Conns : WF_vars(ReplicaAnswers(c))

FairSpec == Spec /\ Fairness

-----------------------------------------------------------------------------
(***************************************************************************)
(* Safety.                                                                 *)
(***************************************************************************)

\* No session ever receives a packet that answers a command of another one,
\* or an earlier command of its own, however sessions reuse the connections
\* of a pool and whatever fails in between.
OwnPackets ==
    \A s \in Sessions : \A i \in DOMAIN got[s] : got[s][i].tag = Tag(s)

\* handleInbound and handleOutbound write to the same socket, but an answer
\* comes from one server only and nothing follows its last packet.  The main
\* server's last words are the last it says, though a replica's answer may go
\* on after them; those of a replica come in the place of an answer.
OneAnswer ==
    \A s \in Sessions :
        /\ \A i, j \in DOMAIN got[s] :
            /\ got[s][i].by = got[s][j].by
            /\ i < j => ~Last(got[s][i])
        /\ \A m \in stray[s] :
            \/ m.by = "replica" /\ got[s] = <<>>
            \/ m.by = "main" /\ \A i \in DOMAIN got[s] : got[s][i].by = "main" => i <= m.at

\* "When the proxy's backend is MySQL, clients use the MySQL protocol": what the
\* main server says unasked is not written into the middle of the answer that
\* handleInbound copies from a replica.
UnbrokenAnswer ==
    \A s \in Sessions : \A m \in stray[s] :
        m.at \in DOMAIN got[s] => Last(got[s][m.at])

\* A connection in a pool is either dead or has nothing left to read and no
\* answer on the way: writeDataRow reads to the end even if the client left.
CleanIdle ==
    \A d \in Dbs : \A c \in idle[d] :
        link[c] = "open" => asked[c] = None /\ stream[c] = <<>>

\* "Forwards transactions SELECTs to main database": while a session has a
\* transaction open on the main server, none of its SELECTs is with a replica.
TxOnMain ==
    \A s \in Sessions :
        svc[s] \in {"get", "query", "header", "rows"} => ~InTransaction(tx[s])

\* Where the command of session s is.
Place(s) ==
    IF inbox[s] # None THEN "proxy"
    ELSE IF toMain[s] # <<>> THEN "main"
    ELSE IF fromMain[s] # <<>> THEN "done"
    ELSE IF svc[s] \in {"get", "query", "header", "rows"} THEN "replica"
    ELSE "none"

Split == INSTANCE ReadWriteSplit WITH
    place <- [s \in Sessions |-> Place(s)],
    open <- [s \in Sessions |-> InTransaction(tx[s])]

\* Through all its goroutines, pools and faults the proxy keeps the promise of
\* ReadWriteSplit: one server per command, a replica only outside a transaction,
\* nothing carried out or answered twice, and no answer to what was lost.
ImplementsSplit == Split!SSpec

-----------------------------------------------------------------------------
(***************************************************************************)
(* Liveness.                                                               *)
(***************************************************************************)

\* Every command is answered, or its client is disconnected, as long as the
\* main server keeps the session: nobody tells the client when it does not.
Answered ==
    \A s \in Sessions :
        client[s] = "waiting" ~> (client[s] # "waiting" \/ main[s] \in {"bye", "dead"})

\* When a client has left, its session ends: both goroutines return and the
\* replica connection goes back to the pool.
SessionEnds ==
    \A s \in Sessions :
        (client[s] = "gone" /\ svc[s] # "done")
            ~> (svc[s] = "done" /\ out[s] # "run" /\ conn[s] = None)

=============================================================================
