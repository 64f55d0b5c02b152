# A TLA+ model of dbrwproxy

dbrwproxy sits between database clients and a replicated database. Every client
connection is forwarded byte by byte to the main server, except SELECT
statements outside transactions: those the proxy answers itself, from one of the
configured replicas ("secondaries"). This directory holds TLA+ specifications of
the parts that carry that logic, of the MySQL driver below them, TLC
configurations that check them on small instances, and proofs that TLAPS checks
for every instance.

## The system

| part | state | operations | interacts with |
|---|---|---|---|
| connection pool, `pool/connectionPool.go` | `mu`, the channel `conns`, `closed`, `closeChannel` | `Open`, `Get`, `Put`, `Close`, goroutine `reapIdleConns` | called by every session of a proxy, by main's signal handler; dials through the driver |
| MySQL proxy, `proxy/mysql.go` | per session: `localConn`, `remoteConn`, `inTrans`; per proxy: the weighted pools | `StartMysql`, `service`, `handleInbound`, `handleOutbound`, `delegateSelect`, `chooseByWeight`, `writeDataRow` | client, main server, pool, driver |
| PostgreSQL proxy, `proxy/postgres.go` | the same, with `sqlx.DB` pools | the same; `writeDataRow` builds the answer message by message from `sql.Rows` | client, main server, `database/sql` |
| MySQL driver, `mysql/` (a modified go-sql-driver): set-up | the shared `Config`, per connection the step of the handshake | `Connect`, `auth`, `handleAuthResult`, `handleParams` | replicas |
| driver: a connection | `closed`, `closech`, `canceled`, `watching`, `reset`, `result` | `Ping`, `BeginTx`, `Exec`, `Query`, `Prepare`, statements, `Rows`, `Close`; goroutine of `startWatcher` | `database/sql`, contexts, server |
| driver: packets | `sequence`, the double buffer | `readPacket`, `writePacket`, `fill`, `readNext`, `takeBuffer`, `flip` | the socket |
| driver: the `...1` functions | as above | `Query1`, `Next1`, `readPacket1`: copy every packet they read to the client's socket | MySQL proxy |
| main program, `main.go` | the global lists `MysqlDBs`, `PostgresDBs` | start, signal handler | proxies, pools |
| configuration, `config/config.go` | none after start | `ReadConfig` | main |

What is hard here: two goroutines per session write to one socket; sessions
share replica connections; the pool's reaper receives from the channel without
the mutex that everybody else holds; a context may end, and its watcher close
the connection, at any moment of a call; replicas, the main server and clients
may go away at any moment; TCP keeps no boundaries between commands; a row
handed to a caller is a slice of a buffer that is used again; and the proxy has
to guess the state of a transaction that only the main server knows. A list of
the hazards, each at its line and with the properties aimed at it, is in
`PROJECT.json`.

What makes the parts correct:

* pool: a connection belongs to one goroutine or is idle once; none is lost;
  nothing is obtained after `Close`; calls return.
* session: a client receives exactly the packets that answer its own command,
  from one server; connections go back without unread packets; commands are
  answered; sessions end.
* routing: SELECTs of an open transaction stay on the main server, and so do
  modifications; replicas are used in proportion to their weights.
* driver: a call that `database/sql` repeats was not carried out; an answer is
  read by the call it belongs to, and to its end; a cancelled call ends and
  nobody else's connection is closed for it; the handshake's parties agree on
  where they are; a packet is what the server sent, and stays so while it is
  held.

## Modules

| module | what it is |
|---|---|
| `ConnectionPool` | the pool, one action per step another goroutine can separate |
| `PoolOwnership` | what the pool promises: connections are created, taken, given back and discarded, and have one owner |
| `ConnectionPoolProofs` | inductive invariant, safety theorems, refinement |
| `Statements` | kinds of command: what the proxy sees of them, what they do on the server |
| `MysqlProxy` | MySQL sessions, the pools they share, the copying of a replica's answer |
| `ReadWriteSplit` | what a proxy promises: one server per command, a replica only outside a transaction, nothing done or answered twice |
| `Routing` | one session's commands as pieces of a byte stream, and where they go |
| `RoutingProofs` | for which sessions the guess of the transaction is right, and that replies are expected when commands come in pieces |
| `PostgresProxy` | PostgreSQL sessions, weighted replicas with limited connections, answers built message by message |
| `Connect` | `Connector.Connect` and a server: handshake, authentication, session variables |
| `DriverConn` | one driver connection after that: calls, Rows, the watcher goroutine, the server |
| `Wire` | frames, sequence numbers and the memory of the double buffer |
| `MysqlProxyProofs`, `ReadWriteSplitProofs` | whose packets a client gets, what a connection goes back to its pool with; the transaction and the refinement |
| `PostgresProxyProofs`, `ConnectProofs`, `DriverConnProofs`, `WireProofs` | the safety invariants of those modules |
| `MCConnectionPool`, `MCMysqlProxy`, `MCPostgresProxy`, `MCConnect`, `MCDriverConn`, `MCDriverFile` | symmetry sets, configurations and answers for TLC |

`MysqlProxy` takes a pool to be what `PoolOwnership` says of it, and a replica
connection to deliver whole packets in order, which is `Wire`'s business.
`PostgresProxy` shares `Statements` with the MySQL modules: both proxies use the
same three patterns.

### ConnectionPool

The buffered channel is a sequence, the mutex its holder, `socket` the state of
each `*MysqlConn` ("stale": dropped by the server, not noticed yet). A goroutine
is at a label `pc`; every label is a point at which the scheduler can let
another one in: waiting for the mutex, dialling (`Connect` runs with the mutex
held), and before each channel operation of `Open` and `Close`. `Put`, and `Get`
without a dial, are single critical sections and therefore single actions. A
send to a channel with a blocked receiver goes to the receiver (`PutHandOff`).
The reaper is a process of its own that counts under the mutex (`ReapCount`) and
receives without it (`ReapRecv`, `ReapBlock`). No caller in the repository calls
`Open`; the model has it, at most once per pool, as the API provides it, and the
constant `Openers` says whether anybody calls it. Connection identities are
reused when nothing refers to them any more, which keeps the state finite
without bounding the length of a behaviour.

### MysqlProxy and ReadWriteSplit

`svc` is where service/handleInbound is, `out` where handleOutbound is. Get and
Put are one action each here. A reply is a sequence of packets tagged with the
command it answers: the tags exist in the model only, and let the properties say
whose answer a packet is. "head" stands for the packets `Query1` reads, "row" for
those `Next1` reads. `CopyPacket` reads and copies one of them; `CopyFails` is a
read that fails: an error of Query1 before the rows, an endless loop ("spin") in
`writeDataRow` among them. A server that ends a session (timeout, shutdown) does
so silently or with an ERR packet nobody asked for, link state "bye".
`CopyGoodbye` is handleOutbound copying the main server's, at any time;
`ReadGoodbye` is readPacket1 meeting a replica's where an answer should begin: it
writes the header to the client, returns `ErrPktSync` and leaves the connection
open, which then goes back to the pool with a rest in its buffer ("busy": the next
Query1 on it fails with `ErrBusyBuffer`). `stray[s]` records what of this the
client has received, and after how many packets of its answer. `Faults` says which faults occur: failing dials,
dropped replica connections, a main server that refuses or drops sessions,
clients that leave.

`ReadWriteSplit` knows only clients, where a command is, and whether a
transaction is open. The refinement mapping `Place` finds the command in the
proxy's receive buffer, on its way to or from the main server, or with the
goroutine that asks a replica. A command that the code drops is nowhere while its
client waits, and `ReadWriteSplit` has no step that answers such a command.

### Routing

A client's bytes are a sequence of pieces, "whole" commands or "head" and "tail"
of one; a Read returns any number of them, and delegateSelect looks at the first
bytes only. A piece has the kind of its command and the kind that its own bytes
show (`shows`): a head cut within the packet header, the command byte or the
keyword ("early") shows nothing, one cut behind them ("late") its own kind, and a
tail shows nothing unless its data happen to have a 3 in the fifth place and a
keyword behind it ("lookalike"). `Cuts` says which of these occur. If both pieces
come in one Read the bytes are all there (`Seen`). `tx` is the transaction as the
main server knows it, `inTrans` the proxy's guess. A command may fail on the
server, which leaves the transaction alone or rolls it back. The main server
follows packet headers, so it puts pieces together and drops a session that sends
it a tail without its head.

### PostgresProxy

`initDB` and `chooseByWeight` are operators on the configured weights (the MySQL
proxy has the same loops); `dbs[n]` is the list after `n` secondaries,
`currentWeight[n]` the sum after `n` of the list; a secondary whose `sqlx.Open`
fails (`Unopened`) is left out. `proxy[s].pc` follows handleInbound, delegateSelect
and writeDataRow; every `localConn.Write` is a step, so handleOutbound can come
between two messages of an answer. A result has columns, a size, the number of
rows read, and whether it was cut by the replica. An error of a write makes
writeDataRow return, an error of `Query` is dropped (`dropped`). `MaxOpen` is the limit
that `SetMaxOpenConns` sets on a replica's `sql.DB`: rows in use count, and a query waits for a
free one. `prepareRowDescription` maps names to types and then looks every
column's name up, as the code does; `OID` is `dataTypeLookup` with its default.
A client may stop reading (`ClientStall`), leave, or go on. The main server may
say things unasked: notices, notifications and changed parameters at any time
(`CopyNotice`) and a FATAL error when it ends the session (`CopyFatal`);
`client[s].stray` records them and their place in the answer. A Read that returns
'Q' and less than the length behind it makes `string(buffer)[5:end]` panic
(`ReadShort`), which ends the process and with it all sessions. Other cuts of a
message have the same effect as in the MySQL proxy and are modelled in `Routing`
only. `TxThen` is the main server's transaction: unlike MySQL's, PostgreSQL's DDL
is part of it.

### Connect

Two connections of one `Connector`, whose `cfg` they share: readHandshakePacket
may switch TLS off in it. `client[c].pc` is the step of `Connect`; the server, an
external party, greets with any plugin, judges the response by the plugin of the
account, asks for a switch, for a full authentication or for a key. A response
is abstracted to how the password travels: scrambled, encrypted, as it is, or as
a request for the key. In a full authentication the password itself is sent if the
Config has TLS or the connection is a unix socket, as the code has it. After that come `getSystemVar` and the commands of
handleParams, charsets one after another. A connection may break at any point.

### DriverConn

`database/sql` makes one call at a time; call `n` has context `n`. `call.pc` and
`call.mode` say which packet reader is at work, for a call that wants rows and
for one that does not, and for `Rows.Close`, which reads what is left.
`conn` has the fields named in the table, `result` being the number of entries
of `mc.result`. The watcher's cleanup is four steps (`SeeCancel`, `SwapClosed`,
`CloseSocket`, `WatcherClears`) because the caller runs in between; the caller's
own is one, since only the atomic swap of `closed` decides who does it. `ret` is
the class of error a caller distinguishes: the context's, `driver.ErrBadConn`,
`ErrInvalidConn`, any other. The server may answer at any time or never, with
any of the answers `MCDriverConn` lists; the socket may break with or without
the answer delivered and the command carried out (`wire.ran`: the operations of
the call of which the server has carried out a part; BeginTx with an isolation
level is two). A server that asks for a file (`SendFile`) is sent it, or an empty
packet if it cannot be read; what it answers is `AfterFile` and `AfterNoFile`, with
further results if there are more statements. A prepared query that starts with an
OK packet has no connection in its Rows (statement.go:113), so NextResultSet ends
at once even if the packet announces more (`GoesOn`). An OK with more results does
not begin the answer to one statement, and `Protocol` leaves it out.

### Wire

Memory is explicit: an array is a sequence of cells and a row is a slice of one,
so what a caller holds changes when the array is written again. `Prepare` and
`Read` are the two halves of `fill`, with reads of every size the socket allows.
A header is one cell instead of four bytes, and the sizes are scaled down,
keeping their order: a packet limit of 4 cells, a buffer of 2, arrays up to 4
cached, sequence numbers modulo 4. The server may say goodbye on an idle
connection; a packet out of sequence is an error of the call that meets it, after
which the connection is open and its other bytes are still there, while a malformed
one closes it. Arrays nobody refers to are collected, which bounds the number of
them.

## Runs

| run | checks | result |
|---|---|---|
| `pool` | `TypeOK`, `Exclusive`, `NoLeak`, `ClosedIsFinal`, `ImplementsOwnership`, `CallsReturn`, `ReaperTrims` | hold |
| `mysql_safety` | `OwnPackets`, `OneAnswer`, `CleanIdle`, `TxOnMain`, `ImplementsSplit` | hold, with every fault on |
| `mysql_liveness` | `Answered`, `SessionEnds` | hold while replicas stay up |
| `route_session` | `TypeOK`, `TxSelectsToMain` | hold for commands whole or cut behind the keyword |
| `postgres` | `FairShare`, `OneAnswer`, `StatusTrue`, `ResultWhole`, `ColumnTypes`, `Answered`, `QueryProceeds`, `SessionEnds` | hold, with the exceptions below |
| `connect` | `SamePhase`, `ClearOnlyEncrypted`, `ParamsApplied`, `ConnectReturns` | hold for servers that agree about TLS |
| `driver` | `RetrySafe`, `CancelOwn`, `CleanStart`, `ResultCounts`, `CancelEnds`, `WatcherGone`, `RowsCloseDrains` | hold |
| `wire` | `RightPacket`, `RowIntact`, `CommandFramed`, `ReadReturns` | hold |
| `pool_close_leaves` | `CloseDrains` | violated: `Close` stops half way through the channel |
| `mysql_replica_unreachable` | `Answered` | violated: the error of `Get` is dropped |
| `mysql_broken_answer` | `SessionEnds` | violated: the row loop never ends after a broken read |
| `route_savepoint` | `TxSelectsToMain` | violated: `ROLLBACK TO` is taken for the end of the transaction |

Run one with `tlc -config <run>.cfg <module>` in this directory; the modules are
in `PROJECT.json`. A run that ends in a violation shows that the code does not do
what a line of its documentation says; `PROJECT.json` quotes the line.

Some properties hold only with a restriction, and what lies outside of it is a
matter of the constants. These configurations lift the restrictions one at a time;
each ends in a violation at once, and its trace is what the code does:

| configuration, module | property | trace |
|---|---|---|
| `route_cut`, `Routing` | `TxSelectsToMain` | a `BEGIN` cut in its first bytes (mysql.go:124) is not recognised, and the transaction's SELECTs go to a replica |
| `route_close`, `Routing` | `TxSelectsToMain` | a `BEGIN` behind a `COM_STMT_CLOSE` in one Read is not seen |
| `route_tail`, `Routing` | `WritesToMain` | the rest of an INSERT whose data look like a COM_QUERY with a SELECT is sent to a replica |
| `mysql_goodbye`, `MCMysqlProxy` | `UnbrokenAnswer` | the packet with which the main server ends an idle session is copied (mysql.go:197) into the middle of a replica's answer |
| `postgres_fatal`, `MCPostgresProxy` | `NothingAfterFatal` | the main server's FATAL is copied (postgres.go:131) between the messages of a replica's answer, which goes on after it |
| `connect_shared_config`, `MCConnect` | `AnswersByOneConfig` | one connection's greeting switches TLS off (packets.go:286) in the `Config` by which another has already chosen its answer, although connector.go:14 calls it an "immutable private copy" |
| `driver_file_left`, `MCDriverFile` | `CleanStart` | after a file that could not be read (infile.go:172) the results of the statements behind the LOAD DATA stay unread and meet the next command |
| `driver_file_retry`, `MCDriverFile` | `RetrySafe` | a query whose first statement was carried out is reported as not sent (connection.go:317), and repeated, when the file of its second cannot be written |

**Bounds.** Pool: two sessions, one of which also calls `Open`, one closer, `minConns` 1 and
`maxConns` 2, which are the smallest numbers for which the channel can be full,
have a surplus, be emptied by a rival, and be drained half. There are three
identities of connections; a dial that finds none free fails, as a replica at
its own limit would make it. MySQL proxy: two sessions and one pool of one, so
that a connection goes from one session to the other and a Put finds the pool
full; two commands each for safety, so that a late packet of the first could
meet the second, and one each for liveness. The two passing runs have results
without rows, since one row each makes them too long; an answer then has two
packets, its header and its end, so that everything that can come between two
packets does. Rows occur in `mysql_broken_answer` and `mysql_goodbye`, and the
theorems hold for any number of them. Routing: five commands,
enough for a transaction with a failing command and a SELECT on either side of
it. The violations need one to three commands. PostgreSQL
proxy: two sessions, secondaries of weights 2, 0, 3 and 1 of which the third cannot be
opened, with one connection each, so that sessions wait for each other; one session
has a transaction and a SELECT in it or after it, the other one SELECT; a result has
up to one row, two columns of one name and one of a type the proxy does not know; two
faults or notices. Connect: two
connections, four plugins, six configurations that between them take every
branch, one fault. DriverConn: two calls, of any two operations, so that what
the first leaves behind meets the second; answers of up to three results. Wire:
two commands, answers of up to two packets one cell below, at and above the
packet limit, and sequence numbers that wrap within an answer. Behaviours end
when clients have sent all their commands, so deadlock is not checked; that
nothing stops earlier is what the liveness properties say.

**Fairness.** A Go mutex hands itself to a goroutine that has waited for a
millisecond, and a channel serves its waiters in order, so steps of pool calls
and of the reaper are strongly fair. `database/sql` gives a freed connection to
a waiting request, so a query of the PostgreSQL proxy that is enabled again and
again gets its turn (strongly fair). Goroutines that can run do, and servers
answer what they received (weakly fair); in `DriverConn` they need not, since the
point there is to be able to give up. A caller closes its Rows. Clients need not
send, and no fault need happen. That a dial ends is an assumption on the
replicas: the pool calls `Connect` with `context.Background()` and the DSN sets
no timeout, so a replica that accepts and then says nothing blocks `Get`, with
the mutex held. `ConnectReturns` says that only a silent server or network can
make it so: the parties never wait for each other.

**What the properties exclude.**

* `CallsReturn` allows for one reason not to return: a channel operation made
  with the mutex held that cannot go on (`Stuck`). Both are real: `Close` when
  the reaper takes the last connection between the loop's test and the receive,
  and `Open` when sessions have filled the channel. Neither happens in the
  program as it is, because nobody calls `Open`. For the same reason
  `ReaperTrims` says nothing about the running program: idle connections are
  kept until the proxy stops.
* `Answered` excludes sessions that the main server has dropped: handleOutbound
  ends and tells nobody. In `PostgresProxy` it also excludes commands whose error
  delegateSelect dropped, and, like `QueryProceeds` and `SessionEnds`, the time
  while a client has stopped reading: its rows keep a connection of `MaxOpen`.
* `OneAnswer` of both proxies says what the code keeps when servers speak unasked:
  what answers the command comes from one server, and the main server says nothing
  after its last words. That nothing falls *into* an answer does not hold, which is
  what `mysql_goodbye` and `postgres_fatal` show.
* `TxSelectsToMain` holds for commands that a Read returns at least up to their
  keyword; `route_cut`, `route_close` and `route_savepoint` show the other cases.
* `ResultWhole` counts the rows of a result that was not cut by the replica: of
  one that was, `rows.Err()` is looked at after CommandComplete was sent.
* `ColumnTypes` excludes a column whose name appears again later.
* `ClearOnlyEncrypted` holds if all servers behind one address offer TLS or none
  does. The fallback to plaintext is stored in the shared `Config`, so with
  servers that differ one handshake changes what another has decided
  (`connect_shared_config`). On a unix socket the password may be sent as it is.
* `ResultCounts` excludes calls whose context was cancelled: the watcher's
  cleanup clears `mc.result`, and an `Exec` that finds the rest of its answer in
  the buffer returns success with an empty result.
* `RowsCloseDrains` excludes a `Rows.Close` that has nothing left to read
  because NextResultSet met an error packet: it waits for rows that do not come,
  and finish has already taken the watcher off.
* `RetrySafe` is checked with read-only errors and requests for a file that are the
  first packet of an answer; one that follows the result of an earlier statement is
  reported as `ErrBadConn` too (`driver_file_retry`). A prepared statement and SET
  TRANSACTION (`SessionOnly`) are gone with the connection and may be repeated.
* `CleanStart` is checked with a LOAD DATA that is the last statement of its query if
  its file cannot be read (`driver_file_left`).

## Proofs

`tlapm <module>.tla` checks the proofs of one module; the modules are the eight
whose names end in `Proofs`. Between them they state every invariant and both
refinements that the passing runs check, for all values of the constants that
satisfy the assumptions named here.

*Pool.* `Exclusive` and `NoLeak` are not inductive: a Put appends the connection
in hand, so one must know that a goroutine at "put" has one and that it is not in
the channel already; and a connection dialled by `Open` is nobody's between its
dial and its send. `IInv` adds `MutexInv` (a goroutine is in a critical section
iff it holds `mu`, so there is at most one) and `HeldInv` (which labels go with a
connection in hand). Each action preserves `IInv` by one of the lemmas on what
happens to a connection: it is allocated (`ConnectStep`), sent (`SendStep`),
received by a goroutine (`ReceiveStep`), taken from the channel and closed
(`DrainHeadStep`), closed in hand (`DiscardStep`), or none of these
(`ControlStep`). From `IInv` follow `PoolTypes`, `PoolExclusive`,
`PoolNoLeak`, `PoolClosedIsFinal` (with `ClosedInv`: nobody dials or fills once
the pool is closed) and `PoolImplementsOwnership`, where every step maps to
Create, Take, Give, Discard, Shut or a stutter. The only assumptions are those
of `PoolAssumption`: limits are natural numbers and `maxConns` is positive, as
`initMysqlDB` guarantees, at most one goroutine calls `Open`, and names are
distinct.

*Routing.* `OrdinaryTxSelectsToMain`: for a synchronous client whose commands
arrive whole and are of the kinds `Tracked` (`Ordinary`), sessions of any length
keep the transaction's SELECTs on the main server. The invariant says that at
most one command is under way and in one place (`FlowInv`), and that `inTrans` is
set whenever a transaction is open or will be after the command on its way to the
main server, whether it succeeds or fails (`GuessInv`). `route_savepoint` shows
that the restriction on kinds is needed, `route_cut` that the one on cuts is. With
commands of every kind that a Read may cut anywhere, `SynchronousTypes` holds for
every client that waits for its replies, as long as no tail looks like a command
(`Synchronous`). `TypeOK` is not inductive: that
a reply finds a client that expects it depends on how many replies the pieces
under way will still cause. `SyncInv` therefore keeps the pieces in the order in
which they were sent (`PieceInv`: main server, replica, not yet read), each
command's kind being a function that the invariant quantifies.

*MySQL sessions.* No assumption beyond `ProxyAssumption`: commands are those that
have a reply, and a pool holds at least one connection. `OwnPackets` says nothing
about packets still on their way, `CleanIdle` nothing about connections in use.
`PInv` has for each session the place of its command (`FlowInv`), the answer on its
way from the main server (`BackInv`), what the client has of it (`GotInv`) and
when a connection is held (`HeldInv`); across sessions, that a connection is held
once (`ExclusiveInv`), that one nobody reads from has nothing on it (`CleanInv`),
and that what a session reads from is the rest of one answer to its own command
(`AnswerInv`). `StrayInv` places what servers say unasked: after the main server's
last words nothing of its own is on its way, and a replica's end the answer that
would have come. From it follow `ProxyOwnPackets`, `ProxyOneAnswer` and
`ProxyCleanIdle`. `TInv` adds the guess of the transaction and needs `TrackedOnly`,
that clients use the kinds `Tracked`; it gives `ProxyTxOnMain` and
`ProxyImplementsSplit`, in which every action is a step of `ReadWriteSplit` or
leaves its variables alone.

*PostgreSQL sessions.* `PInv`: the command is in one place, and what the client
has received is the beginning of the one answer that fits the step writeDataRow
is at (`Shown`), with the rows counted (`RowsInv`). It gives `PostgresOneAnswer`,
`PostgresResultWhole` and `PostgresColumnTypes`, for results of any shape. For the
messages nobody asked for `PostgresOneAnswer` needs `StrayInv` besides: once a FATAL was copied
the session on the main server is over and has nothing left to say (`Quiet`).
`PostgresStatusTrue` again needs `TrackedOnly`: with a savepoint the status the
proxy makes up is wrong as the guess is. `PostgresFairShare` is about two loops.
After any number of rounds of `initDB` the list has the secondaries of positive
weight that could be opened (`Taken`) in their order (`DbsLoop`), and the sums of `chooseByWeight` grow by one
weight a round (`CurrentWeightFacts`), so a number falls to the replica between
whose sums it lies (`Falls`, `ChooseFacts`), and these numbers form an interval as
long as its weight (`Share`).

*Connect.* `SamePhase` relates two programs that take turns, so `PhaseInv` lists for
every pair of steps that client and server may be at together the packets that may be
between them; `CountInv` counts the commands of the set-up that the server has
accepted against those the client has left. `ConnectTypes`, `ConnectSamePhase` and
`ConnectParamsApplied` follow for any number of connections and any
configurations. `ConnectClearOnlyEncrypted` assumes `SameTLS`, that all servers of a
Connector offer TLS or none does, and adds `SecretInv`: the shared `cfg.tls` is
what this connection's response was chosen under.

*DriverConn.* The four theorems assume `Protocol`: an answer is a sequence of
packets in which each may follow the one before; a server that refuses because it
is read-only, or asks for a file, does so before it has carried out anything; the
answer to a prepared query does not begin with an OK that announces more; and a
statement whose file could not be read is the last of its query. The two
`driver_file` configurations show that the parts about files are needed.
TLC evaluates `Protocol` for the answers of the run (`MCProtocol`). `DInv`: the
watcher has the context of the call in progress or none, and lets go before the
call returns (`WatchInv`); what is unread is the rest of one answer and begins with a
packet that the reader at work can take (`StreamInv`); what the caller knows of what was
carried out (`RanInv`); and entries of `mc.result` plus results still unread
make up the results of the answer (`CountInv`).

*Wire.* `WireCommandFramed` and `WireTypes` need `TypeInv`. For `WireRowIntact` one
must know which of the two arrays the next fill writes to: `BufInv` says that the
buffer is this array, or a larger one that is not cached, as long as no Rows was
closed, and `RowInv` that after `flip` it is not the row's. `WireRightPacket` needs all
that is unread, in the buffer and in the socket: `StreamInv` says that it is the answer
from the frame on that the caller waits for (`Await`). It assumes `ShortCommands`, that
a command has fewer frames than there are sequence numbers (256 of 16 MB each;
`max_allowed_packet` is at most 1 GB): otherwise the goodbye of a server, whose
sequence number is 0, could be taken for the first packet of the answer.

Several of these proofs need an induction over the length of a list: the frames of
a packet, the packets of an answer, the loops of the weights. The operator
parameters of the library's induction theorems are out of the provers' reach, so
the inductions are made with sets: the set of the numbers for which the statement
holds has 0 and every successor (`Induction`, from the least number of the
complement, `NatMin`).

Only model-checked are the properties that need fairness, which is out of
TLAPS's reach: `CallsReturn`, `ReaperTrims`, `Answered`, `SessionEnds`,
`QueryProceeds`, `ConnectReturns`, `CancelEnds`, `WatcherGone`, `RowsCloseDrains`,
`ReadReturns`. The inductive invariants themselves are no part of a run; TLC
confirms `TypeOK` of a module with the cfg of its run and one more line,
`INVARIANT TypeOK`.

## Seen while modelling, without a run of their own

* `maxConns` bounds the idle connections, not the open ones: `Get` dials
  whenever the channel is empty.
* `Put` and `Get` do not look at a connection's state; the driver's closed
  connections circulate, and a SELECT that meets one is not answered.
* `COMMIT AND CHAIN`, `SET autocommit=0` and a prepared `START TRANSACTION` are not
  recognised, and the SELECTs after them go to a replica as in `route_close`.
* A SELECT longer than the buffer, or cut by TCP, is sent to a replica without
  its end, which goes to the main server.
* One session's Read of 'Q' and fewer than four bytes ends the process of the
  PostgreSQL proxy (`ReadShort`).
* A packet out of sequence (`ErrPktSync`) is an error of the call that meets it
  and does not close the connection; readPacket1 has written its header to the
  client by then.
* A parameter sent ahead as long data stays with the server's statement if a
  later argument cannot be converted, and the next execution finds it there.

## Not modelled

* Values and encodings (`utils.go`, `fields.go`, `collations.go`, `const.go`): the
  layout of values inside a packet, the scrambles of passwords, dates, escapes.
  They are functions without state; the models take their results as kinds.
* `dsn.go`, `config.go`: parsing of configuration at start-up; its values are the
  models' constants.
* The registries of dialers, keys, readers and files, column metadata, logging,
  the platform variants and the fuzzing entry point.
* `main.go` beyond the call of `Close`: one signal ends the process.

## Plan

1. The composition of pool and proxy: `MysqlProxy` uses `PoolOwnership`'s Take and
   Give as single steps; a theorem that its pools implement `PoolOwnership` would
   close the gap to `ConnectionPool`.
2. The safety half of the liveness properties: for `CancelEnds` and `RowsCloseDrains`,
   that the states in which a call waits are those named in the section on what the
   properties exclude.
3. The hazards without a property: long data that stays with a statement, and the
   pools that the proxies of one configuration share at shutdown.
4. Messages of the PostgreSQL protocol in pieces, as `Routing` has them for MySQL.
