--------------------------- MODULE ConnectionPool ---------------------------
(***************************************************************************)
(* pool/connectionPool.go: the pool of replica connections that the        *)
(* sessions of a MySQL proxy share.                                        *)
(*                                                                         *)
(* The buffered channel cp.conns is the sequence conns (receive at the     *)
(* head, send at the tail) and the mutex cp.mu is its holder.  cp.closed   *)
(* and the closing of cp.closeChannel happen in one critical section and   *)
(* are one variable: closed is read only under the mutex, closeChannel     *)
(* only by the reaper, and nobody can tell the two instants apart.         *)
(*                                                                         *)
(* A call is split wherever another goroutine can get in: between the call *)
(* and the acquisition of the mutex, around Connect (a dial made with the  *)
(* mutex held), and around every channel operation, because the reaper     *)
(* receives from the channel WITHOUT holding the mutex.                    *)
(***************************************************************************)
EXTENDS Integers, Sequences, FiniteSets

CONSTANTS
    Procs,      \* the goroutines that call the pool
    Users,      \* those that call Get and Put (one per client session)
    Openers,    \* those that call Open; no caller in the repository does
    Closers,    \* those that call Close (main's signal handler)
    Conns,      \* identities of *MysqlConn objects; one is reused only once
                \* nothing refers to it any more
    MinConns,   \* cp.minConns
    MaxConns,   \* cp.maxConns, the capacity of cp.conns
    None        \* no process, no connection

\* What proxy/mysql.go:220-231 guarantees about the pool it builds, and what
\* the model takes Open to be: called to completion at most once per pool.
ASSUME PoolAssumption ==
    /\ Users \subseteq Procs
    /\ Openers \subseteq Procs
    /\ Closers \subseteq Procs
    /\ \A p, q \in Openers : p = q
    /\ None \notin Procs
    /\ None \notin Conns
    /\ MinConns \in Nat
    /\ MaxConns \in Nat \ {0}
    /\ {"unused", "idle", "leaked"} \cap Procs = {}

VARIABLES
    mu,         \* the goroutine that holds cp.mu, or None
    conns,      \* the channel cp.conns
    closed,     \* cp.closed, and "cp.closeChannel is closed"
    socket,     \* per connection: "open", "stale" (dropped by the server, the
                \* driver has not noticed) or "closed" (mc.closed; also unused)
    pc,         \* where each goroutine is in the call it makes
    held,       \* the connection each goroutine has in hand
    count,      \* the loop variable i of Open and of Close
    reaper,     \* where the goroutine of reapIdleConns is
    idleConns   \* reapIdleConns' idleConns - i, the receives still to do

vars == <<mu, conns, closed, socket, pc, held, count, reaper, idleConns>>

PcValues == {"idle", "get", "dial", "use", "put",
             "close", "drain", "recv", "open", "fill", "push"}

ReaperValues == {"off", "select", "lock", "reap", "blocked", "exit"}

InChannel(c) == \E i \in DOMAIN conns : conns[i] = c

\* c names no live object: Connect may allocate it.
Fresh(c) ==
    /\ socket[c] = "closed"
    /\ ~InChannel(c)
    /\ \A p \in Procs : held[p] # c

\* The sections of the code that run with cp.mu held.
Critical == {"dial", "drain", "recv", "fill", "push"}

-----------------------------------------------------------------------------
TypeOK ==
    /\ mu \in Procs \cup {None}
    /\ conns \in Seq(Conns)
    /\ Len(conns) <= MaxConns
    /\ closed \in BOOLEAN
    /\ socket \in [Conns -> {"open", "stale", "closed"}]
    /\ pc \in [Procs -> PcValues]
    /\ held \in [Procs -> Conns \cup {None}]
    /\ count \in [Procs -> Nat]
    /\ reaper \in ReaperValues
    /\ idleConns \in Int

\* NewConnectionPool: an empty channel, no connection, no reaper.
Init ==
    /\ mu = None
    /\ conns = <<>>
    /\ closed = FALSE
    /\ socket = [c \in Conns |-> "closed"]
    /\ pc = [p \in Procs |-> "idle"]
    /\ held = [p \in Procs |-> None]
    /\ count = [p \in Procs |-> 0]
    /\ reaper = "off"
    /\ idleConns = 0

Goto(p, l) == pc' = [pc EXCEPT ![p] = l]

CloseSocket(c) == socket' = [socket EXCEPT ![c] = "closed"]

-----------------------------------------------------------------------------
(***************************************************************************)
(* Get.                                                                    *)
(***************************************************************************)

GetCall(p) ==
    /\ p \in Users
    /\ pc[p] = "idle"
    /\ Goto(p, "get")
    /\ UNCHANGED <<mu, conns, closed, socket, held, count, reaper, idleConns>>

\* "connection pool is closed"
GetClosed(p) ==
    /\ pc[p] = "get"
    /\ mu = None
    /\ closed
    /\ Goto(p, "idle")
    /\ UNCHANGED <<mu, conns, closed, socket, held, count, reaper, idleConns>>

\* Mutant: Get does not look at cp.closed.
GetTakeUnchecked(p) ==
    /\ pc[p] = "get"
    /\ mu = None
    /\ conns # <<>>
    /\ conns' = Tail(conns)
    /\ held' = [held EXCEPT ![p] = Head(conns)]
    /\ Goto(p, "use")
    /\ UNCHANGED <<mu, closed, socket, count, reaper, idleConns>>

\* case db := <-cp.conns
GetTake(p) ==
    /\ pc[p] = "get"
    /\ mu = None
    /\ ~closed
    /\ conns # <<>>
    /\ conns' = Tail(conns)
    /\ held' = [held EXCEPT ![p] = Head(conns)]
    /\ Goto(p, "use")
    /\ UNCHANGED <<mu, closed, socket, count, reaper, idleConns>>

\* default: the pool is empty; Connect is called with the mutex held, and
\* nothing compares the number of open connections with maxConns.
GetDial(p) ==
    /\ pc[p] = "get"
    /\ mu = None
    /\ ~closed
    /\ conns = <<>>
    /\ mu' = p
    /\ Goto(p, "dial")
    /\ UNCHANGED <<conns, closed, socket, held, count, reaper, idleConns>>

DialOk(p, c) ==
    /\ pc[p] = "dial"
    /\ Fresh(c)
    /\ socket' = [socket EXCEPT ![c] = "open"]
    /\ held' = [held EXCEPT ![p] = c]
    /\ mu' = None
    /\ Goto(p, "use")
    /\ UNCHANGED <<conns, closed, count, reaper, idleConns>>

\* Mutant: the error return of Get forgets to unlock.
DialFailLocked(p) ==
    /\ pc[p] = "dial"
    /\ Goto(p, "idle")
    /\ UNCHANGED <<mu, conns, closed, socket, held, count, reaper, idleConns>>

DialFail(p) ==
    /\ pc[p] = "dial"
    /\ mu' = None
    /\ Goto(p, "idle")
    /\ UNCHANGED <<conns, closed, socket, held, count, reaper, idleConns>>

-----------------------------------------------------------------------------
(***************************************************************************)
(* What happens to connections outside the pool's code.                    *)
(***************************************************************************)

\* The server drops a connection, in the pool or in use.
ServerDrop(c) ==
    /\ socket[c] = "open"
    /\ socket' = [socket EXCEPT ![c] = "stale"]
    /\ UNCHANGED <<mu, conns, closed, pc, held, count, reaper, idleConns>>

\* The driver notices while p uses the connection: the failed read or write
\* makes readPacket1 call mc.Close() (mysql/packets.go:94-96, 131-133).
UseFails(p) ==
    /\ pc[p] = "use"
    /\ held[p] # None
    /\ socket[held[p]] = "stale"
    /\ CloseSocket(held[p])
    /\ UNCHANGED <<mu, conns, closed, pc, held, count, reaper, idleConns>>

-----------------------------------------------------------------------------
(***************************************************************************)
(* Put.  A send on a channel with a blocked receiver goes to the receiver. *)
(***************************************************************************)

PutCall(p) ==
    /\ pc[p] = "use"
    /\ Goto(p, "put")
    /\ UNCHANGED <<mu, conns, closed, socket, held, count, reaper, idleConns>>

PutClosed(p) ==
    /\ pc[p] = "put"
    /\ mu = None
    /\ closed
    /\ CloseSocket(held[p])
    /\ held' = [held EXCEPT ![p] = None]
    /\ Goto(p, "idle")
    /\ UNCHANGED <<mu, conns, closed, count, reaper, idleConns>>

\* The reaper is blocked in its receive: it gets the connection and closes it.
PutHandOff(p) ==
    /\ pc[p] = "put"
    /\ mu = None
    /\ ~closed
    /\ reaper = "blocked"
    /\ CloseSocket(held[p])
    /\ held' = [held EXCEPT ![p] = None]
    /\ Goto(p, "idle")
    /\ reaper' = "reap"
    /\ idleConns' = idleConns - 1
    /\ UNCHANGED <<mu, conns, closed, count>>

\* Mutant: Put does not look at cp.closed.
PutBackUnchecked(p) ==
    /\ pc[p] = "put"
    /\ mu = None
    /\ reaper # "blocked"
    /\ Len(conns) < MaxConns
    /\ conns' = Append(conns, held[p])
    /\ held' = [held EXCEPT ![p] = None]
    /\ Goto(p, "idle")
    /\ UNCHANGED <<mu, closed, socket, count, reaper, idleConns>>

\* Mutant: the session goes on using the connection it has put back.
PutBackEarly(p) ==
    /\ pc[p] = "put"
    /\ mu = None
    /\ ~closed
    /\ reaper # "blocked"
    /\ Len(conns) < MaxConns
    /\ conns' = Append(conns, held[p])
    /\ Goto(p, "use")
    /\ UNCHANGED <<mu, closed, socket, held, count, reaper, idleConns>>

PutBack(p) ==
    /\ pc[p] = "put"
    /\ mu = None
    /\ ~closed
    /\ reaper # "blocked"
    /\ Len(conns) < MaxConns
    /\ conns' = Append(conns, held[p])
    /\ held' = [held EXCEPT ![p] = None]
    /\ Goto(p, "idle")
    /\ UNCHANGED <<mu, closed, socket, count, reaper, idleConns>>

\* Mutant: the default branch of Put drops the connection without closing it.
PutFullForget(p) ==
    /\ pc[p] = "put"
    /\ mu = None
    /\ ~closed
    /\ reaper # "blocked"
    /\ Len(conns) >= MaxConns
    /\ held' = [held EXCEPT ![p] = None]
    /\ Goto(p, "idle")
    /\ UNCHANGED <<mu, conns, closed, socket, count, reaper, idleConns>>

\* pool already full, close connection
PutFull(p) ==
    /\ pc[p] = "put"
    /\ mu = None
    /\ ~closed
    /\ reaper # "blocked"
    /\ Len(conns) >= MaxConns
    /\ CloseSocket(held[p])
    /\ held' = [held EXCEPT ![p] = None]
    /\ Goto(p, "idle")
    /\ UNCHANGED <<mu, conns, closed, count, reaper, idleConns>>

-----------------------------------------------------------------------------
(***************************************************************************)
(* Close.  The loop compares i with len(cp.conns) afresh on every turn     *)
(* while each turn also shortens the channel.                              *)
(***************************************************************************)

CloseCall(p) ==
    /\ p \in Closers
    /\ pc[p] = "idle"
    /\ Goto(p, "close")
    /\ UNCHANGED <<mu, conns, closed, socket, held, count, reaper, idleConns>>

CloseAgain(p) ==
    /\ pc[p] = "close"
    /\ mu = None
    /\ closed
    /\ Goto(p, "idle")
    /\ UNCHANGED <<mu, conns, closed, socket, held, count, reaper, idleConns>>

CloseBegin(p) ==
    /\ pc[p] = "close"
    /\ mu = None
    /\ ~closed
    /\ mu' = p
    /\ closed' = TRUE
    /\ count' = [count EXCEPT ![p] = 0]
    /\ Goto(p, "drain")
    /\ UNCHANGED <<conns, socket, held, reaper, idleConns>>

DrainMore(p) ==
    /\ pc[p] = "drain"
    /\ count[p] < Len(conns)
    /\ Goto(p, "recv")
    /\ UNCHANGED <<mu, conns, closed, socket, held, count, reaper, idleConns>>

\* conn := <-cp.conns blocks, mutex held, if the channel was emptied meanwhile.
DrainRecv(p) ==
    /\ pc[p] = "recv"
    /\ conns # <<>>
    /\ conns' = Tail(conns)
    /\ CloseSocket(Head(conns))
    /\ count' = [count EXCEPT ![p] = @ + 1]
    /\ Goto(p, "drain")
    /\ UNCHANGED <<mu, closed, held, reaper, idleConns>>

DrainDone(p) ==
    /\ pc[p] = "drain"
    /\ count[p] >= Len(conns)
    /\ mu' = None
    /\ Goto(p, "idle")
    /\ UNCHANGED <<conns, closed, socket, held, count, reaper, idleConns>>

-----------------------------------------------------------------------------
(***************************************************************************)
(* Open.                                                                   *)
(***************************************************************************)

OpenCall(p) ==
    /\ p \in Openers
    /\ reaper = "off"
    /\ pc[p] = "idle"
    /\ Goto(p, "open")
    /\ UNCHANGED <<mu, conns, closed, socket, held, count, reaper, idleConns>>

OpenClosed(p) ==
    /\ pc[p] = "open"
    /\ mu = None
    /\ closed
    /\ Goto(p, "idle")
    /\ UNCHANGED <<mu, conns, closed, socket, held, count, reaper, idleConns>>

OpenBegin(p) ==
    /\ pc[p] = "open"
    /\ mu = None
    /\ ~closed
    /\ mu' = p
    /\ count' = [count EXCEPT ![p] = 0]
    /\ Goto(p, "fill")
    /\ UNCHANGED <<conns, closed, socket, held, reaper, idleConns>>

FillDial(p, c) ==
    /\ pc[p] = "fill"
    /\ count[p] < MinConns
    /\ Fresh(c)
    /\ socket' = [socket EXCEPT ![c] = "open"]
    /\ held' = [held EXCEPT ![p] = c]
    /\ Goto(p, "push")
    /\ UNCHANGED <<mu, conns, closed, count, reaper, idleConns>>

\* return err: what was pushed so far stays in the channel, no reaper starts.
FillFail(p) ==
    /\ pc[p] = "fill"
    /\ count[p] < MinConns
    /\ mu' = None
    /\ Goto(p, "idle")
    /\ UNCHANGED <<conns, closed, socket, held, count, reaper, idleConns>>

\* Mutant: the channel is made larger than maxConns.
FillPushUnbounded(p) ==
    /\ pc[p] = "push"
    /\ conns' = Append(conns, held[p])
    /\ held' = [held EXCEPT ![p] = None]
    /\ count' = [count EXCEPT ![p] = @ + 1]
    /\ Goto(p, "fill")
    /\ UNCHANGED <<mu, closed, socket, reaper, idleConns>>

\* cp.conns <- conn blocks, mutex held, while the channel is full.
FillPush(p) ==
    /\ pc[p] = "push"
    /\ Len(conns) < MaxConns
    /\ conns' = Append(conns, held[p])
    /\ held' = [held EXCEPT ![p] = None]
    /\ count' = [count EXCEPT ![p] = @ + 1]
    /\ Goto(p, "fill")
    /\ UNCHANGED <<mu, closed, socket, reaper, idleConns>>

FillDone(p) ==
    /\ pc[p] = "fill"
    /\ count[p] >= MinConns
    /\ mu' = None
    /\ reaper' = "select"
    /\ Goto(p, "idle")
    /\ UNCHANGED <<conns, closed, socket, held, count, idleConns>>

-----------------------------------------------------------------------------
(***************************************************************************)
(* reapIdleConns.                                                          *)
(***************************************************************************)

ReapExit ==
    /\ reaper = "select"
    /\ closed
    /\ reaper' = "exit"
    /\ UNCHANGED <<mu, conns, closed, socket, pc, held, count, idleConns>>

\* <-time.After(cp.idleTimeout)
ReapTimeout ==
    /\ reaper = "select"
    /\ reaper' = "lock"
    /\ UNCHANGED <<mu, conns, closed, socket, pc, held, count, idleConns>>

\* Mutant: the reaper leaves one connection too many.
ReapCountShort ==
    /\ reaper = "lock"
    /\ mu = None
    /\ idleConns' = Len(conns) - MinConns - 1
    /\ reaper' = "reap"
    /\ UNCHANGED <<mu, conns, closed, socket, pc, held, count>>

\* The number of idle connections is read under the mutex ...
ReapCount ==
    /\ reaper = "lock"
    /\ mu = None
    /\ idleConns' = Len(conns) - MinConns
    /\ reaper' = "reap"
    /\ UNCHANGED <<mu, conns, closed, socket, pc, held, count>>

\* ... and used after the mutex was released.
ReapRecv ==
    /\ reaper = "reap"
    /\ idleConns > 0
    /\ conns # <<>>
    /\ conns' = Tail(conns)
    /\ CloseSocket(Head(conns))
    /\ idleConns' = idleConns - 1
    /\ UNCHANGED <<mu, closed, pc, held, count, reaper>>

ReapBlock ==
    /\ reaper = "reap"
    /\ idleConns > 0
    /\ conns = <<>>
    /\ reaper' = "blocked"
    /\ UNCHANGED <<mu, conns, closed, socket, pc, held, count, idleConns>>

ReapDone ==
    /\ reaper = "reap"
    /\ idleConns <= 0
    /\ reaper' = "select"
    /\ UNCHANGED <<mu, conns, closed, socket, pc, held, count, idleConns>>

-----------------------------------------------------------------------------
GetStep(p) == GetClosed(p) \/ GetTake(p) \/ GetDial(p)

DialStep(p) == (\E c \in Conns : DialOk(p, c)) \/ DialFail(p)

PutStep(p) == PutClosed(p) \/ PutHandOff(p) \/ PutBack(p) \/ PutFull(p)

CloseStep(p) == CloseAgain(p) \/ CloseBegin(p)

DrainStep(p) == DrainMore(p) \/ DrainRecv(p) \/ DrainDone(p)

OpenStep(p) == OpenClosed(p) \/ OpenBegin(p)

FillStep(p) ==
    \/ \E c \in Conns : FillDial(p, c)
    \/ FillFail(p)
    \/ FillPush(p)
    \/ FillDone(p)

ReapStep ==
    ReapExit \/ ReapTimeout \/ ReapCount \/ ReapRecv \/ ReapBlock \/ ReapDone

\* A step of a call already made.
CallStep(p) ==
    \/ GetStep(p) \/ DialStep(p) \/ PutStep(p)
    \/ CloseStep(p) \/ DrainStep(p) \/ OpenStep(p) \/ FillStep(p)

Next ==
    \/ \E p \in Procs :
        \/ GetCall(p)
        \/ UseFails(p)
        \/ PutCall(p)
        \/ CloseCall(p)
        \/ OpenCall(p)
        \/ CallStep(p)
    \/ \E c \in Conns : ServerDrop(c)
    \/ ReapStep

Spec == Init /\ [][Next]_vars

\* sync.Mutex hands the lock to a waiter that has waited for 1ms, and a channel
\* serves its waiters in order, so both are strongly fair; goroutines run and
\* timers fire.  That a dial ends is an assumption on the replicas: Connect has
\* no deadline, so they must finish the handshake or break it off.  Nothing
\* obliges a caller to make a call or a server to drop a connection.
Fairness ==
    /\ \A p \in Procs : SF_vars(CallStep(p))
    /\ SF_vars(ReapStep)

FairSpec == Spec /\ Fairness

-----------------------------------------------------------------------------
(***************************************************************************)
(* Safety.                                                                 *)
(***************************************************************************)

\* Nobody shares a connection: it is at most once in cp.conns, at most one
\* goroutine has it in hand between Get and Put, and not while it is in the
\* channel.  Two sessions on one connection would read each other's rows.
Exclusive ==
    /\ \A i, j \in DOMAIN conns : conns[i] = conns[j] => i = j
    /\ \A p, q \in Procs : held[p] = held[q] /\ held[p] # None => p = q
    /\ \A p \in Procs : ~InChannel(held[p])

\* No connection is lost: one that was not closed is in cp.conns or in the
\* hands of a goroutine, whichever way Get, Put, Close, Open and the reaper
\* interleave, fail and give up.
NoLeak ==
    \A c \in Conns :
        socket[c] # "closed" => InChannel(c) \/ \E p \in Procs : held[p] = c

\* Close is final: once it has set cp.closed nothing is added to the channel
\* and no goroutine obtains a connection, not even one whose dial was under
\* way (it kept Close waiting for the mutex), nor the reaper's rival.
ClosedIsFinal ==
    [][closed =>
        /\ closed'
        /\ Len(conns') <= Len(conns)
        /\ \A p \in Procs : held[p] = None => held'[p] = None]_vars

\* Who has connection c, in the vocabulary of PoolOwnership.
OwnerOf(c) ==
    IF \E p \in Procs : held[p] = c THEN CHOOSE p \in Procs : held[p] = c
    ELSE IF InChannel(c) THEN "idle"
    ELSE IF socket[c] = "closed" THEN "unused"
    ELSE "leaked"

Abstract == INSTANCE PoolOwnership WITH
    owner <- [c \in Conns |-> OwnerOf(c)],
    shut <- closed,
    Unused <- "unused",
    Idle <- "idle"

\* The pool implements exclusive ownership: every step of Get, Put, Open,
\* Close and the reaper creates, takes, gives or discards one connection, or
\* changes nobody's ownership.
ImplementsOwnership == Abstract!OSpec

-----------------------------------------------------------------------------
(***************************************************************************)
(* Liveness.                                                               *)
(***************************************************************************)

\* A channel operation made with the mutex held cannot go on: Close waits for a
\* connection that the reaper took first, or Open for room in a full channel.
Stuck ==
    \E p \in Procs :
        \/ pc[p] = "recv" /\ conns = <<>>
        \/ pc[p] = "push" /\ Len(conns) >= MaxConns

\* Every call of Get, Put, Open and Close returns, although Get dials, Open
\* fills and Close drains with the mutex held while others wait for it, unless
\* one of the two channel operations made under the mutex is stuck for good.
CallsReturn ==
    \A p \in Procs :
        pc[p] \notin {"idle", "use"} ~> (pc[p] \in {"idle", "use"} \/ Stuck)

\* Once Open has started reapIdleConns, a pool with more than minConns idle
\* connections is brought back to minConns or closed, although the reaper
\* counts under the mutex and receives without it.
ReaperTrims ==
    (reaper # "off" /\ Len(conns) > MinConns) ~> (Len(conns) <= MinConns \/ closed)

-----------------------------------------------------------------------------
(***************************************************************************)
(* What a comment says and the code does not do.                           *)
(***************************************************************************)

\* "Close closes the connection pool": when Close has returned no connection
\* is left open in the channel.
CloseDrains ==
    (closed /\ \A p \in Procs : pc[p] \notin {"drain", "recv"})
        => \A i \in DOMAIN conns : socket[conns[i]] = "closed"

=============================================================================
