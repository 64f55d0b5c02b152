------------------------------- MODULE Routing -------------------------------
(***************************************************************************)
(* proxy/mysql.go: which server one session's commands reach.              *)
(*                                                                         *)
(* handleInbound takes whatever one Read returns for one command and hands *)
(* it to delegateSelect, which looks at its first bytes only: the command  *)
(* byte and the beginning of the text.  TCP keeps the order of the bytes   *)
(* but not the boundaries of the client's writes: a Read may return a part *)
(* of a command (always, if it is longer than the 64 KB buffer), or        *)
(* several commands that were sent back to back.  The proxy guesses the    *)
(* session's transaction from the commands it forwards; the main server    *)
(* knows it.                                                               *)
(***************************************************************************)
EXTENDS Integers, Sequences, Statements

CONSTANTS
    Commands,       \* the kinds of command the client sends
    MaxCommands,    \* bound: commands in a session
    Window,         \* commands sent ahead of their replies; 1: synchronous
    Cuts            \* where a command may be cut in two pieces, a subset of AllCuts

\* A cut falls within the packet header, the command byte or the keyword
\* ("early"), or after them ("late"); a tail may happen to look like a COM_QUERY
\* ("lookalike": its fifth byte is 3 and a keyword follows).
AllCuts == {"early", "late", "lookalike"}

ASSUME RoutingAssumption ==
    /\ Commands \subseteq Kinds
    /\ MaxCommands \in Nat
    /\ Window \in Nat \ {0}
    /\ Cuts \subseteq AllCuts

VARIABLES
    sent,       \* number of commands sent
    waiting,    \* replies the client still expects
    wire,       \* pieces in the receive buffer of localConn
    inTrans,    \* p.inTrans
    mainIn,     \* pieces forwarded to the main server
    partial,    \* the command the main server has the first piece of, or 0
    mainUp,     \* the main server has not dropped the session
    tx,         \* the session's transaction on the main server
    replica     \* the pieces a replica executes as one statement

vars == <<sent, waiting, wire, inTrans, mainIn, partial, mainUp, tx, replica>>

\* A piece belongs to a command of some kind; its own bytes show one too.
Pieces == [id : 1..MaxCommands, kind : Commands, part : {"whole", "head", "tail"}, shows : Kinds]

Piece(i, k, p, s) == [id |-> i, kind |-> k, part |-> p, shows |-> s]

\* What delegateSelect takes the bytes of a piece for.  n <= 5, a fifth byte
\* other than 3 and a text that matches no pattern come to the same: "other".
HeadShows(k) == {k : c \in Cuts \cap {"late"}} \cup {"other" : c \in Cuts \cap {"early"}}

TailShows == {"other"} \cup IF "lookalike" \in Cuts THEN {"select", "begin", "end"} ELSE {}

TypeOK ==
    /\ sent \in 0..MaxCommands
    /\ waiting \in 0..Window
    /\ wire \in Seq(Pieces)
    /\ inTrans \in BOOLEAN
    /\ mainIn \in Seq(Pieces)
    /\ partial \in 0..MaxCommands
    /\ mainUp \in BOOLEAN
    /\ tx \in TxStates
    /\ replica \in Seq(Pieces)

Init ==
    /\ sent = 0
    /\ waiting = 0
    /\ wire = <<>>
    /\ inTrans = FALSE
    /\ mainIn = <<>>
    /\ partial = 0
    /\ mainUp = TRUE
    /\ tx = NoTx
    /\ replica = <<>>

-----------------------------------------------------------------------------
\* The client sends its next command.  It waits for replies, so a command
\* without one may be followed by the next at once.
Send(k) ==
    /\ sent < MaxCommands
    /\ waiting < Window
    /\ sent' = sent + 1
    /\ waiting' = IF HasReply(k) THEN waiting + 1 ELSE waiting
    /\ \/ wire' = Append(wire, Piece(sent + 1, k, "whole", k))
       \/ \E h \in HeadShows(k), t \in TailShows :
            wire' = wire \o <<Piece(sent + 1, k, "head", h), Piece(sent + 1, k, "tail", t)>>
    /\ UNCHANGED <<inTrans, mainIn, partial, mainUp, tx, replica>>

\* What delegateSelect takes a Read of the first n pieces for: it looks at the
\* first bytes only, which are all there if a command's two pieces came together.
Seen(n) == IF wire[1].part = "head" /\ n > 1 THEN wire[1].kind ELSE wire[1].shows

\* Mutant: p.inTrans is not looked at.
ToReplicaAlways(n) == IsQuery(Seen(n)) /\ MatchSelect(Seen(n))

ToReplica(n) == IsQuery(Seen(n)) /\ MatchSelect(Seen(n)) /\ ~inTrans

\* Read returns the first n pieces and delegateSelect leaves them to the main
\* server.  While a replica's answer is copied handleInbound does not read.
ReadToMain(n) ==
    /\ replica = <<>>
    /\ n <= Len(wire)
    /\ ~ToReplica(n)
    /\ inTrans' = IF IsQuery(Seen(n)) THEN TrackTrans(Seen(n), inTrans) ELSE inTrans
    /\ mainIn' = IF mainUp THEN mainIn \o SubSeq(wire, 1, n) ELSE mainIn
    /\ wire' = SubSeq(wire, n + 1, Len(wire))
    /\ UNCHANGED <<sent, waiting, partial, mainUp, tx, replica>>

\* Mutant: what a replica gets is forwarded as well.
ReadToReplicaToo(n) ==
    /\ replica = <<>>
    /\ n <= Len(wire)
    /\ ToReplica(n)
    /\ replica' = SubSeq(wire, 1, n)
    /\ mainIn' = mainIn \o SubSeq(wire, 1, n)
    /\ wire' = SubSeq(wire, n + 1, Len(wire))
    /\ UNCHANGED <<sent, waiting, inTrans, partial, mainUp, tx>>

\* Read returns the first n pieces and delegateSelect sends buffer[5:n], as the
\* text of one statement, to a replica.
ReadToReplica(n) ==
    /\ replica = <<>>
    /\ n <= Len(wire)
    /\ ToReplica(n)
    /\ replica' = SubSeq(wire, 1, n)
    /\ wire' = SubSeq(wire, n + 1, Len(wire))
    /\ UNCHANGED <<sent, waiting, inTrans, mainIn, partial, mainUp, tx>>

\* The replica's answer, a result or an error, has been copied to the client.
ReplicaAnswered ==
    /\ replica # <<>>
    /\ replica' = <<>>
    /\ waiting' = waiting - 1
    /\ UNCHANGED <<sent, wire, inTrans, mainIn, partial, mainUp, tx>>

\* The main server executes kind k and answers it.  A command that fails has
\* no effect, or rolls the transaction back (a deadlock).
Execute(k) ==
    /\ \/ tx' = TxAfter(k, tx)
       \/ k # "end" /\ HasReply(k) /\ tx' \in {tx, [tx EXCEPT !.open = FALSE]}
    /\ waiting' = IF HasReply(k) THEN waiting - 1 ELSE waiting

\* The main server takes the next piece.  It follows the packet headers, so
\* pieces of one command are put together.  A piece without its beginning
\* ("Got packets out of order") ends the session, and so does a command whose
\* first bytes are taken for the missing rest of another: they are counted as
\* that rest, and what follows them is not a packet.
MainReads ==
    /\ mainIn # <<>>
    /\ mainUp
    /\ LET f == Head(mainIn)
       IN  \/ /\ f.part = "whole" /\ partial = 0
              /\ Execute(f.kind)
              /\ UNCHANGED <<partial, mainUp>>
           \/ /\ f.part = "head" /\ partial = 0
              /\ partial' = f.id
              /\ UNCHANGED <<waiting, mainUp, tx>>
           \/ /\ f.part = "tail" /\ partial = f.id
              /\ partial' = 0
              /\ Execute(f.kind)
              /\ UNCHANGED mainUp
           \/ /\ partial # IF f.part = "tail" THEN f.id ELSE 0
              /\ mainUp' = FALSE
              /\ tx' = NoTx
              /\ UNCHANGED <<waiting, partial>>
    /\ mainIn' = Tail(mainIn)
    /\ UNCHANGED <<sent, wire, inTrans, replica>>

Next ==
    \/ \E k \in Commands : Send(k)
    \/ \E n \in 1..Len(wire) : ReadToMain(n) \/ ReadToReplica(n)
    \/ ReplicaAnswered
    \/ MainReads

Spec == Init /\ [][Next]_vars

-----------------------------------------------------------------------------
\* "Forwards transactions SELECTs to main database for strong consistency":
\* once the main server has executed what was forwarded before, a statement
\* on a replica is not part of a transaction that the session has open.
TxSelectsToMain == (replica # <<>> /\ mainIn = <<>>) => ~InTransaction(tx)

\* "It forwards modification requests (INSERT, UPDATE, DELETE, etc) to the main
\* database instance": no byte of one is sent to a replica as a statement.
WritesToMain == \A i \in DOMAIN replica : replica[i].kind # "write"

=============================================================================
