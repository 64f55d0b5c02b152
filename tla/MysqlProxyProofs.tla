-------------------------- MODULE MysqlProxyProofs --------------------------
(***************************************************************************)
(* Proofs about MysqlProxy, for any number of sessions, replicas, replica  *)
(* connections, commands and rows, and with every fault.                   *)
(***************************************************************************)
EXTENDS MysqlProxy, SequenceTheorems, TLAPS

\* handleInbound is between the choice of a replica and the end of its answer.
Busy == {"get", "query", "header", "rows"}

\* A command is in one place at a time: in the receive buffer, on its way to the
\* main server, with the main server's answer on its way back, or with a
\* replica.  The client asks again only when it is in none of them.
FlowInv(s) ==
    /\ inbox[s] # None =>
        toMain[s] = <<>> /\ fromMain[s] = <<>> /\ svc[s] \notin Busy /\ got[s] = <<>>
    /\ toMain[s] # <<>> =>
        /\ fromMain[s] = <<>> /\ svc[s] \notin Busy /\ got[s] = <<>>
        /\ Len(toMain[s]) = 1 /\ toMain[s][1][1] = Tag(s)
    /\ fromMain[s] # <<>> => svc[s] \notin Busy
    /\ svc[s] \in Busy \ {"rows"} => got[s] = <<>>
    /\ client[s] \in {"new", "idle"} =>
        inbox[s] = None /\ toMain[s] = <<>> /\ fromMain[s] = <<>> /\ svc[s] \notin Busy
    /\ client[s] = "new" => svc[s] = "off"
    /\ client[s] = "gone" => got[s] = <<>>

\* What handleOutbound has to copy is one answer of the main server, to the
\* command the client waits for, up to its last packet.
BackInv(s) ==
    \A i \in DOMAIN fromMain[s] :
        /\ fromMain[s][i].tag = Tag(s)
        /\ fromMain[s][i].by = "main"
        /\ Last(fromMain[s][i]) <=> i = Len(fromMain[s])

\* What the client has of the answer so far, and from whom the rest will come.
GotInv(s) ==
    /\ \A i \in DOMAIN got[s] :
        /\ got[s][i].tag = Tag(s)
        /\ Last(got[s][i]) => i = Len(got[s]) /\ client[s] = "idle"
        /\ svc[s] = "rows" => got[s][i].by = "replica"
        /\ fromMain[s] # <<>> => got[s][i].by = "main"
    /\ \A i, j \in DOMAIN got[s] : got[s][i].by = got[s][j].by

\* A session holds a replica connection, and remembers its pool, exactly
\* between Get and Put; it has a connection to the main server while it serves.
HeldInv(s) ==
    /\ conn[s] # None <=> svc[s] \in {"query", "header", "rows", "spin", "put"}
    /\ db[s] # None <=> svc[s] \in {"get", "query", "header", "rows", "spin", "put"}
    /\ svc[s] \in {"off", "dial"} => main[s] = "none"
    /\ svc[s] = "done" => main[s] \in {"none", "closed"}
    /\ svc[s] \notin {"off", "dial", "done"} => main[s] \in {"open", "bye", "dead"}

\* The part of the invariant that is about one session by itself.
SessionInv(s) == FlowInv(s) /\ BackInv(s) /\ GotInv(s) /\ HeldInv(s)

\* A connection is in the hands of one session, or in one pool, or in none.
ExclusiveInv ==
    /\ \A s, t \in Sessions : conn[s] # None /\ conn[s] = conn[t] => s = t
    /\ \A s \in Sessions : \A d \in Dbs : conn[s] \notin idle[d]
    /\ \A d, e \in Dbs : \A c \in Conns : c \in idle[d] /\ c \in idle[e] => d = e

\* Nothing is left on a connection from which no session reads an answer, and
\* no answer comes over one that is not open.
CleanInv(c) ==
    /\ (\A s \in Sessions : conn[s] = c => svc[s] \notin {"header", "rows"})
         => asked[c] = None /\ stream[c] = <<>>
    /\ link[c] # "open" => asked[c] = None

\* What a session reads from its replica connection is one answer to the
\* command its client waits for, and nothing comes after the last packet.
AnswerInv(s) ==
    svc[s] \in {"header", "rows"} =>
        /\ \A i \in DOMAIN stream[conn[s]] :
            /\ stream[conn[s]][i].tag = Tag(s)
            /\ stream[conn[s]][i].by = "replica"
            /\ Last(stream[conn[s]][i]) =>
                 i = Len(stream[conn[s]]) /\ asked[conn[s]] = None
        /\ asked[conn[s]] \in {None, Tag(s)}

\* The inductive invariant.
PInv ==
    /\ TypeOK
    /\ \A s \in Sessions : SessionInv(s)
    /\ ExclusiveInv
    /\ \A c \in Conns : CleanInv(c)
    /\ \A s \in Sessions : AnswerInv(s)

\* After the main server's last words nothing comes from it any more, and a
\* session whose replica had last words for it gets no answer at all.
StrayInv(s) ==
    /\ main[s] # "open" => toMain[s] = <<>>
    /\ \A m \in stray[s] :
        \/ /\ m.by = "main" /\ main[s] \in {"dead", "closed"} /\ fromMain[s] = <<>>
           /\ \A i \in DOMAIN got[s] : got[s][i].by = "main" => i <= m.at
        \/ /\ m.by = "replica" /\ got[s] = <<>> /\ client[s] \notin {"new", "idle"}
           /\ inbox[s] = None /\ toMain[s] = <<>> /\ fromMain[s] = <<>>
           /\ svc[s] \notin Busy

SInv == PInv /\ \A s \in Sessions : StrayInv(s)

\* Every kind of command is one that p.inTrans was made for.
TrackedOnly == Commands \subseteq Tracked

\* p.inTrans is never behind the main server: it is set if a transaction is
\* open, or will be when the main server has executed the command on its way;
\* and no session asks a replica while it is set.
GuessInv(s) ==
    /\ tx[s].auto = TRUE
    /\ toMain[s] = <<>> /\ svc[s] # "done" => (tx[s].open => inTrans[s])
    /\ toMain[s] # <<>> =>
        /\ TxAfter(toMain[s][1][2], tx[s]).open => inTrans[s]
        /\ toMain[s][1][2] # "end" => (tx[s].open => inTrans[s])
    /\ svc[s] \in Busy => ~inTrans[s]
    /\ main[s] \in {"bye", "dead"} => ~tx[s].open

TInv == PInv /\ \A s \in Sessions : GuessInv(s)

\* A step leaves alone everything that session t has for itself.
Same(t) ==
    /\ client'[t] = client[t] /\ req'[t] = req[t] /\ inbox'[t] = inbox[t]
    /\ got'[t] = got[t] /\ svc'[t] = svc[t] /\ db'[t] = db[t] /\ conn'[t] = conn[t]
    /\ main'[t] = main[t] /\ toMain'[t] = toMain[t] /\ fromMain'[t] = fromMain[t]

OthersSame(s) == \A t \in Sessions \ {s} : Same(t)

-----------------------------------------------------------------------------
(***************************************************************************)
(* Sequences of packets: written at the tail, read at the head.            *)
(***************************************************************************)

\* A socket from which everything has been read.
LEMMA EmptyFacts ==
    ASSUME NEW S, NEW q \in Seq(S)
    PROVE  /\ Len(q) = 0 <=> q = <<>>
           /\ q = <<>> <=> DOMAIN q = {}
           /\ DOMAIN q = 1..Len(q)
PROOF
  BY EmptySeq

\* Reading a packet moves the others one place forward.
LEMMA ReadFacts ==
    ASSUME NEW S, NEW q \in Seq(S), q # <<>>
    PROVE  /\ Head(q) \in S /\ Head(q) = q[1] /\ 1 \in DOMAIN q
           /\ Tail(q) \in Seq(S)
           /\ Len(q) \in Nat \ {0}
           /\ Len(Tail(q)) = Len(q) - 1
           /\ \A i \in DOMAIN Tail(q) :
                i \in Nat /\ i + 1 \in DOMAIN q /\ Tail(q)[i] = q[i + 1]
           /\ Tail(q) = <<>> <=> Len(q) = 1
PROOF
  <1>1. /\ Tail(q) \in Seq(S) /\ Len(q) \in Nat \ {0}
        /\ Len(Tail(q)) = Len(q) - 1
        /\ Head(q) = q[1] /\ DOMAIN q = 1..Len(q)
        /\ DOMAIN Tail(q) = 1..(Len(q) - 1)
        /\ \A i \in 1..(Len(q) - 1) : Tail(q)[i] = q[i + 1]
    OBVIOUS
  <1>2. Tail(q) = <<>> <=> Len(Tail(q)) = 0
    BY <1>1, EmptySeq
  <1>3. QED
    BY <1>1, <1>2

\* Writing a packet leaves those before it where they are.
LEMMA WriteFacts ==
    ASSUME NEW S, NEW q \in Seq(S), NEW p \in S
    PROVE  /\ Append(q, p) \in Seq(S)
           /\ Len(Append(q, p)) = Len(q) + 1 /\ Len(q) \in Nat
           /\ Append(q, p) # <<>>
           /\ DOMAIN Append(q, p) = 1..(Len(q) + 1)
           /\ DOMAIN q = 1..Len(q)
           /\ Append(q, p)[Len(q) + 1] = p
           /\ \A i \in DOMAIN q : Append(q, p)[i] = q[i]
PROOF
  OBVIOUS

-----------------------------------------------------------------------------
(***************************************************************************)
(* What a step of one session, or of a server, leaves alone.               *)
(***************************************************************************)

\* A session that a step leaves alone keeps its part of the invariant.
LEMMA SessionFrame ==
    ASSUME NEW t \in Sessions, SessionInv(t), Same(t)
    PROVE  SessionInv(t)'
PROOF
  <1>1. FlowInv(t)'
    BY DEF SessionInv, FlowInv, Same, Tag
  <1>2. BackInv(t)'
    BY DEF SessionInv, BackInv, Same, Tag, Last
  <1>3. GotInv(t)'
    BY DEF SessionInv, GotInv, Same, Tag, Last
  <1>4. HeldInv(t)'
    BY DEF SessionInv, HeldInv, Same
  <1>5. QED
    BY <1>1, <1>2, <1>3, <1>4 DEF SessionInv

\* A session goes on reading the same answer if nobody touches its connection.
LEMMA AnswerFrame ==
    ASSUME NEW t \in Sessions, AnswerInv(t), req'[t] = req[t], conn'[t] = conn[t],
           svc'[t] \in {"header", "rows"} => svc[t] \in {"header", "rows"},
           svc'[t] \in {"header", "rows"} =>
               stream'[conn[t]] = stream[conn[t]] /\ asked'[conn[t]] = asked[conn[t]]
    PROVE  AnswerInv(t)'
PROOF
  BY DEF AnswerInv, Tag, Last

\* A step of one session, or of the main server, that has nothing to do with the
\* pools and the replicas.
LEMMA LocalStep ==
    ASSUME PInv, NEW s \in Sessions, TypeOK', SessionInv(s)', OthersSame(s),
           UNCHANGED <<conn, idle, replicaVars>>,
           svc'[s] \in {"header", "rows"} <=> svc[s] \in {"header", "rows"},
           svc[s] \in {"header", "rows"} => req'[s] = req[s]
    PROVE  PInv'
PROOF
  <1>1. ASSUME NEW t \in Sessions PROVE SessionInv(t)'
    BY SessionFrame DEF PInv, OthersSame
  <1>2. ExclusiveInv'
    BY DEF PInv, ExclusiveInv
  <1>3. ASSUME NEW c \in Conns PROVE CleanInv(c)'
    <2>1. \A t \in Sessions : svc'[t] \in {"header", "rows"} <=> svc[t] \in {"header", "rows"}
      BY DEF OthersSame, Same
    <2>2. QED
      BY <2>1 DEF PInv, CleanInv, replicaVars
  <1>4. ASSUME NEW t \in Sessions PROVE AnswerInv(t)'
    <2>1. CASE t = s
      <3>1. CASE svc[s] \in {"header", "rows"}
        BY <2>1, <3>1, AnswerFrame DEF PInv, replicaVars
      <3>2. CASE svc[s] \notin {"header", "rows"}
        BY <2>1, <3>2 DEF AnswerInv
      <3>3. QED
        BY <3>1, <3>2
    <2>2. CASE t # s
      BY <2>2, AnswerFrame DEF PInv, OthersSame, Same, replicaVars
    <2>3. QED
      BY <2>1, <2>2
  <1>5. QED
    BY <1>1, <1>2, <1>3, <1>4 DEF PInv

-----------------------------------------------------------------------------
(***************************************************************************)
(* The steps that have nothing to do with the replicas.                    *)
(***************************************************************************)

\* A new session has asked nothing.
LEMMA AcceptPInv ==
    ASSUME PInv, NEW s \in Sessions, Accept(s)
    PROVE  PInv'
PROOF
  <1>1. TypeOK /\ SessionInv(s)
    BY DEF PInv
  <1>2. TypeOK'
    BY <1>1 DEF TypeOK, Accept, Goto, SvcValues, mainVars, replicaVars
  <1>3. OthersSame(s)
    BY <1>1 DEF TypeOK, OthersSame, Same, Accept, Goto, SvcValues, mainVars, replicaVars
  <1>4. /\ UNCHANGED <<conn, idle, replicaVars>>
        /\ svc'[s] \in {"header", "rows"} <=> svc[s] \in {"header", "rows"}
        /\ svc[s] \in {"header", "rows"} => req'[s] = req[s]
    BY <1>1 DEF TypeOK, SessionInv, FlowInv, Busy, Accept, Goto, SvcValues, mainVars, replicaVars
  <1>5. SessionInv(s)'
    <2>1. FlowInv(s)'
      BY <1>1, ProxyAssumption DEF TypeOK, SessionInv, FlowInv, Busy, Tag, Accept, Goto, SvcValues, mainVars, replicaVars
    <2>2. BackInv(s)'
      BY <1>1 DEF TypeOK, SessionInv, FlowInv, BackInv, Tag, Accept, Goto, SvcValues, mainVars, replicaVars
    <2>3. GotInv(s)'
      BY <1>1 DEF TypeOK, SessionInv, FlowInv, GotInv, Tag, Accept, Goto, SvcValues, mainVars, replicaVars
    <2>4. HeldInv(s)'
      BY <1>1 DEF TypeOK, SessionInv, FlowInv, HeldInv, Accept, Goto, SvcValues, mainVars, replicaVars
    <2>5. QED
      BY <2>1, <2>2, <2>3, <2>4 DEF SessionInv
  <1>6. QED
    BY <1>2, <1>3, <1>4, <1>5, LocalStep

\* The client asks when nothing of its last command is left anywhere.
LEMMA ClientSendPInv ==
    ASSUME PInv, NEW s \in Sessions, NEW k \in Commands, ClientSend(s, k)
    PROVE  PInv'
PROOF
  <1>1. TypeOK /\ SessionInv(s)
    BY DEF PInv
  <1>2. TypeOK'
    BY <1>1, ProxyAssumption DEF TypeOK, ClientSend, mainVars, replicaVars
  <1>3. OthersSame(s)
    BY <1>1 DEF TypeOK, OthersSame, Same, ClientSend, mainVars, replicaVars
  <1>4. /\ UNCHANGED <<conn, idle, replicaVars>>
        /\ svc'[s] \in {"header", "rows"} <=> svc[s] \in {"header", "rows"}
        /\ svc[s] \in {"header", "rows"} => req'[s] = req[s]
    BY <1>1 DEF TypeOK, SessionInv, FlowInv, Busy, ClientSend, mainVars, replicaVars
  <1>5. SessionInv(s)'
    <2>1. FlowInv(s)'
      BY <1>1, ProxyAssumption DEF TypeOK, SessionInv, FlowInv, Busy, Tag, ClientSend, mainVars, replicaVars
    <2>2. BackInv(s)'
      BY <1>1 DEF TypeOK, SessionInv, FlowInv, BackInv, Tag, ClientSend, mainVars, replicaVars
    <2>3. GotInv(s)'
      BY <1>1 DEF TypeOK, SessionInv, FlowInv, GotInv, Tag, ClientSend, mainVars, replicaVars
    <2>4. HeldInv(s)'
      BY <1>1 DEF TypeOK, SessionInv, HeldInv, ClientSend, mainVars, replicaVars
    <2>5. QED
      BY <2>1, <2>2, <2>3, <2>4 DEF SessionInv
  <1>6. QED
    BY <1>2, <1>3, <1>4, <1>5, LocalStep

\* A client leaves: what is written to it from now on is lost.
LEMMA ClientLeavePInv ==
    ASSUME PInv, NEW s \in Sessions, ClientLeave(s)
    PROVE  PInv'
PROOF
  <1>1. TypeOK /\ SessionInv(s)
    BY DEF PInv
  <1>2. TypeOK'
    BY <1>1 DEF TypeOK, ClientLeave, mainVars, replicaVars
  <1>3. OthersSame(s)
    BY <1>1 DEF TypeOK, OthersSame, Same, ClientLeave, mainVars, replicaVars
  <1>4. /\ UNCHANGED <<conn, idle, replicaVars>>
        /\ svc'[s] \in {"header", "rows"} <=> svc[s] \in {"header", "rows"}
        /\ svc[s] \in {"header", "rows"} => req'[s] = req[s]
    BY <1>1 DEF TypeOK, SessionInv, FlowInv, Busy, ClientLeave, mainVars, replicaVars
  <1>5. SessionInv(s)'
    <2>1. FlowInv(s)'
      BY <1>1, ProxyAssumption DEF TypeOK, SessionInv, FlowInv, Busy, Tag, ClientLeave, mainVars, replicaVars
    <2>2. BackInv(s)'
      BY <1>1 DEF TypeOK, SessionInv, FlowInv, BackInv, Tag, ClientLeave, mainVars, replicaVars
    <2>3. GotInv(s)'
      BY <1>1 DEF TypeOK, SessionInv, FlowInv, GotInv, Tag, ClientLeave, mainVars, replicaVars
    <2>4. HeldInv(s)'
      BY <1>1 DEF TypeOK, SessionInv, HeldInv, ClientLeave, mainVars, replicaVars
    <2>5. QED
      BY <2>1, <2>2, <2>3, <2>4 DEF SessionInv
  <1>6. QED
    BY <1>2, <1>3, <1>4, <1>5, LocalStep

\* A client whose session has ended leaves.
LEMMA ClientClosedPInv ==
    ASSUME PInv, NEW s \in Sessions, ClientClosed(s)
    PROVE  PInv'
PROOF
  <1>1. TypeOK /\ SessionInv(s)
    BY DEF PInv
  <1>2. TypeOK'
    BY <1>1 DEF TypeOK, ClientClosed, mainVars, replicaVars
  <1>3. OthersSame(s)
    BY <1>1 DEF TypeOK, OthersSame, Same, ClientClosed, mainVars, replicaVars
  <1>4. /\ UNCHANGED <<conn, idle, replicaVars>>
        /\ svc'[s] \in {"header", "rows"} <=> svc[s] \in {"header", "rows"}
        /\ svc[s] \in {"header", "rows"} => req'[s] = req[s]
    BY <1>1 DEF TypeOK, SessionInv, FlowInv, Busy, ClientClosed, mainVars, replicaVars
  <1>5. SessionInv(s)'
    <2>1. FlowInv(s)'
      BY <1>1, ProxyAssumption DEF TypeOK, SessionInv, FlowInv, Busy, Tag, ClientClosed, mainVars, replicaVars
    <2>2. BackInv(s)'
      BY <1>1 DEF TypeOK, SessionInv, FlowInv, BackInv, Tag, ClientClosed, mainVars, replicaVars
    <2>3. GotInv(s)'
      BY <1>1 DEF TypeOK, SessionInv, FlowInv, GotInv, Tag, ClientClosed, mainVars, replicaVars
    <2>4. HeldInv(s)'
      BY <1>1 DEF TypeOK, SessionInv, HeldInv, ClientClosed, mainVars, replicaVars
    <2>5. QED
      BY <2>1, <2>2, <2>3, <2>4 DEF SessionInv
  <1>6. QED
    BY <1>2, <1>3, <1>4, <1>5, LocalStep

\* The connection to the main server is made.
LEMMA DialMainPInv ==
    ASSUME PInv, NEW s \in Sessions, DialMain(s)
    PROVE  PInv'
PROOF
  <1>1. TypeOK /\ SessionInv(s)
    BY DEF PInv
  <1>2. TypeOK'
    BY <1>1 DEF TypeOK, DialMain, Goto, SvcValues, replicaVars
  <1>3. OthersSame(s)
    BY <1>1 DEF TypeOK, OthersSame, Same, DialMain, Goto, SvcValues, replicaVars
  <1>4. /\ UNCHANGED <<conn, idle, replicaVars>>
        /\ svc'[s] \in {"header", "rows"} <=> svc[s] \in {"header", "rows"}
        /\ svc[s] \in {"header", "rows"} => req'[s] = req[s]
    BY <1>1 DEF TypeOK, SessionInv, FlowInv, Busy, DialMain, Goto, SvcValues, replicaVars
  <1>5. SessionInv(s)'
    <2>1. FlowInv(s)'
      BY <1>1, ProxyAssumption DEF TypeOK, SessionInv, FlowInv, Busy, Tag, DialMain, Goto, SvcValues, replicaVars
    <2>2. BackInv(s)'
      BY <1>1 DEF TypeOK, SessionInv, FlowInv, BackInv, Tag, DialMain, Goto, SvcValues, replicaVars
    <2>3. GotInv(s)'
      BY <1>1 DEF TypeOK, SessionInv, FlowInv, GotInv, Tag, DialMain, Goto, SvcValues, replicaVars
    <2>4. HeldInv(s)'
      BY <1>1 DEF TypeOK, SessionInv, HeldInv, DialMain, Goto, SvcValues, replicaVars
    <2>5. QED
      BY <2>1, <2>2, <2>3, <2>4 DEF SessionInv
  <1>6. QED
    BY <1>2, <1>3, <1>4, <1>5, LocalStep

\* The main server cannot be reached.
LEMMA DialMainFailPInv ==
    ASSUME PInv, NEW s \in Sessions, DialMainFail(s)
    PROVE  PInv'
PROOF
  <1>1. TypeOK /\ SessionInv(s)
    BY DEF PInv
  <1>2. TypeOK'
    BY <1>1 DEF TypeOK, DialMainFail, Goto, SvcValues, mainVars, replicaVars
  <1>3. OthersSame(s)
    BY <1>1 DEF TypeOK, OthersSame, Same, DialMainFail, Goto, SvcValues, mainVars, replicaVars
  <1>4. /\ UNCHANGED <<conn, idle, replicaVars>>
        /\ svc'[s] \in {"header", "rows"} <=> svc[s] \in {"header", "rows"}
        /\ svc[s] \in {"header", "rows"} => req'[s] = req[s]
    BY <1>1 DEF TypeOK, SessionInv, FlowInv, Busy, DialMainFail, Goto, SvcValues, mainVars, replicaVars
  <1>5. SessionInv(s)'
    <2>1. FlowInv(s)'
      BY <1>1, ProxyAssumption DEF TypeOK, SessionInv, FlowInv, Busy, Tag, DialMainFail, Goto, SvcValues, mainVars, replicaVars
    <2>2. BackInv(s)'
      BY <1>1 DEF TypeOK, SessionInv, FlowInv, BackInv, Tag, DialMainFail, Goto, SvcValues, mainVars, replicaVars
    <2>3. GotInv(s)'
      BY <1>1 DEF TypeOK, SessionInv, FlowInv, GotInv, Tag, DialMainFail, Goto, SvcValues, mainVars, replicaVars
    <2>4. HeldInv(s)'
      BY <1>1 DEF TypeOK, SessionInv, HeldInv, DialMainFail, Goto, SvcValues, mainVars, replicaVars
    <2>5. QED
      BY <2>1, <2>2, <2>3, <2>4 DEF SessionInv
  <1>6. QED
    BY <1>2, <1>3, <1>4, <1>5, LocalStep

\* handleInbound returns at the end of the client's commands.
LEMMA ReadEOFPInv ==
    ASSUME PInv, NEW s \in Sessions, ReadEOF(s)
    PROVE  PInv'
PROOF
  <1>1. TypeOK /\ SessionInv(s)
    BY DEF PInv
  <1>2. TypeOK'
    BY <1>1 DEF TypeOK, ReadEOF, EndService, Goto, SvcValues, replicaVars
  <1>3. OthersSame(s)
    BY <1>1 DEF TypeOK, OthersSame, Same, ReadEOF, EndService, Goto, SvcValues, replicaVars
  <1>4. /\ UNCHANGED <<conn, idle, replicaVars>>
        /\ svc'[s] \in {"header", "rows"} <=> svc[s] \in {"header", "rows"}
        /\ svc[s] \in {"header", "rows"} => req'[s] = req[s]
    BY <1>1 DEF TypeOK, SessionInv, FlowInv, Busy, ReadEOF, EndService, Goto, SvcValues, replicaVars
  <1>5. SessionInv(s)'
    <2>1. FlowInv(s)'
      BY <1>1, ProxyAssumption DEF TypeOK, SessionInv, FlowInv, Busy, Tag, ReadEOF, EndService, Goto, SvcValues, replicaVars
    <2>2. BackInv(s)'
      BY <1>1 DEF TypeOK, SessionInv, FlowInv, BackInv, Tag, ReadEOF, EndService, Goto, SvcValues, replicaVars
    <2>3. GotInv(s)'
      BY <1>1 DEF TypeOK, SessionInv, FlowInv, GotInv, Tag, ReadEOF, EndService, Goto, SvcValues, replicaVars
    <2>4. HeldInv(s)'
      BY <1>1 DEF TypeOK, SessionInv, HeldInv, ReadEOF, EndService, Goto, SvcValues, replicaVars
    <2>5. QED
      BY <2>1, <2>2, <2>3, <2>4 DEF SessionInv
  <1>6. QED
    BY <1>2, <1>3, <1>4, <1>5, LocalStep

\* delegateSelect keeps p.inTrans a flag.
LEMMA TrackedType ==
    ASSUME TypeOK, NEW s \in Sessions, NEW k
    PROVE  [inTrans EXCEPT ![s] = IF IsQuery(k) THEN TrackTrans(k, @) ELSE @]
               \in [Sessions -> BOOLEAN]
PROOF
  <1>1. inTrans[s] \in BOOLEAN
    BY DEF TypeOK
  <1>2. TrackTrans(k, inTrans[s]) \in BOOLEAN
    BY <1>1 DEF TrackTrans, MatchEnd, MatchBegin
  <1>3. QED
    BY <1>1, <1>2 DEF TypeOK

\* A command that is left to the main server is on its way there, alone; or
\* lost, if the server has dropped the session.
LEMMA ForwardToMainPInv ==
    ASSUME PInv, NEW s \in Sessions, ForwardToMain(s)
    PROVE  PInv'
PROOF
  <1> DEFINE e == <<Tag(s), inbox[s]>>
  <1>1. TypeOK /\ SessionInv(s)
    BY DEF PInv
  <1>2. /\ toMain[s] = <<>> /\ fromMain[s] = <<>> /\ got[s] = <<>> /\ svc[s] = "read"
        /\ client[s] \notin {"new", "idle"}
        /\ Tag(s) \in Tags /\ inbox[s] \in Commands
    BY <1>1 DEF SessionInv, FlowInv, ForwardToMain, TypeOK, Tag, Tags
  <1>3. /\ toMain'[s] \in {<<>>, <<e>>}
        /\ toMain' \in [Sessions -> Seq(Tags \X Commands)]
    <2>1. e \in Tags \X Commands
      BY <1>2
    <2>2. Append(<<>>, e) = <<e>> /\ <<e>> \in Seq(Tags \X Commands)
      BY <2>1
    <2>3. QED
      BY <1>1, <1>2, <2>2, ZenonT(60) DEF TypeOK, ForwardToMain
  <1>4. TypeOK'
    BY <1>1, <1>3, TrackedType DEF TypeOK, ForwardToMain, replicaVars
  <1>5. OthersSame(s)
    BY <1>1 DEF TypeOK, OthersSame, Same, ForwardToMain
  <1>6. SessionInv(s)'
    <2>1. FlowInv(s)'
      <3>1. /\ <<e>> # <<>> /\ Len(<<e>>) = 1 /\ <<e>>[1][1] = Tag(s)
        OBVIOUS
      <3>2. /\ inbox'[s] = None /\ fromMain'[s] = <<>> /\ got'[s] = <<>>
            /\ svc'[s] = "read" /\ client'[s] \notin {"new", "idle"} /\ Tag(s)' = Tag(s)
        BY <1>1, <1>2 DEF TypeOK, ForwardToMain, Tag
      <3> HIDE DEF e
      <3>3. QED
        BY <1>3, <3>1, <3>2 DEF FlowInv, Busy
    <2>2. BackInv(s)'
      BY <1>1 DEF SessionInv, BackInv, ForwardToMain, Tag
    <2>3. GotInv(s)'
      BY <1>1 DEF SessionInv, GotInv, ForwardToMain, Tag
    <2>4. HeldInv(s)'
      BY <1>1 DEF SessionInv, HeldInv, ForwardToMain
    <2>5. QED
      BY <2>1, <2>2, <2>3, <2>4 DEF SessionInv
  <1>7. UNCHANGED <<svc, req, conn, idle, replicaVars>>
    BY DEF ForwardToMain
  <1>8. QED
    BY <1>4, <1>5, <1>6, <1>7, LocalStep

\* handleInbound returns because remoteConn cannot be written to.
LEMMA ForwardFailsPInv ==
    ASSUME PInv, NEW s \in Sessions, ForwardFails(s)
    PROVE  PInv'
PROOF
  <1>1. TypeOK /\ SessionInv(s)
    BY DEF PInv
  <1>2. TypeOK'
    BY <1>1, TrackedType DEF TypeOK, ForwardFails, EndService, Goto, SvcValues, replicaVars
  <1>3. OthersSame(s)
    BY <1>1 DEF TypeOK, OthersSame, Same, ForwardFails, EndService, Goto, SvcValues, replicaVars
  <1>4. /\ UNCHANGED <<conn, idle, replicaVars>>
        /\ svc'[s] \in {"header", "rows"} <=> svc[s] \in {"header", "rows"}
        /\ svc[s] \in {"header", "rows"} => req'[s] = req[s]
    BY <1>1 DEF TypeOK, SessionInv, FlowInv, Busy, ForwardFails, EndService, Goto, SvcValues, replicaVars
  <1>5. SessionInv(s)'
    <2>1. FlowInv(s)'
      BY <1>1, ProxyAssumption DEF TypeOK, SessionInv, FlowInv, Busy, Tag, ForwardFails, EndService, Goto, SvcValues, replicaVars
    <2>2. BackInv(s)'
      BY <1>1 DEF TypeOK, SessionInv, FlowInv, BackInv, Tag, ForwardFails, EndService, Goto, SvcValues, replicaVars
    <2>3. GotInv(s)'
      BY <1>1 DEF TypeOK, SessionInv, FlowInv, GotInv, Tag, ForwardFails, EndService, Goto, SvcValues, replicaVars
    <2>4. HeldInv(s)'
      BY <1>1 DEF TypeOK, SessionInv, HeldInv, ForwardFails, EndService, Goto, SvcValues, replicaVars
    <2>5. QED
      BY <2>1, <2>2, <2>3, <2>4 DEF SessionInv
  <1>6. QED
    BY <1>2, <1>3, <1>4, <1>5, LocalStep

\* A SELECT goes to a replica, and nowhere else.
LEMMA ChooseDbPInv ==
    ASSUME PInv, NEW s \in Sessions, ChooseDb(s)
    PROVE  PInv'
PROOF
  <1>1. TypeOK /\ SessionInv(s)
    BY DEF PInv
  <1>2. TypeOK'
    BY <1>1 DEF TypeOK, ChooseDb, Goto, SvcValues, mainVars, replicaVars
  <1>3. OthersSame(s)
    BY <1>1 DEF TypeOK, OthersSame, Same, ChooseDb, Goto, SvcValues, mainVars, replicaVars
  <1>4. /\ UNCHANGED <<conn, idle, replicaVars>>
        /\ svc'[s] \in {"header", "rows"} <=> svc[s] \in {"header", "rows"}
        /\ svc[s] \in {"header", "rows"} => req'[s] = req[s]
    BY <1>1 DEF TypeOK, SessionInv, FlowInv, Busy, ChooseDb, Goto, SvcValues, mainVars, replicaVars
  <1>5. SessionInv(s)'
    <2>1. FlowInv(s)'
      BY <1>1, ProxyAssumption DEF TypeOK, SessionInv, FlowInv, Busy, Tag, ChooseDb, Goto, SvcValues, mainVars, replicaVars
    <2>2. BackInv(s)'
      BY <1>1 DEF TypeOK, SessionInv, FlowInv, BackInv, Tag, ChooseDb, Goto, SvcValues, mainVars, replicaVars
    <2>3. GotInv(s)'
      BY <1>1 DEF TypeOK, SessionInv, FlowInv, GotInv, Tag, ChooseDb, Goto, SvcValues, mainVars, replicaVars
    <2>4. HeldInv(s)'
      BY <1>1, ProxyAssumption DEF TypeOK, SessionInv, HeldInv, ChooseDb, Goto, SvcValues, mainVars, replicaVars
    <2>5. QED
      BY <2>1, <2>2, <2>3, <2>4 DEF SessionInv
  <1>6. QED
    BY <1>2, <1>3, <1>4, <1>5, LocalStep

\* No connection to the replica: the command is lost.
LEMMA GetFailsPInv ==
    ASSUME PInv, NEW s \in Sessions, GetFails(s)
    PROVE  PInv'
PROOF
  <1>1. TypeOK /\ SessionInv(s)
    BY DEF PInv
  <1>2. TypeOK'
    BY <1>1 DEF TypeOK, GetFails, Goto, SvcValues, mainVars, replicaVars
  <1>3. OthersSame(s)
    BY <1>1 DEF TypeOK, OthersSame, Same, GetFails, Goto, SvcValues, mainVars, replicaVars
  <1>4. /\ UNCHANGED <<conn, idle, replicaVars>>
        /\ svc'[s] \in {"header", "rows"} <=> svc[s] \in {"header", "rows"}
        /\ svc[s] \in {"header", "rows"} => req'[s] = req[s]
    BY <1>1 DEF TypeOK, SessionInv, FlowInv, Busy, GetFails, Goto, SvcValues, mainVars, replicaVars
  <1>5. SessionInv(s)'
    <2>1. FlowInv(s)'
      BY <1>1, ProxyAssumption DEF TypeOK, SessionInv, FlowInv, Busy, Tag, GetFails, Goto, SvcValues, mainVars, replicaVars
    <2>2. BackInv(s)'
      BY <1>1 DEF TypeOK, SessionInv, FlowInv, BackInv, Tag, GetFails, Goto, SvcValues, mainVars, replicaVars
    <2>3. GotInv(s)'
      BY <1>1 DEF TypeOK, SessionInv, FlowInv, GotInv, Tag, GetFails, Goto, SvcValues, mainVars, replicaVars
    <2>4. HeldInv(s)'
      BY <1>1 DEF TypeOK, SessionInv, HeldInv, GetFails, Goto, SvcValues, mainVars, replicaVars
    <2>5. QED
      BY <2>1, <2>2, <2>3, <2>4 DEF SessionInv
  <1>6. QED
    BY <1>2, <1>3, <1>4, <1>5, LocalStep

\* handleOutbound returns because the client has left.
LEMMA CopyFromMainFailsPInv ==
    ASSUME PInv, NEW s \in Sessions, CopyFromMainFails(s)
    PROVE  PInv'
PROOF
  <1>1. TypeOK /\ SessionInv(s)
    BY DEF PInv
  <1>2. TypeOK'
    BY <1>1 DEF TypeOK, CopyFromMainFails, sessionVars, replicaVars
  <1>3. OthersSame(s)
    BY <1>1 DEF TypeOK, OthersSame, Same, CopyFromMainFails, sessionVars, replicaVars
  <1>4. /\ UNCHANGED <<conn, idle, replicaVars>>
        /\ svc'[s] \in {"header", "rows"} <=> svc[s] \in {"header", "rows"}
        /\ svc[s] \in {"header", "rows"} => req'[s] = req[s]
    BY <1>1 DEF TypeOK, SessionInv, FlowInv, Busy, CopyFromMainFails, sessionVars, replicaVars
  <1>5. SessionInv(s)'
    <2>1. FlowInv(s)'
      BY <1>1, ProxyAssumption DEF TypeOK, SessionInv, FlowInv, Busy, Tag, CopyFromMainFails, sessionVars, replicaVars
    <2>2. BackInv(s)'
      BY <1>1 DEF TypeOK, SessionInv, FlowInv, BackInv, Tag, CopyFromMainFails, sessionVars, replicaVars
    <2>3. GotInv(s)'
      BY <1>1 DEF TypeOK, SessionInv, FlowInv, GotInv, Tag, CopyFromMainFails, sessionVars, replicaVars
    <2>4. HeldInv(s)'
      BY <1>1 DEF TypeOK, SessionInv, HeldInv, CopyFromMainFails, sessionVars, replicaVars
    <2>5. QED
      BY <2>1, <2>2, <2>3, <2>4 DEF SessionInv
  <1>6. QED
    BY <1>2, <1>3, <1>4, <1>5, LocalStep

\* What answers no command is written down with its place in the answer.
LEMMA StrayFacts ==
    ASSUME TypeOK, NEW s \in Sessions, NEW b \in {"main", "replica"}, DeliverStray(s, b)
    PROVE  /\ stray' \in [Sessions -> SUBSET Strays]
           /\ \A t \in Sessions \ {s} : stray'[t] = stray[t]
           /\ \A m \in stray'[s] : m \in stray[s] \/ (m.by = b /\ m.at = Len(got[s]))
PROOF
  <1>1. Len(got[s]) \in Nat
    BY DEF TypeOK
  <1>2. [by |-> b, at |-> Len(got[s])] \in Strays
    BY <1>1 DEF Strays
  <1>3. QED
    BY <1>2 DEF TypeOK, DeliverStray

\* handleOutbound copies the main server's last words.
LEMMA CopyGoodbyePInv ==
    ASSUME PInv, NEW s \in Sessions, CopyGoodbye(s)
    PROVE  PInv'
PROOF
  <1>1. TypeOK /\ SessionInv(s)
    BY DEF PInv
  <1>2. TypeOK'
    <2>1. stray' \in [Sessions -> SUBSET Strays]
      BY <1>1, StrayFacts DEF CopyGoodbye
    <2>2. QED
      BY <1>1, <2>1 DEF TypeOK, CopyGoodbye, replicaVars
  <1>3. OthersSame(s)
    BY <1>1 DEF TypeOK, OthersSame, Same, CopyGoodbye
  <1>4. UNCHANGED <<client, req, inbox, got, svc, db, conn, toMain, fromMain, idle, replicaVars>>
    BY DEF CopyGoodbye
  <1>5. SessionInv(s)'
    <2>1. FlowInv(s)'
      BY <1>1, <1>4 DEF SessionInv, FlowInv, Tag
    <2>2. BackInv(s)'
      BY <1>1, <1>4 DEF SessionInv, BackInv, Tag
    <2>3. GotInv(s)'
      BY <1>1, <1>4 DEF SessionInv, GotInv, Tag
    <2>4. HeldInv(s)'
      BY <1>1, <1>4 DEF SessionInv, HeldInv, CopyGoodbye, TypeOK
    <2>5. QED
      BY <2>1, <2>2, <2>3, <2>4 DEF SessionInv
  <1>6. QED
    BY <1>2, <1>3, <1>4, <1>5, LocalStep

\* handleOutbound returns because the main server has gone.
LEMMA OutboundEndsPInv ==
    ASSUME PInv, NEW s \in Sessions, OutboundEnds(s)
    PROVE  PInv'
PROOF
  <1>1. TypeOK /\ SessionInv(s)
    BY DEF PInv
  <1>2. TypeOK'
    BY <1>1 DEF TypeOK, OutboundEnds, sessionVars, replicaVars
  <1>3. OthersSame(s)
    BY <1>1 DEF TypeOK, OthersSame, Same, OutboundEnds, sessionVars, replicaVars
  <1>4. /\ UNCHANGED <<conn, idle, replicaVars>>
        /\ svc'[s] \in {"header", "rows"} <=> svc[s] \in {"header", "rows"}
        /\ svc[s] \in {"header", "rows"} => req'[s] = req[s]
    BY <1>1 DEF TypeOK, SessionInv, FlowInv, Busy, OutboundEnds, sessionVars, replicaVars
  <1>5. SessionInv(s)'
    <2>1. FlowInv(s)'
      BY <1>1, ProxyAssumption DEF TypeOK, SessionInv, FlowInv, Busy, Tag, OutboundEnds, sessionVars, replicaVars
    <2>2. BackInv(s)'
      BY <1>1 DEF TypeOK, SessionInv, FlowInv, BackInv, Tag, OutboundEnds, sessionVars, replicaVars
    <2>3. GotInv(s)'
      BY <1>1 DEF TypeOK, SessionInv, FlowInv, GotInv, Tag, OutboundEnds, sessionVars, replicaVars
    <2>4. HeldInv(s)'
      BY <1>1 DEF TypeOK, SessionInv, HeldInv, OutboundEnds, sessionVars, replicaVars
    <2>5. QED
      BY <2>1, <2>2, <2>3, <2>4 DEF SessionInv
  <1>6. QED
    BY <1>2, <1>3, <1>4, <1>5, LocalStep

\* The main server drops the session, with the command on its way.
LEMMA MainDropsPInv ==
    ASSUME PInv, NEW s \in Sessions, MainDrops(s)
    PROVE  PInv'
PROOF
  <1>1. TypeOK /\ SessionInv(s)
    BY DEF PInv
  <1>2. TypeOK'
    BY <1>1 DEF TypeOK, MainDrops, NoTx, TxStates, sessionVars, replicaVars
  <1>3. OthersSame(s)
    BY <1>1 DEF TypeOK, OthersSame, Same, MainDrops, NoTx, TxStates, sessionVars, replicaVars
  <1>4. /\ UNCHANGED <<conn, idle, replicaVars>>
        /\ svc'[s] \in {"header", "rows"} <=> svc[s] \in {"header", "rows"}
        /\ svc[s] \in {"header", "rows"} => req'[s] = req[s]
    BY <1>1 DEF TypeOK, SessionInv, FlowInv, Busy, MainDrops, NoTx, TxStates, sessionVars, replicaVars
  <1>5. SessionInv(s)'
    <2>1. FlowInv(s)'
      BY <1>1, ProxyAssumption DEF TypeOK, SessionInv, FlowInv, Busy, Tag, MainDrops, NoTx, TxStates, sessionVars, replicaVars
    <2>2. BackInv(s)'
      BY <1>1 DEF TypeOK, SessionInv, FlowInv, BackInv, Tag, MainDrops, NoTx, TxStates, sessionVars, replicaVars
    <2>3. GotInv(s)'
      BY <1>1 DEF TypeOK, SessionInv, FlowInv, GotInv, Tag, MainDrops, NoTx, TxStates, sessionVars, replicaVars
    <2>4. HeldInv(s)'
      <3>1. main[s] = "open" /\ main'[s] \in {"bye", "dead"}
        BY <1>1 DEF TypeOK, MainDrops
      <3>2. UNCHANGED <<conn, db, svc>>
        BY DEF MainDrops, sessionVars
      <3>3. QED
        BY <1>1, <3>1, <3>2 DEF SessionInv, HeldInv
    <2>5. QED
      BY <2>1, <2>2, <2>3, <2>4 DEF SessionInv
  <1>6. QED
    BY <1>2, <1>3, <1>4, <1>5, LocalStep

\* What a command, or its failure, makes of a transaction is a transaction state.
LEMMA TxAfterType ==
    ASSUME NEW x \in TxStates, NEW k
    PROVE  TxAfter(k, x) \in TxStates /\ [x EXCEPT !.open = FALSE] \in TxStates
PROOF
  <1>1. x.open \in BOOLEAN /\ x.auto \in BOOLEAN
    BY DEF TxStates
  <1>2. /\ (k \in {"begin", "chain", "execBegin"} \/ (x.open /\ k \notin {"end", "ddl"})) \in BOOLEAN
        /\ (x.auto /\ k # "autocommit0") \in BOOLEAN
    BY <1>1
  <1>3. TxAfter(k, x) \in TxStates
    BY <1>2 DEF TxAfter, TxStates
  <1>4. [x EXCEPT !.open = FALSE] \in TxStates
    BY DEF TxStates
  <1>5. QED
    BY <1>3, <1>4

\* The main server answers the command it was sent, with all of an answer.
LEMMA MainExecutesPInv ==
    ASSUME PInv, NEW s \in Sessions, MainExecutes(s)
    PROVE  PInv'
PROOF
  <1> DEFINE t == Head(toMain[s])[1]
             k == Head(toMain[s])[2]
             Ok == <<Packet(t, "ok", "main")>>
             Err == <<Packet(t, "err", "main")>>
             Result == <<Packet(t, "head", "main"), Packet(t, "eof", "main")>>
             Complete(q) == /\ q \in Seq(Packets) /\ q # <<>>
                            /\ \A i \in DOMAIN q :
                                 /\ q[i].tag = t /\ q[i].by = "main"
                                 /\ Last(q[i]) <=> i = Len(q)
  <1>1. TypeOK /\ SessionInv(s)
    BY DEF PInv
  <1>2. /\ fromMain[s] = <<>> /\ got[s] = <<>> /\ svc[s] \notin Busy /\ inbox[s] = None
        /\ Len(toMain[s]) = 1 /\ t = Tag(s) /\ t \in Tags /\ k \in Commands
        /\ client[s] \notin {"new", "idle"}
    <2>1. toMain[s] # <<>> /\ toMain[s] \in Seq(Tags \X Commands)
      BY <1>1 DEF MainExecutes, TypeOK
    <2>2. Head(toMain[s]) = toMain[s][1]
      BY <2>1
    <2>3. Tag(s) \in Tags
      BY <1>1 DEF TypeOK, Tag, Tags
    <2>4. QED
      BY <1>1, <2>1, <2>2, <2>3 DEF SessionInv, FlowInv
  <1>3. Complete(Ok) /\ Complete(Err) /\ Complete(Result)
    <2>1. \A x \in {"ok", "err", "head", "eof"} :
            /\ Packet(t, x, "main") \in Packets
            /\ Packet(t, x, "main").tag = t /\ Packet(t, x, "main").by = "main"
            /\ Last(Packet(t, x, "main")) <=> x # "head"
      BY <1>2 DEF Packet, Packets, Last
    <2> HIDE DEF t
    <2>2. ASSUME NEW p \in Packets, p.tag = t, p.by = "main", Last(p)
          PROVE  Complete(<<p>>)
      BY <2>2
    <2>3. ASSUME NEW p \in Packets, p.tag = t, p.by = "main", ~Last(p),
                 NEW r \in Packets, r.tag = t, r.by = "main", Last(r)
          PROVE  Complete(<<p, r>>)
      BY <2>3
    <2> HIDE DEF Complete
    <2>4. Complete(Ok) /\ Complete(Err)
      BY <2>1, <2>2
    <2>5. Complete(Result)
      BY <2>1, <2>3
    <2>6. QED
      BY <2>4, <2>5
  <1>4. /\ fromMain'[s] \in {Ok, Err, Result}
        /\ fromMain' \in [Sessions -> Seq(Packets)]
        /\ \A u \in Sessions \ {s} : fromMain'[u] = fromMain[u]
        /\ tx' \in [Sessions -> TxStates]
    <2>1. PICK q \in {Ok, Err, Result} :
            fromMain' = [fromMain EXCEPT ![s] = fromMain[s] \o q]
      BY <1>1, <1>2 DEF MainExecutes, TypeOK
    <2>2. q \in Seq(Packets)
      BY <1>3, <2>1
    <2>3. fromMain[s] \o q = q
      BY <1>2, <2>2, ConcatEmptySeq
    <2>4. tx[s] \in TxStates
      BY <1>1 DEF TypeOK
    <2>5. TxAfter(k, tx[s]) \in TxStates /\ [tx[s] EXCEPT !.open = FALSE] \in TxStates
      BY <2>4, TxAfterType
    <2>6. \E u \in TxStates : tx' = [tx EXCEPT ![s] = u]
      BY <2>4, <2>5 DEF MainExecutes
    <2>7. tx' \in [Sessions -> TxStates]
      BY <1>1, <2>6 DEF TypeOK
    <2> HIDE DEF Ok, Err, Result
    <2>8. QED
      BY <1>1, <2>1, <2>2, <2>3, <2>7 DEF TypeOK
  <1> HIDE DEF t, k, Ok, Err, Result
  <1>5. toMain'[s] = <<>> /\ toMain' \in [Sessions -> Seq(Tags \X Commands)]
    <2>1. toMain[s] \in Seq(Tags \X Commands) /\ toMain[s] # <<>>
      BY <1>1 DEF TypeOK, MainExecutes
    <2>2. Tail(toMain[s]) = <<>>
      BY <1>2, <2>1, ReadFacts
    <2>3. QED
      BY <1>1, <2>1, <2>2, ReadFacts DEF TypeOK, MainExecutes
  <1>6. TypeOK'
    BY <1>1, <1>4, <1>5 DEF TypeOK, MainExecutes, sessionVars, replicaVars
  <1>7. OthersSame(s)
    BY <1>1, <1>4 DEF TypeOK, OthersSame, Same, MainExecutes, sessionVars
  <1>8. SessionInv(s)'
    <2>1. FlowInv(s)'
      BY <1>1, <1>2, <1>5 DEF SessionInv, FlowInv, MainExecutes, sessionVars
    <2>2. BackInv(s)'
      BY <1>2, <1>3, <1>4 DEF BackInv, MainExecutes, sessionVars, Tag, Last
    <2>3. GotInv(s)'
      BY <1>2 DEF GotInv, MainExecutes, sessionVars
    <2>4. HeldInv(s)'
      BY <1>1 DEF SessionInv, HeldInv, MainExecutes, sessionVars
    <2>5. QED
      BY <2>1, <2>2, <2>3, <2>4 DEF SessionInv
  <1>9. UNCHANGED <<svc, req, conn, idle, replicaVars>>
    BY DEF MainExecutes, sessionVars
  <1>10. QED
    BY <1>6, <1>7, <1>8, <1>9, LocalStep

\* A packet of the answer a client waits for reaches it, if it has not left.
LEMMA DeliverFacts ==
    ASSUME TypeOK, NEW s \in Sessions, NEW p \in Packets, Deliver(s, p)
    PROVE  /\ client' \in [Sessions -> {"new", "idle", "waiting", "gone"}]
           /\ got' \in [Sessions -> Seq(Packets)]
           /\ \A t \in Sessions \ {s} : client'[t] = client[t] /\ got'[t] = got[t]
           /\ client[s] = "gone" => client'[s] = "gone" /\ got'[s] = got[s]
           /\ client[s] # "gone" =>
                /\ got'[s] = Append(got[s], p)
                /\ client'[s] = IF Last(p) THEN "idle" ELSE client[s]
PROOF
  <1>1. Append(got[s], p) \in Seq(Packets)
    BY DEF TypeOK
  <1>2. CASE client[s] = "gone"
    BY <1>2 DEF TypeOK, Deliver
  <1>3. CASE client[s] # "gone"
    <2>1. /\ got' = [got EXCEPT ![s] = Append(got[s], p)]
          /\ client' = [client EXCEPT ![s] = IF Last(p) THEN "idle" ELSE client[s]]
      BY <1>3 DEF Deliver
    <2> HIDE DEF Deliver
    <2>2. QED
      BY <1>1, <1>3, <2>1 DEF TypeOK
  <1>4. QED
    BY <1>2, <1>3

\* The packet fits what the client has got before.
LEMMA DeliverGot ==
    ASSUME TypeOK, NEW s \in Sessions, NEW p \in Packets, Deliver(s, p),
           GotInv(s), FlowInv(s), client[s] \in {"waiting", "gone"},
           req' = req, p.tag = Tag(s),
           \A i \in DOMAIN got[s] : got[s][i].by = p.by,
           svc'[s] = "rows" => p.by = "replica",
           fromMain'[s] # <<>> => p.by = "main"
    PROVE  GotInv(s)'
PROOF
  <1>1. CASE client[s] = "gone"
    <2>1. got'[s] = <<>>
      BY <1>1, DeliverFacts DEF FlowInv
    <2>2. QED
      BY <2>1 DEF GotInv
  <1>2. CASE client[s] = "waiting"
    <2>1. /\ got'[s] = Append(got[s], p)
          /\ client'[s] = IF Last(p) THEN "idle" ELSE "waiting"
          /\ Tag(s)' = Tag(s)
      BY <1>2, DeliverFacts DEF Tag
    <2>2. /\ DOMAIN got'[s] = 1..(Len(got[s]) + 1) /\ Len(got[s]) \in Nat
          /\ DOMAIN got[s] = 1..Len(got[s]) /\ Len(got'[s]) = Len(got[s]) + 1
          /\ got'[s][Len(got[s]) + 1] = p
          /\ \A i \in 1..Len(got[s]) : got'[s][i] = got[s][i]
      BY <2>1, WriteFacts DEF TypeOK
    <2>3. \A i \in 1..Len(got[s]) :
             got[s][i].tag = Tag(s) /\ ~Last(got[s][i]) /\ got[s][i].by = p.by
      BY <1>2, <2>2 DEF GotInv
    <2>4. ASSUME NEW i \in DOMAIN got'[s]
          PROVE  /\ got'[s][i].tag = Tag(s) /\ got'[s][i].by = p.by
                 /\ Last(got'[s][i]) => i = Len(got'[s]) /\ Last(p)
      <3>1. CASE i = Len(got[s]) + 1
        BY <2>2, <3>1
      <3>2. CASE i \in 1..Len(got[s])
        BY <2>2, <2>3, <3>2
      <3>3. QED
        BY <2>2, <3>1, <3>2
    <2>5. QED
      BY <2>1, <2>4 DEF GotInv, Last
  <1>3. QED
    BY <1>1, <1>2

\* handleOutbound copies the next packet of the main server's answer.
LEMMA CopyFromMainPInv ==
    ASSUME PInv, NEW s \in Sessions, CopyFromMain(s)
    PROVE  PInv'
PROOF
  <1> DEFINE q == fromMain[s]
             p == Head(fromMain[s])
  <1>1. TypeOK /\ SessionInv(s)
    BY DEF PInv
  <1>2. /\ q \in Seq(Packets) /\ q # <<>> /\ p \in Packets /\ p = q[1]
        /\ Len(q) \in Nat \ {0} /\ 1 \in DOMAIN q
        /\ Tail(q) \in Seq(Packets) /\ Len(Tail(q)) = Len(q) - 1
        /\ \A i \in DOMAIN Tail(q) : i + 1 \in DOMAIN q /\ Tail(q)[i] = q[i + 1]
        /\ Tail(q) = <<>> <=> Len(q) = 1
    <2>1. q \in Seq(Packets) /\ q # <<>>
      BY <1>1 DEF TypeOK, CopyFromMain
    <2>2. QED
      BY <2>1, ReadFacts
  <1>3. p.tag = Tag(s) /\ p.by = "main" /\ (Last(p) <=> Len(q) = 1)
    BY <1>1, <1>2 DEF SessionInv, BackInv
  <1>4. /\ inbox[s] = None /\ toMain[s] = <<>> /\ svc[s] \notin Busy
        /\ client[s] \in {"waiting", "gone"}
    BY <1>1, <1>2 DEF SessionInv, FlowInv, TypeOK
  <1>5. Deliver(s, p) /\ req' = req /\ svc' = svc /\ fromMain'[s] = Tail(q)
    BY <1>1 DEF CopyFromMain, TypeOK
  <1>6. TypeOK'
    BY <1>1, <1>2, <1>5, DeliverFacts, SMTT(30) DEF TypeOK, CopyFromMain, replicaVars
  <1>7. OthersSame(s)
    BY <1>1, <1>2, <1>5, DeliverFacts, SMTT(30) DEF TypeOK, OthersSame, Same, CopyFromMain
  <1>8. SessionInv(s)'
    <2>1. FlowInv(s)'
      BY <1>1, <1>2, <1>3, <1>4, <1>5, DeliverFacts
      DEF SessionInv, FlowInv, CopyFromMain, Busy
    <2>2. BackInv(s)'
      BY <1>1, <1>2, <1>5 DEF SessionInv, BackInv, Tag, Last
    <2>3. GotInv(s)'
      <3>1. /\ GotInv(s) /\ FlowInv(s)
            /\ \A i \in DOMAIN got[s] : got[s][i].by = p.by
            /\ svc'[s] # "rows"
        BY <1>1, <1>2, <1>3, <1>4, <1>5 DEF SessionInv, GotInv, Busy
      <3> HIDE DEF p
      <3>2. QED
        BY <1>1, <1>2, <1>3, <1>4, <1>5, <3>1, DeliverGot
    <2>4. HeldInv(s)'
      BY <1>1 DEF SessionInv, HeldInv, CopyFromMain
    <2>5. QED
      BY <2>1, <2>2, <2>3, <2>4 DEF SessionInv
  <1>9. UNCHANGED <<svc, req, conn, idle, replicaVars>>
    BY DEF CopyFromMain
  <1>10. QED
    BY <1>6, <1>7, <1>8, <1>9, LocalStep

-----------------------------------------------------------------------------
(***************************************************************************)
(* The steps on replica connections.                                       *)
(***************************************************************************)

\* A connection that a step does not use stays clean.
LEMMA CleanFrame ==
    ASSUME NEW c \in Conns, CleanInv(c),
           asked'[c] = asked[c], stream'[c] = stream[c], link'[c] = link[c],
           \A t \in Sessions : conn[t] = c /\ svc[t] \in {"header", "rows"}
                                  => conn'[t] = c /\ svc'[t] \in {"header", "rows"}
    PROVE  CleanInv(c)'
PROOF
  BY DEF CleanInv

\* A step of session s on its connection: what has to be shown of it.
LEMMA ConnStep ==
    ASSUME PInv, NEW s \in Sessions, NEW c \in Conns,
           TypeOK', SessionInv(s)', OthersSame(s), ExclusiveInv',
           CleanInv(c)', AnswerInv(s)',
           conn[s] \in {None, c},
           \A t \in Sessions \ {s} : conn[t] # c,
           \A d \in Conns \ {c} : /\ asked'[d] = asked[d] /\ stream'[d] = stream[d]
                                   /\ link'[d] = link[d]
    PROVE  PInv'
PROOF
  <1>1. ASSUME NEW t \in Sessions PROVE SessionInv(t)'
    BY SessionFrame DEF PInv, OthersSame
  <1>2. ASSUME NEW d \in Conns PROVE CleanInv(d)'
    <2>1. CASE d # c
      <3>1. \A t \in Sessions : conn[t] = d /\ svc[t] \in {"header", "rows"}
                                  => conn'[t] = d /\ svc'[t] \in {"header", "rows"}
        BY <2>1, ProxyAssumption DEF OthersSame, Same
      <3>2. QED
        BY <2>1, <3>1, CleanFrame DEF PInv
    <2>2. QED
      BY <2>1
  <1>3. ASSUME NEW t \in Sessions, t # s PROVE AnswerInv(t)'
    <2>1. AnswerInv(t) /\ Same(t) /\ HeldInv(t) /\ conn[t] \in Conns \cup {None}
      BY <1>3 DEF PInv, SessionInv, OthersSame, TypeOK
    <2>2. svc'[t] \in {"header", "rows"} => conn[t] \in Conns \ {c}
      BY <1>3, <2>1 DEF HeldInv, Same
    <2>3. QED
      BY <2>1, <2>2, AnswerFrame DEF Same
  <1>4. QED
    BY <1>1, <1>2, <1>3 DEF PInv

\* An idle connection is handed to the session and to nobody else.
LEMMA GetIdlePInv ==
    ASSUME PInv, NEW s \in Sessions, GetIdle(s)
    PROVE  PInv'
PROOF
  <1>1. TypeOK /\ SessionInv(s) /\ ExclusiveInv
    BY DEF PInv
  <1>2. svc[s] = "get" /\ conn[s] = None /\ db[s] \in Dbs
    BY <1>1 DEF GetIdle, SessionInv, HeldInv, TypeOK
  <1>3. PICK c \in idle[db[s]] :
          /\ idle' = [idle EXCEPT ![db[s]] = idle[db[s]] \ {c}]
          /\ conn' = [conn EXCEPT ![s] = c]
    BY <1>1, <1>2 DEF GetIdle, TypeOK
  <1>4. c \in Conns /\ c # None /\ \A t \in Sessions : conn[t] # c
    BY <1>1, <1>2, <1>3, ProxyAssumption DEF TypeOK, ExclusiveInv
  <1>5. /\ conn'[s] = c /\ svc'[s] = "query"
        /\ UNCHANGED <<client, req, inbox, got, db, main, toMain, fromMain,
                       link, asked, sent, stream>>
    BY <1>1, <1>3 DEF TypeOK, GetIdle, Goto, mainVars, replicaVars
  <1>6. TypeOK'
    BY <1>1, <1>2, <1>3, <1>4 DEF TypeOK, GetIdle, Goto, SvcValues, mainVars, replicaVars
  <1>7. OthersSame(s)
    BY <1>1, <1>3, <1>5 DEF TypeOK, OthersSame, Same, GetIdle, Goto
  <1>8. SessionInv(s)'
    <2>1. FlowInv(s)'
      BY <1>1, <1>2, <1>5 DEF SessionInv, FlowInv, Busy
    <2>2. BackInv(s)'
      BY <1>1, <1>5 DEF SessionInv, BackInv, Tag
    <2>3. GotInv(s)'
      BY <1>1, <1>5 DEF SessionInv, GotInv, Tag
    <2>4. HeldInv(s)'
      BY <1>1, <1>2, <1>4, <1>5 DEF SessionInv, HeldInv
    <2>5. QED
      BY <2>1, <2>2, <2>3, <2>4 DEF SessionInv
  <1>9. ExclusiveInv'
    <2>1. \A d \in Dbs : idle'[d] \subseteq idle[d] /\ c \notin idle'[d]
      BY <1>1, <1>2, <1>3, <1>4 DEF TypeOK, ExclusiveInv
    <2>2. \A t \in Sessions : conn'[t] = IF t = s THEN c ELSE conn[t]
      BY <1>1, <1>3 DEF TypeOK
    <2>3. QED
      BY <1>1, <1>4, <2>1, <2>2 DEF ExclusiveInv
  <1>10. CleanInv(c)'
    BY <1>4, <1>5 DEF PInv, CleanInv
  <1>11. AnswerInv(s)'
    BY <1>5 DEF AnswerInv
  <1>12. QED
    BY <1>2, <1>4, <1>5, <1>6, <1>7, <1>8, <1>9, <1>10, <1>11, ConnStep

\* A connection that is dialled is nobody else's and has nothing to read.
LEMMA GetNewPInv ==
    ASSUME PInv, NEW s \in Sessions, GetNew(s)
    PROVE  PInv'
PROOF
  <1>1. TypeOK /\ SessionInv(s) /\ ExclusiveInv
    BY DEF PInv
  <1>2. svc[s] = "get" /\ conn[s] = None /\ db[s] \in Dbs
    BY <1>1 DEF GetNew, SessionInv, HeldInv, TypeOK
  <1>3. PICK c \in Conns :
          /\ \A t \in Sessions : conn[t] # c
          /\ \A d \in Dbs : c \notin idle[d]
          /\ conn' = [conn EXCEPT ![s] = c]
          /\ link' = [link EXCEPT ![c] = "open"]
          /\ asked' = [asked EXCEPT ![c] = None]
          /\ sent' = [sent EXCEPT ![c] = 0]
          /\ stream' = [stream EXCEPT ![c] = <<>>]
    BY DEF GetNew
  <1>4. /\ conn'[s] = c /\ svc'[s] = "query" /\ c # None
        /\ UNCHANGED <<client, req, inbox, got, db, main, toMain, fromMain, idle>>
        /\ asked'[c] = None /\ stream'[c] = <<>>
    BY <1>1, <1>3, ProxyAssumption DEF TypeOK, GetNew, Goto, mainVars
  <1>5. TypeOK'
    BY <1>1, <1>3 DEF TypeOK, GetNew, Goto, SvcValues, mainVars
  <1>6. OthersSame(s)
    BY <1>1, <1>3, <1>4 DEF TypeOK, OthersSame, Same, GetNew, Goto
  <1>7. SessionInv(s)'
    <2>1. FlowInv(s)'
      BY <1>1, <1>2, <1>4 DEF SessionInv, FlowInv, Busy
    <2>2. BackInv(s)'
      BY <1>1, <1>4 DEF SessionInv, BackInv, Tag
    <2>3. GotInv(s)'
      BY <1>1, <1>4 DEF SessionInv, GotInv, Tag
    <2>4. HeldInv(s)'
      BY <1>1, <1>2, <1>4 DEF SessionInv, HeldInv
    <2>5. QED
      BY <2>1, <2>2, <2>3, <2>4 DEF SessionInv
  <1>8. ExclusiveInv'
    <2>1. \A t \in Sessions : conn'[t] = IF t = s THEN c ELSE conn[t]
      BY <1>1, <1>3 DEF TypeOK
    <2>2. QED
      BY <1>1, <1>3, <1>4, <2>1 DEF ExclusiveInv
  <1>9. CleanInv(c)'
    BY <1>4 DEF CleanInv
  <1>10. AnswerInv(s)'
    BY <1>4 DEF AnswerInv
  <1>11. \A d \in Conns \ {c} : /\ asked'[d] = asked[d] /\ stream'[d] = stream[d]
                                 /\ link'[d] = link[d]
    BY <1>1, <1>3 DEF TypeOK
  <1>12. QED
    BY <1>2, <1>3, <1>5, <1>6, <1>7, <1>8, <1>9, <1>10, <1>11, ConnStep

\* What a session that has a replica connection knows of it.
LEMMA HoldsFacts ==
    ASSUME PInv, NEW s \in Sessions, svc[s] \in {"query", "header", "rows", "put"}
    PROVE  /\ conn[s] \in Conns /\ conn[s] # None
           /\ db[s] \in Dbs
           /\ \A t \in Sessions \ {s} : conn[t] # conn[s]
           /\ \A d \in Dbs : conn[s] \notin idle[d]
           /\ svc[s] \in {"query", "put"} => asked[conn[s]] = None /\ stream[conn[s]] = <<>>
           /\ stream[conn[s]] \in Seq(Packets)
           /\ CleanInv(conn[s]) /\ AnswerInv(s)
PROOF
  <1>1. conn[s] \in Conns /\ conn[s] # None /\ db[s] \in Dbs
    BY DEF PInv, TypeOK, SessionInv, HeldInv
  <1>2. \A t \in Sessions \ {s} : conn[t] # conn[s]
    BY <1>1 DEF PInv, ExclusiveInv
  <1>3. CleanInv(conn[s]) /\ AnswerInv(s)
    BY <1>1 DEF PInv
  <1>4. svc[s] \in {"query", "put"} => asked[conn[s]] = None /\ stream[conn[s]] = <<>>
    BY <1>2, <1>3 DEF CleanInv
  <1>5. QED
    BY <1>1, <1>2, <1>3, <1>4 DEF PInv, TypeOK, ExclusiveInv

\* Query1 asks on a connection with nothing left to read.
LEMMA QueryPInv ==
    ASSUME PInv, NEW s \in Sessions, Query(s)
    PROVE  PInv'
PROOF
  <1>1. TypeOK /\ SessionInv(s) /\ ExclusiveInv
    BY DEF PInv
  <1>2. PICK c \in Conns :
          /\ svc[s] = "query" /\ conn[s] = c
          /\ \A t \in Sessions \ {s} : conn[t] # c
          /\ asked[c] = None /\ stream[c] = <<>>
    BY HoldsFacts DEF Query
  <1>3. /\ svc'[s] = "header"
        /\ asked'[c] = IF link[c] = "open" THEN Tag(s) ELSE None
        /\ UNCHANGED <<client, req, inbox, got, db, conn, main, toMain, fromMain,
                       idle, link, sent, stream>>
    BY <1>1, <1>2 DEF TypeOK, Query, Goto, mainVars
  <1>4. TypeOK'
    BY <1>1, <1>2 DEF TypeOK, Query, Goto, SvcValues, Tag, Tags, mainVars
  <1>5. OthersSame(s)
    BY <1>1, <1>3 DEF TypeOK, OthersSame, Same, Query, Goto
  <1>6. SessionInv(s)'
    <2>1. FlowInv(s)'
      BY <1>1, <1>2, <1>3 DEF SessionInv, FlowInv, Busy
    <2>2. BackInv(s)'
      BY <1>1, <1>3 DEF SessionInv, BackInv, Tag
    <2>3. GotInv(s)'
      BY <1>1, <1>3 DEF SessionInv, GotInv, Tag
    <2>4. HeldInv(s)'
      BY <1>1, <1>2, <1>3 DEF SessionInv, HeldInv
    <2>5. QED
      BY <2>1, <2>2, <2>3, <2>4 DEF SessionInv
  <1>7. ExclusiveInv'
    BY <1>1, <1>3 DEF ExclusiveInv
  <1>8. CleanInv(c)'
    BY <1>2, <1>3 DEF CleanInv
  <1>9. AnswerInv(s)'
    BY <1>2, <1>3 DEF AnswerInv, Tag
  <1>10. \A d \in Conns \ {c} : /\ asked'[d] = asked[d] /\ stream'[d] = stream[d]
                                 /\ link'[d] = link[d]
    BY <1>1, <1>2, <1>3 DEF TypeOK, Query
  <1>11. QED
    BY <1>2, <1>4, <1>5, <1>6, <1>7, <1>8, <1>9, <1>10, ConnStep

\* Query1 fails on a connection that is not open, with nothing left to read.
LEMMA QueryFailsPInv ==
    ASSUME PInv, NEW s \in Sessions, QueryFails(s)
    PROVE  PInv'
PROOF
  <1>1. TypeOK /\ SessionInv(s) /\ ExclusiveInv
    BY DEF PInv
  <1>2. PICK c \in Conns :
          /\ svc[s] = "query" /\ conn[s] = c
          /\ \A t \in Sessions \ {s} : conn[t] # c
          /\ asked[c] = None /\ stream[c] = <<>>
    BY HoldsFacts DEF QueryFails
  <1>3. /\ svc'[s] = "put"
        /\ \E l \in {link[c], "closed"} : link' = [link EXCEPT ![c] = l]
        /\ UNCHANGED <<client, req, inbox, got, db, conn, main, toMain, fromMain,
                       idle, asked, sent, stream>>
    BY <1>1, <1>2 DEF TypeOK, QueryFails, Goto, mainVars
  <1>4. TypeOK'
    BY <1>1, <1>2, <1>3 DEF TypeOK, QueryFails, Goto, SvcValues, mainVars
  <1>5. OthersSame(s)
    BY <1>1, <1>3 DEF TypeOK, OthersSame, Same, QueryFails, Goto
  <1>6. SessionInv(s)'
    <2>1. FlowInv(s)'
      BY <1>1, <1>2, <1>3 DEF SessionInv, FlowInv, Busy
    <2>2. BackInv(s)'
      BY <1>1, <1>3 DEF SessionInv, BackInv, Tag
    <2>3. GotInv(s)'
      BY <1>1, <1>3 DEF SessionInv, GotInv, Tag
    <2>4. HeldInv(s)'
      BY <1>1, <1>2, <1>3 DEF SessionInv, HeldInv
    <2>5. QED
      BY <2>1, <2>2, <2>3, <2>4 DEF SessionInv
  <1>7. ExclusiveInv'
    BY <1>1, <1>3 DEF ExclusiveInv
  <1>8. CleanInv(c)'
    BY <1>2, <1>3 DEF CleanInv
  <1>9. AnswerInv(s)'
    BY <1>3 DEF AnswerInv
  <1>10. \A d \in Conns \ {c} : /\ asked'[d] = asked[d] /\ stream'[d] = stream[d]
                                 /\ link'[d] = link[d]
    BY <1>1, <1>3 DEF TypeOK
  <1>11. QED
    BY <1>2, <1>4, <1>5, <1>6, <1>7, <1>8, <1>9, <1>10, ConnStep

\* A packet of the replica's answer is copied to the client.  After the last one
\* the connection is clean again.
LEMMA CopyPacketPInv ==
    ASSUME PInv, NEW s \in Sessions, CopyPacket(s)
    PROVE  PInv'
PROOF
  <1>1. TypeOK /\ SessionInv(s) /\ ExclusiveInv
    BY DEF PInv
  <1>2. PICK c \in Conns :
          /\ svc[s] \in {"header", "rows"} /\ conn[s] = c
          /\ \A t \in Sessions \ {s} : conn[t] # c
          /\ CleanInv(c) /\ AnswerInv(s)
          /\ stream[c] \in Seq(Packets) /\ stream[c] # <<>>
    BY HoldsFacts DEF CopyPacket
  <1> DEFINE q == stream[c]
  <1>3. PICK p \in Packets :
          /\ p = Head(q) /\ p = q[1] /\ 1 \in DOMAIN q
          /\ Tail(q) \in Seq(Packets) /\ Len(q) \in Nat \ {0}
          /\ Len(Tail(q)) = Len(q) - 1
          /\ \A i \in DOMAIN Tail(q) :
               i \in Nat /\ i + 1 \in DOMAIN q /\ Tail(q)[i] = q[i + 1]
          /\ Tail(q) = <<>> <=> Len(q) = 1
    BY <1>2, ReadFacts
  <1>4. /\ p.tag = Tag(s) /\ p.by = "replica"
        /\ Last(p) => Len(q) = 1 /\ asked[c] = None
    BY <1>2, <1>3 DEF AnswerInv
  <1>5. /\ inbox[s] = None /\ toMain[s] = <<>> /\ fromMain[s] = <<>>
        /\ client[s] \in {"waiting", "gone"}
    BY <1>1, <1>2 DEF SessionInv, FlowInv, Busy, TypeOK
  <1>6. /\ Deliver(s, p)
        /\ svc' = [svc EXCEPT ![s] = IF Last(p) THEN "put" ELSE "rows"]
        /\ stream' = [stream EXCEPT ![c] = Tail(q)]
        /\ UNCHANGED <<req, inbox, stray, inTrans, db, conn, out, main, toMain, fromMain, tx,
                       idle, link, asked, sent>>
    BY <1>2, <1>3 DEF CopyPacket, Goto, mainVars
  <1>7. /\ svc'[s] = IF Last(p) THEN "put" ELSE "rows"
        /\ stream'[c] = Tail(q)
    BY <1>1, <1>6 DEF TypeOK
  <1>8. TypeOK'
    BY <1>1, <1>3, <1>6, DeliverFacts DEF TypeOK, SvcValues
  <1>9. OthersSame(s)
    BY <1>1, <1>6, DeliverFacts DEF TypeOK, OthersSame, Same
  <1>10. SessionInv(s)'
    <2>1. FlowInv(s)'
      BY <1>1, <1>5, <1>6, <1>7, DeliverFacts DEF SessionInv, FlowInv, Busy
    <2>2. BackInv(s)'
      BY <1>1, <1>6 DEF SessionInv, BackInv, Tag
    <2>3. GotInv(s)'
      <3>1. GotInv(s) /\ FlowInv(s) /\ \A i \in DOMAIN got[s] : got[s][i].by = p.by
        BY <1>1, <1>2, <1>4 DEF SessionInv, GotInv, FlowInv, Busy
      <3>2. QED
        BY <1>1, <1>4, <1>5, <1>6, <3>1, DeliverGot
    <2>4. HeldInv(s)'
      BY <1>1, <1>2, <1>6, <1>7 DEF SessionInv, HeldInv
    <2>5. QED
      BY <2>1, <2>2, <2>3, <2>4 DEF SessionInv
  <1>11. ExclusiveInv'
    BY <1>1, <1>6 DEF ExclusiveInv
  <1>12. CleanInv(c)'
    BY <1>2, <1>3, <1>4, <1>6, <1>7 DEF CleanInv
  <1>13. AnswerInv(s)'
    <2>1. Tag(s)' = Tag(s) /\ conn'[s] = c /\ asked'[c] = asked[c]
      BY <1>2, <1>6 DEF Tag
    <2>2. ASSUME NEW i \in DOMAIN Tail(q)
          PROVE  /\ Tail(q)[i].tag = Tag(s) /\ Tail(q)[i].by = "replica"
                 /\ Last(Tail(q)[i]) => i = Len(Tail(q)) /\ asked[c] = None
      BY <1>2, <1>3 DEF AnswerInv
    <2>3. asked[c] \in {None, Tag(s)}
      BY <1>2 DEF AnswerInv
    <2>4. QED
      BY <1>7, <2>1, <2>2, <2>3 DEF AnswerInv, Last
  <1>14. \A d \in Conns \ {c} : /\ asked'[d] = asked[d] /\ stream'[d] = stream[d]
                                 /\ link'[d] = link[d]
    BY <1>1, <1>6 DEF TypeOK
  <1>15. QED
    BY <1>2, <1>8, <1>9, <1>10, <1>11, <1>12, <1>13, <1>14, ConnStep

\* The replica has gone and everything it had sent has been read.
LEMMA CopyFailsPInv ==
    ASSUME PInv, NEW s \in Sessions, CopyFails(s)
    PROVE  PInv'
PROOF
  <1>1. TypeOK /\ SessionInv(s) /\ ExclusiveInv
    BY DEF PInv
  <1>2. PICK c \in Conns :
          /\ svc[s] \in {"header", "rows"} /\ conn[s] = c
          /\ \A t \in Sessions \ {s} : conn[t] # c
          /\ asked[c] = None /\ stream[c] = <<>>
    BY HoldsFacts DEF CopyFails, CleanInv
  <1>3. /\ svc'[s] = IF svc[s] = "header" THEN "put" ELSE "spin"
        /\ link' = [link EXCEPT ![c] = "closed"]
        /\ UNCHANGED <<client, req, inbox, got, db, conn, main, toMain, fromMain,
                       idle, asked, sent, stream>>
    BY <1>1, <1>2 DEF TypeOK, CopyFails, Goto, mainVars
  <1>4. TypeOK'
    <2>1. svc' \in [Sessions -> SvcValues]
      BY <1>1 DEF TypeOK, CopyFails, Goto, SvcValues
    <2>2. link' \in [Conns -> {"closed", "open", "stale", "bye", "busy"}]
      BY <1>1, <1>3 DEF TypeOK
    <2>3. QED
      BY <1>1, <2>1, <2>2 DEF TypeOK, CopyFails, mainVars
  <1>5. OthersSame(s)
    BY <1>1, <1>3 DEF TypeOK, OthersSame, Same, CopyFails, Goto
  <1>6. SessionInv(s)'
    <2>1. FlowInv(s)'
      BY <1>1, <1>2, <1>3 DEF SessionInv, FlowInv, Busy
    <2>2. BackInv(s)'
      BY <1>1, <1>3 DEF SessionInv, BackInv, Tag
    <2>3. GotInv(s)'
      BY <1>1, <1>3 DEF SessionInv, GotInv, Tag
    <2>4. HeldInv(s)'
      BY <1>1, <1>2, <1>3 DEF SessionInv, HeldInv
    <2>5. QED
      BY <2>1, <2>2, <2>3, <2>4 DEF SessionInv
  <1>7. ExclusiveInv'
    BY <1>1, <1>3 DEF ExclusiveInv
  <1>8. CleanInv(c)'
    BY <1>2, <1>3 DEF CleanInv
  <1>9. AnswerInv(s)'
    BY <1>3 DEF AnswerInv
  <1>10. \A d \in Conns \ {c} : /\ asked'[d] = asked[d] /\ stream'[d] = stream[d]
                                 /\ link'[d] = link[d]
    BY <1>1, <1>3 DEF TypeOK
  <1>11. QED
    BY <1>2, <1>4, <1>5, <1>6, <1>7, <1>8, <1>9, <1>10, ConnStep

\* The replica's last words are found where an answer should be.
LEMMA ReadGoodbyePInv ==
    ASSUME PInv, NEW s \in Sessions, ReadGoodbye(s)
    PROVE  PInv'
PROOF
  <1>1. TypeOK /\ SessionInv(s) /\ ExclusiveInv
    BY DEF PInv
  <1>2. PICK c \in Conns :
          /\ svc[s] = "header" /\ conn[s] = c
          /\ \A t \in Sessions \ {s} : conn[t] # c
          /\ asked[c] = None /\ stream[c] = <<>>
    BY HoldsFacts DEF ReadGoodbye, CleanInv
  <1>3. /\ svc'[s] = "put"
        /\ link' = [link EXCEPT ![c] = "busy"]
        /\ UNCHANGED <<client, req, inbox, got, db, conn, main, toMain, fromMain,
                       idle, asked, sent, stream>>
    BY <1>1, <1>2 DEF TypeOK, ReadGoodbye, Goto, mainVars
  <1>4. TypeOK'
    <2>1. svc' \in [Sessions -> SvcValues]
      BY <1>1 DEF TypeOK, ReadGoodbye, Goto, SvcValues
    <2>2. link' \in [Conns -> {"closed", "open", "stale", "bye", "busy"}]
      BY <1>1, <1>3 DEF TypeOK
    <2>3. stray' \in [Sessions -> SUBSET Strays]
      BY <1>1, StrayFacts DEF ReadGoodbye
    <2>4. QED
      BY <1>1, <2>1, <2>2, <2>3 DEF TypeOK, ReadGoodbye, mainVars
  <1>5. OthersSame(s)
    BY <1>1, <1>3 DEF TypeOK, OthersSame, Same, ReadGoodbye, Goto
  <1>6. SessionInv(s)'
    <2>1. FlowInv(s)'
      BY <1>1, <1>2, <1>3 DEF SessionInv, FlowInv, Busy
    <2>2. BackInv(s)'
      BY <1>1, <1>3 DEF SessionInv, BackInv, Tag
    <2>3. GotInv(s)'
      BY <1>1, <1>3 DEF SessionInv, GotInv, Tag
    <2>4. HeldInv(s)'
      BY <1>1, <1>2, <1>3 DEF SessionInv, HeldInv
    <2>5. QED
      BY <2>1, <2>2, <2>3, <2>4 DEF SessionInv
  <1>7. ExclusiveInv'
    BY <1>1, <1>3 DEF ExclusiveInv
  <1>8. CleanInv(c)'
    BY <1>2, <1>3 DEF CleanInv
  <1>9. AnswerInv(s)'
    BY <1>3 DEF AnswerInv
  <1>10. \A d \in Conns \ {c} : /\ asked'[d] = asked[d] /\ stream'[d] = stream[d]
                                 /\ link'[d] = link[d]
    BY <1>1, <1>3 DEF TypeOK
  <1>11. QED
    BY <1>2, <1>4, <1>5, <1>6, <1>7, <1>8, <1>9, <1>10, ConnStep

\* Put returns a clean connection to its pool, or closes it.
LEMMA PutPInv ==
    ASSUME PInv, NEW s \in Sessions, Put(s)
    PROVE  PInv'
PROOF
  <1>1. TypeOK /\ SessionInv(s) /\ ExclusiveInv
    BY DEF PInv
  <1>2. PICK c \in Conns :
          /\ svc[s] = "put" /\ conn[s] = c /\ db[s] \in Dbs
          /\ \A t \in Sessions \ {s} : conn[t] # c
          /\ \A d \in Dbs : c \notin idle[d]
          /\ asked[c] = None /\ stream[c] = <<>>
    BY HoldsFacts DEF Put
  <1>3. /\ svc'[s] = "read" /\ conn'[s] = None /\ db'[s] = None
        /\ UNCHANGED <<client, req, inbox, got, main, toMain, fromMain>>
    BY <1>1 DEF TypeOK, Put, Goto, mainVars
  <1>4. /\ conn' = [conn EXCEPT ![s] = None]
        /\ \/ idle' = [idle EXCEPT ![db[s]] = idle[db[s]] \cup {c}] /\ link' = link
           \/ link' = [link EXCEPT ![c] = "closed"] /\ idle' = idle
        /\ UNCHANGED <<asked, sent, stream>>
    BY <1>2 DEF Put
  <1>5. TypeOK'
    <2>1. /\ idle' \in [Dbs -> SUBSET Conns]
          /\ link' \in [Conns -> {"closed", "open", "stale", "bye", "busy"}]
      <3>1. /\ idle \in [Dbs -> SUBSET Conns]
            /\ link \in [Conns -> {"closed", "open", "stale", "bye", "busy"}]
            /\ idle[db[s]] \cup {c} \in SUBSET Conns
        BY <1>1, <1>2 DEF TypeOK
      <3>2. QED
        BY <1>4, <3>1
    <2>2. svc' \in [Sessions -> SvcValues] /\ db' \in [Sessions -> Dbs \cup {None}]
          /\ conn' \in [Sessions -> Conns \cup {None}]
      BY <1>1 DEF TypeOK, Put, Goto, SvcValues
    <2>3. QED
      BY <1>1, <2>1, <2>2 DEF TypeOK, Put, mainVars
  <1>6. OthersSame(s)
    BY <1>1, <1>3 DEF TypeOK, OthersSame, Same, Put, Goto
  <1>7. SessionInv(s)'
    <2>1. FlowInv(s)'
      BY <1>1, <1>2, <1>3 DEF SessionInv, FlowInv, Busy, Tag
    <2>2. BackInv(s)'
      BY <1>1, <1>3 DEF SessionInv, BackInv, Tag
    <2>3. GotInv(s)'
      BY <1>1, <1>3 DEF SessionInv, GotInv, Tag
    <2>4. HeldInv(s)'
      BY <1>1, <1>2, <1>3 DEF SessionInv, HeldInv
    <2>5. QED
      BY <2>1, <2>2, <2>3, <2>4 DEF SessionInv
  <1>8. ExclusiveInv'
    <2>1. \A t \in Sessions : conn'[t] = IF t = s THEN None ELSE conn[t]
      BY <1>1, <1>4 DEF TypeOK
    <2>2. \A d \in Dbs : /\ idle'[d] \subseteq idle[d] \cup {c} /\ idle[d] \subseteq idle'[d]
                         /\ c \in idle'[d] => d = db[s]
      BY <1>1, <1>2, <1>4 DEF TypeOK
    <2>3. \A d \in Dbs : None \notin idle'[d]
      BY <1>5, ProxyAssumption DEF TypeOK
    <2>4. QED
      BY <1>1, <1>2, <2>1, <2>2, <2>3 DEF ExclusiveInv
  <1>9. CleanInv(c)'
    BY <1>2, <1>4 DEF CleanInv
  <1>10. AnswerInv(s)'
    BY <1>3 DEF AnswerInv
  <1>11. \A d \in Conns \ {c} : /\ asked'[d] = asked[d] /\ stream'[d] = stream[d]
                                 /\ link'[d] = link[d]
    BY <1>1, <1>4 DEF TypeOK
  <1>12. QED
    BY <1>2, <1>5, <1>6, <1>7, <1>8, <1>9, <1>10, <1>11, ConnStep

\* A step of a replica concerns only the session that reads from it.
LEMMA ReplicaStep ==
    ASSUME PInv, NEW c \in Conns, TypeOK', CleanInv(c)',
           UNCHANGED <<sessionVars, mainVars, idle>>,
           \A s \in Sessions : conn[s] = c => AnswerInv(s)',
           \A d \in Conns \ {c} : /\ asked'[d] = asked[d] /\ stream'[d] = stream[d]
                                   /\ link'[d] = link[d]
    PROVE  PInv'
PROOF
  <1>1. \A t \in Sessions : Same(t)
    BY DEF Same, sessionVars, mainVars
  <1>2. ASSUME NEW t \in Sessions PROVE SessionInv(t)'
    BY <1>1, SessionFrame DEF PInv
  <1>3. ExclusiveInv'
    BY DEF PInv, ExclusiveInv, sessionVars
  <1>4. ASSUME NEW d \in Conns PROVE CleanInv(d)'
    <2>1. CASE d # c
      BY <1>1, <2>1, CleanFrame DEF PInv, Same
    <2>2. QED
      BY <2>1
  <1>5. ASSUME NEW t \in Sessions PROVE AnswerInv(t)'
    <2>1. CASE conn[t] # c
      <3>1. AnswerInv(t) /\ HeldInv(t) /\ conn[t] \in Conns \cup {None}
        BY DEF PInv, SessionInv, TypeOK
      <3>2. svc'[t] \in {"header", "rows"} => conn[t] \in Conns \ {c}
        BY <1>1, <2>1, <3>1 DEF HeldInv, Same
      <3>3. QED
        BY <1>1, <3>1, <3>2, AnswerFrame DEF Same
    <2>2. QED
      BY <2>1
  <1>6. QED
    BY <1>2, <1>3, <1>4, <1>5 DEF PInv

\* A replica answers the session that has its connection, and stops at the end.
LEMMA ReplicaAnswersPInv ==
    ASSUME PInv, NEW c \in Conns, ReplicaAnswers(c)
    PROVE  PInv'
PROOF
  <1>1. TypeOK /\ CleanInv(c) /\ asked[c] # None
    BY DEF PInv, ReplicaAnswers
  <1>2. PICK k \in {"ok", "err", "head", "row", "eof"} :
          LET p == Packet(asked[c], k, "replica")
          IN  /\ stream' = [stream EXCEPT ![c] = Append(stream[c], p)]
              /\ asked' = [asked EXCEPT ![c] = IF Last(p) THEN None ELSE asked[c]]
              /\ sent' = [sent EXCEPT ![c] = IF Last(p) THEN 0 ELSE sent[c] + 1]
    BY DEF ReplicaAnswers
  <1>3. PICK p \in Packets :
          /\ p.tag = asked[c] /\ p.by = "replica"
          /\ stream' = [stream EXCEPT ![c] = Append(stream[c], p)]
          /\ asked' = [asked EXCEPT ![c] = IF Last(p) THEN None ELSE asked[c]]
          /\ sent' = [sent EXCEPT ![c] = IF Last(p) THEN 0 ELSE sent[c] + 1]
    <2>1. asked[c] \in Tags
      BY <1>1 DEF TypeOK
    <2>2. /\ Packet(asked[c], k, "replica") \in Packets
          /\ Packet(asked[c], k, "replica").tag = asked[c]
          /\ Packet(asked[c], k, "replica").by = "replica"
      BY <2>1 DEF Packet, Packets
    <2>3. QED
      BY <1>2, <2>2
  <1>4. UNCHANGED <<sessionVars, mainVars, idle, link>>
    BY DEF ReplicaAnswers
  <1>5. /\ stream[c] \in Seq(Packets) /\ stream'[c] = Append(stream[c], p)
        /\ asked'[c] = IF Last(p) THEN None ELSE asked[c]
    BY <1>1, <1>3 DEF TypeOK
  <1>6. TypeOK'
    <2>1. /\ stream' \in [Conns -> Seq(Packets)]
          /\ asked' \in [Conns -> Tags \cup {None}]
          /\ sent' \in [Conns -> Nat]
      BY <1>1, <1>3, <1>5, WriteFacts DEF TypeOK
    <2>2. QED
      BY <1>1, <1>4, <2>1 DEF TypeOK, sessionVars, mainVars
  <1>7. CleanInv(c)'
    BY <1>1, <1>4, <1>5 DEF CleanInv, sessionVars
  <1>8. ASSUME NEW s \in Sessions, conn[s] = c PROVE AnswerInv(s)'
    <2> SUFFICES ASSUME svc[s] \in {"header", "rows"} PROVE AnswerInv(s)'
      BY <1>4 DEF AnswerInv, sessionVars
    <2> DEFINE q == stream[c]
    <2>1. /\ \A i \in DOMAIN q : /\ q[i].tag = Tag(s) /\ q[i].by = "replica"
                                  /\ ~Last(q[i])
          /\ asked[c] = Tag(s)
      BY <1>1, <1>8 DEF PInv, AnswerInv
    <2>2. /\ DOMAIN Append(q, p) = 1..(Len(q) + 1) /\ Len(q) \in Nat
          /\ DOMAIN q = 1..Len(q) /\ Len(Append(q, p)) = Len(q) + 1
          /\ Append(q, p)[Len(q) + 1] = p
          /\ \A i \in DOMAIN q : Append(q, p)[i] = q[i]
      BY <1>5, WriteFacts
    <2>3. ASSUME NEW i \in DOMAIN Append(q, p)
          PROVE  /\ Append(q, p)[i].tag = Tag(s) /\ Append(q, p)[i].by = "replica"
                 /\ Last(Append(q, p)[i]) => i = Len(Append(q, p)) /\ Last(p)
      <3>1. CASE i = Len(q) + 1
        BY <1>3, <2>1, <2>2, <3>1
      <3>2. CASE i \in DOMAIN q
        BY <2>1, <2>2, <3>2
      <3>3. QED
        BY <2>2, <3>1, <3>2
    <2>4. Tag(s)' = Tag(s) /\ conn'[s] = c /\ stream'[c] = Append(q, p)
      BY <1>4, <1>5, <1>8 DEF Tag, sessionVars
    <2> HIDE DEF q
    <2>5. QED
      BY <1>5, <2>1, <2>3, <2>4 DEF AnswerInv, Last
  <1>9. \A d \in Conns \ {c} : /\ asked'[d] = asked[d] /\ stream'[d] = stream[d]
                                /\ link'[d] = link[d]
    BY <1>1, <1>3, <1>4 DEF TypeOK
  <1>10. QED
    BY <1>4, <1>6, <1>7, <1>8, <1>9, ReplicaStep

\* A replica that drops a connection sends nothing more over it.
LEMMA ReplicaDropsPInv ==
    ASSUME PInv, NEW c \in Conns, ReplicaDrops(c)
    PROVE  PInv'
PROOF
  <1>1. TypeOK /\ CleanInv(c)
    BY DEF PInv
  <1>2. /\ stream'[c] \in {stream[c], <<>>} /\ asked'[c] = None
        /\ link'[c] \in {"stale", "bye"}
        /\ stream' \in [Conns -> Seq(Packets)]
        /\ link' \in [Conns -> {"closed", "open", "stale", "bye", "busy"}]
        /\ \A d \in Conns \ {c} : /\ asked'[d] = asked[d] /\ stream'[d] = stream[d]
                                    /\ link'[d] = link[d]
        /\ UNCHANGED <<sessionVars, mainVars, idle>>
    <2>1. PICK q \in {stream[c], <<>>}, l \in {"stale", "bye"} :
            stream' = [stream EXCEPT ![c] = q] /\ link' = [link EXCEPT ![c] = l]
      BY <1>1 DEF ReplicaDrops, TypeOK
    <2>2. stream[c] \in Seq(Packets) /\ <<>> \in Seq(Packets)
      BY <1>1 DEF TypeOK
    <2>3. stream' \in [Conns -> Seq(Packets)] /\ stream'[c] \in {stream[c], <<>>}
      BY <1>1, <2>1, <2>2 DEF TypeOK
    <2>4. /\ link'[c] \in {"stale", "bye"}
          /\ link' \in [Conns -> {"closed", "open", "stale", "bye", "busy"}]
      BY <1>1, <2>1 DEF TypeOK
    <2>5. asked' = [asked EXCEPT ![c] = None] /\ UNCHANGED <<sessionVars, mainVars, idle>>
      BY DEF ReplicaDrops
    <2>6. QED
      BY <1>1, <2>1, <2>3, <2>4, <2>5 DEF TypeOK
  <1>3. TypeOK'
    <2>1. asked' \in [Conns -> Tags \cup {None}] /\ sent' \in [Conns -> Nat]
      BY <1>1 DEF TypeOK, ReplicaDrops
    <2>2. QED
      BY <1>1, <1>2, <2>1 DEF TypeOK, sessionVars, mainVars
  <1>4. CleanInv(c)'
    BY <1>1, <1>2 DEF CleanInv, sessionVars
  <1>5. ASSUME NEW s \in Sessions, conn[s] = c PROVE AnswerInv(s)'
    <2>1. AnswerInv(s) /\ conn'[s] = c /\ Tag(s)' = Tag(s) /\ svc'[s] = svc[s]
      BY <1>2, <1>5 DEF PInv, sessionVars, Tag
    <2>2. CASE stream'[c] = <<>>
      BY <1>2, <2>1, <2>2 DEF AnswerInv
    <2>3. CASE stream'[c] = stream[c]
      BY <1>2, <1>5, <2>1, <2>3 DEF AnswerInv, Last
    <2>4. QED
      BY <1>2, <2>2, <2>3
  <1>6. QED
    BY <1>2, <1>3, <1>4, <1>5, ReplicaStep

-----------------------------------------------------------------------------
(***************************************************************************)
(* The theorems about answers and connections.                             *)
(***************************************************************************)

\* The proxy starts with no session, empty pools and no connection.
LEMMA InitPInv == Init => PInv
PROOF
  <1> SUFFICES ASSUME Init PROVE PInv
    OBVIOUS
  <1>1. TypeOK
    BY ProxyAssumption DEF Init, TypeOK, SvcValues, NoTx, TxStates
  <1>2. ASSUME NEW s \in Sessions PROVE SessionInv(s)
    BY DEF Init, SessionInv, FlowInv, BackInv, GotInv, HeldInv, Busy
  <1>3. ExclusiveInv
    BY DEF Init, ExclusiveInv
  <1>4. ASSUME NEW c \in Conns PROVE CleanInv(c)
    BY DEF Init, CleanInv
  <1>5. ASSUME NEW s \in Sessions PROVE AnswerInv(s)
    BY DEF Init, AnswerInv
  <1>6. QED
    BY <1>1, <1>2, <1>3, <1>4, <1>5 DEF PInv

\* Every step of a goroutine, a client or a server keeps the invariant.
LEMMA NextPInv ==
    ASSUME PInv, [Next]_vars
    PROVE  PInv'
PROOF
  <1>1. CASE UNCHANGED vars
    <2>1. \A t \in Sessions : Same(t)
      BY <1>1 DEF vars, sessionVars, mainVars, Same
    <2>2. TypeOK' /\ ExclusiveInv'
      BY <1>1 DEF PInv, TypeOK, ExclusiveInv, vars, sessionVars, mainVars, replicaVars
    <2>3. ASSUME NEW t \in Sessions PROVE SessionInv(t)' /\ AnswerInv(t)'
      BY <1>1, <2>1, SessionFrame, AnswerFrame DEF PInv, Same, vars, replicaVars
    <2>4. ASSUME NEW c \in Conns PROVE CleanInv(c)'
      BY <1>1, <2>1, CleanFrame DEF PInv, Same, vars, replicaVars
    <2>5. QED
      BY <2>2, <2>3, <2>4 DEF PInv
  <1>2. ASSUME NEW s \in Sessions, Service(s) PROVE PInv'
    BY <1>2, DialMainPInv, DialMainFailPInv, ReadEOFPInv, ForwardToMainPInv,
       ForwardFailsPInv, ChooseDbPInv, GetIdlePInv, GetNewPInv, GetFailsPInv,
       QueryPInv, QueryFailsPInv, CopyPacketPInv, ReadGoodbyePInv, CopyFailsPInv, PutPInv
    DEF Service
  <1>3. ASSUME NEW s \in Sessions, Outbound(s) PROVE PInv'
    BY <1>3, CopyFromMainPInv, CopyGoodbyePInv, CopyFromMainFailsPInv, OutboundEndsPInv
    DEF Outbound
  <1>4. CASE Next
    BY <1>2, <1>3, <1>4, AcceptPInv, ClientSendPInv, ClientLeavePInv, ClientClosedPInv,
       MainExecutesPInv, MainDropsPInv, ReplicaAnswersPInv, ReplicaDropsPInv
    DEF Next
  <1>5. QED
    BY <1>1, <1>4

\* Every behaviour of the proxy satisfies the inductive invariant.
THEOREM ProxyInvariant == Spec => []PInv
PROOF
  <1>1. Init => PInv
    BY InitPInv
  <1>2. PInv /\ [Next]_vars => PInv'
    BY NextPInv
  <1>3. QED
    BY <1>1, <1>2, PTL DEF Spec

\* No session ever receives a packet that answers a command of another session,
\* or an earlier one of its own, however many sessions share the pools of
\* handleInbound and whatever fails in between.
THEOREM ProxyOwnPackets == Spec => []OwnPackets
PROOF
  <1>1. PInv => OwnPackets
    BY DEF PInv, SessionInv, GotInv, OwnPackets
  <1>2. QED
    BY <1>1, ProxyInvariant, PTL

\* A connection in a pool has nothing left to read and no answer on the way,
\* whichever sessions used it before and however their answers ended.
THEOREM ProxyCleanIdle == Spec => []CleanIdle
PROOF
  <1>1. PInv => CleanIdle
    BY DEF PInv, TypeOK, ExclusiveInv, CleanInv, CleanIdle
  <1>2. QED
    BY <1>1, ProxyInvariant, PTL

-----------------------------------------------------------------------------
(***************************************************************************)
(* What the servers say unasked.                                           *)
(***************************************************************************)

\* A step that leaves a session alone leaves what was written to it alone.
LEMMA StrayFrame ==
    ASSUME NEW t \in Sessions, StrayInv(t), Same(t), stray'[t] = stray[t]
    PROVE  StrayInv(t)'
PROOF
  BY DEF StrayInv, Same

\* The same for a step that brings the session nothing from the main server.
LEMMA StrayQuiet ==
    ASSUME NEW s \in Sessions, StrayInv(s), stray'[s] \subseteq stray[s],
           UNCHANGED <<client, got, inbox>>,
           main'[s] = main[s] \/ main'[s] \in {"dead", "closed"},
           toMain'[s] \in {toMain[s], <<>>}, main'[s] # "open" => toMain'[s] = <<>>,
           fromMain'[s] \in {fromMain[s], <<>>},
           svc'[s] \in Busy => svc[s] \in Busy
    PROVE  StrayInv(s)'
PROOF
  BY DEF StrayInv

\* Clients: a new command is a new beginning, and one who leaves reads nothing.
LEMMA ClientStray ==
    ASSUME SInv, NEW s \in Sessions,
           Accept(s) \/ (\E k \in Commands : ClientSend(s, k)) \/ ClientLeave(s) \/ ClientClosed(s)
    PROVE  OthersSame(s) /\ (\A t \in Sessions \ {s} : stray'[t] = stray[t]) /\ StrayInv(s)'
PROOF
  <1>1. TypeOK /\ StrayInv(s) /\ FlowInv(s)
    BY DEF SInv, PInv, SessionInv
  <1>2. OthersSame(s) /\ (\A t \in Sessions \ {s} : stray'[t] = stray[t])
    BY <1>1 DEF TypeOK, OthersSame, Same, Accept, ClientSend, ClientLeave, ClientClosed,
                Goto, mainVars
  <1>3. CASE Accept(s)
    <2>1. /\ client[s] = "new" /\ stray' = stray /\ UNCHANGED <<got, main, toMain, fromMain>>
      BY <1>3 DEF Accept, mainVars
    <2>2. QED
      BY <1>1, <1>2, <2>1 DEF StrayInv
  <1>4. CASE (\E k \in Commands : ClientSend(s, k)) \/ ClientLeave(s) \/ ClientClosed(s)
    <2>1. stray'[s] = {} /\ UNCHANGED <<main, toMain>>
      BY <1>1, <1>4 DEF TypeOK, ClientSend, ClientLeave, ClientClosed, mainVars
    <2>2. QED
      BY <1>1, <1>2, <2>1 DEF StrayInv
  <1>5. QED
    BY <1>2, <1>3, <1>4

\* The steps of handleInbound that write nothing to the client.
LEMMA QuietStray ==
    ASSUME SInv, NEW s \in Sessions,
           \/ DialMain(s) \/ DialMainFail(s) \/ ReadEOF(s)
           \/ GetIdle(s) \/ GetNew(s) \/ GetFails(s)
           \/ Query(s) \/ QueryFails(s) \/ CopyFails(s) \/ Put(s)
    PROVE  OthersSame(s) /\ stray' = stray /\ StrayInv(s)'
PROOF
  <1>1. TypeOK /\ StrayInv(s) /\ HeldInv(s)
    BY DEF SInv, PInv, SessionInv
  <1>2. OthersSame(s)
    BY <1>1 DEF TypeOK, OthersSame, Same, DialMain, DialMainFail, ReadEOF, EndService,
                GetIdle, GetNew, GetFails, Query, QueryFails, CopyFails, Put, Goto, mainVars
  <1>3. UNCHANGED <<client, got, inbox, stray>>
    BY DEF DialMain, DialMainFail, ReadEOF, GetIdle, GetNew, GetFails, Query, QueryFails,
           CopyFails, Put
  <1>4. svc'[s] \in Busy => svc[s] \in Busy
    BY <1>1 DEF TypeOK, DialMain, DialMainFail, ReadEOF, EndService,
                GetIdle, GetNew, GetFails, Query, QueryFails, CopyFails, Put, Goto, Busy
  <1>5. CASE DialMain(s)
    <2>1. main[s] = "none" /\ main'[s] = "open" /\ UNCHANGED <<toMain, fromMain>>
      BY <1>1, <1>5 DEF TypeOK, HeldInv, DialMain
    <2>2. \A m \in stray[s] : m.by = "replica"
      BY <1>1, <2>1 DEF StrayInv
    <2>3. QED
      BY <1>1, <1>2, <1>3, <1>4, <2>1, <2>2 DEF StrayInv
  <1>6. CASE ReadEOF(s)
    <2>1. main'[s] = "closed" /\ toMain'[s] = <<>> /\ fromMain'[s] = <<>>
      BY <1>1, <1>6 DEF TypeOK, ReadEOF, EndService
    <2>2. QED
      BY <1>1, <1>2, <1>3, <1>4, <2>1, StrayQuiet
  <1>7. CASE \/ DialMainFail(s) \/ GetIdle(s) \/ GetNew(s) \/ GetFails(s)
             \/ Query(s) \/ QueryFails(s) \/ CopyFails(s) \/ Put(s)
    <2>1. UNCHANGED <<main, toMain, fromMain>>
      BY <1>7 DEF DialMainFail, GetIdle, GetNew, GetFails, Query, QueryFails, CopyFails, Put, mainVars
    <2>2. QED
      BY <1>1, <1>2, <1>3, <1>4, <2>1, StrayQuiet DEF StrayInv
  <1>8. QED
    BY <1>5, <1>6, <1>7

\* The steps of handleInbound with a command in its buffer: no replica has had
\* last words for this client, and a main server that had them gets nothing.
LEMMA CommandStray ==
    ASSUME SInv, NEW s \in Sessions, ForwardToMain(s) \/ ForwardFails(s) \/ ChooseDb(s)
    PROVE  OthersSame(s) /\ stray' = stray /\ StrayInv(s)'
PROOF
  <1>1. TypeOK /\ StrayInv(s)
    BY DEF SInv, PInv
  <1>2. OthersSame(s)
    BY <1>1 DEF TypeOK, OthersSame, Same, ForwardToMain, ForwardFails, ChooseDb, EndService,
                Goto, mainVars
  <1>3. inbox[s] # None /\ UNCHANGED <<client, got, stray>>
    BY DEF ForwardToMain, ForwardFails, ChooseDb
  <1>4. /\ main[s] # "open" => toMain[s] = <<>>
        /\ \A m \in stray[s] :
             /\ m.by = "main" /\ main[s] \in {"dead", "closed"} /\ fromMain[s] = <<>>
             /\ \A i \in DOMAIN got[s] : got[s][i].by = "main" => i <= m.at
    BY <1>1, <1>3 DEF StrayInv
  <1>5. /\ main[s] # "open" => toMain'[s] \in {<<>>, toMain[s]} /\ main'[s] # "open"
        /\ main'[s] # "open" => main[s] # "open"
        /\ main[s] \in {"dead", "closed"} => main'[s] \in {"dead", "closed"}
        /\ fromMain'[s] \in {fromMain[s], <<>>}
    BY <1>1 DEF TypeOK, ForwardToMain, ForwardFails, ChooseDb, EndService, Goto, mainVars
  <1>6. QED
    BY <1>2, <1>3, <1>4, <1>5 DEF StrayInv

\* The main server answers, and its answer is the last thing it says but one.
LEMMA MainStray ==
    ASSUME SInv, NEW s \in Sessions, MainExecutes(s) \/ MainDrops(s)
    PROVE  OthersSame(s) /\ stray' = stray /\ StrayInv(s)'
PROOF
  <1>1. TypeOK /\ StrayInv(s)
    BY DEF SInv, PInv
  <1>2. OthersSame(s)
    <2>1. CASE MainExecutes(s)
      <3>1. UNCHANGED <<client, req, inbox, got, svc, db, conn, main>>
        BY <2>1 DEF MainExecutes, sessionVars
      <3>2. \A t \in Sessions \ {s} : toMain'[t] = toMain[t] /\ fromMain'[t] = fromMain[t]
        BY <1>1, <2>1 DEF MainExecutes, TypeOK
      <3>3. QED
        BY <3>1, <3>2 DEF OthersSame, Same
    <2>2. CASE MainDrops(s)
      BY <1>1, <2>2 DEF TypeOK, OthersSame, Same, MainDrops, sessionVars
    <2>3. QED
      BY <2>1, <2>2
  <1>3. main[s] = "open" /\ UNCHANGED <<client, inbox, got, svc, stray>>
    BY DEF MainExecutes, MainDrops, sessionVars
  <1>4. \A m \in stray[s] :
          /\ m.by = "replica" /\ got[s] = <<>> /\ client[s] \notin {"new", "idle"}
          /\ inbox[s] = None /\ toMain[s] = <<>> /\ fromMain[s] = <<>>
          /\ svc[s] \notin Busy
    BY <1>1, <1>3 DEF StrayInv
  <1>5. CASE MainExecutes(s)
    <2>1. stray[s] = {} /\ main' = main
      BY <1>4, <1>5 DEF MainExecutes
    <2>2. QED
      BY <1>2, <1>3, <2>1 DEF StrayInv
  <1>6. CASE MainDrops(s)
    <2>1. toMain'[s] = <<>> /\ fromMain' = fromMain
      BY <1>1, <1>6 DEF TypeOK, MainDrops
    <2>2. QED
      BY <1>2, <1>3, <1>4, <2>1 DEF StrayInv
  <1>7. QED
    BY <1>5, <1>6

\* A packet of a replica's answer may follow the main server's last words.
LEMMA CopyPacketStray ==
    ASSUME SInv, NEW s \in Sessions, CopyPacket(s)
    PROVE  OthersSame(s) /\ stray' = stray /\ StrayInv(s)'
PROOF
  <1>1. TypeOK /\ StrayInv(s) /\ PInv
    BY DEF SInv, PInv
  <1>2. /\ svc[s] \in {"header", "rows"}
        /\ stray' = stray /\ UNCHANGED <<req, inbox, db, conn, main, toMain, fromMain>>
    BY DEF CopyPacket, mainVars
  <1>3. PICK p \in Packets : p.by = "replica" /\ Deliver(s, p)
    <2>1. stream[conn[s]] # <<>> /\ stream[conn[s]] \in Seq(Packets) /\ AnswerInv(s)
      BY <1>1, <1>2, HoldsFacts DEF CopyPacket
    <2>2. Head(stream[conn[s]]) = stream[conn[s]][1] /\ 1 \in DOMAIN stream[conn[s]]
          /\ Head(stream[conn[s]]) \in Packets
      BY <2>1, ReadFacts
    <2>3. Head(stream[conn[s]]).by = "replica"
      BY <1>2, <2>1, <2>2 DEF AnswerInv
    <2>4. Deliver(s, Head(stream[conn[s]]))
      BY DEF CopyPacket
    <2>5. QED
      BY <2>2, <2>3, <2>4
  <1>4. OthersSame(s)
    <2>1. \A t \in Sessions \ {s} : svc'[t] = svc[t]
      BY <1>1 DEF TypeOK, CopyPacket, Goto
    <2>2. QED
      BY <1>1, <1>2, <1>3, <2>1, DeliverFacts DEF OthersSame, Same
  <1>5. \A m \in stray[s] :
          /\ m.by = "main" /\ main[s] \in {"dead", "closed"} /\ fromMain[s] = <<>>
          /\ \A i \in DOMAIN got[s] : got[s][i].by = "main" => i <= m.at
    BY <1>1, <1>2 DEF StrayInv, Busy
  <1>6. \A i \in DOMAIN got'[s] : got'[s][i].by = "main" => i \in DOMAIN got[s] /\ got'[s][i] = got[s][i]
    <2>1. got[s] \in Seq(Packets) /\ got'[s] \in {got[s], Append(got[s], p)}
      BY <1>1, <1>3, DeliverFacts DEF TypeOK
    <2>2. CASE got'[s] = Append(got[s], p)
      <3>1. /\ DOMAIN got'[s] = 1..(Len(got[s]) + 1) /\ Len(got[s]) \in Nat
            /\ DOMAIN got[s] = 1..Len(got[s]) /\ got'[s][Len(got[s]) + 1] = p
            /\ \A i \in DOMAIN got[s] : got'[s][i] = got[s][i]
        BY <2>1, <2>2, WriteFacts
      <3>2. \A i \in DOMAIN got'[s] : i \in DOMAIN got[s] \/ i = Len(got[s]) + 1
        BY <3>1
      <3>3. p.by # "main"
        BY <1>3
      <3>4. QED
        BY <3>1, <3>2, <3>3
    <2>3. QED
      BY <2>1, <2>2
  <1>7. QED
    BY <1>1, <1>2, <1>4, <1>5, <1>6 DEF StrayInv

\* A replica's last words come when the client has got nothing and nothing of its
\* command is anywhere else.
LEMMA ReadGoodbyeStray ==
    ASSUME SInv, NEW s \in Sessions, ReadGoodbye(s)
    PROVE  OthersSame(s) /\ (\A t \in Sessions \ {s} : stray'[t] = stray[t]) /\ StrayInv(s)'
PROOF
  <1>1. TypeOK /\ StrayInv(s) /\ FlowInv(s)
    BY DEF SInv, PInv, SessionInv
  <1>2. /\ svc[s] = "header" /\ svc' = [svc EXCEPT ![s] = "put"]
        /\ UNCHANGED <<client, req, inbox, got, db, conn, main, toMain, fromMain>>
    BY DEF ReadGoodbye, Goto, mainVars
  <1>3. /\ \A t \in Sessions \ {s} : stray'[t] = stray[t]
        /\ \A m \in stray'[s] : m \in stray[s] \/ m.by = "replica"
    BY <1>1, StrayFacts DEF ReadGoodbye
  <1>4. /\ got[s] = <<>> /\ inbox[s] = None /\ toMain[s] = <<>> /\ fromMain[s] = <<>>
        /\ client[s] \notin {"new", "idle"}
    BY <1>1, <1>2 DEF FlowInv, Busy
  <1>5. OthersSame(s) /\ svc'[s] \notin Busy
    BY <1>1, <1>2 DEF OthersSame, Same, TypeOK, Busy
  <1>6. QED
    BY <1>1, <1>2, <1>3, <1>4, <1>5 DEF StrayInv

\* handleOutbound: the main server's last words come after its answers.
LEMMA OutboundStray ==
    ASSUME SInv, NEW s \in Sessions, Outbound(s)
    PROVE  OthersSame(s) /\ (\A t \in Sessions \ {s} : stray'[t] = stray[t]) /\ StrayInv(s)'
PROOF
  <1>1. TypeOK /\ StrayInv(s) /\ FlowInv(s)
    BY DEF SInv, PInv, SessionInv
  <1>2. CASE CopyFromMain(s)
    <2>1. fromMain[s] # <<>> /\ stray' = stray /\ UNCHANGED <<req, inbox, svc, db, conn, main, toMain>>
      BY <1>2 DEF CopyFromMain
    <2>2. stray[s] = {}
      BY <1>1, <2>1 DEF StrayInv
    <2>3. Head(fromMain[s]) \in Packets /\ Deliver(s, Head(fromMain[s]))
      BY <1>1, <1>2, ReadFacts DEF TypeOK, CopyFromMain
    <2>4. \A t \in Sessions \ {s} :
            client'[t] = client[t] /\ got'[t] = got[t] /\ fromMain'[t] = fromMain[t]
      BY <1>1, <1>2, <2>3, DeliverFacts DEF TypeOK, CopyFromMain
    <2>5. QED
      BY <1>1, <2>1, <2>2, <2>4 DEF OthersSame, Same, StrayInv
  <1>3. CASE CopyGoodbye(s)
    <2>1. /\ fromMain[s] = <<>> /\ main[s] = "bye" /\ main' = [main EXCEPT ![s] = "dead"]
          /\ UNCHANGED <<client, req, inbox, got, svc, db, conn, toMain, fromMain>>
      BY <1>3 DEF CopyGoodbye
    <2>2. /\ \A t \in Sessions \ {s} : stray'[t] = stray[t]
          /\ \A m \in stray'[s] : m \in stray[s] \/ (m.by = "main" /\ m.at = Len(got[s]))
      BY <1>1, <1>3, StrayFacts DEF CopyGoodbye
    <2>3. \A i \in DOMAIN got[s] : i <= Len(got[s])
      BY <1>1 DEF TypeOK
    <2>4. main'[s] = "dead" /\ OthersSame(s)
      BY <1>1, <2>1 DEF TypeOK, OthersSame, Same
    <2>5. QED
      BY <1>1, <2>1, <2>2, <2>3, <2>4 DEF StrayInv
  <1>4. CASE CopyFromMainFails(s) \/ OutboundEnds(s)
    <2>1. UNCHANGED <<client, req, inbox, got, stray, svc, db, conn, main, toMain, fromMain>>
      BY <1>4 DEF CopyFromMainFails, OutboundEnds, sessionVars
    <2>2. QED
      BY <1>1, <2>1 DEF OthersSame, Same, StrayInv
  <1>5. QED
    BY <1>2, <1>3, <1>4 DEF Outbound

\* The invariant with what the servers say unasked is inductive.
LEMMA NextSInv ==
    ASSUME SInv, [Next]_vars
    PROVE  SInv'
PROOF
  <1> USE DEF SInv
  <1>1. PInv'
    BY NextPInv
  <1>2. ASSUME NEW s \in Sessions, OthersSame(s), StrayInv(s)',
               \A t \in Sessions \ {s} : stray'[t] = stray[t]
        PROVE  SInv'
    BY <1>1, <1>2, StrayFrame DEF OthersSame
  <1>3. CASE UNCHANGED vars
    <2>1. \A t \in Sessions : Same(t) /\ stray'[t] = stray[t]
      BY <1>3 DEF vars, sessionVars, mainVars, Same
    <2>2. QED
      BY <1>1, <2>1, StrayFrame
  <1>4. ASSUME NEW c \in Conns, ReplicaAnswers(c) \/ ReplicaDrops(c) PROVE SInv'
    <2>1. \A t \in Sessions : Same(t) /\ stray'[t] = stray[t]
      BY <1>4 DEF ReplicaAnswers, ReplicaDrops, sessionVars, mainVars, Same
    <2>2. QED
      BY <1>1, <2>1, StrayFrame
  <1>5. ASSUME NEW s \in Sessions, Service(s) PROVE SInv'
    <2>1. CASE \/ DialMain(s) \/ DialMainFail(s) \/ ReadEOF(s)
               \/ GetIdle(s) \/ GetNew(s) \/ GetFails(s)
               \/ Query(s) \/ QueryFails(s) \/ CopyFails(s) \/ Put(s)
      BY <1>2, <2>1, QuietStray
    <2>2. CASE ForwardToMain(s) \/ ForwardFails(s) \/ ChooseDb(s)
      BY <1>2, <2>2, CommandStray
    <2>3. CASE CopyPacket(s)
      BY <1>2, <2>3, CopyPacketStray
    <2>4. CASE ReadGoodbye(s)
      BY <1>2, <2>4, ReadGoodbyeStray
    <2>5. QED
      BY <1>5, <2>1, <2>2, <2>3, <2>4 DEF Service
  <1>6. ASSUME NEW s \in Sessions, Outbound(s) PROVE SInv'
    BY <1>2, <1>6, OutboundStray
  <1>7. ASSUME NEW s \in Sessions, MainExecutes(s) \/ MainDrops(s) PROVE SInv'
    BY <1>2, <1>7, MainStray
  <1>8. ASSUME NEW s \in Sessions,
               \/ Accept(s) \/ (\E k \in Commands : ClientSend(s, k))
               \/ ClientLeave(s) \/ ClientClosed(s)
        PROVE  SInv'
    BY <1>2, <1>8, ClientStray
  <1> HIDE DEF SInv
  <1>9. CASE Next
    BY <1>4, <1>5, <1>6, <1>7, <1>8, <1>9 DEF Next
  <1>10. QED
    BY <1>3, <1>9

\* handleInbound and handleOutbound write to the same socket without a lock, yet
\* an answer comes from one server and nothing follows its last packet; the
\* main server's unsolicited packet may lie inside a replica's answer, but never
\* before something of its own, and a replica's never beside an answer.
THEOREM ProxyOneAnswer == Spec => []OneAnswer
PROOF
  <1>1. Init => SInv
    BY InitPInv DEF Init, SInv, StrayInv
  <1>2. SInv /\ [Next]_vars => SInv'
    BY NextSInv
  <1>3. SInv => OneAnswer
    <2> SUFFICES ASSUME SInv, NEW s \in Sessions
                 PROVE  /\ \A i, j \in DOMAIN got[s] :
                            /\ got[s][i].by = got[s][j].by
                            /\ i < j => ~Last(got[s][i])
                        /\ \A m \in stray[s] :
                            \/ m.by = "replica" /\ got[s] = <<>>
                            \/ /\ m.by = "main"
                               /\ \A i \in DOMAIN got[s] : got[s][i].by = "main" => i <= m.at
      BY DEF OneAnswer
    <2>1. ASSUME NEW i \in DOMAIN got[s], NEW j \in DOMAIN got[s]
          PROVE  got[s][i].by = got[s][j].by /\ (i < j => ~Last(got[s][i]))
      <3>1. got[s][i].by = got[s][j].by /\ (Last(got[s][i]) => i = Len(got[s]))
        BY DEF SInv, PInv, SessionInv, GotInv
      <3>2. i \in Nat /\ j \in Nat /\ j <= Len(got[s]) /\ Len(got[s]) \in Nat
        BY DEF SInv, PInv, TypeOK
      <3>3. QED
        BY <3>1, <3>2
    <2>2. QED
      BY <2>1 DEF SInv, StrayInv
  <1>4. QED
    BY <1>1, <1>2, <1>3, PTL DEF Spec

=============================================================================
