------------------------ MODULE PostgresProxyProofs ------------------------
(***************************************************************************)
(* Proofs about PostgresProxy, for any number of sessions, replicas, rows, *)
(* commands and failures.                                                  *)
(***************************************************************************)
EXTENDS PostgresProxy, FiniteSetTheorems, WellFoundedInduction, SequenceTheorems, TLAPS

\* handleInbound is in delegateSelect; it has rows.
Busy == {"query", "desc", "rows", "complete", "ready"}

HasRows == Busy \ {"query"}

\* The answer of the main server to the command with tag t.
Body(t) == Message(t, "main", "body", None)

Ready(t, open) == Message(t, "main", "ready", open)

FromMain(g, t) ==
    \/ g = <<>> \/ g = <<Body(t)>>
    \/ \E open \in BOOLEAN : g = <<Body(t), Ready(t, open)>>

\* Message i of the answer that writeDataRow puts together for n rows.
Line(t, cols, n, i) ==
    IF i = 1 THEN Message(t, "replica", "desc", prepareRowDescription(cols))
    ELSE IF i <= n + 1 THEN Message(t, "replica", "row", None)
    ELSE IF i = n + 2 THEN Message(t, "replica", "complete", n)
    ELSE Message(t, "replica", "ready", FALSE)

\* The client has received the first len of them.
Shown(g, t, cols, n, len) == Len(g) = len /\ \A i \in 1..len : g[i] = Line(t, cols, n, i)

FromReplica(g, t) ==
    \E cols \in ColumnSets, n \in 0..MaxRows : \E len \in 1..(n + 3) : Shown(g, t, cols, n, len)

\* The command of a session is in one place: not read, with the replica, with
\* the main server, or answered.
FlowInv(c, p, m) ==
    /\ c.st = "new" => p.pc \in {"off", "done"}
    /\ p.pc \in {"off", "dial"} \/ c.st = "new" => c.got = <<>>
    /\ c.st \in {"new", "idle"} =>
        c.in = None /\ m.in = <<>> /\ m.back = <<>> /\ p.pc \notin Busy
    /\ c.in # None => m.in = <<>> /\ m.back = <<>> /\ p.pc \notin Busy /\ c.got = <<>>
    /\ p.pc \in Busy => m.in = <<>> /\ m.back = <<>>
    /\ p.pc \in {"off", "dial", "done"} => m.in = <<>> /\ m.back = <<>> /\ m.link # "open"
    /\ m.in # <<>> =>
        /\ m.back = <<>> /\ c.got = <<>> /\ m.link = "open"
        /\ Len(m.in) = 1 /\ m.in[1][1] = c.req
    /\ m.back # <<>> =>
        \E open \in BOOLEAN :
            \/ m.back = <<Body(c.req), Ready(c.req, open)>> /\ c.got = <<>>
            \/ m.back = <<Ready(c.req, open)>> /\ c.got = <<Body(c.req)>>

\* What the client has received is the part of the answer that was sent to it.
GotInv(c, p) ==
    /\ p.pc \in {"query", "desc"} => c.got = <<>>
    /\ p.pc \in {"rows", "complete"} =>
        Shown(c.got, c.req, p.rows.cols, p.rows.count, p.rows.count + 1)
    /\ p.pc = "ready" => Shown(c.got, c.req, p.rows.cols, p.rows.count, p.rows.count + 2)
    /\ p.pc \notin Busy => FromMain(c.got, c.req) \/ FromReplica(c.got, c.req)

\* writeDataRow counts the rows it writes.
RowsInv(p) ==
    /\ p.pc \in HasRows => p.rows \in Results
    /\ p.pc \notin HasRows => p.rows = None
    /\ p.pc = "desc" => p.rows.count = 0
    /\ p.pc \in {"desc", "rows"} => p.rows.count <= p.rows.size /\ ~p.rows.cut
    /\ p.pc \in {"complete", "ready"} /\ ~p.rows.cut => p.rows.count = p.rows.size

\* A client that has left has received nothing that counts.
SessionInv(c, p, m) ==
    /\ RowsInv(p)
    /\ c.st = "gone" => c.got = <<>>
    /\ c.st # "gone" => FlowInv(c, p, m) /\ GotInv(c, p)

\* p.inTrans is not behind the main server, and what ReadyForQuery says is so.
GuessInv(c, p, m) ==
    c.st # "gone" /\ p.pc # "done" =>
        /\ c.in \in Tracked \cup {None}
        /\ m.link # "open" => ~m.tx.open
        /\ m.in = <<>> => (m.tx.open => p.inTrans)
        /\ m.in # <<>> =>
            /\ TxThen(m.in[1][2], m.tx).open => p.inTrans
            /\ m.in[1][2] = "write" => (m.tx.open => p.inTrans)
        /\ p.pc \in Busy => ~p.inTrans
        /\ m.back # <<>> /\ m.link = "open" => m.back[Len(m.back)].info = m.tx.open
        /\ c.st = "idle" /\ c.got # <<>> /\ m.link = "open" => c.got[Len(c.got)].info = m.tx.open

\* The inductive invariants, without and with the guess.
PInv == TypeOK /\ \A s \in Sessions : SessionInv(client[s], proxy[s], main[s])

TInv == \A s \in Sessions : GuessInv(client[s], proxy[s], main[s])

\* Every command is one of those that the proxy's guess is made for.
TrackedOnly == \A s \in Sessions : \A i \in DOMAIN Script[s] : Script[s][i] \subseteq Tracked

-----------------------------------------------------------------------------
(***************************************************************************)
(* Messages.                                                               *)
(***************************************************************************)

LEMMA MessageFacts ==
    ASSUME NEW t \in Nat, NEW b \in {"main", "replica"},
           NEW k \in {"desc", "row", "body", "complete", "ready"}, NEW i \in Infos
    PROVE  /\ Message(t, b, k, i) \in Messages
           /\ Message(t, b, k, i).tag = t /\ Message(t, b, k, i).by = b
           /\ Message(t, b, k, i).kind = k /\ Message(t, b, k, i).info = i
PROOF
  BY DEF Message, Messages

LEMMA InfoFacts ==
    /\ None \in Infos /\ BOOLEAN \subseteq Infos /\ 0..MaxRows \subseteq Infos
    /\ \A cols \in ColumnSets : prepareRowDescription(cols) \in Infos
PROOF
  BY DEF Infos

\* The answer of the main server, in the order in which it is copied.
LEMMA MainAnswerFacts ==
    ASSUME NEW t \in Nat, NEW open \in BOOLEAN
    PROVE  /\ Body(t) \in Messages /\ Ready(t, open) \in Messages
           /\ Body(t).kind = "body" /\ Ready(t, open).kind = "ready"
           /\ Ready(t, open).info = open
           /\ <<Body(t), Ready(t, open)>> # <<>> /\ <<Ready(t, open)>> # <<>>
           /\ Head(<<Body(t), Ready(t, open)>>) = Body(t)
           /\ Tail(<<Body(t), Ready(t, open)>>) = <<Ready(t, open)>>
           /\ Head(<<Ready(t, open)>>) = Ready(t, open) /\ Tail(<<Ready(t, open)>>) = <<>>
           /\ Append(<<>>, Body(t)) = <<Body(t)>>
           /\ Append(<<Body(t)>>, Ready(t, open)) = <<Body(t), Ready(t, open)>>
           /\ <<>> \o <<Body(t), Ready(t, open)>> = <<Body(t), Ready(t, open)>>
           /\ Len(<<Body(t), Ready(t, open)>>) = 2 /\ <<Body(t), Ready(t, open)>>[2] = Ready(t, open)
           /\ Len(<<Ready(t, open)>>) = 1 /\ <<Ready(t, open)>>[1] = Ready(t, open)
PROOF
  <1>1. /\ Body(t) \in Messages /\ Ready(t, open) \in Messages
        /\ Body(t).kind = "body" /\ Ready(t, open).kind = "ready"
        /\ Ready(t, open).info = open
    BY MessageFacts, InfoFacts DEF Body, Ready
  <1>2. ASSUME NEW a, NEW b
        PROVE  /\ <<a, b>> # <<>> /\ <<b>> # <<>> /\ Head(<<a, b>>) = a /\ Tail(<<a, b>>) = <<b>>
               /\ Head(<<b>>) = b /\ Tail(<<b>>) = <<>>
               /\ Append(<<>>, a) = <<a>> /\ Append(<<a>>, b) = <<a, b>>
               /\ <<>> \o <<a, b>> = <<a, b>>
               /\ Len(<<a, b>>) = 2 /\ <<a, b>>[2] = b /\ Len(<<b>>) = 1 /\ <<b>>[1] = b
    <2>1. <<a, b>> # <<>> /\ <<b>> # <<>> /\ Head(<<a, b>>) = a /\ Head(<<b>>) = b
      OBVIOUS
    <2>6. Tail(<<a, b>>) = <<b>>
      <3>1. <<a, b>> \in Seq({a, b}) /\ <<b>> \in Seq({a, b}) /\ Len(<<a, b>>) = 2
        OBVIOUS
      <3>2. Tail(<<a, b>>) \in Seq({a, b}) /\ Len(Tail(<<a, b>>)) = 1 /\ Tail(<<a, b>>)[1] = b
        BY <3>1
      <3>3. Len(<<b>>) = 1 /\ <<b>>[1] = b
        OBVIOUS
      <3>4. QED
        BY <3>1, <3>2, <3>3, SeqEqual
    <2>7. Tail(<<b>>) = <<>>
      <3>1. \A e : Tail(<<e>>) = <<>>
        OBVIOUS
      <3>2. QED
        BY <3>1
    <2>2. Append(<<>>, a) = <<a>>
      OBVIOUS
    <2>3. Append(<<a>>, b) = <<a, b>>
      <3>1. /\ <<a, b>> \in Seq({a, b}) /\ Len(<<a, b>>) = 2
            /\ <<a, b>>[1] = a /\ <<a, b>>[2] = b
        OBVIOUS
      <3>2. <<a>> \in Seq({a, b}) /\ Len(<<a>>) = 1 /\ <<a>>[1] = a
        OBVIOUS
      <3>3. /\ Append(<<a>>, b) \in Seq({a, b}) /\ Len(Append(<<a>>, b)) = 2
            /\ Append(<<a>>, b)[1] = a /\ Append(<<a>>, b)[2] = b
        BY <3>2
      <3>4. \A i \in 1..2 : Append(<<a>>, b)[i] = <<a, b>>[i]
        BY <3>1, <3>3
      <3>5. QED
        BY <3>1, <3>3, <3>4, SeqEqual
    <2>4. <<>> \o <<a, b>> = <<a, b>>
      OBVIOUS
    <2>5. Len(<<a, b>>) = 2 /\ <<a, b>>[2] = b /\ Len(<<b>>) = 1 /\ <<b>>[1] = b
      OBVIOUS
    <2>8. QED
      BY <2>1, <2>2, <2>3, <2>4, <2>5, <2>6, <2>7
  <1>3. QED
    BY <1>1, <1>2

\* What the replica's rows look like to the client.
LEMMA LineFacts ==
    ASSUME NEW t \in Nat, NEW cols \in ColumnSets, NEW n \in 0..MaxRows, NEW i \in Nat \ {0}
    PROVE  /\ Line(t, cols, n, i) \in Messages
           /\ Line(t, cols, n, i).tag = t /\ Line(t, cols, n, i).by = "replica"
           /\ i = 1 => /\ Line(t, cols, n, i).kind = "desc"
                       /\ Line(t, cols, n, i).info = prepareRowDescription(cols)
           /\ i \in 2..(n + 1) => Line(t, cols, n, i).kind = "row"
           /\ i = n + 2 => Line(t, cols, n, i).kind = "complete" /\ Line(t, cols, n, i).info = n
           /\ i > n + 2 => Line(t, cols, n, i).kind = "ready"
PROOF
  <1>1. n \in Nat
    BY PostgresAssumption
  <1>2. CASE i = 1
    BY <1>1, <1>2, MessageFacts, InfoFacts DEF Line
  <1>3. CASE i # 1 /\ i <= n + 1
    <2>1. Line(t, cols, n, i) = Message(t, "replica", "row", None)
      BY <1>3 DEF Line
    <2>2. QED
      BY <1>1, <1>3, <2>1, MessageFacts, InfoFacts
  <1>4. CASE i # 1 /\ i = n + 2
    <2>1. Line(t, cols, n, i) = Message(t, "replica", "complete", n)
      BY <1>1, <1>4 DEF Line
    <2>2. QED
      BY <1>1, <1>4, <2>1, MessageFacts, InfoFacts
  <1>5. CASE i # 1 /\ i > n + 2
    <2>1. i # 1 /\ ~(i <= n + 1) /\ i # n + 2 /\ i \notin 2..(n + 1)
      BY <1>1, <1>5
    <2>2. Line(t, cols, n, i) = Message(t, "replica", "ready", FALSE)
      BY <2>1, Zenon DEF Line
    <2>3. /\ Message(t, "replica", "ready", FALSE) \in Messages
          /\ Message(t, "replica", "ready", FALSE).tag = t
          /\ Message(t, "replica", "ready", FALSE).by = "replica"
          /\ Message(t, "replica", "ready", FALSE).kind = "ready"
          /\ Message(t, "replica", "ready", FALSE).info = FALSE
      <3>1. FALSE \in Infos
        BY InfoFacts
      <3>2. QED
        BY <3>1 DEF Message, Messages
    <2>4. QED
      BY <2>1, <2>2, <2>3, Zenon
  <1>6. i = 1 \/ (i # 1 /\ i <= n + 1) \/ (i # 1 /\ i = n + 2) \/ (i # 1 /\ i > n + 2)
    BY <1>1
  <1>7. QED
    BY <1>2, <1>3, <1>4, <1>5, <1>6, Zenon

\* One more message of an answer.
LEMMA ShownFacts ==
    ASSUME NEW g \in Seq(Messages), NEW t \in Nat, NEW cols \in ColumnSets,
           NEW n \in 0..MaxRows, NEW k \in {n, n + 1}, NEW len \in Nat,
           len <= n + 1 \/ k = n, k \in 0..MaxRows,
           Shown(g, t, cols, n, len)
    PROVE  Shown(Append(g, Line(t, cols, k, len + 1)), t, cols, k, len + 1)
PROOF
  <1> DEFINE e == Line(t, cols, k, len + 1)
  <1>1. e \in Messages
    <2>1. len + 1 \in Nat \ {0}
      OBVIOUS
    <2>2. QED
      BY <2>1, LineFacts
  <1>2. \A i \in 1..len : Line(t, cols, n, i) = Line(t, cols, k, i)
    <2>1. CASE k = n
      BY <2>1
    <2>2. CASE k = n + 1 /\ len <= n + 1
      <3> SUFFICES ASSUME NEW i \in 1..len
                   PROVE  Line(t, cols, n, i) = Line(t, cols, k, i)
        OBVIOUS
      <3>1. i <= n + 1 /\ i <= k + 1
        BY <2>2
      <3>2. QED
        BY <3>1, Zenon DEF Line
    <2>3. QED
      BY <2>1, <2>2
  <1>3. Len(g) = len /\ \A i \in 1..len : g[i] = Line(t, cols, n, i)
    BY DEF Shown
  <1> HIDE DEF e
  <1>4. /\ Len(Append(g, e)) = len + 1 /\ Append(g, e)[len + 1] = e
        /\ \A i \in 1..len : Append(g, e)[i] = g[i]
    BY <1>1, <1>3
  <1>5. \A i \in 1..(len + 1) : Append(g, e)[i] = Line(t, cols, k, i)
    BY <1>2, <1>3, <1>4 DEF e
  <1>6. QED
    BY <1>4, <1>5 DEF Shown, e

\* Nothing of an answer, or only its description.
LEMMA FirstLine ==
    ASSUME NEW t, NEW cols, NEW n
    PROVE  Shown(<<>>, t, cols, n, 0) /\ Line(t, cols, n, 1) = Line(t, cols, 0, 1)
PROOF
  BY DEF Shown, Line

-----------------------------------------------------------------------------
(***************************************************************************)
(* A step of one session.                                                  *)
(***************************************************************************)

\* The sessions have nothing in common but the connections they wait for.
LEMMA SessionStep ==
    ASSUME PInv, NEW s \in Sessions, faults' \in 0..MaxFaults,
           NEW c \in Clients, NEW p \in Proxies, NEW m \in Mains,
           client' = [client EXCEPT ![s] = c] \/ (client' = client /\ c = client[s]),
           proxy' = [proxy EXCEPT ![s] = p] \/ (proxy' = proxy /\ p = proxy[s]),
           main' = [main EXCEPT ![s] = m] \/ (main' = main /\ m = main[s]),
           SessionInv(c, p, m)
    PROVE  /\ PInv'
           /\ TInv /\ GuessInv(c, p, m) => TInv'
PROOF
  <1>1. TypeOK
    BY DEF PInv
  <1>2. client' \in [Sessions -> Clients] /\ client'[s] = c
    BY <1>1 DEF TypeOK
  <1>3. proxy' \in [Sessions -> Proxies] /\ proxy'[s] = p
    BY <1>1 DEF TypeOK
  <1>4. main' \in [Sessions -> Mains] /\ main'[s] = m
    BY <1>1 DEF TypeOK
  <1>5. \A t \in Sessions \ {s} : client'[t] = client[t] /\ proxy'[t] = proxy[t] /\ main'[t] = main[t]
    BY <1>1 DEF TypeOK
  <1>6. TypeOK'
    BY <1>2, <1>3, <1>4 DEF TypeOK
  <1>7. \A t \in Sessions : SessionInv(client'[t], proxy'[t], main'[t])
    BY <1>2, <1>3, <1>4, <1>5 DEF PInv
  <1>8. ASSUME TInv, GuessInv(c, p, m)
        PROVE  \A t \in Sessions : GuessInv(client'[t], proxy'[t], main'[t])
    BY <1>2, <1>3, <1>4, <1>5, <1>8 DEF TInv
  <1>9. QED
    BY <1>6, <1>7, <1>8 DEF PInv, TInv

\* What a step has to keep: the guess only matters for the commands it is for.
Kept == PInv' /\ (TrackedOnly /\ TInv => TInv')

LEMMA SessionFacts ==
    ASSUME PInv, NEW s \in Sessions
    PROVE  /\ client[s] \in Clients /\ proxy[s] \in Proxies /\ main[s] \in Mains
           /\ SessionInv(client[s], proxy[s], main[s])
           /\ TInv => GuessInv(client[s], proxy[s], main[s])
PROOF
  BY DEF PInv, TInv, TypeOK

LEMMA NotBusy == {"off", "dial", "read", "done"} \cap Busy = {} /\ HasRows \subseteq Busy
PROOF
  BY DEF Busy, HasRows

-----------------------------------------------------------------------------
(***************************************************************************)
(* Clients.                                                                *)
(***************************************************************************)

LEMMA AcceptStep ==
    ASSUME PInv, NEW s \in Sessions, Accept(s), faults' \in 0..MaxFaults
    PROVE  Kept
PROOF
  <1> DEFINE c == client[s]  p == proxy[s]  m == main[s]
             c1 == [c EXCEPT !.st = "idle"]
             p1 == [p EXCEPT !.pc = "dial"]
  <1>1. /\ c \in Clients /\ p \in Proxies /\ m \in Mains /\ SessionInv(c, p, m)
        /\ TInv => GuessInv(c, p, m)
    BY SessionFacts
  <1>2. /\ client' = [client EXCEPT ![s] = c1] /\ proxy' = [proxy EXCEPT ![s] = p1] /\ main' = main
        /\ c.st = "new" /\ p.pc = "off"
    BY DEF Accept
  <1>3. /\ c1 \in Clients /\ c1.st = "idle" /\ c1.in = c.in /\ c1.got = c.got /\ c1.req = c.req
        /\ p1 \in Proxies /\ p1.pc = "dial" /\ p1.rows = p.rows /\ p1.inTrans = p.inTrans
    BY <1>1 DEF Clients, Proxies
  <1>4. c.got = <<>>
    BY <1>1, <1>2 DEF SessionInv, FlowInv
  <1> HIDE DEF c, p, m, c1, p1
  <1>5. SessionInv(c1, p1, m)
    BY <1>1, <1>2, <1>3, <1>4, NotBusy DEF SessionInv, FlowInv, GotInv, RowsInv
  <1>6. TInv => GuessInv(c1, p1, m)
    BY <1>1, <1>2, <1>3, <1>4, NotBusy DEF GuessInv
  <1>7. QED
    BY <1>1, <1>2, <1>3, <1>5, <1>6, SessionStep DEF Kept, m

LEMMA ClientSendStep ==
    ASSUME PInv, NEW s \in Sessions, ClientSend(s), faults' \in 0..MaxFaults
    PROVE  Kept
PROOF
  <1>0. PICK k \in Script[s][client[s].req + 1] :
            client' = [client EXCEPT ![s] = 
                [st |-> "waiting", req |-> @.req + 1, in |-> k, got |-> <<>>, stray |-> {}]]
    BY DEF ClientSend
  <1> DEFINE c == client[s]  p == proxy[s]  m == main[s]
             c1 == [st |-> "waiting", req |-> c.req + 1, in |-> k, got |-> <<>>, stray |-> {}]
             p1 == [p EXCEPT !.dropped = FALSE]
  <1>1. /\ c \in Clients /\ p \in Proxies /\ m \in Mains /\ SessionInv(c, p, m)
        /\ TInv => GuessInv(c, p, m)
    BY SessionFacts
  <1>2. /\ client' = [client EXCEPT ![s] = c1] /\ proxy' = [proxy EXCEPT ![s] = p1] /\ main' = main
        /\ c.st = "idle" /\ c.req < Len(Script[s])
    BY <1>0 DEF ClientSend
  <1>3. k \in Kinds /\ (TrackedOnly => k \in Tracked)
    <2>1. c.req + 1 \in DOMAIN Script[s] /\ Script[s] \in Seq(SUBSET Kinds)
      BY <1>1, <1>2, PostgresAssumption, SMTT(30) DEF Clients
    <2>2. Script[s][c.req + 1] \in SUBSET Kinds
      BY <2>1
    <2>3. TrackedOnly => Script[s][c.req + 1] \in SUBSET Tracked
      BY <2>1 DEF TrackedOnly
    <2>4. QED
      BY <2>2, <2>3
  <1>4. /\ c1 \in Clients /\ c1.st = "waiting" /\ c1.in = k /\ c1.got = <<>>
        /\ p1 \in Proxies /\ p1.pc = p.pc /\ p1.rows = p.rows /\ p1.inTrans = p.inTrans
    <2>1. c.req + 1 \in Nat /\ <<>> \in Seq(Messages)
      BY <1>1 DEF Clients
    <2>2. c1 \in Clients
      BY <1>3, <2>1 DEF Clients, Waiting
    <2>3. QED
      BY <1>1, <2>2 DEF Proxies
  <1>5. m.in = <<>> /\ m.back = <<>> /\ p.pc \notin Busy
    BY <1>1, <1>2 DEF SessionInv, FlowInv
  <1> HIDE DEF c, p, m, c1, p1
  <1>6. SessionInv(c1, p1, m)
    <2>1. RowsInv(p1)
      BY <1>1, <1>4 DEF SessionInv, RowsInv
    <2>2. FlowInv(c1, p1, m)
      BY <1>1, <1>2, <1>4, <1>5 DEF SessionInv, FlowInv
    <2>3. GotInv(c1, p1)
      BY <1>4, <1>5, NotBusy DEF GotInv, Busy, FromMain
    <2>4. QED
      BY <1>4, <2>1, <2>2, <2>3 DEF SessionInv
  <1>7. TrackedOnly /\ TInv => GuessInv(c1, p1, m)
    BY <1>1, <1>2, <1>3, <1>4, <1>5 DEF GuessInv
  <1>8. QED
    BY <1>1, <1>2, <1>4, <1>6, <1>7, SessionStep DEF Kept, m

LEMMA ClientStallStep ==
    ASSUME PInv, NEW s \in Sessions, ClientStall(s), faults' \in 0..MaxFaults
    PROVE  Kept
PROOF
  <1> DEFINE c == client[s]  p == proxy[s]  m == main[s]
             c1 == [c EXCEPT !.st = "stalled"]
  <1>1. /\ c \in Clients /\ p \in Proxies /\ m \in Mains /\ SessionInv(c, p, m)
        /\ TInv => GuessInv(c, p, m)
    BY SessionFacts
  <1>2. client' = [client EXCEPT ![s] = c1] /\ proxy' = proxy /\ main' = main /\ c.st = "waiting"
    BY DEF ClientStall
  <1>3. /\ c1 \in Clients /\ c1.st = "stalled" /\ c1.in = c.in /\ c1.got = c.got /\ c1.req = c.req
    BY <1>1 DEF Clients, Waiting
  <1> HIDE DEF c, p, m, c1
  <1>4. SessionInv(c1, p, m)
    BY <1>1, <1>2, <1>3 DEF SessionInv, FlowInv, GotInv
  <1>5. TInv => GuessInv(c1, p, m)
    BY <1>1, <1>2, <1>3 DEF GuessInv
  <1>6. QED
    BY <1>1, <1>2, <1>3, <1>4, <1>5, SessionStep DEF Kept, p, m

LEMMA ClientLeaveStep ==
    ASSUME PInv, NEW s \in Sessions, ClientLeave(s), faults' \in 0..MaxFaults
    PROVE  Kept
PROOF
  <1> DEFINE c == client[s]  p == proxy[s]  m == main[s]
             c1 == [c EXCEPT !.st = "gone", !.got = <<>>, !.stray = {}]
  <1>1. /\ c \in Clients /\ p \in Proxies /\ m \in Mains /\ SessionInv(c, p, m)
        /\ TInv => GuessInv(c, p, m)
    BY SessionFacts
  <1>2. client' = [client EXCEPT ![s] = c1] /\ proxy' = proxy /\ main' = main
    BY <1>1 DEF ClientLeave, Clients
  <1>3. c1 \in Clients /\ c1.st = "gone" /\ c1.got = <<>>
    <2>1. <<>> \in Seq(Messages)
      BY EmptySeq
    <2>2. QED
      BY <1>1, <2>1 DEF Clients
  <1> HIDE DEF c, p, m, c1
  <1>4. SessionInv(c1, p, m)
    BY <1>1, <1>3 DEF SessionInv
  <1>5. GuessInv(c1, p, m)
    BY <1>3 DEF GuessInv
  <1>6. QED
    BY <1>1, <1>2, <1>3, <1>4, <1>5, SessionStep DEF Kept, p, m

-----------------------------------------------------------------------------
(***************************************************************************)
(* service, handleInbound and delegateSelect.                              *)
(***************************************************************************)

LEMMA DialMainStep ==
    ASSUME PInv, NEW s \in Sessions, DialMain(s), faults' \in 0..MaxFaults
    PROVE  Kept
PROOF
  <1> DEFINE c == client[s]  p == proxy[s]  m == main[s]
             p1 == [p EXCEPT !.pc = "read"]
             m1 == [m EXCEPT !.link = "open", !.out = "run"]
  <1>1. /\ c \in Clients /\ p \in Proxies /\ m \in Mains /\ SessionInv(c, p, m)
        /\ TInv => GuessInv(c, p, m)
    BY SessionFacts
  <1>2. /\ client' = client /\ proxy' = [proxy EXCEPT ![s] = p1] /\ main' = [main EXCEPT ![s] = m1]
        /\ p.pc = "dial"
    BY <1>1 DEF DialMain, Mains
  <1>3. /\ p1 \in Proxies /\ p1.pc = "read" /\ p1.rows = p.rows /\ p1.inTrans = p.inTrans
        /\ m1 \in Mains /\ m1.link = "open" /\ m1.in = m.in /\ m1.back = m.back /\ m1.tx = m.tx
    BY <1>1 DEF Proxies, Mains
  <1> HIDE DEF c, p, m, p1, m1
  <1>4. SessionInv(c, p1, m1)
    BY <1>1, <1>2, <1>3, NotBusy DEF SessionInv, FlowInv, GotInv, RowsInv
  <1>5. TInv => GuessInv(c, p1, m1)
    BY <1>1, <1>2, <1>3, NotBusy DEF GuessInv, SessionInv, FlowInv
  <1>6. QED
    BY <1>1, <1>2, <1>3, <1>4, <1>5, SessionStep DEF Kept, c

LEMMA DialMainFailStep ==
    ASSUME PInv, NEW s \in Sessions, DialMainFail(s), faults' \in 0..MaxFaults
    PROVE  Kept
PROOF
  <1> DEFINE c == client[s]  p == proxy[s]  m == main[s]
             p1 == [p EXCEPT !.pc = "done"]
  <1>1. /\ c \in Clients /\ p \in Proxies /\ m \in Mains /\ SessionInv(c, p, m)
        /\ TInv => GuessInv(c, p, m)
    BY SessionFacts
  <1>2. client' = client /\ proxy' = [proxy EXCEPT ![s] = p1] /\ main' = main /\ p.pc = "dial"
    BY DEF DialMainFail
  <1>3. p1 \in Proxies /\ p1.pc = "done" /\ p1.rows = p.rows
    BY <1>1 DEF Proxies
  <1> HIDE DEF c, p, m, p1
  <1>4. SessionInv(c, p1, m)
    BY <1>1, <1>2, <1>3, NotBusy DEF SessionInv, FlowInv, GotInv, RowsInv
  <1>5. GuessInv(c, p1, m)
    BY <1>3 DEF GuessInv
  <1>6. QED
    BY <1>1, <1>2, <1>3, <1>4, <1>5, SessionStep DEF Kept, c, m

\* handleInbound returns.
LEMMA EndServiceStep ==
    ASSUME PInv, NEW s \in Sessions, NEW guess \in BOOLEAN, EndService(s, guess),
           NEW in, in = client[s].in \/ in = None, proxy[s].pc = "read",
           client' = [client EXCEPT ![s].in = in] \/ (client' = client /\ in = client[s].in),
           faults' \in 0..MaxFaults
    PROVE  Kept
PROOF
  <1> DEFINE c == client[s]  p == proxy[s]  m == main[s]
             c1 == [c EXCEPT !.in = in]
             p1 == [p EXCEPT !.pc = "done", !.inTrans = guess]
             m1 == [m EXCEPT !.link = "closed", !.in = <<>>, !.back = <<>>]
  <1>1. /\ c \in Clients /\ p \in Proxies /\ m \in Mains /\ SessionInv(c, p, m)
        /\ TInv => GuessInv(c, p, m)
    BY SessionFacts
  <1>2. /\ client' = [client EXCEPT ![s] = c1] \/ (client' = client /\ c1 = client[s])
        /\ proxy' = [proxy EXCEPT ![s] = p1] /\ main' = [main EXCEPT ![s] = m1]
    BY <1>1, ZenonT(60) DEF EndService, Clients, Proxies, Mains
  <1>3. /\ c1 \in Clients /\ c1.st = c.st /\ c1.in = in /\ c1.got = c.got /\ c1.req = c.req
        /\ p1 \in Proxies /\ p1.pc = "done" /\ p1.rows = p.rows
        /\ m1 \in Mains /\ m1.in = <<>> /\ m1.back = <<>> /\ m1.link = "closed"
    <2>1. <<>> \in Seq(Messages) /\ <<>> \in Seq(Nat \X Kinds)
      BY EmptySeq
    <2>2. QED
      BY <1>1, <2>1 DEF Clients, Proxies, Mains
  <1>4. p.pc = "read"
    OBVIOUS
  <1>5. in = c.in \/ in = None
    OBVIOUS
  <1> HIDE DEF c, p, m, c1, p1, m1
  <1>6. SessionInv(c1, p1, m1)
    BY <1>1, <1>3, <1>4, <1>5, NotBusy DEF SessionInv, FlowInv, GotInv, RowsInv
  <1>7. GuessInv(c1, p1, m1)
    BY <1>3 DEF GuessInv
  <1>8. QED
    BY <1>1, <1>2, <1>3, <1>6, <1>7, SessionStep DEF Kept

LEMMA ReadEOFStep ==
    ASSUME PInv, NEW s \in Sessions, ReadEOF(s), faults' \in 0..MaxFaults
    PROVE  Kept
PROOF
  <1>1. proxy[s].inTrans \in BOOLEAN
    BY SessionFacts DEF Proxies
  <1>2. QED
    BY <1>1, EndServiceStep DEF ReadEOF

\* What is seen of a command that goes to the main server covers what it does.
LEMMA TrackFacts ==
    ASSUME NEW k \in Tracked, NEW tx \in TxStates, NEW guess \in BOOLEAN, tx.open => guess,
           ~(IsQuery(k) /\ MatchSelect(k) /\ ~guess)
    PROVE  LET after == IF IsQuery(k) THEN TrackTrans(k, guess) ELSE guess
           IN  /\ TxThen(k, tx).open => after
               /\ k = "write" => (tx.open => after)
PROOF
  BY DEF Tracked, Plain, TxStates, IsQuery, MatchSelect, MatchEnd, MatchBegin, TrackTrans, TxThen

LEMMA ForwardToMainStep ==
    ASSUME PInv, NEW s \in Sessions, ForwardToMain(s), faults' \in 0..MaxFaults
    PROVE  Kept
PROOF
  <1> DEFINE c == client[s]  p == proxy[s]  m == main[s]
             guess == IF IsQuery(c.in) THEN TrackTrans(c.in, p.inTrans) ELSE p.inTrans
             in == IF m.link = "open" THEN Append(m.in, <<c.req, c.in>>) ELSE m.in
             c1 == [c EXCEPT !.in = None]
             p1 == [p EXCEPT !.inTrans = guess]
             m1 == [m EXCEPT !.in = in]
  <1>1. /\ c \in Clients /\ p \in Proxies /\ m \in Mains /\ SessionInv(c, p, m)
        /\ TInv => GuessInv(c, p, m)
    BY SessionFacts
  <1>2. p.pc = "read" /\ c.in # None /\ ~ToReplica(s)
    BY DEF ForwardToMain
  <1>3. guess \in BOOLEAN /\ c.in \in Kinds
    BY <1>1, <1>2 DEF Proxies, Clients, TrackTrans, MatchEnd, MatchBegin
  <1>4. CASE EndService(s, guess)
    BY <1>2, <1>3, <1>4, EndServiceStep DEF ForwardToMain
  <1>5. CASE proxy' = [proxy EXCEPT ![s].inTrans = guess] /\ main' = [main EXCEPT ![s].in = in]
    <2>1. /\ client' = [client EXCEPT ![s] = c1] /\ proxy' = [proxy EXCEPT ![s] = p1]
          /\ main' = [main EXCEPT ![s] = m1]
      BY <1>5 DEF ForwardToMain
    <2>2. c.st # "gone" => m.in = <<>> /\ m.back = <<>> /\ c.got = <<>>
      BY <1>1, <1>2 DEF SessionInv, FlowInv
    <2>3. <<c.req, c.in>> \in Nat \X Kinds /\ m.in \in Seq(Nat \X Kinds)
      BY <1>1, <1>3 DEF Clients, Mains
    <2>4. /\ in \in Seq(Nat \X Kinds)
          /\ m.in = <<>> => in = <<>> \/ (m.link = "open" /\ Len(in) = 1 /\ in[1] = <<c.req, c.in>>)
          /\ m.link = "open" => in # <<>>
      <3>1. /\ Append(m.in, <<c.req, c.in>>) \in Seq(Nat \X Kinds)
            /\ Append(m.in, <<c.req, c.in>>) # <<>>
        BY <2>3, SMTT(40)
      <3>2. m.in = <<>> => /\ Len(Append(m.in, <<c.req, c.in>>)) = 1
                           /\ Append(m.in, <<c.req, c.in>>)[1] = <<c.req, c.in>>
        BY <2>3
      <3>3. QED
        BY <2>3, <3>1, <3>2
    <2>5. /\ c1 \in Clients /\ c1.st = c.st /\ c1.in = None /\ c1.got = c.got /\ c1.req = c.req
          /\ p1 \in Proxies /\ p1.pc = p.pc /\ p1.rows = p.rows /\ p1.inTrans = guess
      BY <1>1, <1>3 DEF Clients, Proxies
    <2>6. /\ m1 \in Mains /\ m1.in = in /\ m1.back = m.back /\ m1.link = m.link /\ m1.tx = m.tx
      BY <1>1, <2>4 DEF Mains
    <2>7. <<c.req, c.in>>[1] = c.req /\ <<c.req, c.in>>[2] = c.in
      OBVIOUS
    <2>8. TrackedOnly /\ TInv /\ c.st # "gone" =>
              /\ m.tx.open => p.inTrans
              /\ m.link # "open" => ~m.tx.open
              /\ TxThen(c.in, m.tx).open => guess
              /\ c.in = "write" => (m.tx.open => guess)
      <3> SUFFICES ASSUME TrackedOnly, TInv, c.st # "gone"
                   PROVE  /\ m.tx.open => p.inTrans
                          /\ m.link # "open" => ~m.tx.open
                          /\ TxThen(c.in, m.tx).open => guess
                          /\ c.in = "write" => (m.tx.open => guess)
        OBVIOUS
      <3>1. m.link # "open" => ~m.tx.open
        BY <1>1, <1>2 DEF GuessInv
      <3>2. c.in \in Tracked
        BY <1>1, <1>2 DEF GuessInv
      <3>3. m.tx.open => p.inTrans
        BY <1>1, <1>2, <2>2 DEF GuessInv
      <3>4. m.tx \in TxStates /\ p.inTrans \in BOOLEAN
        BY <1>1 DEF Mains, Proxies
      <3>5. ~(IsQuery(c.in) /\ MatchSelect(c.in) /\ ~p.inTrans)
        BY <1>2 DEF ToReplica
      <3> HIDE DEF c, p, m
      <3>6. /\ TxThen(c.in, m.tx).open => guess
            /\ c.in = "write" => (m.tx.open => guess)
        BY <3>2, <3>3, <3>4, <3>5, TrackFacts
      <3>7. QED
        BY <3>1, <3>3, <3>6
    <2> HIDE DEF c, p, m, c1, p1, m1, guess, in
    <2>9. SessionInv(c1, p1, m1)
      <3>1. RowsInv(p1)
        BY <1>1, <2>5 DEF SessionInv, RowsInv
      <3>2. c1.st = "gone" => c1.got = <<>>
        BY <1>1, <2>5 DEF SessionInv
      <3>3. ASSUME c1.st # "gone"
            PROVE  FlowInv(c1, p1, m1) /\ GotInv(c1, p1)
        <4>1. FlowInv(c, p, m) /\ GotInv(c, p)
          BY <1>1, <2>5, <3>3 DEF SessionInv
        <4>2. GotInv(c1, p1)
          BY <1>2, <2>5, <4>1, NotBusy DEF GotInv
        <4>3. FlowInv(c1, p1, m1)
          BY <1>2, <2>2, <2>4, <2>5, <2>6, <2>7, <3>3, <4>1, NotBusy DEF FlowInv
        <4>4. QED
          BY <4>2, <4>3
      <3>4. QED
        BY <3>1, <3>2, <3>3 DEF SessionInv
    <2>10. TrackedOnly /\ TInv => GuessInv(c1, p1, m1)
      <3> SUFFICES ASSUME TrackedOnly, TInv, c.st # "gone"
                   PROVE  GuessInv(c1, p1, m1)
        BY <2>5 DEF GuessInv
      <3>1. m1.link = "open" => /\ m1.in # <<>> /\ m1.in[1][2] = c.in /\ m1.tx = m.tx
                                /\ m1.back = <<>> /\ c1.got = <<>>
        BY <2>2, <2>4, <2>5, <2>6, <2>7
      <3>2. m1.link # "open" => m1.in = <<>> /\ ~m1.tx.open /\ m1.back = <<>>
        BY <2>2, <2>4, <2>6, <2>8
      <3>3. QED
        BY <1>2, <2>5, <2>6, <2>8, <3>1, <3>2, NotBusy DEF GuessInv
    <2>11. QED
      BY <1>1, <2>1, <2>5, <2>6, <2>9, <2>10, SessionStep DEF Kept
  <1>6. QED
    BY <1>4, <1>5 DEF ForwardToMain

LEMMA ChooseDbStep ==
    ASSUME PInv, NEW s \in Sessions, ChooseDb(s), faults' \in 0..MaxFaults
    PROVE  Kept
PROOF
  <1>0. PICK r \in 0..(totalWeight - 1) :
            proxy' = [proxy EXCEPT ![s].db = chooseByWeight(r), ![s].pc = "query"]
    BY DEF ChooseDb
  <1> DEFINE c == client[s]  p == proxy[s]  m == main[s]
             db == chooseByWeight(r)
             c1 == [c EXCEPT !.in = None]
             p1 == [p EXCEPT !.db = db, !.pc = "query"]
  <1>1. /\ c \in Clients /\ p \in Proxies /\ m \in Mains /\ SessionInv(c, p, m)
        /\ TInv => GuessInv(c, p, m)
    BY SessionFacts
  <1>2. /\ p.pc = "read" /\ c.in # None /\ ~p.inTrans /\ main' = main
        /\ client' = [client EXCEPT ![s] = c1] /\ proxy' = [proxy EXCEPT ![s] = p1]
    BY <1>0, <1>1 DEF ChooseDb, ToReplica, Proxies
  <1>3. db \in {chooseByWeight(q) : q \in 0..(totalWeight - 1)} \cup {None}
    BY <1>0
  <1> HIDE DEF db
  <1>4. /\ c1 \in Clients /\ c1.st = c.st /\ c1.in = None /\ c1.got = c.got /\ c1.req = c.req
        /\ p1 \in Proxies /\ p1.pc = "query" /\ p1.rows = p.rows /\ p1.inTrans = p.inTrans
    BY <1>1, <1>3 DEF Clients, Proxies
  <1> HIDE DEF c, p, m, c1, p1
  <1>5. "query" \notin HasRows /\ "query" \in Busy
    BY DEF HasRows, Busy
  <1>6. c.st # "gone" => m.in = <<>> /\ m.back = <<>> /\ c.got = <<>> /\ c.st \notin {"new", "idle"}
    BY <1>1, <1>2 DEF SessionInv, FlowInv
  <1>7. SessionInv(c1, p1, m)
    <2>1. RowsInv(p1)
      BY <1>1, <1>2, <1>4, <1>5, NotBusy DEF SessionInv, RowsInv
    <2>2. QED
      BY <1>1, <1>4, <1>5, <1>6, <2>1 DEF SessionInv, FlowInv, GotInv
  <1>8. TInv => GuessInv(c1, p1, m)
    BY <1>1, <1>2, <1>4, <1>6 DEF GuessInv
  <1>9. QED
    BY <1>1, <1>2, <1>4, <1>7, <1>8, SessionStep DEF Kept, m

-----------------------------------------------------------------------------
(***************************************************************************)
(* writeDataRow.                                                           *)
(***************************************************************************)

LEMMA QueryStep ==
    ASSUME PInv, NEW s \in Sessions, Query(s), faults' \in 0..MaxFaults
    PROVE  Kept
PROOF
  <1>0. PICK cols \in ColumnSets, n \in 0..MaxRows :
            proxy' = [proxy EXCEPT ![s].pc = "desc",
                          ![s].rows = [cols |-> cols, size |-> n, count |-> 0, cut |-> FALSE]]
    BY DEF Query
  <1> DEFINE c == client[s]  p == proxy[s]  m == main[s]
             rows == [cols |-> cols, size |-> n, count |-> 0, cut |-> FALSE]
             p1 == [p EXCEPT !.pc = "desc", !.rows = rows]
  <1>1. /\ c \in Clients /\ p \in Proxies /\ m \in Mains /\ SessionInv(c, p, m)
        /\ TInv => GuessInv(c, p, m)
    BY SessionFacts
  <1>2. client' = client /\ main' = main /\ proxy' = [proxy EXCEPT ![s] = p1] /\ p.pc = "query"
    BY <1>0, <1>1, ZenonT(60) DEF Query, Proxies
  <1>3. rows \in Results /\ rows.count = 0 /\ rows.count <= rows.size /\ ~rows.cut
    <2>1. 0 \in 0..MaxRows
      BY PostgresAssumption
    <2>2. QED
      BY <2>1 DEF Results
  <1> HIDE DEF rows
  <1>4. p1 \in Proxies /\ p1.pc = "desc" /\ p1.rows = rows /\ p1.inTrans = p.inTrans
    BY <1>1, <1>3 DEF Proxies
  <1> HIDE DEF c, p, m, p1
  <1>5. SessionInv(c, p1, m)
    <2>1. RowsInv(p1)
      BY <1>3, <1>4 DEF RowsInv, HasRows, Busy
    <2>2. QED
      BY <1>1, <1>2, <1>4, <2>1 DEF SessionInv, FlowInv, GotInv, Busy
  <1>6. TInv => GuessInv(c, p1, m)
    BY <1>1, <1>2, <1>4 DEF GuessInv, Busy
  <1>7. QED
    BY <1>1, <1>2, <1>4, <1>5, <1>6, SessionStep DEF Kept, c, m

\* writeDataRow returns, whatever part of the answer was sent.
LEMMA ReturnFacts ==
    ASSUME NEW p \in Proxies, NEW dropped \in BOOLEAN
    PROVE  /\ ReturnOf(p, dropped) \in Proxies /\ ReturnOf(p, dropped).pc = "read"
           /\ ReturnOf(p, dropped).rows = None /\ ReturnOf(p, dropped).inTrans = p.inTrans
PROOF
  BY DEF Proxies, ReturnOf

LEMMA ShownPart ==
    ASSUME NEW g, NEW t, NEW cols \in ColumnSets, NEW n \in 0..MaxRows,
           Shown(g, t, cols, n, n + 1) \/ Shown(g, t, cols, n, n + 2) \/ Shown(g, t, cols, n, n + 3)
    PROVE  FromReplica(g, t)
PROOF
  <1>1. n + 1 \in 1..(n + 3) /\ n + 2 \in 1..(n + 3) /\ n + 3 \in 1..(n + 3)
    OBVIOUS
  <1>2. QED
    BY <1>1 DEF FromReplica

LEMMA QueryFailsStep ==
    ASSUME PInv, NEW s \in Sessions, proxy[s].pc \in {"query", "desc", "rows"},
           proxy' = [proxy EXCEPT ![s] = ReturnOf(@, TRUE)], UNCHANGED <<client, main>>,
           faults' \in 0..MaxFaults
    PROVE  Kept
PROOF
  <1> DEFINE c == client[s]  p == proxy[s]  m == main[s]  p1 == ReturnOf(p, TRUE)
  <1>1. /\ c \in Clients /\ p \in Proxies /\ m \in Mains /\ SessionInv(c, p, m)
        /\ TInv => GuessInv(c, p, m)
    BY SessionFacts
  <1>2. p1 \in Proxies /\ p1.pc = "read" /\ p1.rows = None /\ p1.inTrans = p.inTrans
    BY <1>1, ReturnFacts
  <1>3. p.pc \in {"query", "desc", "rows"} /\ p.pc \in Busy
    BY DEF Busy
  <1>4. client' = client /\ main' = main /\ proxy' = [proxy EXCEPT ![s] = p1]
    OBVIOUS
  <1> HIDE DEF c, p, m, p1
  <1>5. SessionInv(c, p1, m)
    <2>1. RowsInv(p1)
      BY <1>2 DEF RowsInv, HasRows, Busy
    <2>2. c.st # "gone" => FlowInv(c, p1, m)
      BY <1>1, <1>2, <1>3, NotBusy DEF SessionInv, FlowInv
    <2>3. ASSUME c.st # "gone"
          PROVE  FromMain(c.got, c.req) \/ FromReplica(c.got, c.req)
      <3>1. CASE p.pc \in {"query", "desc"}
        BY <1>1, <2>3, <3>1 DEF SessionInv, GotInv, FromMain
      <3>2. CASE p.pc = "rows"
        <4>1. p.rows.cols \in ColumnSets /\ p.rows.count \in 0..MaxRows
          BY <1>1, <3>2 DEF SessionInv, RowsInv, HasRows, Busy, Results
        <4>2. QED
          BY <1>1, <2>3, <3>2, <4>1, ShownPart DEF SessionInv, GotInv
      <3>3. QED
        BY <1>3, <3>1, <3>2
    <2>4. QED
      BY <1>1, <1>2, <2>1, <2>2, <2>3 DEF SessionInv, GotInv
  <1>6. TInv => GuessInv(c, p1, m)
    <2>1. c.st # "gone" => c.st # "idle"
      BY <1>1, <1>3 DEF SessionInv, FlowInv
    <2>2. QED
      BY <1>1, <1>2, <1>3, <2>1, NotBusy DEF GuessInv
  <1>7. QED
    BY <1>1, <1>2, <1>4, <1>5, <1>6, SessionStep DEF Kept, c, m

\* rows.Next() returns false.
LEMMA RowsEndStep ==
    ASSUME PInv, NEW s \in Sessions, RowsEnd(s) \/ RowsCut(s), faults' \in 0..MaxFaults
    PROVE  Kept
PROOF
  <1> DEFINE c == client[s]  p == proxy[s]  m == main[s]
             cut == [p.rows EXCEPT !.cut = TRUE]
  <1>1. /\ c \in Clients /\ p \in Proxies /\ m \in Mains /\ SessionInv(c, p, m)
        /\ TInv => GuessInv(c, p, m)
    BY SessionFacts
  <1>2. client' = client /\ main' = main /\ p.pc = "rows"
    BY DEF RowsEnd, RowsCut
  <1>3. p.rows \in Results
    BY <1>1, <1>2 DEF SessionInv, RowsInv, HasRows, Busy
  <1>4. PICK rows : /\ (rows = p.rows /\ p.rows.count = p.rows.size) \/ rows = cut
                    /\ proxy' = [proxy EXCEPT ![s] = [p EXCEPT !.pc = "complete", !.rows = rows]]
    <2>1. CASE RowsEnd(s)
      <3>1. [p EXCEPT !.pc = "complete"] = [p EXCEPT !.pc = "complete", !.rows = p.rows]
        BY <1>1 DEF Proxies
      <3>2. QED
        BY <2>1, <3>1 DEF RowsEnd
    <2>2. CASE RowsCut(s)
      BY <1>1, <2>2 DEF RowsCut, Proxies
    <2>3. QED
      BY <2>1, <2>2
  <1>5. /\ rows \in Results /\ rows.cols = p.rows.cols /\ rows.count = p.rows.count
        /\ rows.size = p.rows.size
        /\ ~rows.cut => rows.count = rows.size
    BY <1>3, <1>4 DEF Results
  <1> DEFINE p1 == [p EXCEPT !.pc = "complete", !.rows = rows]
  <1>6. p1 \in Proxies /\ p1.pc = "complete" /\ p1.rows = rows /\ p1.inTrans = p.inTrans
    BY <1>1, <1>5 DEF Proxies
  <1>7. proxy' = [proxy EXCEPT ![s] = p1]
    BY <1>4
  <1> HIDE DEF c, p, m, p1
  <1>8. SessionInv(c, p1, m)
    <2>1. RowsInv(p1)
      BY <1>5, <1>6 DEF RowsInv, HasRows, Busy
    <2>2. QED
      BY <1>1, <1>2, <1>5, <1>6, <2>1 DEF SessionInv, FlowInv, GotInv, Busy
  <1>9. TInv => GuessInv(c, p1, m)
    BY <1>1, <1>2, <1>6 DEF GuessInv, Busy
  <1>10. QED
    BY <1>1, <1>2, <1>6, <1>7, <1>8, <1>9, SessionStep DEF Kept, c, m

LEMMA ReceivedFacts ==
    ASSUME NEW c \in Clients, NEW msg \in Messages
    PROVE  /\ Received(c, msg) \in Clients
           /\ Received(c, msg).req = c.req /\ Received(c, msg).in = c.in
           /\ c.st = "gone" => Received(c, msg) = c
           /\ c.st # "gone" =>
                /\ Received(c, msg).got = Append(c.got, msg)
                /\ Received(c, msg).st = IF msg.kind = "ready" THEN "idle" ELSE c.st
           /\ c.got \in Seq(Messages) /\ Append(c.got, msg) \in Seq(Messages)
           /\ Append(c.got, msg) # <<>>
           /\ Append(c.got, msg)[Len(Append(c.got, msg))] = msg
PROOF
  <1>1. c.got \in Seq(Messages)
    BY DEF Clients
  <1>2. /\ Append(c.got, msg) \in Seq(Messages) /\ Append(c.got, msg) # <<>>
        /\ Append(c.got, msg)[Len(Append(c.got, msg))] = msg
    BY <1>1
  <1> DEFINE got == Append(c.got, msg)
             st == IF msg.kind = "ready" THEN "idle" ELSE c.st
  <1>3. CASE c.st = "gone"
    BY <1>1, <1>2, <1>3 DEF Received
  <1>4. CASE c.st # "gone"
    <2>1. Received(c, msg) = [c EXCEPT !.got = got, !.st = st]
      BY <1>4 DEF Received
    <2>2. got \in Seq(Messages) /\ st \in {"new", "idle", "gone"} \cup Waiting
      BY <1>2 DEF Clients
    <2> HIDE DEF got, st
    <2>3. /\ Received(c, msg) \in Clients
          /\ Received(c, msg).req = c.req /\ Received(c, msg).in = c.in
          /\ Received(c, msg).got = got /\ Received(c, msg).st = st
      BY <2>1, <2>2 DEF Clients
    <2>4. QED
      BY <1>1, <1>2, <1>4, <2>3 DEF got, st
  <1>5. QED
    BY <1>3, <1>4

\* One Write: the client gets the message, or has left and writeDataRow returns.
LEMMA WriteStep ==
    ASSUME PInv, NEW s \in Sessions, faults' \in 0..MaxFaults,
           NEW kind \in {"desc", "row", "complete", "ready"}, NEW info \in Infos,
           NEW next \in Proxies, Write(s, kind, info, next),
           proxy[s].pc \in HasRows, next.inTrans = proxy[s].inTrans, RowsInv(next),
           kind # "ready" => next.pc \in HasRows,
           kind = "ready" => next.pc = "read" /\ info = FALSE,
           client[s].st # "gone" =>
             GotInv(Received(client[s], Message(client[s].req, "replica", kind, info)), next)
    PROVE  Kept
PROOF
  <1> DEFINE c == client[s]  p == proxy[s]  m == main[s]
             msg == Message(c.req, "replica", kind, info)
             c1 == Received(c, msg)
             p1 == ReturnOf(p, TRUE)
  <1>1. /\ c \in Clients /\ p \in Proxies /\ m \in Mains /\ SessionInv(c, p, m)
        /\ TInv => GuessInv(c, p, m)
    BY SessionFacts
  <1>2. msg \in Messages /\ msg.kind = kind /\ msg.info = info
    BY <1>1, MessageFacts DEF Clients
  <1>3. p.pc \in HasRows /\ p.pc \in Busy /\ main' = main
    BY NotBusy DEF Write
  <1>4. c.st # "gone" => m.in = <<>> /\ m.back = <<>> /\ c.in = None /\ c.st \notin {"new", "idle"}
    BY <1>1, <1>3 DEF SessionInv, FlowInv
  <1>5. CASE proxy' = [proxy EXCEPT ![s] = p1] /\ c.st = "gone" /\ client' = client
    <2>1. p1 \in Proxies /\ p1.pc = "read" /\ p1.rows = None
      BY <1>1, ReturnFacts
    <2> HIDE DEF c, p, m, p1
    <2>2. SessionInv(c, p1, m)
      BY <1>1, <1>5, <2>1, NotBusy DEF SessionInv, RowsInv, HasRows
    <2>3. GuessInv(c, p1, m)
      BY <1>5 DEF GuessInv
    <2>4. QED
      BY <1>1, <1>3, <1>5, <2>1, <2>2, <2>3, SessionStep DEF Kept, c, m
  <1>6. CASE client' = [client EXCEPT ![s] = c1] /\ proxy' = [proxy EXCEPT ![s] = next]
    <2>1. /\ c1 \in Clients /\ c1.req = c.req /\ c1.in = c.in
          /\ c.st = "gone" => c1 = c
          /\ c.st # "gone" => /\ c1.st = IF kind = "ready" THEN "idle" ELSE c.st
                              /\ c1.got # <<>> /\ c1.got[Len(c1.got)] = msg
      <3> HIDE DEF c, msg
      <3>1. /\ c1 \in Clients /\ c1.req = c.req /\ c1.in = c.in
            /\ c.st = "gone" => c1 = c
        BY <1>1, <1>2, ReceivedFacts
      <3>2. ASSUME c.st # "gone"
            PROVE  c1.got = Append(c.got, msg) /\ c1.st = IF msg.kind = "ready" THEN "idle" ELSE c.st
        BY <1>1, <1>2, <3>2, ReceivedFacts
      <3>3. /\ Append(c.got, msg) # <<>>
            /\ Append(c.got, msg)[Len(Append(c.got, msg))] = msg
        BY <1>1, <1>2, ReceivedFacts
      <3> HIDE DEF c1
      <3>4. QED
        BY <1>2, <3>1, <3>2, <3>3
    <2>2. c.st # "gone" => GotInv(c1, next) /\ c1.st # "gone"
      BY <2>1
    <2>3. next.inTrans = p.inTrans
      OBVIOUS
    <2> HIDE DEF c, p, m, c1, msg
    <2>4. SessionInv(c1, next, m)
      <3>1. c.st # "gone" => FlowInv(c1, next, m)
        <4>1. next.pc \notin {"off", "dial", "done"} /\ (kind = "ready" => next.pc \notin Busy)
          BY NotBusy DEF HasRows, Busy
        <4>2. QED
          BY <1>4, <2>1, <4>1 DEF FlowInv
      <3>2. QED
        BY <1>1, <2>1, <2>2, <3>1 DEF SessionInv
    <2>5. TInv => GuessInv(c1, next, m)
      <3> SUFFICES ASSUME TInv, c.st # "gone"
                   PROVE  GuessInv(c1, next, m)
        BY <2>1 DEF GuessInv
      <3>1. /\ ~p.inTrans /\ ~m.tx.open /\ c.in \in Tracked \cup {None}
            /\ m.link # "open" => ~m.tx.open
        BY <1>1, <1>3, <1>4, NotBusy DEF GuessInv
      <3>2. m.tx.open = FALSE
        BY <1>1, <3>1 DEF Mains, TxStates
      <3>3. c1.st = "idle" => c1.got[Len(c1.got)].info = FALSE
        BY <1>2, <1>4, <2>1
      <3>4. QED
        BY <1>4, <2>1, <2>3, <3>1, <3>2, <3>3 DEF GuessInv
    <2>6. QED
      BY <1>1, <1>3, <1>6, <2>1, <2>4, <2>5, SessionStep DEF Kept, m
  <1>7. QED
    BY <1>5, <1>6 DEF Write

LEMMA WriteDescStep ==
    ASSUME PInv, NEW s \in Sessions, WriteDesc(s), faults' \in 0..MaxFaults
    PROVE  Kept
PROOF
  <1> DEFINE c == client[s]  p == proxy[s]  m == main[s]
             cols == p.rows.cols
             info == prepareRowDescription(cols)
             msg == Message(c.req, "replica", "desc", info)
             next == [p EXCEPT !.pc = "rows"]
  <1>1. /\ c \in Clients /\ p \in Proxies /\ m \in Mains /\ SessionInv(c, p, m)
        /\ TInv => GuessInv(c, p, m)
    BY SessionFacts
  <1>2. p.pc = "desc" /\ Write(s, "desc", info, next)
    BY DEF WriteDesc
  <1>3. p.pc \in HasRows /\ "rows" \in HasRows
    BY <1>2 DEF HasRows, Busy
  <1>4. /\ p.rows \in Results /\ p.rows.count = 0 /\ p.rows.count <= p.rows.size /\ ~p.rows.cut
        /\ cols \in ColumnSets
    BY <1>1, <1>2, <1>3 DEF SessionInv, RowsInv, Results
  <1>5. info \in Infos /\ msg \in Messages
    BY <1>1, <1>4, InfoFacts, MessageFacts DEF Clients
  <1>6. next \in Proxies /\ next.pc = "rows" /\ next.rows = p.rows /\ next.inTrans = p.inTrans
    BY <1>1 DEF Proxies
  <1>7. RowsInv(next)
    BY <1>3, <1>4, <1>6 DEF RowsInv
  <1>8. c.st # "gone" => GotInv(Received(c, msg), next)
    <2> SUFFICES ASSUME c.st # "gone"
                 PROVE  GotInv(Received(c, msg), next)
      OBVIOUS
    <2>1. c.got = <<>> /\ c.req \in Nat
      BY <1>1, <1>2 DEF SessionInv, GotInv, Clients
    <2>2. msg = Line(c.req, cols, 0, 1)
      BY DEF Line
    <2>3. <<>> \in Seq(Messages) /\ Shown(<<>>, c.req, cols, 0, 0) /\ 0 \in 0..MaxRows
      BY PostgresAssumption DEF Shown
    <2>4. Shown(Append(<<>>, Line(c.req, cols, 0, 0 + 1)), c.req, cols, 0, 0 + 1)
      <3>1. 0 \in Nat /\ 0 \in {0, 0 + 1} /\ 0 <= 0 + 1
        OBVIOUS
      <3> HIDE DEF c, cols
      <3>2. QED
        BY <1>4, <2>1, <2>3, <3>1, ShownFacts
    <2>5. Received(c, msg).got = Append(c.got, msg) /\ Received(c, msg).req = c.req
      BY <1>1, <1>5, ReceivedFacts
    <2> HIDE DEF msg
    <2>6. Shown(Received(c, msg).got, c.req, cols, 0, 1)
      BY <2>1, <2>2, <2>4, <2>5
    <2> HIDE DEF next
    <2>7. QED
      BY <1>4, <1>6, <2>5, <2>6 DEF GotInv, Busy
  <1>9. QED
    BY <1>2, <1>3, <1>5, <1>6, <1>7, <1>8, WriteStep

LEMMA WriteRowStep ==
    ASSUME PInv, NEW s \in Sessions, WriteRow(s), faults' \in 0..MaxFaults
    PROVE  Kept
PROOF
  <1> DEFINE c == client[s]  p == proxy[s]  m == main[s]
             cols == p.rows.cols
             n == p.rows.count
             rows == [p.rows EXCEPT !.count = n + 1]
             msg == Message(c.req, "replica", "row", None)
             next == [p EXCEPT !.rows = rows]
  <1>1. /\ c \in Clients /\ p \in Proxies /\ m \in Mains /\ SessionInv(c, p, m)
        /\ TInv => GuessInv(c, p, m)
    BY SessionFacts
  <1>2. p.pc = "rows" /\ n < p.rows.size
    BY DEF WriteRow
  <1>3. p.pc \in HasRows
    BY <1>2 DEF HasRows, Busy
  <1>4. p.rows \in Results /\ ~p.rows.cut /\ cols \in ColumnSets /\ n \in 0..MaxRows
    BY <1>1, <1>2, <1>3 DEF SessionInv, RowsInv, Results
  <1>5. n + 1 \in 0..MaxRows /\ n + 1 <= p.rows.size
    <2>1. p.rows.size \in 0..MaxRows /\ MaxRows \in Nat
      BY <1>4, PostgresAssumption DEF Results
    <2> HIDE DEF p
    <2>2. QED
      BY <1>2, <1>4, <2>1
  <1>6. Write(s, "row", None, next)
    BY <1>1 DEF WriteRow, Proxies
  <1>7. None \in Infos /\ msg \in Messages
    BY <1>1, InfoFacts, MessageFacts DEF Clients
  <1>8. /\ rows \in Results /\ rows.cols = cols /\ rows.count = n + 1 /\ rows.size = p.rows.size
        /\ rows.cut = p.rows.cut
    BY <1>4, <1>5 DEF Results
  <1>9. next \in Proxies /\ next.pc = "rows" /\ next.rows = rows /\ next.inTrans = p.inTrans
    <2> HIDE DEF rows
    <2>1. QED
      BY <1>1, <1>2, <1>8 DEF Proxies
  <1>10. RowsInv(next)
    <2> HIDE DEF rows, next
    <2>1. QED
      BY <1>2, <1>3, <1>4, <1>5, <1>8, <1>9 DEF RowsInv
  <1>11. c.st # "gone" => GotInv(Received(c, msg), next)
    <2> SUFFICES ASSUME c.st # "gone"
                 PROVE  GotInv(Received(c, msg), next)
      OBVIOUS
    <2>1. Shown(c.got, c.req, cols, n, n + 1) /\ c.req \in Nat /\ c.got \in Seq(Messages)
      BY <1>1, <1>2 DEF SessionInv, GotInv, Clients
    <2>2. msg = Line(c.req, cols, n + 1, (n + 1) + 1)
      <3> HIDE DEF n
      <3>1. (n + 1) + 1 # 1 /\ (n + 1) + 1 <= (n + 1) + 1
        BY <1>4
      <3>2. QED
        BY <3>1, Zenon DEF Line
    <2>3. Shown(Append(c.got, Line(c.req, cols, n + 1, (n + 1) + 1)), c.req, cols, n + 1, (n + 1) + 1)
      <3>1. n + 1 \in Nat /\ n + 1 <= n + 1 /\ n + 1 \in {n, n + 1}
        BY <1>4
      <3> HIDE DEF n, cols
      <3>2. QED
        BY <1>4, <1>5, <2>1, <3>1, ShownFacts
    <2>4. Received(c, msg).got = Append(c.got, msg) /\ Received(c, msg).req = c.req
      BY <1>1, <1>7, ReceivedFacts
    <2> HIDE DEF msg, rows, next, n, cols
    <2>5. QED
      BY <1>8, <1>9, <2>2, <2>3, <2>4 DEF GotInv, Busy
  <1>12. next.pc \in HasRows
    BY <1>2, <1>3, <1>9
  <1> HIDE DEF next, rows, n, cols
  <1>13. QED
    BY <1>3, <1>6, <1>7, <1>9, <1>10, <1>11, <1>12, WriteStep

LEMMA WriteCompleteStep ==
    ASSUME PInv, NEW s \in Sessions, WriteComplete(s), faults' \in 0..MaxFaults
    PROVE  Kept
PROOF
  <1> DEFINE c == client[s]  p == proxy[s]  m == main[s]
             cols == p.rows.cols
             n == p.rows.count
             msg == Message(c.req, "replica", "complete", n)
             next == [p EXCEPT !.pc = "ready"]
  <1>1. /\ c \in Clients /\ p \in Proxies /\ m \in Mains /\ SessionInv(c, p, m)
        /\ TInv => GuessInv(c, p, m)
    BY SessionFacts
  <1>2. p.pc = "complete" /\ Write(s, "complete", n, next)
    BY DEF WriteComplete
  <1>3. p.pc \in HasRows /\ "ready" \in HasRows
    BY <1>2 DEF HasRows, Busy
  <1>4. p.rows \in Results /\ cols \in ColumnSets /\ n \in 0..MaxRows
    BY <1>1, <1>2, <1>3 DEF SessionInv, RowsInv, Results
  <1>5. n \in Infos
    BY <1>4, InfoFacts
  <1>6. msg \in Messages
    BY <1>1, <1>5, MessageFacts DEF Clients
  <1>7. next \in Proxies /\ next.pc = "ready" /\ next.rows = p.rows /\ next.inTrans = p.inTrans
    BY <1>1 DEF Proxies
  <1>8. RowsInv(next)
    <2> HIDE DEF next
    <2>1. QED
      BY <1>1, <1>2, <1>3, <1>7 DEF SessionInv, RowsInv
  <1>9. c.st # "gone" => GotInv(Received(c, msg), next)
    <2> SUFFICES ASSUME c.st # "gone"
                 PROVE  GotInv(Received(c, msg), next)
      OBVIOUS
    <2>1. Shown(c.got, c.req, cols, n, n + 1) /\ c.req \in Nat /\ c.got \in Seq(Messages)
      BY <1>1, <1>2 DEF SessionInv, GotInv, Clients
    <2>2. msg = Line(c.req, cols, n, (n + 1) + 1)
      <3> HIDE DEF n
      <3>1. (n + 1) + 1 # 1 /\ ~((n + 1) + 1 <= n + 1) /\ (n + 1) + 1 = n + 2
        BY <1>4
      <3>2. QED
        BY <3>1, Zenon DEF Line
    <2>3. Shown(Append(c.got, Line(c.req, cols, n, (n + 1) + 1)), c.req, cols, n, (n + 1) + 1)
      <3>1. n + 1 \in Nat /\ n \in {n, n + 1}
        BY <1>4
      <3> HIDE DEF n, cols
      <3>2. QED
        BY <1>4, <2>1, <3>1, ShownFacts
    <2>4. Received(c, msg).got = Append(c.got, msg) /\ Received(c, msg).req = c.req
      BY <1>1, <1>6, ReceivedFacts
    <2> HIDE DEF msg, n, cols
    <2>5. Shown(Received(c, msg).got, c.req, cols, n, n + 2)
      <3>1. (n + 1) + 1 = n + 2
        BY <1>4
      <3>2. QED
        BY <2>2, <2>3, <2>4, <3>1
    <2> HIDE DEF next
    <2>6. QED
      BY <1>7, <2>4, <2>5 DEF GotInv, Busy, n, cols
  <1> HIDE DEF next, n, cols
  <1>10. QED
    BY <1>2, <1>3, <1>5, <1>7, <1>8, <1>9, WriteStep

LEMMA WriteReadyStep ==
    ASSUME PInv, NEW s \in Sessions, WriteReady(s), faults' \in 0..MaxFaults
    PROVE  Kept
PROOF
  <1> DEFINE c == client[s]  p == proxy[s]  m == main[s]
             cols == p.rows.cols
             n == p.rows.count
             msg == Message(c.req, "replica", "ready", FALSE)
             next == ReturnOf(p, FALSE)
  <1>1. /\ c \in Clients /\ p \in Proxies /\ m \in Mains /\ SessionInv(c, p, m)
        /\ TInv => GuessInv(c, p, m)
    BY SessionFacts
  <1>2. p.pc = "ready" /\ Write(s, "ready", FALSE, next)
    BY DEF WriteReady
  <1>3. p.pc \in HasRows
    BY <1>2 DEF HasRows, Busy
  <1>4. p.rows \in Results /\ cols \in ColumnSets /\ n \in 0..MaxRows
    BY <1>1, <1>2, <1>3 DEF SessionInv, RowsInv, Results
  <1>5. FALSE \in Infos
    BY InfoFacts
  <1>6. msg \in Messages
    BY <1>1, <1>5 DEF Clients, Message, Messages
  <1>7. next \in Proxies /\ next.pc = "read" /\ next.rows = None /\ next.inTrans = p.inTrans
    BY <1>1, ReturnFacts
  <1>8. RowsInv(next)
    <2> HIDE DEF next
    <2>1. QED
      BY <1>7 DEF RowsInv, HasRows, Busy
  <1>9. c.st # "gone" => GotInv(Received(c, msg), next)
    <2> SUFFICES ASSUME c.st # "gone"
                 PROVE  GotInv(Received(c, msg), next)
      OBVIOUS
    <2>1. Shown(c.got, c.req, cols, n, n + 2) /\ c.req \in Nat /\ c.got \in Seq(Messages)
      BY <1>1, <1>2 DEF SessionInv, GotInv, Clients
    <2>2. msg = Line(c.req, cols, n, (n + 2) + 1)
      <3> HIDE DEF n
      <3>1. (n + 2) + 1 # 1 /\ ~((n + 2) + 1 <= n + 1) /\ (n + 2) + 1 # n + 2
        BY <1>4
      <3>2. QED
        BY <3>1, Zenon DEF Line
    <2>3. Shown(Append(c.got, Line(c.req, cols, n, (n + 2) + 1)), c.req, cols, n, (n + 2) + 1)
      <3>1. n + 2 \in Nat /\ n \in {n, n + 1}
        BY <1>4
      <3> HIDE DEF n, cols
      <3>2. QED
        BY <1>4, <2>1, <3>1, ShownFacts
    <2> HIDE DEF msg, n, cols
    <2>4. Received(c, msg).got = Append(c.got, msg) /\ Received(c, msg).req = c.req
      BY <1>1, <1>6, ReceivedFacts
    <2>5. Shown(Received(c, msg).got, c.req, cols, n, n + 3)
      <3>1. (n + 2) + 1 = n + 3
        BY <1>4
      <3>2. QED
        BY <2>2, <2>3, <2>4, <3>1
    <2>6. FromReplica(Received(c, msg).got, c.req)
      BY <1>4, <2>5, ShownPart
    <2> HIDE DEF next
    <2>7. QED
      BY <1>7, <2>4, <2>6 DEF GotInv, Busy
  <1> HIDE DEF next, n, cols
  <1>10. QED
    BY <1>2, <1>3, <1>5, <1>7, <1>8, <1>9, WriteStep

-----------------------------------------------------------------------------
(***************************************************************************)
(* handleOutbound and the main server.                                     *)
(***************************************************************************)

\* A step of the main connection that the client does not see.
LEMMA MainStep ==
    ASSUME PInv, NEW s \in Sessions, faults' \in 0..MaxFaults,
           NEW m \in Mains, main' = [main EXCEPT ![s] = m], UNCHANGED <<client, proxy>>,
           client[s].st # "gone" => FlowInv(client[s], proxy[s], m),
           TInv => GuessInv(client[s], proxy[s], m)
    PROVE  Kept
PROOF
  <1>1. /\ client[s] \in Clients /\ proxy[s] \in Proxies
        /\ SessionInv(client[s], proxy[s], main[s])
    BY SessionFacts
  <1>2. SessionInv(client[s], proxy[s], m)
    BY <1>1 DEF SessionInv
  <1>3. QED
    BY <1>1, <1>2, SessionStep DEF Kept

LEMMA OutboundEndsStep ==
    ASSUME PInv, NEW s \in Sessions, OutboundEnds(s), faults' \in 0..MaxFaults
    PROVE  Kept
PROOF
  <1> DEFINE c == client[s]  p == proxy[s]  m == main[s]
             m1 == [m EXCEPT !.out = "done"]
  <1>1. /\ c \in Clients /\ p \in Proxies /\ m \in Mains /\ SessionInv(c, p, m)
        /\ TInv => GuessInv(c, p, m)
    BY SessionFacts
  <1>2. /\ m1 \in Mains /\ m1.link = m.link /\ m1.in = m.in /\ m1.back = m.back /\ m1.tx = m.tx
    BY <1>1 DEF Mains
  <1>3. main' = [main EXCEPT ![s] = m1] /\ client' = client /\ proxy' = proxy
    BY DEF OutboundEnds
  <1> HIDE DEF m1
  <1>4. c.st # "gone" => FlowInv(c, p, m1)
    <2> HIDE DEF c, p, m
    <2>1. QED
      BY <1>1, <1>2 DEF SessionInv, FlowInv
  <1>5. TInv => GuessInv(c, p, m1)
    <2> HIDE DEF c, p, m
    <2>1. QED
      BY <1>1, <1>2 DEF GuessInv
  <1>6. QED
    BY <1>2, <1>3, <1>4, <1>5, MainStep

LEMMA MainDropsStep ==
    ASSUME PInv, NEW s \in Sessions, MainDrops(s), faults' \in 0..MaxFaults
    PROVE  Kept
PROOF
  <1>0. PICK l \in {"fatal", "dead"} :
            main' = [main EXCEPT ![s].link = l, ![s].in = <<>>, ![s].tx = NoTx]
    BY DEF MainDrops
  <1> DEFINE c == client[s]  p == proxy[s]  m == main[s]
             m1 == [m EXCEPT !.link = l, !.in = <<>>, !.tx = NoTx]
  <1>1. /\ c \in Clients /\ p \in Proxies /\ m \in Mains /\ SessionInv(c, p, m)
        /\ TInv => GuessInv(c, p, m)
    BY SessionFacts
  <1>2. NoTx \in TxStates /\ ~NoTx.open
    BY DEF NoTx, TxStates
  <1>3. /\ m1 \in Mains /\ m1.link # "open" /\ m1.in = <<>> /\ m1.back = m.back /\ m1.tx = NoTx
    <2>1. <<>> \in Seq(Nat \X Kinds)
      BY EmptySeq
    <2>2. QED
      BY <1>1, <1>2, <2>1 DEF Mains
  <1>4. main' = [main EXCEPT ![s] = m1] /\ client' = client /\ proxy' = proxy
    BY <1>0, <1>1 DEF MainDrops, Mains
  <1> HIDE DEF m1
  <1>5. c.st # "gone" => FlowInv(c, p, m1)
    <2> HIDE DEF c, p, m
    <2>1. QED
      BY <1>1, <1>3 DEF SessionInv, FlowInv
  <1>6. TInv => GuessInv(c, p, m1)
    <2> HIDE DEF c, p, m
    <2>1. QED
      BY <1>1, <1>2, <1>3 DEF GuessInv
  <1>7. QED
    BY <1>3, <1>4, <1>5, <1>6, MainStep

LEMMA MainExecutesStep ==
    ASSUME PInv, NEW s \in Sessions, MainExecutes(s), faults' \in 0..MaxFaults
    PROVE  Kept
PROOF
  <1> DEFINE c == client[s]  p == proxy[s]  m == main[s]
             cmd == Head(m.in)
  <1>0. PICK tx \in {TxThen(cmd[2], m.tx)} \cup (IF cmd[2] = "write" THEN {m.tx} ELSE {}) :
            main' = [main EXCEPT ![s].in = Tail(@), ![s].tx = tx,
                        ![s].back = @ \o <<Message(cmd[1], "main", "body", None),
                                           Message(cmd[1], "main", "ready", tx.open)>>]
    BY DEF MainExecutes
  <1> DEFINE answer == <<Body(cmd[1]), Ready(cmd[1], tx.open)>>
             in1 == Tail(m.in)
             back1 == m.back \o answer
             m1 == [m EXCEPT !.in = in1, !.tx = tx, !.back = back1]
  <1>1. /\ c \in Clients /\ p \in Proxies /\ m \in Mains /\ SessionInv(c, p, m)
        /\ TInv => GuessInv(c, p, m)
    BY SessionFacts
  <1>2. m.in # <<>> /\ client' = client /\ proxy' = proxy
    BY DEF MainExecutes
  <1>3. main' = [main EXCEPT ![s] = m1]
    BY <1>0, <1>1 DEF Mains, Body, Ready
  <1>4. m.in \in Seq(Nat \X Kinds) /\ m.back \in Seq(Messages) /\ m.tx \in TxStates
    BY <1>1 DEF Mains
  <1>5. /\ cmd \in Nat \X Kinds /\ cmd = m.in[1] /\ in1 \in Seq(Nat \X Kinds)
        /\ Len(m.in) = 1 => in1 = <<>>
    <2> HIDE DEF m
    <2>1. cmd \in Nat \X Kinds /\ cmd = m.in[1] /\ in1 \in Seq(Nat \X Kinds)
      BY <1>2, <1>4
    <2>2. ASSUME Len(m.in) = 1
          PROVE  in1 = <<>>
      <3>1. Len(in1) = 0
        BY <1>2, <1>4, <2>2
      <3> HIDE DEF in1
      <3>2. QED
        BY <2>1, <3>1, EmptySeq
    <2>3. QED
      BY <2>1, <2>2
  <1>6. cmd[1] \in Nat /\ cmd[2] \in Kinds
    BY <1>5
  <1>7. TxThen(cmd[2], m.tx) \in TxStates
    BY <1>4 DEF TxThen, TxStates
  <1>8. tx \in TxStates /\ tx.open \in BOOLEAN
    BY <1>4, <1>7 DEF TxStates
  <1> HIDE DEF cmd
  <1>9. Body(cmd[1]) \in Messages /\ Ready(cmd[1], tx.open) \in Messages
    BY <1>6, <1>8, MainAnswerFacts
  <1>10. /\ back1 \in Seq(Messages)
         /\ m.back = <<>> => back1 = answer
    <2>1. answer \in Seq(Messages)
      BY <1>9
    <2> HIDE DEF m, answer
    <2>2. back1 \in Seq(Messages)
      BY <1>4, <2>1
    <2>3. m.back = <<>> => back1 = answer
      BY <2>1
    <2>4. QED
      BY <2>2, <2>3
  <1> HIDE DEF in1, back1
  <1>11. m1 \in Mains /\ m1.link = m.link /\ m1.in = in1 /\ m1.back = back1 /\ m1.tx = tx
    BY <1>1, <1>5, <1>8, <1>10 DEF Mains
  <1> HIDE DEF m1
  <1>12. ASSUME c.st # "gone"
         PROVE  /\ m.back = <<>> /\ c.got = <<>> /\ m.link = "open" /\ Len(m.in) = 1
                /\ cmd[1] = c.req /\ p.pc \notin Busy \cup {"off", "dial", "done"} /\ c.in = None
                /\ c.st \notin {"new", "idle"}
    <2>1. FlowInv(c, p, m)
      BY <1>1, <1>12 DEF SessionInv
    <2>2. QED
      BY <1>2, <1>5, <2>1 DEF FlowInv
  <1>13. ASSUME c.st # "gone"
         PROVE  m1.in = <<>> /\ m1.back = <<Body(c.req), Ready(c.req, tx.open)>>
    BY <1>5, <1>10, <1>11, <1>12, <1>13
  <1>14. c.st # "gone" => FlowInv(c, p, m1)
    <2> HIDE DEF c, p, m
    <2>1. QED
      BY <1>8, <1>12, <1>13 DEF FlowInv
  <1>15. TInv => GuessInv(c, p, m1)
    <2> SUFFICES ASSUME TInv, c.st # "gone"
                 PROVE  GuessInv(c, p, m1)
      BY DEF GuessInv
    <2> HIDE DEF c, p, m
    <2>1. p.pc # "done"
      BY <1>12
    <2>2. tx.open => p.inTrans
      BY <1>1, <1>2, <1>5, <2>1 DEF GuessInv
    <2>3. c.req \in Nat
      BY <1>1 DEF Clients
    <2>4. m1.back[Len(m1.back)].info = m1.tx.open /\ m1.back # <<>>
      <3>1. m1.back = <<Body(c.req), Ready(c.req, tx.open)>> /\ m1.tx = tx
        BY <1>11, <1>13
      <3>2. /\ Len(m1.back) = 2 /\ m1.back[2] = Ready(c.req, tx.open) /\ m1.back # <<>>
            /\ Ready(c.req, tx.open).info = tx.open
        <4> DEFINE o == tx.open
        <4>1. o \in BOOLEAN
          BY <1>8
        <4> HIDE DEF o
        <4>2. /\ Len(<<Body(c.req), Ready(c.req, o)>>) = 2
              /\ <<Body(c.req), Ready(c.req, o)>>[2] = Ready(c.req, o)
              /\ <<Body(c.req), Ready(c.req, o)>> # <<>> /\ Ready(c.req, o).info = o
          BY <2>3, <4>1, MainAnswerFacts
        <4>3. QED
          BY <3>1, <4>2, Zenon DEF o
      <3>3. QED
        BY <3>1, <3>2, Zenon
    <2>5. QED
      BY <1>1, <1>11, <1>12, <1>13, <2>1, <2>2, <2>4 DEF GuessInv
  <1>16. QED
    BY <1>2, <1>3, <1>11, <1>14, <1>15, MainStep

\* A message of the main server is copied, or the client has left.
LEMMA CopyFromMainStep ==
    ASSUME PInv, NEW s \in Sessions, CopyFromMain(s), faults' \in 0..MaxFaults
    PROVE  Kept
PROOF
  <1> DEFINE c == client[s]  p == proxy[s]  m == main[s]
             msg == Head(m.back)
             rest == Tail(m.back)
             c1 == Received(c, msg)
             m1 == [m EXCEPT !.back = rest]
             m2 == [m EXCEPT !.out = "done", !.back = rest]
  <1>1. /\ c \in Clients /\ p \in Proxies /\ m \in Mains /\ SessionInv(c, p, m)
        /\ TInv => GuessInv(c, p, m)
    BY SessionFacts
  <1>2. m.back # <<>> /\ proxy' = proxy
    BY DEF CopyFromMain
  <1>3. msg \in Messages /\ rest \in Seq(Messages)
    BY <1>1, <1>2 DEF Mains
  <1>4. CASE c.st = "gone" /\ main' = [main EXCEPT ![s].out = "done", ![s].back = rest] /\ client' = client
    <2>1. main' = [main EXCEPT ![s] = m2]
      BY <1>1, <1>4 DEF Mains
    <2> HIDE DEF rest
    <2>2. m2 \in Mains
      BY <1>1, <1>3 DEF Mains
    <2>3. GuessInv(c, p, m2)
      BY <1>4 DEF GuessInv
    <2> HIDE DEF m2
    <2>4. QED
      BY <1>2, <1>4, <2>1, <2>2, <2>3, MainStep
  <1>5. CASE main' = [main EXCEPT ![s].back = rest] /\ client' = [client EXCEPT ![s] = c1]
    <2>1. main' = [main EXCEPT ![s] = m1]
      BY <1>1, <1>5 DEF Mains
    <2> HIDE DEF rest
    <2>2. m1 \in Mains /\ m1.back = rest /\ m1.in = m.in /\ m1.link = m.link /\ m1.tx = m.tx
      BY <1>1, <1>3 DEF Mains
    <2> HIDE DEF c, p, m, msg, m1
    <2>3. /\ c1 \in Clients /\ c1.req = c.req /\ c1.in = c.in
          /\ c.st = "gone" => c1 = c
      BY <1>1, <1>3, ReceivedFacts
    <2>4. ASSUME c.st # "gone"
          PROVE  /\ c1.got = Append(c.got, msg)
                 /\ c1.st = IF msg.kind = "ready" THEN "idle" ELSE c.st
      BY <1>1, <1>3, <2>4, ReceivedFacts
    <2> HIDE DEF c1
    <2>5. CASE c.st = "gone"
      <3>1. SessionInv(c1, p, m1)
        BY <1>1, <2>3, <2>5 DEF SessionInv
      <3>2. GuessInv(c1, p, m1)
        BY <2>3, <2>5 DEF GuessInv
      <3>3. QED
        BY <1>1, <1>2, <1>5, <2>1, <2>2, <2>3, <3>1, <3>2, SessionStep DEF Kept, p
    <2>6. CASE c.st # "gone"
      <3>1. FlowInv(c, p, m) /\ GotInv(c, p) /\ RowsInv(p)
        BY <1>1, <2>6 DEF SessionInv
      <3>2. /\ m.in = <<>> /\ c.in = None /\ p.pc \notin Busy \cup {"off", "dial", "done"}
            /\ c.st \notin {"new", "idle"}
        BY <1>2, <3>1 DEF FlowInv
      <3>3. PICK open \in BOOLEAN :
                \/ m.back = <<Body(c.req), Ready(c.req, open)>> /\ c.got = <<>>
                \/ m.back = <<Ready(c.req, open)>> /\ c.got = <<Body(c.req)>>
        BY <1>2, <3>1 DEF FlowInv
      <3>4. c.req \in Nat
        BY <1>1 DEF Clients
      <3>5. CASE m.back = <<Body(c.req), Ready(c.req, open)>> /\ c.got = <<>>
        <4>1. msg = Body(c.req) /\ rest = <<Ready(c.req, open)>>
          BY <3>4, <3>5, MainAnswerFacts DEF msg, rest
        <4>2. msg.kind = "body" /\ Append(<<>>, msg) = <<Body(c.req)>> /\ rest # <<>>
          BY <3>4, <4>1, MainAnswerFacts
        <4>3. c1.got = <<Body(c.req)>> /\ c1.st = c.st
          BY <2>4, <2>6, <3>5, <4>2
        <4>4. FlowInv(c1, p, m1)
          BY <2>2, <2>3, <3>2, <4>1, <4>3 DEF FlowInv
        <4>5. GotInv(c1, p)
          BY <2>3, <3>2, <4>3 DEF GotInv, Busy, FromMain
        <4>6. SessionInv(c1, p, m1)
          BY <2>6, <3>1, <4>3, <4>4, <4>5 DEF SessionInv
        <4>7. TInv => GuessInv(c1, p, m1)
          <5>1. m.back[Len(m.back)] = rest[Len(rest)]
            BY <3>4, <3>5, <4>1, MainAnswerFacts
          <5>2. QED
            BY <1>1, <1>2, <2>2, <2>3, <2>6, <3>2, <4>2, <4>3, <5>1 DEF GuessInv
        <4>8. QED
          BY <1>1, <1>2, <1>5, <2>1, <2>2, <2>3, <4>6, <4>7, SessionStep DEF Kept, p
      <3>6. CASE m.back = <<Ready(c.req, open)>> /\ c.got = <<Body(c.req)>>
        <4>1. msg = Ready(c.req, open) /\ rest = <<>>
          BY <3>4, <3>6, MainAnswerFacts DEF msg, rest
        <4>2. /\ msg.kind = "ready"
              /\ Append(<<Body(c.req)>>, msg) = <<Body(c.req), Ready(c.req, open)>>
          BY <3>4, <4>1, MainAnswerFacts
        <4>3. c1.got = <<Body(c.req), Ready(c.req, open)>> /\ c1.st = "idle"
          BY <2>4, <2>6, <3>6, <4>2
        <4>4. FlowInv(c1, p, m1)
          BY <2>2, <2>3, <3>2, <4>1, <4>3 DEF FlowInv
        <4>5. GotInv(c1, p)
          <5>1. FromMain(c1.got, c1.req)
            BY <2>3, <4>3, Zenon DEF FromMain
          <5>2. QED
            BY <3>2, <5>1 DEF GotInv, Busy
        <4>6. SessionInv(c1, p, m1)
          BY <3>1, <4>3, <4>4, <4>5 DEF SessionInv
        <4>7. TInv => GuessInv(c1, p, m1)
          <5>1. /\ m.back[Len(m.back)] = Ready(c.req, open)
                /\ c1.got[Len(c1.got)] = Ready(c.req, open)
            BY <3>4, <3>6, <4>3, MainAnswerFacts
          <5>2. QED
            BY <1>1, <1>2, <2>2, <2>3, <2>6, <3>2, <4>1, <4>3, <5>1 DEF GuessInv
        <4>8. QED
          BY <1>1, <1>2, <1>5, <2>1, <2>2, <2>3, <4>6, <4>7, SessionStep DEF Kept, p
      <3>7. QED
        BY <3>3, <3>5, <3>6
    <2>7. QED
      BY <2>5, <2>6
  <1>6. QED
    BY <1>4, <1>5 DEF CopyFromMain

\* Neither does what was written unasked disturb them.
LEMMA StrayFacts ==
    ASSUME NEW c \in Clients, NEW k \in {"notice", "fatal"}
    PROVE  /\ ReceivedStray(c, k) \in Clients
           /\ ReceivedStray(c, k).st = c.st /\ ReceivedStray(c, k).req = c.req
           /\ ReceivedStray(c, k).in = c.in /\ ReceivedStray(c, k).got = c.got
           /\ c.st = "gone" => ReceivedStray(c, k) = c
           /\ c.st # "gone" =>
                ReceivedStray(c, k).stray = c.stray \cup {[kind |-> k, at |-> Len(c.got)]}
PROOF
  <1>1. Len(c.got) \in Nat
    BY DEF Clients
  <1>2. [kind |-> k, at |-> Len(c.got)] \in Strays
    BY <1>1 DEF Strays
  <1>3. c.stray \cup {[kind |-> k, at |-> Len(c.got)]} \in SUBSET Strays
    BY <1>2 DEF Clients
  <1>4. QED
    BY <1>3 DEF ReceivedStray, Clients

LEMMA CopyStrayStep ==
    ASSUME PInv, NEW s \in Sessions, CopyNotice(s) \/ CopyFatal(s), faults' \in 0..MaxFaults
    PROVE  Kept
PROOF
  <1>0. PICK k \in {"notice", "fatal"} :
            /\ client' = [client EXCEPT ![s] = ReceivedStray(@, k)] /\ proxy' = proxy
            /\ \/ main' = main
               \/ main' = [main EXCEPT ![s].link = "dead"] /\ main[s].link = "fatal"
    BY DEF CopyNotice, CopyFatal
  <1> DEFINE c == client[s]  p == proxy[s]  m == main[s]
             c1 == ReceivedStray(c, k)
             m1 == [m EXCEPT !.link = "dead"]
  <1>1. /\ c \in Clients /\ p \in Proxies /\ m \in Mains /\ SessionInv(c, p, m)
        /\ TInv => GuessInv(c, p, m)
    BY SessionFacts
  <1>2. /\ c1 \in Clients /\ c1.st = c.st /\ c1.req = c.req /\ c1.in = c.in /\ c1.got = c.got
    BY <1>1, StrayFacts
  <1>3. m1 \in Mains /\ m1.link = "dead" /\ m1.in = m.in /\ m1.back = m.back /\ m1.tx = m.tx
    BY <1>1 DEF Mains
  <1>4. client' = [client EXCEPT ![s] = c1]
    BY <1>0
  <1>5. PICK m2 \in {m, m1} :
            /\ main' = [main EXCEPT ![s] = m2] \/ (main' = main /\ m2 = main[s])
            /\ m2 = m \/ m.link = "fatal"
    BY <1>0
  <1>6. /\ m2 \in Mains /\ m2.in = m.in /\ m2.back = m.back /\ m2.tx = m.tx
        /\ m2.link = m.link \/ (m.link = "fatal" /\ m2.link = "dead")
    BY <1>1, <1>3, <1>5
  <1> HIDE DEF c, p, m, c1, m1
  <1>7. SessionInv(c1, p, m2)
    BY <1>1, <1>2, <1>6 DEF SessionInv, FlowInv, GotInv
  <1>8. TInv => GuessInv(c1, p, m2)
    BY <1>1, <1>2, <1>6 DEF GuessInv
  <1>9. QED
    BY <1>0, <1>1, <1>2, <1>4, <1>5, <1>6, <1>7, <1>8, SessionStep DEF Kept, p

\* The process ends: every session is over, whatever its client has received.
LEMMA EndedFacts ==
    ASSUME NEW c \in Clients, NEW p \in Proxies, NEW m \in Mains, NEW in,
           SessionInv(c, p, m), in = c.in \/ in = None
    PROVE  LET c1 == [c EXCEPT !.in = in]
           IN  /\ c1 \in Clients /\ Ended(p) \in Proxies /\ Severed(m) \in Mains
               /\ Ended(p).pc = "done" /\ SessionInv(c1, Ended(p), Severed(m))
PROOF
  <1> DEFINE c1 == [c EXCEPT !.in = in]  p1 == Ended(p)  m1 == Severed(m)
  <1>1. /\ c1 \in Clients /\ c1.st = c.st /\ c1.req = c.req /\ c1.in = in /\ c1.got = c.got
    BY DEF Clients
  <1>2. p1 \in Proxies /\ p1.pc = "done" /\ p1.rows = None
    BY DEF Proxies, Ended
  <1>3. m1 \in Mains /\ m1.link = "closed" /\ m1.in = <<>> /\ m1.back = <<>>
    <2>1. <<>> \in Seq(Messages) /\ <<>> \in Seq(Nat \X Kinds)
      BY EmptySeq
    <2>2. QED
      BY <2>1 DEF Mains, Severed
  <1> HIDE DEF c1, p1, m1
  <1>4. RowsInv(p1)
    BY <1>2 DEF RowsInv, HasRows, Busy
  <1>5. c.st # "gone" => FlowInv(c1, p1, m1)
    BY <1>1, <1>2, <1>3, NotBusy DEF SessionInv, FlowInv
  <1>6. ASSUME c.st # "gone"
        PROVE  FromMain(c.got, c.req) \/ FromReplica(c.got, c.req)
    <2>1. GotInv(c, p) /\ RowsInv(p)
      BY <1>6 DEF SessionInv
    <2>2. CASE p.pc \in {"query", "desc"}
      BY <2>1, <2>2 DEF GotInv, FromMain
    <2>3. CASE p.pc \in {"rows", "complete", "ready"}
      <3>1. p.rows.cols \in ColumnSets /\ p.rows.count \in 0..MaxRows
        BY <2>1, <2>3 DEF RowsInv, HasRows, Busy, Results
      <3>2. QED
        BY <2>1, <2>3, <3>1, ShownPart DEF GotInv
    <2>4. QED
      BY <2>1, <2>2, <2>3 DEF GotInv, Busy
  <1>7. SessionInv(c1, p1, m1)
    BY <1>1, <1>2, <1>4, <1>5, <1>6, NotBusy DEF SessionInv, GotInv
  <1>8. QED
    BY <1>1, <1>2, <1>3, <1>7 DEF c1, p1, m1

LEMMA ReadShortStep ==
    ASSUME PInv, NEW s \in Sessions, ReadShort(s), faults' \in 0..MaxFaults
    PROVE  Kept
PROOF
  <1>1. TypeOK
    BY DEF PInv
  <1>2. ASSUME NEW t \in Sessions
        PROVE  /\ client'[t] \in Clients /\ proxy'[t] \in Proxies /\ main'[t] \in Mains
               /\ proxy'[t].pc = "done" /\ SessionInv(client'[t], proxy'[t], main'[t])
    <2> DEFINE in == IF t = s THEN None ELSE client[t].in
    <2>1. /\ client[t] \in Clients /\ proxy[t] \in Proxies /\ main[t] \in Mains
          /\ SessionInv(client[t], proxy[t], main[t])
      BY SessionFacts
    <2>2. in = client[t].in \/ in = None
      OBVIOUS
    <2>3. /\ client'[t] = [client[t] EXCEPT !.in = in]
          /\ proxy'[t] = Ended(proxy[t]) /\ main'[t] = Severed(main[t])
      BY <1>1, <2>1 DEF ReadShort, TypeOK, Clients
    <2> HIDE DEF in
    <2>4. QED
      BY <2>1, <2>2, <2>3, EndedFacts
  <1>3. TypeOK'
    <2>1. /\ client' = [t \in Sessions |-> client'[t]] /\ proxy' = [t \in Sessions |-> proxy'[t]]
          /\ main' = [t \in Sessions |-> main'[t]]
      BY <1>1 DEF ReadShort, TypeOK
    <2>2. QED
      BY <1>2, <2>1 DEF TypeOK
  <1>4. \A t \in Sessions : GuessInv(client'[t], proxy'[t], main'[t])
    BY <1>2 DEF GuessInv
  <1>5. QED
    BY <1>2, <1>3, <1>4 DEF Kept, PInv, TInv

-----------------------------------------------------------------------------
(***************************************************************************)
(* All steps.                                                              *)
(***************************************************************************)

LEMMA InitPInv == Init => PInv /\ TInv
PROOF
  <1> SUFFICES ASSUME Init
               PROVE  PInv /\ TInv
    OBVIOUS
  <1> DEFINE c == [st |-> "new", req |-> 0, in |-> None, got |-> <<>>, stray |-> {}]
             p == [pc |-> "off", inTrans |-> FALSE, db |-> None, rows |-> None, dropped |-> FALSE]
             m == [link |-> "none", out |-> "off", in |-> <<>>, back |-> <<>>, tx |-> NoTx]
  <1>1. <<>> \in Seq(Messages) /\ <<>> \in Seq(Nat \X Kinds) /\ NoTx \in TxStates /\ ~NoTx.open
    BY EmptySeq DEF NoTx, TxStates
  <1>2. /\ c \in Clients /\ c.st = "new" /\ c.in = None /\ c.got = <<>>
        /\ p \in Proxies /\ p.pc = "off" /\ p.rows = None
        /\ m \in Mains /\ m.in = <<>> /\ m.back = <<>> /\ m.link = "none" /\ m.tx = NoTx
    BY <1>1 DEF Clients, Proxies, Mains
  <1>3. /\ client = [s \in Sessions |-> c] /\ proxy = [s \in Sessions |-> p]
        /\ main = [s \in Sessions |-> m] /\ faults = 0
    BY DEF Init
  <1> HIDE DEF c, p, m
  <1>4. TypeOK
    BY <1>2, <1>3, PostgresAssumption DEF TypeOK
  <1>5. SessionInv(c, p, m)
    BY <1>2 DEF SessionInv, RowsInv, FlowInv, GotInv, FromMain, HasRows, Busy
  <1>6. GuessInv(c, p, m)
    BY <1>1, <1>2 DEF GuessInv, Busy
  <1>7. QED
    BY <1>3, <1>4, <1>5, <1>6 DEF PInv, TInv

LEMMA PostgresStep ==
    ASSUME PInv, [Next]_vars
    PROVE  Kept
PROOF
  <1>1. CASE UNCHANGED vars
    BY <1>1 DEF vars, Kept, PInv, TInv, TypeOK
  <1>2. CASE Next
    <2>1. PICK s \in Sessions :
              \/ /\ \/ Accept(s) \/ ClientSend(s) \/ ClientClosed(s)
                    \/ Inbound(s) \/ Outbound(s) \/ MainExecutes(s)
                 /\ UNCHANGED faults
              \/ /\ faults < MaxFaults
                 /\ faults' = faults + 1
                 /\ Failure(s)
      BY <1>2 DEF Next
    <2>2. faults' \in 0..MaxFaults
      BY <2>1, PostgresAssumption DEF PInv, TypeOK
    <2>3. CASE Accept(s) \/ ClientSend(s) \/ ClientClosed(s)
      BY <2>2, <2>3, AcceptStep, ClientSendStep, ClientLeaveStep DEF ClientClosed
    <2>4. CASE Inbound(s)
      BY <2>2, <2>4, DialMainStep, ReadEOFStep, ForwardToMainStep, ChooseDbStep, QueryStep,
         WriteDescStep, WriteRowStep, RowsEndStep, WriteCompleteStep, WriteReadyStep DEF Inbound
    <2>5. CASE Outbound(s) \/ MainExecutes(s)
      BY <2>2, <2>5, CopyFromMainStep, CopyStrayStep, OutboundEndsStep, MainExecutesStep
         DEF Outbound
    <2>6. CASE QueryFails(s)
      <3>1. proxy[s].pc \in {"query", "desc", "rows"}
        BY <2>6 DEF QueryFails
      <3>2. QED
        BY <2>2, <2>6, <3>1, QueryFailsStep DEF QueryFails
    <2>7. CASE Failure(s)
      BY <2>2, <2>6, <2>7, ClientStallStep, ClientLeaveStep, DialMainFailStep, RowsEndStep,
         ReadShortStep, CopyStrayStep, MainDropsStep DEF Failure
    <2>8. QED
      BY <2>1, <2>3, <2>4, <2>5, <2>7
  <1>3. QED
    BY <1>1, <1>2

\* The inductive invariant: for every session, where its command is, what part of
\* which answer the client has received, and what writeDataRow still has to send.
THEOREM PostgresInvariant == Spec => []PInv
PROOF
  <1>1. Init => PInv
    BY InitPInv
  <1>2. PInv /\ [Next]_vars => PInv'
    BY PostgresStep DEF Kept
  <1>3. QED
    BY <1>1, <1>2, PTL DEF Spec

-----------------------------------------------------------------------------
(***************************************************************************)
(* What the client receives.                                               *)
(***************************************************************************)

LEMMA GotCases ==
    ASSUME PInv, NEW s \in Sessions
    PROVE  FromMain(client[s].got, client[s].req) \/ FromReplica(client[s].got, client[s].req)
PROOF
  <1> DEFINE c == client[s]  p == proxy[s]
  <1>1. SessionInv(c, p, main[s])
    BY SessionFacts
  <1> HIDE DEF c, p
  <1>2. CASE c.got = <<>>
    BY <1>2 DEF FromMain, c
  <1>3. CASE c.got # <<>>
    <2>1. GotInv(c, p) /\ RowsInv(p)
      BY <1>1, <1>3 DEF SessionInv
    <2>2. CASE p.pc \in {"rows", "complete", "ready"}
      <3>1. p.rows.cols \in ColumnSets /\ p.rows.count \in 0..MaxRows
        BY <2>1, <2>2 DEF RowsInv, HasRows, Busy, Results
      <3>2. QED
        BY <2>1, <2>2, <3>1, ShownPart DEF GotInv, c
    <2>3. QED
      BY <1>3, <2>1, <2>2 DEF GotInv, Busy, c
  <1>4. QED
    BY <1>2, <1>3

\* An answer of a replica, message by message.
Lines(g, t, cols, n, len) ==
    /\ Len(g) = len /\ DOMAIN g = 1..len
    /\ \A i \in 1..len : g[i].tag = t /\ g[i].by = "replica"
    /\ \A i \in 1..len : /\ i = 1 => g[i].kind = "desc" /\ g[i].info = prepareRowDescription(cols)
                         /\ i \in 2..(n + 1) => g[i].kind = "row"
                         /\ i = n + 2 => g[i].kind = "complete" /\ g[i].info = n
                         /\ i = n + 3 => g[i].kind = "ready"

\* What is shown of an answer of a replica has these messages.
LEMMA ShownLines ==
    ASSUME NEW g \in Seq(Messages), NEW t \in Nat, NEW cols \in ColumnSets, NEW n \in 0..MaxRows,
           NEW len \in 1..(n + 3), Shown(g, t, cols, n, len)
    PROVE  Lines(g, t, cols, n, len)
PROOF
  <1>1. Len(g) = len /\ DOMAIN g = 1..len /\ \A i \in 1..len : g[i] = Line(t, cols, n, i)
    BY DEF Shown
  <1>2. n \in Nat
    OBVIOUS
  <1>3. ASSUME NEW i \in 1..len
        PROVE  /\ g[i].tag = t /\ g[i].by = "replica"
               /\ i = 1 => g[i].kind = "desc" /\ g[i].info = prepareRowDescription(cols)
               /\ i \in 2..(n + 1) => g[i].kind = "row"
               /\ i = n + 2 => g[i].kind = "complete" /\ g[i].info = n
               /\ i = n + 3 => g[i].kind = "ready"
    <2>1. i \in Nat \ {0} /\ g[i] = Line(t, cols, n, i)
      BY <1>1
    <2>2. i = n + 3 => i > n + 2
      BY <1>2
    <2> DEFINE line == Line(t, cols, n, i)
    <2>3. /\ line.tag = t /\ line.by = "replica"
          /\ i = 1 => line.kind = "desc" /\ line.info = prepareRowDescription(cols)
          /\ i \in 2..(n + 1) => line.kind = "row"
          /\ i = n + 2 => line.kind = "complete" /\ line.info = n
          /\ i > n + 2 => line.kind = "ready"
      <3>0. i \in Nat \ {0}
        BY <2>1
      <3>1. line.tag = t /\ line.by = "replica"
        BY <3>0, LineFacts
      <3>2. i = 1 => line.kind = "desc" /\ line.info = prepareRowDescription(cols)
        BY <3>0, LineFacts
      <3>3. i \in 2..(n + 1) => line.kind = "row"
        BY <3>0, LineFacts
      <3>4. i = n + 2 => line.kind = "complete" /\ line.info = n
        BY <3>0, LineFacts
      <3>5. i > n + 2 => line.kind = "ready"
        BY <3>0, LineFacts
      <3> HIDE DEF line
      <3>6. QED
        BY <3>1, <3>2, <3>3, <3>4, <3>5, Zenon
    <2> HIDE DEF line
    <2>4. g[i] = line
      BY <2>1 DEF line
    <2>5. QED
      BY <2>2, <2>3, <2>4, Zenon
  <1>4. QED
    BY <1>1, <1>3 DEF Lines

-----------------------------------------------------------------------------
(***************************************************************************)
(* What the client is sent unasked.                                        *)
(***************************************************************************)

\* After its FATAL the main server has nothing more for the client.
StrayInv(c, p, m) ==
    /\ c.st = "gone" => c.stray = {}
    /\ p.pc \in {"off", "dial"} => c.stray = {} /\ m.link = "none"
    /\ \A n \in c.stray : n.at <= Len(c.got)
    /\ \A f \in c.stray : f.kind = "fatal" =>
        /\ m.link \in {"dead", "closed"} /\ m.back = <<>>
        /\ \A n \in c.stray : n.at <= f.at
        /\ \A i \in DOMAIN c.got : c.got[i].by = "main" => i <= f.at

SInv == \A s \in Sessions : StrayInv(client[s], proxy[s], main[s])

\* A step that writes nothing to the client and brings no answer.
Quiet(c, p, m, c1, p1, m1) ==
    /\ c1.stray = c.stray /\ c1.got = c.got /\ (c1.st = "gone" => c.st = "gone")
    /\ m1.link \in {m.link, "closed"} /\ m1.back \in {m.back, <<>>}
    /\ p1.pc \in {"off", "dial"} => p.pc \in {"off", "dial"} /\ m1.link = m.link

LEMMA QuietStray ==
    ASSUME NEW c, NEW p, NEW m, NEW c1, NEW p1, NEW m1,
           StrayInv(c, p, m), Quiet(c, p, m, c1, p1, m1)
    PROVE  StrayInv(c1, p1, m1)
PROOF
  BY DEF StrayInv, Quiet

LEMMA StrayStep ==
    ASSUME PInv, SInv, NEW s \in Sessions,
           \A t \in Sessions \ {s} :
                client'[t] = client[t] /\ proxy'[t] = proxy[t] /\ main'[t] = main[t],
           StrayInv(client'[s], proxy'[s], main'[s])
    PROVE  SInv'
PROOF
  <1>1. \A t \in Sessions : StrayInv(client'[t], proxy'[t], main'[t])
    BY DEF SInv
  <1>2. QED
    BY <1>1 DEF SInv

\* A step of session s leaves the others alone.
LEMMA StrayFrame ==
    ASSUME PInv, NEW s \in Sessions,
           \/ Accept(s) \/ ClientSend(s) \/ ClientLeave(s) \/ ClientStall(s)
           \/ Inbound(s) \/ Outbound(s) \/ MainExecutes(s)
           \/ DialMainFail(s) \/ QueryFails(s) \/ RowsCut(s) \/ CopyNotice(s) \/ MainDrops(s)
    PROVE  \A t \in Sessions \ {s} :
                client'[t] = client[t] /\ proxy'[t] = proxy[t] /\ main'[t] = main[t]
PROOF
  <1>1. TypeOK
    BY DEF PInv
  <1>2. CASE Accept(s) \/ ClientSend(s) \/ ClientLeave(s) \/ ClientStall(s)
    BY <1>1, <1>2 DEF TypeOK, Accept, ClientSend, ClientLeave, ClientStall
  <1>3. CASE DialMain(s) \/ ReadEOF(s) \/ ForwardToMain(s) \/ ChooseDb(s) \/ Query(s) \/ RowsEnd(s)
    BY <1>1, <1>3 DEF TypeOK, DialMain, ReadEOF, ForwardToMain, EndService, ChooseDb, Query, RowsEnd
  <1>4. CASE WriteDesc(s) \/ WriteRow(s) \/ WriteComplete(s) \/ WriteReady(s)
    BY <1>1, <1>4 DEF TypeOK, WriteDesc, WriteRow, WriteComplete, WriteReady, Write
  <1>5. CASE Outbound(s) \/ MainExecutes(s) \/ CopyNotice(s) \/ MainDrops(s)
    BY <1>1, <1>5 DEF TypeOK, Outbound, CopyFromMain, CopyFatal, OutboundEnds, MainExecutes,
                      CopyNotice, MainDrops
  <1>6. CASE DialMainFail(s) \/ QueryFails(s) \/ RowsCut(s)
    BY <1>1, <1>6 DEF TypeOK, DialMainFail, QueryFails, RowsCut
  <1>7. QED
    BY <1>2, <1>3, <1>4, <1>5, <1>6 DEF Inbound

\* The steps that write nothing.
LEMMA QuietSteps ==
    ASSUME PInv, NEW s \in Sessions,
           \/ Accept(s) \/ ClientStall(s) \/ ReadEOF(s) \/ ForwardToMain(s) \/ ChooseDb(s)
           \/ Query(s) \/ RowsEnd(s) \/ OutboundEnds(s)
           \/ DialMainFail(s) \/ QueryFails(s) \/ RowsCut(s)
    PROVE  Quiet(client[s], proxy[s], main[s], client'[s], proxy'[s], main'[s])
PROOF
  <1>1. /\ client \in [Sessions -> Clients] /\ proxy \in [Sessions -> Proxies]
        /\ main \in [Sessions -> Mains]
    BY DEF PInv, TypeOK
  <1>2. client[s] \in Clients /\ proxy[s] \in Proxies /\ main[s] \in Mains
    BY <1>1
  <1>3. CASE Accept(s)
    BY <1>1, <1>2, <1>3 DEF Accept, Quiet, Clients, Proxies
  <1>4. CASE ClientStall(s)
    BY <1>1, <1>2, <1>4 DEF ClientStall, Quiet, Clients
  <1>5. CASE ReadEOF(s)
    BY <1>1, <1>2, <1>5 DEF ReadEOF, EndService, Quiet, Proxies, Mains
  <1>6. CASE ForwardToMain(s)
    <2>1. /\ client'[s].stray = client[s].stray /\ client'[s].got = client[s].got
          /\ client'[s].st = client[s].st
      BY <1>1, <1>2, <1>6 DEF ForwardToMain, Clients
    <2>2. PICK guess : \/ /\ proxy' = [proxy EXCEPT ![s].inTrans = guess]
                          /\ \E in : main' = [main EXCEPT ![s].in = in]
                       \/ EndService(s, guess)
      BY <1>6 DEF ForwardToMain
    <2>3. CASE EndService(s, guess)
      <3>1. proxy'[s].pc = "done" /\ main'[s].link = "closed" /\ main'[s].back = <<>>
        BY <1>1, <1>2, <2>3 DEF EndService, Proxies, Mains
      <3>2. QED
        BY <2>1, <3>1 DEF Quiet
    <2>4. CASE /\ proxy' = [proxy EXCEPT ![s].inTrans = guess]
               /\ \E in : main' = [main EXCEPT ![s].in = in]
      <3>1. proxy'[s].pc = "read"
        BY <1>1, <1>2, <1>6, <2>4 DEF ForwardToMain, Proxies
      <3>2. main'[s].link = main[s].link /\ main'[s].back = main[s].back
        BY <1>1, <1>2, <2>4 DEF Mains
      <3>3. QED
        BY <2>1, <3>1, <3>2 DEF Quiet
    <2>5. QED
      BY <2>2, <2>3, <2>4
  <1>7. CASE ChooseDb(s) \/ Query(s) \/ RowsEnd(s) \/ RowsCut(s) \/ DialMainFail(s)
    <2>1. main' = main /\ proxy'[s].pc \notin {"off", "dial"}
      <3>1. CASE ChooseDb(s)
        <4>1. PICK d : proxy' = [proxy EXCEPT ![s].db = d, ![s].pc = "query"]
          BY <3>1 DEF ChooseDb
        <4>2. main' = main
          BY <3>1 DEF ChooseDb
        <4>3. QED
          BY <1>1, <1>2, <4>1, <4>2 DEF Proxies
      <3>2. CASE Query(s)
        <4>1. PICK r : proxy' = [proxy EXCEPT ![s].pc = "desc", ![s].rows = r]
          BY <3>2 DEF Query
        <4>2. main' = main
          BY <3>2 DEF Query
        <4>3. QED
          BY <1>1, <1>2, <4>1, <4>2 DEF Proxies
      <3>3. CASE RowsEnd(s) \/ RowsCut(s)
        BY <1>1, <1>2, <3>3 DEF RowsEnd, RowsCut, Proxies
      <3>4. CASE DialMainFail(s)
        BY <1>1, <1>2, <3>4 DEF DialMainFail, Proxies
      <3>5. QED
        BY <1>7, <3>1, <3>2, <3>3, <3>4
    <2>2. /\ client'[s].stray = client[s].stray /\ client'[s].got = client[s].got
          /\ client'[s].st = client[s].st
      BY <1>1, <1>2, <1>7 DEF ChooseDb, Query, RowsEnd, RowsCut, DialMainFail, Clients
    <2>3. QED
      BY <2>1, <2>2 DEF Quiet
  <1>8. CASE QueryFails(s)
    <2>1. ReturnOf(proxy[s], TRUE).pc = "read"
      BY <1>2, ReturnFacts
    <2>2. proxy'[s] = ReturnOf(proxy[s], TRUE) /\ client' = client /\ main' = main
      BY <1>1, <1>8 DEF QueryFails
    <2>3. QED
      BY <2>1, <2>2 DEF Quiet
  <1>9. CASE OutboundEnds(s)
    BY <1>1, <1>2, <1>9 DEF OutboundEnds, Quiet, Mains
  <1>10. QED
    BY <1>3, <1>4, <1>5, <1>6, <1>7, <1>8, <1>9

\* A message more: only the main server's may not follow its FATAL.
LEMMA ReceivedStrays ==
    ASSUME NEW c \in Clients, NEW msg \in Messages, NEW p, NEW m, NEW p1, NEW m1,
           StrayInv(c, p, m), p1.pc \notin {"off", "dial"},
           c.st # "gone" => msg.by = "replica" \/ m.back # <<>>,
           m1.link = m.link, m1.back = m.back \/ m.back # <<>>
    PROVE  StrayInv(Received(c, msg), p1, m1)
PROOF
  <1> DEFINE c1 == Received(c, msg)
  <1>1. CASE c.st = "gone"
    BY <1>1 DEF Received, StrayInv
  <1>2. CASE c.st # "gone"
    <2>1. /\ c1.got = Append(c.got, msg) /\ c.got \in Seq(Messages)
          /\ c1.st # "gone" /\ c1.stray = c.stray /\ c.stray \subseteq Strays
      BY <1>2 DEF Received, Clients
    <2>2. /\ Len(c1.got) = Len(c.got) + 1 /\ Len(c.got) \in Nat
          /\ DOMAIN c.got = 1..Len(c.got) /\ DOMAIN c1.got = 1..(Len(c.got) + 1)
          /\ \A i \in 1..Len(c.got) : c1.got[i] = c.got[i]
          /\ c1.got[Len(c.got) + 1] = msg
      BY <2>1
    <2>3. \A n \in c.stray : n.at \in Nat /\ n.at <= Len(c.got)
      BY <2>1 DEF StrayInv, Strays
    <2> HIDE DEF c1
    <2>4. \A n \in c1.stray : n.at <= Len(c1.got)
      BY <2>1, <2>2, <2>3
    <2>5. ASSUME NEW f \in c1.stray, f.kind = "fatal"
          PROVE  /\ m1.link \in {"dead", "closed"} /\ m1.back = <<>>
                 /\ \A n \in c1.stray : n.at <= f.at
                 /\ \A i \in DOMAIN c1.got : c1.got[i].by = "main" => i <= f.at
      <3>1. /\ m.link \in {"dead", "closed"} /\ m.back = <<>>
            /\ \A n \in c.stray : n.at <= f.at
            /\ \A i \in DOMAIN c.got : c.got[i].by = "main" => i <= f.at
        BY <2>1, <2>5 DEF StrayInv
      <3>2. msg.by = "replica"
        BY <1>2, <3>1
      <3>3. ASSUME NEW i \in DOMAIN c1.got, c1.got[i].by = "main"
            PROVE  i <= f.at
        <4>1. i \in 1..Len(c.got) \/ i = Len(c.got) + 1
          BY <2>2
        <4>2. i # Len(c.got) + 1
          BY <2>2, <3>2, <3>3
        <4>3. QED
          BY <2>2, <3>1, <3>3, <4>1, <4>2
      <3>4. QED
        BY <2>1, <3>1, <3>3
    <2>6. StrayInv(c1, p1, m1)
      BY <2>1, <2>4, <2>5 DEF StrayInv
    <2>7. QED
      BY <2>6 DEF c1
  <1>3. QED
    BY <1>1, <1>2

\* One Write of writeDataRow.
LEMMA WriteStray ==
    ASSUME PInv, SInv, NEW s \in Sessions, NEW next \in Proxies,
           NEW kind \in {"desc", "row", "complete", "ready"}, NEW info \in Infos,
           Write(s, kind, info, next), next.pc \notin {"off", "dial"}
    PROVE  StrayInv(client'[s], proxy'[s], main'[s])
PROOF
  <1>1. /\ client \in [Sessions -> Clients] /\ proxy \in [Sessions -> Proxies]
        /\ StrayInv(client[s], proxy[s], main[s])
    BY DEF PInv, SInv, TypeOK
  <1> DEFINE msg == Message(client[s].req, "replica", kind, info)
  <1>2. msg \in Messages /\ msg.by = "replica"
    <2>1. client[s].req \in Nat
      BY <1>1 DEF Clients
    <2>2. QED
      BY <2>1, MessageFacts
  <1>3. CASE client' = [client EXCEPT ![s] = Received(@, msg)] /\ proxy' = [proxy EXCEPT ![s] = next]
    <2>1. client'[s] = Received(client[s], msg) /\ proxy'[s] = next /\ main' = main
      BY <1>1, <1>3 DEF Write
    <2> HIDE DEF msg
    <2>2. client[s] \in Clients
      BY <1>1
    <2>3. QED
      BY <1>1, <1>2, <2>1, <2>2, ReceivedStrays
  <1>4. CASE client' = client /\ proxy' = [proxy EXCEPT ![s] = ReturnOf(@, TRUE)]
    <2>1. proxy'[s].pc = "read" /\ main' = main
      BY <1>1, <1>4, ReturnFacts DEF Write
    <2>2. Quiet(client[s], proxy[s], main[s], client'[s], proxy'[s], main'[s])
      BY <1>4, <2>1 DEF Quiet
    <2>3. QED
      BY <1>1, <2>2, QuietStray
  <1>5. QED
    BY <1>3, <1>4 DEF Write

LEMMA WritesStray ==
    ASSUME PInv, SInv, NEW s \in Sessions,
           WriteDesc(s) \/ WriteRow(s) \/ WriteComplete(s) \/ WriteReady(s)
    PROVE  StrayInv(client'[s], proxy'[s], main'[s])
PROOF
  <1> DEFINE p == proxy[s]
             rows == [p.rows EXCEPT !.count = p.rows.count + 1]
  <1>1. p \in Proxies /\ RowsInv(p)
    BY SessionFacts DEF SessionInv
  <1>2. CASE WriteDesc(s)
    <2>1. p.rows.cols \in ColumnSets
      BY <1>1, <1>2 DEF WriteDesc, RowsInv, HasRows, Busy, Results
    <2>2. [p EXCEPT !.pc = "rows"] \in Proxies /\ [p EXCEPT !.pc = "rows"].pc = "rows"
      BY <1>1 DEF Proxies
    <2>3. prepareRowDescription(p.rows.cols) \in Infos
      BY <2>1, InfoFacts
    <2>4. QED
      BY <1>2, <2>2, <2>3, WriteStray DEF WriteDesc
  <1>3. CASE WriteRow(s)
    <2>1. p.pc = "rows" /\ p.rows \in Results /\ p.rows.count < p.rows.size
      BY <1>1, <1>3 DEF WriteRow, RowsInv, HasRows, Busy
    <2>2. rows \in Results
      <3>1. p.rows.size \in 0..MaxRows /\ p.rows.count \in 0..MaxRows /\ MaxRows \in Nat
        BY <2>1, PostgresAssumption DEF Results
      <3>2. p.rows.count + 1 \in 0..MaxRows
        BY <2>1, <3>1
      <3>3. QED
        BY <2>1, <3>2 DEF Results
    <2> HIDE DEF rows
    <2>3. [p EXCEPT !.rows = rows] \in Proxies /\ [p EXCEPT !.rows = rows].pc = "rows"
      BY <1>1, <2>1, <2>2 DEF Proxies
    <2>4. Write(s, "row", None, [p EXCEPT !.rows = rows])
      BY <1>1, <1>3 DEF WriteRow, Proxies, rows
    <2>5. QED
      BY <2>3, <2>4, InfoFacts, WriteStray
  <1>4. CASE WriteComplete(s)
    <2>1. p.rows.count \in 0..MaxRows
      BY <1>1, <1>4 DEF WriteComplete, RowsInv, HasRows, Busy, Results
    <2>2. [p EXCEPT !.pc = "ready"] \in Proxies /\ [p EXCEPT !.pc = "ready"].pc = "ready"
      BY <1>1 DEF Proxies
    <2>3. p.rows.count \in Infos
      BY <2>1, InfoFacts
    <2>4. QED
      BY <1>4, <2>2, <2>3, WriteStray DEF WriteComplete
  <1>5. CASE WriteReady(s)
    <2>1. ReturnOf(p, FALSE) \in Proxies /\ ReturnOf(p, FALSE).pc = "read" /\ FALSE \in Infos
      BY <1>1, ReturnFacts, InfoFacts
    <2>2. QED
      BY <1>5, <2>1, WriteStray DEF WriteReady
  <1>6. QED
    BY <1>2, <1>3, <1>4, <1>5

LEMMA OtherStrays ==
    ASSUME PInv, SInv, NEW s \in Sessions,
           \/ ClientSend(s) \/ ClientLeave(s) \/ DialMain(s) \/ CopyFromMain(s)
           \/ MainExecutes(s) \/ MainDrops(s)
    PROVE  StrayInv(client'[s], proxy'[s], main'[s])
PROOF
  <1> DEFINE c == client[s]  p == proxy[s]  m == main[s]
  <1>1. /\ client \in [Sessions -> Clients] /\ proxy \in [Sessions -> Proxies]
        /\ main \in [Sessions -> Mains] /\ StrayInv(c, p, m)
    BY DEF PInv, SInv, TypeOK
  <1>2. c \in Clients /\ p \in Proxies /\ m \in Mains /\ SessionInv(c, p, m)
    BY SessionFacts
  <1>3. CASE ClientSend(s)
    <2>1. PICK k : client' = [client EXCEPT ![s] =
                [st |-> "waiting", req |-> @.req + 1, in |-> k, got |-> <<>>, stray |-> {}]]
      BY <1>3 DEF ClientSend
    <2>2. client'[s].st = "waiting" /\ client'[s].stray = {}
      BY <1>1, <2>1
    <2>3. main' = main /\ proxy'[s].pc = p.pc
      BY <1>1, <1>2, <1>3 DEF ClientSend, Proxies
    <2>4. QED
      BY <1>1, <2>2, <2>3 DEF StrayInv
  <1>4. CASE ClientLeave(s)
    <2>1. client'[s].stray = {} /\ proxy' = proxy /\ main' = main
      BY <1>1, <1>2, <1>4 DEF ClientLeave, Clients
    <2>2. QED
      BY <1>1, <2>1 DEF StrayInv
  <1>5. CASE DialMain(s)
    <2>1. client' = client /\ proxy'[s].pc = "read" /\ p.pc = "dial"
      BY <1>1, <1>2, <1>5 DEF DialMain, Proxies
    <2>2. QED
      BY <1>1, <2>1 DEF StrayInv
  <1>6. CASE CopyFromMain(s)
    <2>1. m.back # <<>> /\ m.back \in Seq(Messages) /\ Head(m.back) \in Messages /\ proxy' = proxy
      BY <1>2, <1>6 DEF CopyFromMain, Mains
    <2>2. main'[s].link = m.link
      BY <1>1, <1>2, <1>6 DEF CopyFromMain, Mains
    <2>3. CASE client'[s] = Received(c, Head(m.back))
      <3>1. CASE c.st = "gone"
        <4>1. client'[s] = c
          BY <2>3, <3>1 DEF Received
        <4>2. QED
          BY <1>1, <2>1, <2>2, <3>1, <4>1 DEF StrayInv
      <3>2. CASE c.st # "gone"
        <4>1. p.pc \notin {"off", "dial"}
          BY <1>2, <2>1, <3>2 DEF SessionInv, FlowInv
        <4> HIDE DEF c, p, m
        <4>2. QED
          BY <1>1, <1>2, <2>1, <2>2, <2>3, <4>1, ReceivedStrays DEF p
      <3>3. QED
        BY <3>1, <3>2
    <2>4. CASE c.st = "gone" /\ client' = client
      BY <1>1, <2>1, <2>2, <2>4 DEF StrayInv
    <2>5. QED
      BY <1>1, <1>6, <2>3, <2>4 DEF CopyFromMain
  <1>7. CASE MainExecutes(s) \/ MainDrops(s)
    <2>1. client' = client /\ proxy' = proxy /\ (m.in # <<>> \/ m.link = "open")
      BY <1>7 DEF MainExecutes, MainDrops
    <2>2. CASE c.st = "gone"
      <3>1. p.pc \in {"off", "dial"} => main'[s].link = "none"
        <4>1. CASE MainDrops(s)
          BY <1>1, <4>1 DEF StrayInv, MainDrops
        <4>2. CASE MainExecutes(s)
          <5>1. PICK tx, back : main' = [main EXCEPT ![s].in = Tail(@), ![s].tx = tx, ![s].back = @ \o back]
            BY <4>2 DEF MainExecutes
          <5>2. main'[s].link = m.link
            BY <1>1, <1>2, <5>1 DEF Mains
          <5>3. QED
            BY <1>1, <5>2 DEF StrayInv
        <4>3. QED
          BY <1>7, <4>1, <4>2
      <3>2. QED
        BY <1>1, <2>1, <2>2, <3>1 DEF StrayInv
    <2>3. CASE c.st # "gone"
      <3>1. m.link = "open"
        BY <1>2, <2>1, <2>3 DEF SessionInv, FlowInv
      <3>2. QED
        BY <1>1, <2>1, <3>1 DEF StrayInv
    <2>4. QED
      BY <2>2, <2>3
  <1>8. QED
    BY <1>3, <1>4, <1>5, <1>6, <1>7

\* A notice comes before a FATAL, and there is one FATAL.
LEMMA CopyStrays ==
    ASSUME PInv, SInv, NEW s \in Sessions, CopyNotice(s) \/ CopyFatal(s)
    PROVE  StrayInv(client'[s], proxy'[s], main'[s])
PROOF
  <1>0. PICK k \in {"notice", "fatal"} :
            /\ client' = [client EXCEPT ![s] = ReceivedStray(@, k)] /\ proxy' = proxy
            /\ \/ k = "notice" /\ main' = main /\ main[s].link = "open"
               \/ /\ main' = [main EXCEPT ![s].link = "dead"]
                  /\ main[s].link = "fatal" /\ main[s].back = <<>>
    BY DEF CopyNotice, CopyFatal
  <1> DEFINE c == client[s]  p == proxy[s]  m == main[s]
             c1 == ReceivedStray(c, k)
             new == [kind |-> k, at |-> Len(c.got)]
  <1>1. /\ client \in [Sessions -> Clients] /\ main \in [Sessions -> Mains] /\ StrayInv(c, p, m)
    BY DEF PInv, SInv, TypeOK
  <1>2. c \in Clients /\ m \in Mains /\ m.link \in {"open", "fatal"}
    BY <1>0, <1>1
  <1>3. client'[s] = c1 /\ proxy'[s] = p
    BY <1>0, <1>1
  <1>4. \/ k = "notice" /\ main'[s] = m
        \/ main'[s].link = "dead" /\ main'[s].back = <<>>
    BY <1>0, <1>1, <1>2 DEF Mains
  <1>5. p.pc \notin {"off", "dial"} /\ \A n \in c.stray : n.kind # "fatal"
    BY <1>1, <1>2 DEF StrayInv
  <1>6. CASE c.st = "gone"
    <2>1. c1 = c /\ c.stray = {}
      BY <1>1, <1>6 DEF ReceivedStray, StrayInv
    <2>2. QED
      BY <1>3, <1>5, <2>1 DEF StrayInv
  <1>7. CASE c.st # "gone"
    <2>1. c1.st = c.st /\ c1.got = c.got /\ c1.stray = c.stray \cup {new}
      BY <1>2, <1>7, StrayFacts
    <2>2. Len(c.got) \in Nat /\ DOMAIN c.got = 1..Len(c.got)
      BY <1>2 DEF Clients
    <2>3. \A n \in c.stray : n.at <= Len(c.got)
      BY <1>1 DEF StrayInv
    <2>4. new.kind = k /\ new.at = Len(c.got)
      OBVIOUS
    <2> HIDE DEF new, c, p, m, c1
    <2>5. \A n \in c1.stray : n.at <= Len(c1.got)
      BY <2>1, <2>2, <2>3, <2>4
    <2>6. \A f \in c1.stray : f.kind = "fatal" => f = new /\ k = "fatal"
      BY <1>5, <2>1, <2>4
    <2>7. \A i \in DOMAIN c1.got : i <= Len(c1.got)
      BY <2>1, <2>2
    <2>8. k = "fatal" => main'[s].link = "dead" /\ main'[s].back = <<>>
      BY <1>4
    <2>9. StrayInv(c1, p, main'[s])
      BY <1>5, <1>7, <2>1, <2>4, <2>5, <2>6, <2>7, <2>8 DEF StrayInv
    <2>10. QED
      BY <1>3, <2>9
  <1>8. QED
    BY <1>6, <1>7

\* When the process ends nothing is written either.
LEMMA ReadShortStray ==
    ASSUME PInv, SInv, NEW s \in Sessions, ReadShort(s)
    PROVE  SInv'
PROOF
  <1>1. /\ client \in [Sessions -> Clients] /\ proxy \in [Sessions -> Proxies]
        /\ main \in [Sessions -> Mains]
    BY DEF PInv, TypeOK
  <1>2. ASSUME NEW t \in Sessions
        PROVE  StrayInv(client'[t], proxy'[t], main'[t])
    <2>1. client[t] \in Clients /\ proxy[t] \in Proxies /\ main[t] \in Mains
      BY <1>1
    <2>2. /\ client'[t].stray = client[t].stray /\ client'[t].got = client[t].got
          /\ client'[t].st = client[t].st
      BY <1>1, <2>1 DEF ReadShort, Clients
    <2>3. proxy'[t].pc = "done" /\ main'[t].link = "closed" /\ main'[t].back = <<>>
      BY <2>1 DEF ReadShort, Ended, Severed, Proxies, Mains
    <2>4. Quiet(client[t], proxy[t], main[t], client'[t], proxy'[t], main'[t])
      BY <2>2, <2>3 DEF Quiet
    <2>5. QED
      BY <2>4, QuietStray DEF SInv
  <1>3. QED
    BY <1>2 DEF SInv

LEMMA NextSInv ==
    ASSUME PInv, SInv, [Next]_vars
    PROVE  SInv'
PROOF
  <1>1. CASE UNCHANGED vars
    BY <1>1 DEF vars, SInv
  <1>2. CASE Next
    <2>1. PICK s \in Sessions :
              \/ Accept(s) \/ ClientSend(s) \/ ClientClosed(s)
              \/ Inbound(s) \/ Outbound(s) \/ MainExecutes(s) \/ Failure(s)
      BY <1>2 DEF Next
    <2>2. CASE ReadShort(s)
      BY <2>2, ReadShortStray
    <2>3. CASE ~ReadShort(s)
      <3>1. \/ Accept(s) \/ ClientStall(s) \/ ReadEOF(s) \/ ForwardToMain(s) \/ ChooseDb(s)
            \/ Query(s) \/ RowsEnd(s) \/ OutboundEnds(s)
            \/ DialMainFail(s) \/ QueryFails(s) \/ RowsCut(s)
            \/ WriteDesc(s) \/ WriteRow(s) \/ WriteComplete(s) \/ WriteReady(s)
            \/ ClientSend(s) \/ ClientLeave(s) \/ DialMain(s) \/ CopyFromMain(s)
            \/ MainExecutes(s) \/ MainDrops(s) \/ CopyNotice(s) \/ CopyFatal(s)
        BY <2>1, <2>3, Zenon DEF Inbound, Outbound, Failure, ClientClosed
      <3>2. \A t \in Sessions \ {s} :
                client'[t] = client[t] /\ proxy'[t] = proxy[t] /\ main'[t] = main[t]
        BY <3>1, StrayFrame, Zenon DEF Inbound, Outbound
      <3>3. StrayInv(client'[s], proxy'[s], main'[s])
        <4>1. StrayInv(client[s], proxy[s], main[s])
          BY DEF SInv
        <4>2. QED
          BY <3>1, <4>1, QuietSteps, QuietStray, WritesStray, OtherStrays, CopyStrays, Zenon
      <3>4. QED
        BY <3>2, <3>3, StrayStep
    <2>4. QED
      BY <2>2, <2>3
  <1>3. QED
    BY <1>1, <1>2

\* The FATAL comes last of what the main server sends.
LEMMA StraysLast ==
    ASSUME SInv, NEW t \in Sessions, NEW f \in client[t].stray, f.kind = "fatal"
    PROVE  /\ \A n \in client[t].stray : n.at <= f.at
           /\ \A i \in DOMAIN client[t].got : client[t].got[i].by = "main" => i <= f.at
PROOF
  <1>1. StrayInv(client[t], proxy[t], main[t])
    BY DEF SInv
  <1>2. QED
    BY <1>1, Zenon DEF StrayInv

LEMMA InitSInv == Init => SInv
PROOF
  BY DEF Init, SInv, StrayInv

\* OneAnswer of PostgresProxy, for any number of sessions and rows: although two
\* goroutines write to the client, what it has received answers its last command,
\* comes from one server, and is in the order of the protocol.  The main server may
\* speak unasked at any time; nothing of its own follows its FATAL.
THEOREM PostgresOneAnswer == Spec => []OneAnswer
PROOF
  <1>1. PInv /\ SInv => OneAnswer
    <2> SUFFICES ASSUME PInv, SInv, NEW s \in Sessions
                 PROVE  LET got == client[s].got
                            rank == [desc |-> 1, row |-> 2, body |-> 2, complete |-> 3, ready |-> 4]
                        IN  /\ \A i \in DOMAIN got : got[i].tag = client[s].req /\ got[i].by = got[1].by
                            /\ \A i \in 1..(Len(got) - 1) :
                                \/ rank[got[i].kind] < rank[got[i + 1].kind]
                                \/ got[i].kind = "row" /\ got[i + 1].kind = "row"
      BY StraysLast, Zenon DEF OneAnswer
    <2> DEFINE got == client[s].got
               req == client[s].req
               rank == [desc |-> 1, row |-> 2, body |-> 2, complete |-> 3, ready |-> 4]
    <2>1. got \in Seq(Messages) /\ req \in Nat
      BY SessionFacts DEF Clients
    <2>2. /\ rank["desc"] = 1 /\ rank["row"] = 2 /\ rank["body"] = 2
          /\ rank["complete"] = 3 /\ rank["ready"] = 4
      OBVIOUS
    <2>3. FromMain(got, req) \/ FromReplica(got, req)
      BY GotCases
    <2> HIDE DEF got, req, rank
    <2>4. CASE FromMain(got, req)
      <3>1. CASE got = <<>>
        BY <3>1 DEF got, rank
      <3>2. /\ Body(req).tag = req /\ Body(req).by = "main" /\ Body(req).kind = "body"
            /\ \A open \in BOOLEAN : /\ Ready(req, open).tag = req /\ Ready(req, open).by = "main"
                                     /\ Ready(req, open).kind = "ready"
        BY <2>1 DEF Body, Ready, Message
      <3>3. CASE got = <<Body(req)>>
        <4>1. Len(got) = 1 /\ DOMAIN got = {1} /\ got[1] = Body(req)
          BY <3>3
        <4>2. 1..(Len(got) - 1) = {}
          BY <4>1
        <4>3. QED
          BY <3>2, <4>1, <4>2 DEF got, req
      <3>4. ASSUME NEW open \in BOOLEAN, got = <<Body(req), Ready(req, open)>>
            PROVE  /\ \A i \in DOMAIN got : got[i].tag = req /\ got[i].by = got[1].by
                   /\ \A i \in 1..(Len(got) - 1) : rank[got[i].kind] < rank[got[i + 1].kind]
        <4>1. Len(got) = 2 /\ DOMAIN got = {1, 2} /\ got[1] = Body(req) /\ got[2] = Ready(req, open)
          BY <3>4
        <4>2. 1..(Len(got) - 1) = {1}
          BY <4>1
        <4>3. QED
          BY <2>2, <3>2, <4>1, <4>2
      <3>5. QED
        BY <2>4, <3>1, <3>3, <3>4 DEF FromMain, got, req, rank
    <2>5. CASE FromReplica(got, req)
      <3>0. PICK cols \in ColumnSets, n \in 0..MaxRows :
                \E len \in 1..(n + 3) : Shown(got, req, cols, n, len)
        BY <2>5 DEF FromReplica
      <3>1. PICK len \in 1..(n + 3) : Shown(got, req, cols, n, len)
        BY <3>0
      <3>2. /\ Len(got) = len /\ DOMAIN got = 1..len
            /\ \A i \in 1..len : got[i].tag = req /\ got[i].by = "replica"
            /\ \A i \in 1..len : /\ i = 1 => got[i].kind = "desc"
                                 /\ i \in 2..(n + 1) => got[i].kind = "row"
                                 /\ i = n + 2 => got[i].kind = "complete"
                                 /\ i = n + 3 => got[i].kind = "ready"
        <4>1. Lines(got, req, cols, n, len)
          BY <2>1, <3>1, ShownLines
        <4>2. QED
          BY <4>1, Zenon DEF Lines
      <3>3. ASSUME NEW i \in 1..(len - 1)
            PROVE  \/ rank[got[i].kind] < rank[got[i + 1].kind]
                   \/ got[i].kind = "row" /\ got[i + 1].kind = "row"
        <4>1. n \in Nat /\ i \in 1..len /\ i + 1 \in 1..len
          OBVIOUS
        <4>2. CASE i = 1 /\ i + 1 <= n + 1
          <5>1. i + 1 \in 2..(n + 1)
            BY <4>1, <4>2
          <5>2. got[i].kind = "desc" /\ got[i + 1].kind = "row"
            BY <3>2, <4>1, <4>2, <5>1
          <5>3. QED
            BY <2>2, <5>2
        <4>3. CASE i = 1 /\ i + 1 = n + 2
          <5>1. got[i].kind = "desc" /\ got[i + 1].kind = "complete"
            BY <3>2, <4>1, <4>3
          <5>2. QED
            BY <2>2, <5>1
        <4>4. CASE i \in 2..(n + 1) /\ i + 1 \in 2..(n + 1)
          BY <3>2, <4>1, <4>4
        <4>5. CASE i \in 2..(n + 1) /\ i + 1 = n + 2
          <5>1. got[i].kind = "row" /\ got[i + 1].kind = "complete"
            BY <3>2, <4>1, <4>5
          <5>2. QED
            BY <2>2, <5>1
        <4>6. CASE i = n + 2 /\ i + 1 = n + 3
          <5>1. got[i].kind = "complete" /\ got[i + 1].kind = "ready"
            BY <3>2, <4>1, <4>6
          <5>2. QED
            BY <2>2, <5>1
        <4>7. \/ i = 1 /\ i + 1 <= n + 1
              \/ i = 1 /\ i + 1 = n + 2
              \/ i \in 2..(n + 1) /\ i + 1 \in 2..(n + 1)
              \/ i \in 2..(n + 1) /\ i + 1 = n + 2
              \/ i = n + 2 /\ i + 1 = n + 3
          <5>1. i \in Nat /\ 1 <= i /\ i + 1 <= n + 3
            BY <4>1
          <5>2. QED
            BY <4>1, <5>1
        <4>8. QED
          BY <4>2, <4>3, <4>4, <4>5, <4>6, <4>7
      <3>4. 1 \in 1..len
        OBVIOUS
      <3>5. QED
        BY <3>2, <3>3, <3>4 DEF got, req, rank
    <2>6. QED
      BY <2>3, <2>4, <2>5
  <1>2. Init => SInv
    BY InitSInv
  <1>3. PInv /\ SInv /\ [Next]_vars => SInv'
    BY NextSInv
  <1>4. QED
    BY <1>1, <1>2, <1>3, PostgresInvariant, PTL DEF Spec

\* StatusTrue of PostgresProxy, when every command is one of those that the guess
\* is made for: the status the client reads in ReadyForQuery is that of its session
\* on the main server, although writeDataRow says "idle" without asking.
THEOREM PostgresStatusTrue ==
    ASSUME TrackedOnly
    PROVE  Spec => []StatusTrue
PROOF
  <1>1. Init => PInv /\ TInv
    BY InitPInv
  <1>2. PInv /\ TInv /\ [Next]_vars => PInv' /\ TInv'
    BY PostgresStep DEF Kept
  <1>3. PInv /\ TInv => StatusTrue
    <2> SUFFICES ASSUME PInv, TInv, NEW s \in Sessions, client[s].st = "idle",
                        client[s].got # <<>>, main[s].link = "open"
                 PROVE  client[s].got[Len(client[s].got)].info = main[s].tx.open
      BY DEF StatusTrue
    <2>1. SessionInv(client[s], proxy[s], main[s]) /\ GuessInv(client[s], proxy[s], main[s])
      BY SessionFacts
    <2>2. QED
      BY <2>1 DEF SessionInv, FlowInv, GuessInv
  <1>4. QED
    BY <1>1, <1>2, <1>3, PTL DEF Spec

\* The rows among the messages of an answer.
LEMMA ShownRows ==
    ASSUME NEW g \in Seq(Messages), NEW t \in Nat, NEW cols \in ColumnSets, NEW n \in 0..MaxRows,
           NEW len \in (n + 1)..(n + 3), Shown(g, t, cols, n, len)
    PROVE  Cardinality({i \in DOMAIN g : g[i].kind = "row"}) = n
PROOF
  <1>1. n \in Nat /\ len \in 1..(n + 3) /\ n + 1 <= len
    OBVIOUS
  <1>2. /\ DOMAIN g = 1..len
        /\ \A i \in 1..len : /\ i = 1 => g[i].kind = "desc"
                             /\ i \in 2..(n + 1) => g[i].kind = "row"
                             /\ i = n + 2 => g[i].kind = "complete"
                             /\ i = n + 3 => g[i].kind = "ready"
    <2>1. Lines(g, t, cols, n, len)
      BY <1>1, ShownLines
    <2>2. QED
      BY <2>1, Zenon DEF Lines
  <1>3. \A i \in 1..len : i = 1 \/ i \in 2..(n + 1) \/ i = n + 2 \/ i = n + 3
    BY <1>1
  <1>4. 2..(n + 1) \subseteq 1..len
    BY <1>1
  <1>5. {i \in DOMAIN g : g[i].kind = "row"} = 2..(n + 1)
    <2>1. ASSUME NEW i \in 1..len
          PROVE  g[i].kind = "row" <=> i \in 2..(n + 1)
      <3>1. CASE i \in 2..(n + 1)
        BY <1>2, <3>1
      <3>2. CASE i \notin 2..(n + 1)
        BY <1>2, <1>3, <3>2
      <3>3. QED
        BY <3>1, <3>2
    <2>2. QED
      BY <1>2, <1>4, <2>1
  <1>6. Cardinality(2..(n + 1)) = n
    <2>1. 2 \in Int /\ n + 1 \in Int
      BY <1>1
    <2>2. Cardinality(2..(n + 1)) = IF 2 > n + 1 THEN 0 ELSE (n + 1) - 2 + 1
      BY <2>1, FS_Interval
    <2>3. QED
      BY <1>1, <2>2
  <1>7. QED
    BY <1>5, <1>6

\* ResultWhole of PostgresProxy, for results of any size: CommandComplete counts the
\* rows that the client has received, and no row is lost, repeated or made up between
\* rows.Next() and the client unless the replica failed before the end.
THEOREM PostgresResultWhole == Spec => []ResultWhole
PROOF
  <1>1. PInv => ResultWhole
    <2> SUFFICES ASSUME PInv, NEW s \in Sessions
                 PROVE  LET got == client[s].got
                            rows == {i \in DOMAIN got : got[i].kind = "row"}
                        IN  \A i \in DOMAIN got : got[i].kind = "complete" =>
                                /\ got[i].info = Cardinality(rows)
                                /\ proxy[s].pc = "ready" /\ ~proxy[s].rows.cut
                                    => Cardinality(rows) = proxy[s].rows.size
      BY DEF ResultWhole
    <2> DEFINE got == client[s].got
               req == client[s].req
               p == proxy[s]
               rows == {i \in DOMAIN got : got[i].kind = "row"}
    <2> SUFFICES ASSUME NEW i \in DOMAIN got, got[i].kind = "complete"
                 PROVE  /\ got[i].info = Cardinality(rows)
                        /\ p.pc = "ready" /\ ~p.rows.cut => Cardinality(rows) = p.rows.size
      OBVIOUS
    <2>1. got \in Seq(Messages) /\ req \in Nat /\ SessionInv(client[s], p, main[s])
      BY SessionFacts DEF Clients
    <2>2. FromMain(got, req) \/ FromReplica(got, req)
      BY GotCases
    <2>3. p.pc = "ready" /\ ~p.rows.cut =>
              /\ Shown(got, req, p.rows.cols, p.rows.count, p.rows.count + 2)
              /\ p.rows \in Results /\ p.rows.count = p.rows.size
      <3>1. got # <<>>
        BY <2>1
      <3>2. client[s].st # "gone" /\ RowsInv(p)
        BY <2>1, <3>1 DEF SessionInv
      <3>3. QED
        BY <2>1, <3>2 DEF SessionInv, GotInv, RowsInv, HasRows, Busy
    <2>4. i \in DOMAIN got /\ got[i].kind = "complete"
      OBVIOUS
    <2> HIDE DEF got, req, p
    <2>5. ASSUME FromMain(got, req)
          PROVE  FALSE
      <3>1. Body(req).kind = "body" /\ \A open \in BOOLEAN : Ready(req, open).kind = "ready"
        BY <2>1 DEF Body, Ready, Message
      <3>2. \A j \in DOMAIN got : got[j].kind \in {"body", "ready"}
        BY <2>5, <3>1 DEF FromMain
      <3>3. QED
        BY <2>4, <3>2
    <2>6. got[i].info = Cardinality(rows)
      <3>0. PICK cols \in ColumnSets, n \in 0..MaxRows :
                \E len \in 1..(n + 3) : Shown(got, req, cols, n, len)
        BY <2>2, <2>5 DEF FromReplica
      <3>1. PICK len \in 1..(n + 3) : Shown(got, req, cols, n, len)
        BY <3>0
      <3>2. /\ DOMAIN got = 1..len
            /\ \A j \in 1..len : /\ j = 1 => got[j].kind = "desc"
                                 /\ j \in 2..(n + 1) => got[j].kind = "row"
                                 /\ j = n + 2 => got[j].kind = "complete" /\ got[j].info = n
                                 /\ j = n + 3 => got[j].kind = "ready"
        <4>0. Lines(got, req, cols, n, len)
          BY <2>1, <3>1, ShownLines
        <4>1. DOMAIN got = 1..len
          BY <4>0, Zenon DEF Lines
        <4>2. \A j \in 1..len : /\ j = 1 => got[j].kind = "desc"
                                /\ j \in 2..(n + 1) => got[j].kind = "row"
                                /\ j = n + 3 => got[j].kind = "ready"
          BY <4>0, Zenon DEF Lines
        <4>3. \A j \in 1..len : j = n + 2 => got[j].kind = "complete" /\ got[j].info = n
          BY <4>0, Zenon DEF Lines
        <4>4. QED
          BY <4>1, <4>2, <4>3
      <3>3. n \in Nat /\ i \in Nat /\ i \in 1..len /\ len <= n + 3
        BY <2>4, <3>2
      <3>4. i = 1 \/ i \in 2..(n + 1) \/ i = n + 2 \/ i = n + 3
        BY <3>3
      <3>5. i = n + 2
        BY <2>4, <3>2, <3>3, <3>4
      <3>6. got[i].info = n
        BY <3>2, <3>3, <3>5
      <3>7. len \in (n + 1)..(n + 3)
        BY <3>3, <3>5
      <3>8. Cardinality(rows) = n
        BY <2>1, <3>1, <3>7, ShownRows
      <3>9. QED
        BY <3>6, <3>8
    <2>7. ASSUME p.pc = "ready", ~p.rows.cut
          PROVE  Cardinality(rows) = p.rows.size
      <3> DEFINE n == p.rows.count
                 cols == p.rows.cols
      <3>1. /\ Shown(got, req, cols, n, n + 2) /\ n = p.rows.size
            /\ cols \in ColumnSets /\ n \in 0..MaxRows
        BY <2>3, <2>7 DEF Results
      <3> HIDE DEF n, cols
      <3>2. n + 2 \in (n + 1)..(n + 3)
        BY <3>1
      <3>3. QED
        BY <2>1, <3>1, <3>2, ShownRows
    <2>8. QED
      BY <2>6, <2>7
  <1>2. QED
    BY <1>1, PostgresInvariant, PTL

\* The last of the columns with an equal name gives the type.
LEMMA DescriptionFacts ==
    ASSUME NEW cols \in ColumnSets, NEW i \in DOMAIN cols,
           ~\E j \in DOMAIN cols : j > i /\ cols[j].name = cols[i].name
    PROVE  prepareRowDescription(cols)[i] = OID(cols[i].type)
PROOF
  <1> DEFINE same == {j \in DOMAIN cols : cols[j].name = cols[i].name}
             last == CHOOSE j \in same : \A k \in same : k <= j
  <1>1. DOMAIN cols \subseteq Int
    BY PostgresAssumption
  <1>2. i \in same /\ \A k \in same : k <= i
    BY <1>1
  <1>3. last \in same /\ \A k \in same : k <= last
    BY <1>2
  <1>4. last = i
    <2>1. last \in Int /\ i \in Int /\ last <= i /\ i <= last
      BY <1>1, <1>2, <1>3
    <2> HIDE DEF last
    <2>2. QED
      BY <2>1
  <1>5. prepareRowDescription(cols)[i] = OID(cols[last].type)
    BY DEF prepareRowDescription
  <1>6. QED
    BY <1>4, <1>5

\* ColumnTypes of PostgresProxy, for results of any shape: the description gives a
\* column its own type, unless a later column of the result has the same name.
THEOREM PostgresColumnTypes == Spec => []ColumnTypes
PROOF
  <1>1. PInv => ColumnTypes
    <2> SUFFICES ASSUME PInv, NEW s \in Sessions, client[s].got # <<>>, proxy[s].rows # None,
                        NEW i \in DOMAIN proxy[s].rows.cols,
                        ~\E j \in DOMAIN proxy[s].rows.cols :
                            j > i /\ proxy[s].rows.cols[j].name = proxy[s].rows.cols[i].name
                 PROVE  client[s].got[1].info[i] = OID(proxy[s].rows.cols[i].type)
      BY DEF ColumnTypes
    <2> DEFINE got == client[s].got
               req == client[s].req
               p == proxy[s]
               cols == p.rows.cols
               n == p.rows.count
    <2>1. got \in Seq(Messages) /\ req \in Nat /\ SessionInv(client[s], p, main[s])
      BY SessionFacts DEF Clients
    <2>2. RowsInv(p) /\ GotInv(client[s], p)
      BY <2>1 DEF SessionInv
    <2>3. p.pc \in {"rows", "complete", "ready"}
      BY <2>2 DEF RowsInv, GotInv, HasRows, Busy
    <2>4. p.rows \in Results
      BY <2>2, <2>3 DEF RowsInv, HasRows, Busy
    <2>5. cols \in ColumnSets /\ n \in 0..MaxRows
      BY <2>4 DEF Results
    <2>6. Shown(got, req, cols, n, n + 1) \/ Shown(got, req, cols, n, n + 2)
      BY <2>2, <2>3 DEF GotInv
    <2>7. prepareRowDescription(cols)[i] = OID(cols[i].type)
      BY <2>5, DescriptionFacts
    <2> HIDE DEF got, req, n, cols
    <2>8. PICK len \in {n + 1, n + 2} : Shown(got, req, cols, n, len)
      BY <2>6
    <2>9. len \in 1..(n + 3) /\ 1 \in 1..len
      BY <2>5
    <2>10. got[1].info = prepareRowDescription(cols)
      <3>1. Lines(got, req, cols, n, len)
        BY <2>1, <2>5, <2>8, <2>9, ShownLines
      <3>2. QED
        BY <2>9, <3>1 DEF Lines
    <2>11. QED
      BY <2>7, <2>10 DEF got, cols
  <1>2. QED
    BY <1>1, PostgresInvariant, PTL

-----------------------------------------------------------------------------
(***************************************************************************)
(* The choice of a replica.                                                *)
(***************************************************************************)

\* A set of numbers has a least one.
LEMMA NatMin ==
    ASSUME NEW T, T \subseteq Nat, T # {}
    PROVE  \E n \in T : \A m \in T : n <= m
PROOF
  <1> DEFINE R == OpToRel(<, Nat)
  <1>1. \A x, y \in Nat : x < y => <<x, y>> \in R
    BY DEF OpToRel
  <1>2. IsWellFoundedOn(R, Nat)
    BY NatLessThanWellFounded
  <1> HIDE DEF R
  <1>3. PICK n \in T : \A m \in T : ~(<<m, n>> \in R)
    BY <1>2, WFMin
  <1>4. ASSUME NEW m \in T PROVE n <= m
    <2>1. n \in Nat /\ m \in Nat
      OBVIOUS
    <2>2. ~(m < n)
      BY <1>1, <1>3, <2>1
    <2>3. QED
      BY <2>1, <2>2
  <1>5. QED
    BY <1>4

\* Induction up to a bound, over a set of numbers.
LEMMA Induction ==
    ASSUME NEW N \in Nat, NEW G, 0 \in G, \A n \in Nat : n \in G /\ n < N => n + 1 \in G
    PROVE  0..N \subseteq G
PROOF
  <1> DEFINE T == (0..N) \ G
  <1> SUFFICES ASSUME T # {}
               PROVE  FALSE
    OBVIOUS
  <1>1. PICK n \in T : \A m \in T : n <= m
    <2>1. T \subseteq Nat
      OBVIOUS
    <2> HIDE DEF T
    <2>2. QED
      BY <2>1, NatMin
  <1>2. n # 0 /\ n - 1 \in Nat /\ n - 1 < N /\ n - 1 \in 0..N /\ ~(n <= n - 1)
    BY <1>1
  <1>3. n - 1 \in G
    BY <1>1, <1>2
  <1>4. (n - 1) + 1 \in G /\ (n - 1) + 1 = n
    BY <1>2, <1>3
  <1>5. QED
    BY <1>1, <1>4

\* The steps of a loop of N turns stay in S.
StaysIn(N, S, step) == \A i \in 1..N : \A x \in S : step[i][x] \in S

\* There are values for the loop, turn by turn.
HasValues(N, S, start, step) ==
    \E f \in [0..N -> S] : f[0] = start /\ \A i \in 1..N : f[i] = step[i][f[i - 1]]

\* A loop of N turns from start has the values that its steps give it.
LEMMA Loop ==
    ASSUME NEW N \in Nat, NEW S, NEW start \in S, NEW step, StaysIn(N, S, step)
    PROVE  HasValues(N, S, start, step)
PROOF
  <1> DEFINE Has(n) == \E f \in [0..n -> S] : f[0] = start /\ \A i \in 1..n : f[i] = step[i][f[i - 1]]
             G == {n \in Nat : Has(n)}
  <1>1. Has(0)
    <2> DEFINE e == [i \in 0..0 |-> start]
    <2>1. e \in [0..0 -> S] /\ e[0] = start /\ \A i \in 1..0 : e[i] = step[i][e[i - 1]]
      OBVIOUS
    <2>2. QED
      BY <2>1
  <1>2. ASSUME NEW n \in Nat, Has(n), n < N PROVE Has(n + 1)
    <2>1. PICK f \in [0..n -> S] : f[0] = start /\ \A i \in 1..n : f[i] = step[i][f[i - 1]]
      BY <1>2
    <2> DEFINE last == step[n + 1][f[n]]
               g == [i \in 0..(n + 1) |-> IF i = n + 1 THEN last ELSE f[i]]
    <2>2. last \in S
      <3>1. n + 1 \in 1..N /\ n \in 0..n
        BY <1>2
      <3>2. f[n] \in S
        BY <2>1, <3>1
      <3>3. QED
        BY <3>1, <3>2 DEF StaysIn
    <2>3. g \in [0..(n + 1) -> S] /\ g[n + 1] = last /\ \A i \in 0..n : g[i] = f[i]
      <3> HIDE DEF last
      <3>1. QED
        BY <2>1, <2>2
    <2> HIDE DEF g
    <2>4. g[0] = start
      BY <2>1, <2>3
    <2>5. ASSUME NEW i \in 1..(n + 1) PROVE g[i] = step[i][g[i - 1]]
      <3>1. CASE i = n + 1
        <4>1. i - 1 = n /\ n \in 0..n
          BY <3>1
        <4>2. QED
          BY <2>3, <3>1, <4>1
      <3>2. CASE i # n + 1
        <4>1. i \in 1..n /\ i \in 0..n /\ i - 1 \in 0..n
          BY <3>2
        <4>2. QED
          BY <2>1, <2>3, <4>1
      <3>3. QED
        BY <3>1, <3>2
    <2>6. QED
      BY <2>3, <2>4, <2>5
  <1> HIDE DEF Has
  <1>3. 0 \in G /\ \A n \in Nat : n \in G /\ n < N => n + 1 \in G
    BY <1>1, <1>2
  <1>4. \A n \in G : Has(n)
    OBVIOUS
  <1> HIDE DEF G
  <1>5. 0..N \subseteq G
    BY <1>3, Induction
  <1>6. Has(N)
    BY <1>4, <1>5
  <1>7. QED
    BY <1>6 DEF Has, HasValues

\* The secondaries that initDB keeps.
Taken(n) == Weights[n] > 0 /\ n \notin Unopened

\* The loop of initDB.
LEMMA DbsLoop ==
    /\ Len(Weights) \in Nat /\ dbs[0] = <<>>
    /\ \A n \in 1..Len(Weights) :
           dbs[n] = IF Taken(n) THEN Append(dbs[n - 1], n) ELSE dbs[n - 1]
PROOF
  <1> DEFINE N == Len(Weights)
             Rec(f, n) == IF n = 0 THEN <<>> ELSE IF Taken(n) THEN Append(f[n - 1], n) ELSE f[n - 1]
             step == [n \in 1..N |-> [q \in Seq(Nat) |-> IF Taken(n) THEN Append(q, n) ELSE q]]
  <1>1. N \in Nat /\ <<>> \in Seq(Nat)
    BY PostgresAssumption
  <1> HIDE DEF N
  <1>2. \A i \in 1..N : \A x \in Seq(Nat) : step[i][x] \in Seq(Nat)
    <2>1. ASSUME NEW n \in 1..N, NEW q \in Seq(Nat)
          PROVE  (IF Taken(n) THEN Append(q, n) ELSE q) \in Seq(Nat)
      <3>1. n \in Nat
        OBVIOUS
      <3>2. Append(q, n) \in Seq(Nat)
        BY <3>1
      <3>3. QED
        BY <3>2
    <2>2. QED
      BY <2>1
  <1>3. \A n \in 1..N, q \in Seq(Nat) : step[n][q] = IF Taken(n) THEN Append(q, n) ELSE q
    OBVIOUS
  <1> HIDE DEF step
  <1>4. PICK f \in [0..N -> Seq(Nat)] : f[0] = <<>> /\ \A i \in 1..N : f[i] = step[i][f[i - 1]]
    <2>1. StaysIn(N, Seq(Nat), step)
      BY <1>2 DEF StaysIn
    <2>2. HasValues(N, Seq(Nat), <<>>, step)
      BY <1>1, <2>1, Loop, Zenon
    <2>3. QED
      BY <2>2 DEF HasValues
  <1>5. f = [n \in 0..N |-> Rec(f, n)]
    <2>1. ASSUME NEW n \in 0..N PROVE f[n] = Rec(f, n)
      <3>1. CASE n = 0
        BY <1>4, <3>1
      <3>2. CASE n # 0
        <4>1. n \in 1..N /\ n - 1 \in 0..N
          BY <1>1, <3>2
        <4>2. f[n - 1] \in Seq(Nat)
          BY <1>4, <4>1
        <4>3. QED
          BY <1>3, <1>4, <3>2, <4>1, <4>2
      <3>3. QED
        BY <3>1, <3>2
    <2> HIDE DEF Rec
    <2>2. QED
      BY <1>4, <2>1
  <1>6. dbs = [n \in 0..N |-> Rec(dbs, n)]
    <2>1. dbs = CHOOSE h : h = [n \in 0..N |-> Rec(h, n)]
      BY DEF dbs, N, Taken
    <2> DEFINE P(h) == h = [n \in 0..N |-> Rec(h, n)]
    <2>2. \E h : P(h)
      BY <1>5
    <2>3. P(CHOOSE h : P(h))
      <3> HIDE DEF P
      <3>1. QED
        BY <2>2, Zenon
    <2>4. QED
      BY <2>1, <2>3
  <1>7. \A n \in 0..N : dbs[n] = Rec(dbs, n)
    <2> HIDE DEF Rec
    <2>1. QED
      BY <1>6
  <1>8. dbs[0] = <<>>
    BY <1>1, <1>7
  <1>9. ASSUME NEW n \in 1..N PROVE dbs[n] = IF Taken(n) THEN Append(dbs[n - 1], n) ELSE dbs[n - 1]
    <2>1. n \in 0..N /\ n # 0
      BY <1>1
    <2>2. QED
      BY <1>7, <2>1
  <1>10. QED
    BY <1>1, <1>8, <1>9 DEF N

\* What initDB keeps, in their order.
Picked(q, n) ==
    /\ q \in Seq(Nat)
    /\ \A i \in 1..Len(q) : q[i] \in 1..n /\ Taken(q[i])
    /\ \A i, j \in 1..Len(q) : i < j => q[i] < q[j]

\* They have a positive weight, were opened, and come once.
LEMMA InitDbFacts ==
    /\ initDB \in Seq(Nat)
    /\ \A i \in 1..Len(initDB) : Weights[initDB[i]] \in Nat \ {0} /\ initDB[i] \notin Unopened
    /\ \A i, j \in 1..Len(initDB) : initDB[i] = initDB[j] => i = j
PROOF
  <1> DEFINE N == Len(Weights)
             G == {n \in Nat : Picked(dbs[n], n)}
  <1>1. N \in Nat /\ dbs[0] = <<>>
    BY DbsLoop
  <1>2. 0 \in G
    <2>1. Picked(<<>>, 0)
      BY DEF Picked
    <2>2. QED
      BY <1>1, <2>1
  <1>3. ASSUME NEW n \in Nat, Picked(dbs[n], n), n < N PROVE Picked(dbs[n + 1], n + 1)
    <2> DEFINE q == dbs[n]
               m == n + 1
    <2>1. dbs[m] = IF Taken(m) THEN Append(q, m) ELSE q
      <3>1. m \in 1..N /\ m - 1 = n
        BY <1>1, <1>3
      <3>2. QED
        BY <3>1, DbsLoop
    <2>2. /\ q \in Seq(Nat) /\ Len(q) \in Nat
          /\ \A i \in 1..Len(q) : q[i] \in 1..n /\ Taken(q[i])
          /\ \A i, j \in 1..Len(q) : i < j => q[i] < q[j]
      <3>1. Picked(q, n)
        BY <1>3
      <3> HIDE DEF q
      <3>2. q \in Seq(Nat)
        BY <3>1 DEF Picked
      <3>3. Len(q) \in Nat
        BY <3>2
      <3>4. QED
        BY <3>1, <3>2, <3>3 DEF Picked
    <2> HIDE DEF q
    <2>3. m \in Nat /\ \A i \in 1..n : i \in 1..m /\ i < m
      OBVIOUS
    <2>4. CASE ~(Taken(m))
      <3>1. Picked(q, m)
        <4> HIDE DEF m
        <4>1. QED
          BY <2>2, <2>3 DEF Picked
      <3>2. dbs[m] = q
        BY <2>1, <2>4
      <3>3. QED
        BY <3>1, <3>2
    <2>5. CASE Taken(m)
      <3> DEFINE t == Append(q, m)
      <3>1. t \in Seq(Nat) /\ Len(t) = Len(q) + 1 /\ t[Len(q) + 1] = m /\ \A i \in 1..Len(q) : t[i] = q[i]
        <4> HIDE DEF m
        <4>1. QED
          BY <2>2, <2>3
      <3>2. \A i \in 1..(Len(q) + 1) : i \in 1..Len(q) \/ i = Len(q) + 1
        BY <2>2
      <3> HIDE DEF t
      <3>3. ASSUME NEW i \in 1..Len(t) PROVE t[i] \in 1..m /\ Taken(t[i])
        <4>1. m \in 1..m
          OBVIOUS
        <4> HIDE DEF m
        <4>2. CASE i \in 1..Len(q)
          BY <2>2, <2>3, <3>1, <4>2
        <4>3. CASE i = Len(q) + 1
          BY <2>5, <3>1, <4>1, <4>3
        <4>4. QED
          BY <3>1, <3>2, <4>2, <4>3
      <3>4. ASSUME NEW i \in 1..Len(t), NEW j \in 1..Len(t), i < j PROVE t[i] < t[j]
        <4>1. i \in 1..Len(q)
          BY <2>2, <3>1, <3>4
        <4> HIDE DEF m
        <4>2. CASE j \in 1..Len(q)
          BY <2>2, <3>1, <3>4, <4>1, <4>2
        <4>3. CASE j = Len(q) + 1
          BY <2>2, <2>3, <3>1, <4>1, <4>3
        <4>4. QED
          BY <3>1, <3>2, <4>2, <4>3
      <3>5. dbs[m] = t
        BY <2>1, <2>5 DEF t
      <3>6. Picked(t, m)
        BY <3>1, <3>3, <3>4 DEF Picked
      <3>7. QED
        BY <3>5, <3>6
    <2>6. QED
      BY <2>4, <2>5
  <1>4. \A n \in Nat : n \in G /\ n < N => n + 1 \in G
    BY <1>3
  <1>5. \A n \in G : Picked(dbs[n], n)
    OBVIOUS
  <1> HIDE DEF G, N
  <1>6. 0..N \subseteq G
    BY <1>1, <1>2, <1>4, Induction
  <1>7. Picked(initDB, N)
    <2>1. N \in 0..N
      BY <1>1
    <2>2. Picked(dbs[N], N)
      BY <1>5, <1>6, <2>1
    <2>3. QED
      BY <2>2 DEF initDB, N
  <1> DEFINE q == initDB
  <1>8. /\ q \in Seq(Nat) /\ Len(q) \in Nat
        /\ \A i \in 1..Len(q) : q[i] \in 1..N /\ Taken(q[i])
        /\ \A i, j \in 1..Len(q) : i < j => q[i] < q[j]
    BY <1>7 DEF Picked
  <1>9. \A i \in 1..N : Weights[i] \in Int
    BY PostgresAssumption DEF N
  <1> HIDE DEF q
  <1>10. \A i \in 1..Len(q) : Weights[q[i]] \in Nat \ {0} /\ q[i] \notin Unopened
    BY <1>8, <1>9 DEF Taken
  <1>11. ASSUME NEW i \in 1..Len(q), NEW j \in 1..Len(q), q[i] = q[j] PROVE i = j
    <2>1. q[i] \in Nat /\ i \in Nat /\ j \in Nat
      BY <1>8
    <2>2. ~(i < j) /\ ~(j < i)
      BY <1>8, <1>11, <2>1
    <2>3. QED
      BY <2>1, <2>2
  <1>12. QED
    BY <1>8, <1>10, <1>11 DEF q

\* currentWeight, turn by turn: it grows from 0 to totalWeight.
LEMMA CurrentWeightFacts ==
    /\ Len(initDB) \in Nat /\ currentWeight[0] = 0
    /\ \A n \in 1..Len(initDB) : currentWeight[n] = currentWeight[n - 1] + Weights[initDB[n]]
    /\ \A n \in 0..Len(initDB) : currentWeight[n] \in Nat
    /\ \A m, n \in 0..Len(initDB) : m <= n => currentWeight[m] <= currentWeight[n]
PROOF
  <1> DEFINE N == Len(initDB)
             w(n) == Weights[initDB[n]]
             c == currentWeight
             Rec(f, n) == IF n = 0 THEN 0 ELSE f[n - 1] + w(n)
             step == [n \in 1..N |-> [q \in Nat |-> q + w(n)]]
  <1>1. N \in Nat /\ \A n \in 1..N : w(n) \in Nat
    BY InitDbFacts
  <1>2. c = CHOOSE f : f = [n \in 0..N |-> Rec(f, n)]
    BY DEF currentWeight
  <1> HIDE DEF N, w, c
  <1>3. /\ \A i \in 1..N : \A x \in Nat : step[i][x] \in Nat
        /\ \A n \in 1..N, q \in Nat : step[n][q] = q + w(n)
    BY <1>1
  <1> HIDE DEF step
  <1>4. PICK f \in [0..N -> Nat] : f[0] = 0 /\ \A i \in 1..N : f[i] = step[i][f[i - 1]]
    <2>1. 0 \in Nat
      OBVIOUS
    <2>2. StaysIn(N, Nat, step)
      BY <1>3 DEF StaysIn
    <2>3. HasValues(N, Nat, 0, step)
      BY <1>1, <2>1, <2>2, Loop, Zenon
    <2>4. QED
      BY <2>3 DEF HasValues
  <1>5. f = [n \in 0..N |-> Rec(f, n)]
    <2>1. ASSUME NEW n \in 0..N PROVE f[n] = Rec(f, n)
      <3>1. CASE n = 0
        BY <1>4, <3>1
      <3>2. CASE n # 0
        <4>1. n \in 1..N /\ n - 1 \in 0..N
          BY <1>1, <3>2
        <4>2. f[n - 1] \in Nat
          BY <1>4, <4>1
        <4>3. QED
          BY <1>3, <1>4, <3>2, <4>1, <4>2
      <3>3. QED
        BY <3>1, <3>2
    <2> HIDE DEF Rec
    <2>2. QED
      BY <1>4, <2>1
  <1>6. c = [n \in 0..N |-> Rec(c, n)]
    <2> DEFINE P(h) == h = [n \in 0..N |-> Rec(h, n)]
    <2>1. \E h : P(h)
      BY <1>5
    <2>2. P(CHOOSE h : P(h))
      <3> HIDE DEF P
      <3>1. QED
        BY <2>1, Zenon
    <2>3. QED
      BY <1>2, <2>2
  <1>7. \A n \in 0..N : c[n] = Rec(c, n)
    <2> HIDE DEF Rec
    <2>1. QED
      BY <1>6
  <1>8. c[0] = 0
    BY <1>1, <1>7
  <1>9. ASSUME NEW n \in 1..N PROVE c[n] = c[n - 1] + w(n)
    <2>1. n \in 0..N /\ n # 0
      BY <1>1
    <2>2. QED
      BY <1>7, <2>1
  <1> HIDE DEF Rec
  <1>10. \A n \in 0..N : c[n] \in Nat
    <2> DEFINE G == {n \in Nat : c[n] \in Nat}
    <2>1. 0 \in G
      BY <1>8
    <2>2. ASSUME NEW n \in Nat, n \in G, n < N PROVE n + 1 \in G
      <3>1. n + 1 \in 1..N /\ (n + 1) - 1 = n /\ n + 1 \in Nat /\ c[n] \in Nat
        BY <1>1, <2>2
      <3>2. c[n + 1] = c[n] + w(n + 1) /\ w(n + 1) \in Nat
        BY <1>1, <1>9, <3>1
      <3>3. QED
        BY <3>1, <3>2
    <2>3. \A n \in G : c[n] \in Nat
      OBVIOUS
    <2> HIDE DEF G
    <2>4. 0..N \subseteq G
      BY <1>1, <2>1, <2>2, Induction
    <2>5. QED
      BY <2>3, <2>4
  <1>11. ASSUME NEW m \in 0..N PROVE \A n \in 0..N : m <= n => c[m] <= c[n]
    <2> DEFINE G == {n \in Nat : n <= N /\ m <= n => c[m] <= c[n]}
    <2>1. 0 \in G
      <3>1. m <= 0 => m = 0
        BY <1>1
      <3>2. QED
        BY <1>8, <3>1
    <2>2. ASSUME NEW n \in Nat, n \in G, n < N PROVE n + 1 \in G
      <3> DEFINE k == n + 1
      <3>1. k \in 1..N /\ k - 1 = n /\ k \in Nat /\ n \in 0..N /\ k \in 0..N /\ n <= N
        BY <1>1, <2>2
      <3>2. m <= k => m <= n \/ m = k
        BY <1>1
      <3>3. c[k] = c[n] + w(k) /\ w(k) \in Nat /\ c[m] \in Nat /\ c[n] \in Nat /\ c[k] \in Nat
        BY <1>1, <1>9, <1>10, <3>1
      <3>4. m <= n => c[m] <= c[n]
        BY <2>2, <3>1
      <3> HIDE DEF k
      <3>5. m <= k => c[m] <= c[k]
        <4>1. CASE m <= n
          BY <3>3, <3>4, <4>1
        <4>2. CASE m = k
          BY <3>3, <4>2
        <4>3. QED
          BY <3>2, <4>1, <4>2
      <3>6. k \in G
        BY <3>1, <3>5
      <3>7. QED
        BY <3>6 DEF k
    <2>3. \A n \in G : n <= N /\ m <= n => c[m] <= c[n]
      OBVIOUS
    <2> HIDE DEF G
    <2>4. 0..N \subseteq G
      BY <1>1, <2>1, <2>2, Induction
    <2>5. \A n \in 0..N : n <= N
      BY <1>1
    <2>6. QED
      BY <2>3, <2>4, <2>5
  <1>12. QED
    BY <1>1, <1>8, <1>9, <1>10, <1>11 DEF N, w, c

\* The random number r falls to the n-th of the replicas.
Falls(r, n) == n \in 1..Len(initDB) /\ currentWeight[n - 1] <= r /\ r < currentWeight[n]

\* chooseByWeight returns the replica that its random number falls to; the line
\* behind its loop is not reached.
LEMMA ChooseFacts ==
    ASSUME NEW r \in 0..(totalWeight - 1)
    PROVE  \E n : Falls(r, n) /\ chooseByWeight(r) = initDB[n]
PROOF
  <1> DEFINE N == Len(initDB)
             c == currentWeight
             hit == {n \in 1..N : r < c[n]}
             least == CHOOSE n \in hit : \A k \in hit : n <= k
  <1>1. N \in Nat /\ c[0] = 0 /\ \A n \in 0..N : c[n] \in Nat
    BY CurrentWeightFacts
  <1>2. totalWeight = c[N] /\ chooseByWeight(r) = initDB[IF hit = {} THEN 1 ELSE least]
    BY DEF totalWeight, chooseByWeight
  <1> HIDE DEF N, c
  <1>3. r \in Nat /\ r < c[N]
    <2>1. N \in 0..N
      BY <1>1
    <2>2. c[N] \in Nat /\ r \in 0..(c[N] - 1)
      BY <1>1, <1>2, <2>1
    <2>3. QED
      BY <2>2
  <1>4. N \in hit
    <2>1. N # 0
      BY <1>1, <1>3
    <2>2. QED
      BY <1>1, <1>3, <2>1
  <1>5. hit \subseteq Nat
    OBVIOUS
  <1>6. least \in hit /\ \A k \in hit : least <= k
    <2>1. \E n \in hit : \A k \in hit : n <= k
      <3> HIDE DEF hit
      <3>1. QED
        BY <1>4, <1>5, NatMin
    <2> HIDE DEF hit
    <2>2. QED
      BY <2>1
  <1>7. chooseByWeight(r) = initDB[least]
    BY <1>2, <1>4
  <1> HIDE DEF least
  <1>8. least \in 1..N /\ r < c[least]
    BY <1>6
  <1>9. c[least - 1] <= r
    <2>1. least - 1 \in 0..N /\ ~(least <= least - 1)
      BY <1>1, <1>8
    <2>2. CASE least = 1
      <3>1. least - 1 = 0
        BY <2>2
      <3>2. QED
        BY <1>1, <1>3, <3>1
    <2>3. CASE least # 1
      <3>1. least - 1 \in 1..N
        BY <1>1, <1>8, <2>3
      <3>2. ~(least - 1 \in hit)
        BY <1>6, <2>1
      <3>3. ~(r < c[least - 1])
        BY <3>1, <3>2
      <3>4. c[least - 1] \in Nat
        BY <1>1, <2>1
      <3>5. QED
        BY <1>3, <3>3, <3>4
    <2>4. QED
      BY <2>2, <2>3
  <1>10. Falls(r, least)
    BY <1>8, <1>9 DEF Falls, N, c
  <1>11. QED
    BY <1>7, <1>10

\* A number falls to one replica only.
LEMMA FallsOnce ==
    ASSUME NEW r \in Nat, NEW m, NEW n, Falls(r, m), Falls(r, n)
    PROVE  m = n
PROOF
  <1> DEFINE N == Len(initDB)
             c == currentWeight
  <1>1. /\ N \in Nat /\ \A i \in 0..N : c[i] \in Nat
        /\ \A i, j \in 0..N : i <= j => c[i] <= c[j]
    BY CurrentWeightFacts
  <1>2. /\ m \in 1..N /\ c[m - 1] <= r /\ r < c[m]
        /\ n \in 1..N /\ c[n - 1] <= r /\ r < c[n]
    BY DEF Falls
  <1> HIDE DEF N, c
  <1>3. m \in 0..N /\ n \in 0..N /\ m - 1 \in 0..N /\ n - 1 \in 0..N /\ m \in Nat /\ n \in Nat
    BY <1>1, <1>2
  <1>4. c[m] \in Nat /\ c[n] \in Nat /\ c[m - 1] \in Nat /\ c[n - 1] \in Nat
    BY <1>1, <1>3
  <1>5. ~(m < n)
    <2>1. SUFFICES ASSUME m < n PROVE FALSE
      OBVIOUS
    <2>2. m <= n - 1
      BY <1>3, <2>1
    <2>3. c[m] <= c[n - 1]
      BY <1>1, <1>3, <2>2
    <2>4. QED
      BY <1>2, <1>4, <2>3
  <1>6. ~(n < m)
    <2>1. SUFFICES ASSUME n < m PROVE FALSE
      OBVIOUS
    <2>2. n <= m - 1
      BY <1>3, <2>1
    <2>3. c[n] <= c[m - 1]
      BY <1>1, <1>3, <2>2
    <2>4. QED
      BY <1>2, <1>4, <2>3
  <1>7. QED
    BY <1>3, <1>5, <1>6

\* The numbers for which a replica is chosen are as many as its weight.
LEMMA Share ==
    ASSUME NEW n \in 1..Len(initDB)
    PROVE  Cardinality({r \in 0..(totalWeight - 1) : chooseByWeight(r) = initDB[n]}) = Weights[initDB[n]]
PROOF
  <1> DEFINE N == Len(initDB)
             c == currentWeight
             d == initDB[n]
             share == {r \in 0..(totalWeight - 1) : chooseByWeight(r) = d}
             w == Weights[d]
  <1>1. /\ N \in Nat /\ n \in 1..N /\ c[n] = c[n - 1] + w
        /\ \A i \in 0..N : c[i] \in Nat
        /\ \A i, j \in 0..N : i <= j => c[i] <= c[j]
    BY CurrentWeightFacts
  <1>2. w \in Nat \ {0} /\ \A i, j \in 1..N : initDB[i] = initDB[j] => i = j
    BY InitDbFacts
  <1>3. totalWeight = c[N]
    BY DEF totalWeight
  <1> HIDE DEF N, c, w
  <1>4. n \in 0..N /\ n - 1 \in 0..N /\ N \in 0..N /\ n <= N
    BY <1>1
  <1>5. c[n] \in Nat /\ c[n - 1] \in Nat /\ c[N] \in Nat /\ c[n] <= c[N]
    BY <1>1, <1>4
  <1>6. ASSUME NEW r \in share PROVE r \in c[n - 1]..(c[n] - 1)
    <2>1. r \in 0..(totalWeight - 1) /\ chooseByWeight(r) = d
      OBVIOUS
    <2>2. PICK m : Falls(r, m) /\ chooseByWeight(r) = initDB[m]
      BY <2>1, ChooseFacts
    <2>3. m \in 1..N
      BY <2>2 DEF Falls, N
    <2>4. m = n
      BY <1>1, <1>2, <2>1, <2>2, <2>3
    <2>5. c[n - 1] <= r /\ r < c[n] /\ r \in Int
      BY <1>3, <1>5, <2>1, <2>2, <2>4 DEF Falls, c
    <2>6. QED
      BY <1>5, <2>5
  <1>7. ASSUME NEW r \in c[n - 1]..(c[n] - 1) PROVE r \in share
    <2>1. r \in Nat /\ c[n - 1] <= r /\ r < c[n] /\ r \in 0..(c[N] - 1)
      BY <1>5
    <2>2. PICK m : Falls(r, m) /\ chooseByWeight(r) = initDB[m]
      BY <1>3, <2>1, ChooseFacts
    <2>3. Falls(r, n)
      BY <1>1, <2>1 DEF Falls, N, c
    <2>4. m = n
      BY <2>1, <2>2, <2>3, FallsOnce
    <2>5. QED
      BY <1>3, <2>1, <2>2, <2>4
  <1>8. share = c[n - 1]..(c[n] - 1)
    <2> HIDE DEF share
    <2>1. QED
      BY <1>6, <1>7
  <1>9. Cardinality(c[n - 1]..(c[n] - 1)) = w
    <2> DEFINE a == c[n - 1]
               b == c[n] - 1
    <2>1. a \in Int /\ b \in Int /\ ~(a > b) /\ b - a + 1 = w
      BY <1>1, <1>2, <1>5
    <2>2. Cardinality(a..b) = IF a > b THEN 0 ELSE b - a + 1
      <3> HIDE DEF a, b
      <3>1. QED
        BY <2>1, FS_Interval
    <2> HIDE DEF a, b
    <2>3. Cardinality(a..b) = w
      BY <2>1, <2>2
    <2>4. QED
      BY <2>3 DEF a, b
  <1>10. QED
    BY <1>8, <1>9 DEF w

\* Every replica that is asked was opened and has a positive weight, and chooseByWeight gives
\* it as many of the numbers below totalWeight as its weight says, for any list
\* of secondaries and weights; one that initDB leaves out is never asked.
THEOREM PostgresFairShare == Spec => []FairShare
PROOF
  <1>1. TypeOK => FairShare
    <2> SUFFICES ASSUME TypeOK, NEW s \in Sessions, proxy[s].db # None
                 PROVE  /\ Weights[proxy[s].db] > 0 /\ proxy[s].db \notin Unopened
                        /\ Cardinality({r \in 0..(totalWeight - 1) : chooseByWeight(r) = proxy[s].db})
                             = Weights[proxy[s].db]
      BY DEF FairShare
    <2>1. proxy[s] \in Proxies
      BY DEF TypeOK
    <2>2. PICK r \in 0..(totalWeight - 1) : proxy[s].db = chooseByWeight(r)
      BY <2>1 DEF Proxies
    <2>3. PICK n : Falls(r, n) /\ chooseByWeight(r) = initDB[n]
      BY ChooseFacts
    <2>4. n \in 1..Len(initDB) /\ proxy[s].db = initDB[n]
      BY <2>2, <2>3 DEF Falls
    <2>5. Weights[initDB[n]] \in Nat \ {0} /\ initDB[n] \notin Unopened
      BY <2>4, InitDbFacts
    <2>6. Weights[initDB[n]] > 0
      <3> DEFINE w == Weights[initDB[n]]
      <3> HIDE DEF w
      <3>1. w > 0
        BY <2>5 DEF w
      <3>2. QED
        BY <3>1 DEF w
    <2>7. QED
      BY <2>4, <2>5, <2>6, Share
  <1>2. Spec => []TypeOK
    BY PostgresInvariant, PTL DEF PInv
  <1>3. QED
    BY <1>1, <1>2, PTL

=============================================================================
