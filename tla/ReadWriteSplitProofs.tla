------------------------ MODULE ReadWriteSplitProofs ------------------------
(***************************************************************************)
(* MysqlProxy implements ReadWriteSplit, and keeps the SELECTs of a        *)
(* transaction on the main server, for any number of sessions, replicas    *)
(* and commands of the kinds the patterns of initRegexp were made for.     *)
(***************************************************************************)
EXTENDS MysqlProxyProofs

\* A step leaves alone the transaction of session t and the proxy's guess of it.
SameTx(t) == tx'[t] = tx[t] /\ inTrans'[t] = inTrans[t]

\* A step of session s, or of the main server for it.
OnlyOf(s) == OthersSame(s) /\ \A t \in Sessions \ {s} : SameTx(t)

-----------------------------------------------------------------------------
(***************************************************************************)
(* The guess.                                                              *)
(***************************************************************************)

\* The guess is not affected by a step that neither talks to the main server nor
\* takes a SELECT to a replica.
LEMMA GuessFrame ==
    ASSUME NEW t \in Sessions, GuessInv(t), SameTx(t), toMain'[t] = toMain[t],
           svc'[t] \in Busy => svc[t] \in Busy,
           svc'[t] # "done" => svc[t] # "done",
           main'[t] \in {"bye", "dead"} => main[t] \in {"bye", "dead"}
    PROVE  GuessInv(t)'
PROOF
  BY DEF GuessInv, SameTx, TxAfter

\* A step of one session leaves the guess of the others alone.
LEMMA GuessStep ==
    ASSUME TInv, NEW s \in Sessions, PInv', OnlyOf(s), GuessInv(s)'
    PROVE  TInv'
PROOF
  <1>1. ASSUME NEW t \in Sessions, t # s PROVE GuessInv(t)'
    BY <1>1, GuessFrame DEF TInv, OnlyOf, OthersSame, Same
  <1>2. QED
    BY <1>1 DEF TInv

\* The steps of clients, which the proxy has not seen yet.
LEMMA ClientGuess ==
    ASSUME TInv, NEW s \in Sessions,
           Accept(s) \/ (\E k \in Commands : ClientSend(s, k)) \/ ClientLeave(s) \/ ClientClosed(s)
    PROVE  OnlyOf(s) /\ GuessInv(s)'
PROOF
  <1>1. TypeOK /\ GuessInv(s) /\ FlowInv(s)
    BY DEF TInv, PInv, SessionInv
  <1>2. OnlyOf(s)
    BY <1>1 DEF TypeOK, OnlyOf, OthersSame, Same, SameTx, Accept, ClientSend, ClientLeave,
                ClientClosed, Goto, mainVars
  <1>3. SameTx(s) /\ toMain'[s] = toMain[s] /\ main'[s] = main[s]
    BY DEF SameTx, Accept, ClientSend, ClientLeave, ClientClosed, mainVars
  <1>4. /\ svc'[s] \in Busy => svc[s] \in Busy
        /\ svc'[s] # "done" => svc[s] # "done"
    BY <1>1 DEF TypeOK, FlowInv, Accept, ClientSend, ClientLeave, ClientClosed, Goto, Busy
  <1>5. QED
    BY <1>1, <1>2, <1>3, <1>4, GuessFrame

\* The steps of handleInbound on replica connections, and its start.
LEMMA ReplicaGuess ==
    ASSUME TInv, NEW s \in Sessions,
           \/ DialMain(s) \/ DialMainFail(s) \/ GetIdle(s) \/ GetNew(s) \/ GetFails(s)
           \/ Query(s) \/ QueryFails(s) \/ CopyPacket(s) \/ ReadGoodbye(s) \/ CopyFails(s) \/ Put(s)
    PROVE  OnlyOf(s) /\ GuessInv(s)'
PROOF
  <1>1. TypeOK /\ GuessInv(s)
    BY DEF TInv, PInv
  <1>2. SameTx(s) /\ toMain' = toMain /\ inTrans' = inTrans /\ tx' = tx
    BY DEF SameTx, DialMain, DialMainFail, GetIdle, GetNew, GetFails, Query, QueryFails,
           CopyPacket, ReadGoodbye, CopyFails, Put, mainVars
  <1>3. OthersSame(s)
    <2>1. CASE CopyPacket(s)
      <3>1. conn[s] \in Conns /\ stream[conn[s]] \in Seq(Packets) /\ stream[conn[s]] # <<>>
        BY <2>1, HoldsFacts DEF TInv, CopyPacket
      <3>2. Head(stream[conn[s]]) \in Packets
        BY <3>1, ReadFacts
      <3>3. QED
        BY <1>1, <2>1, <3>2, DeliverFacts, ZenonT(60)
        DEF TypeOK, OthersSame, Same, CopyPacket, Goto, mainVars
    <2>2. CASE \/ DialMain(s) \/ DialMainFail(s) \/ GetIdle(s) \/ GetNew(s) \/ GetFails(s)
               \/ Query(s) \/ QueryFails(s) \/ ReadGoodbye(s) \/ CopyFails(s) \/ Put(s)
      BY <1>1, <2>2 DEF TypeOK, OthersSame, Same, DialMain, DialMainFail, GetIdle, GetNew,
             GetFails, Query, QueryFails, ReadGoodbye, CopyFails, Put, Goto, mainVars
    <2>3. QED
      BY <2>1, <2>2
  <1>4. /\ svc'[s] \in Busy => svc[s] \in Busy
        /\ svc[s] # "done"
        /\ main'[s] \in {"bye", "dead"} => main[s] \in {"bye", "dead"}
    BY <1>1 DEF TypeOK, DialMain, DialMainFail, GetIdle, GetNew, GetFails, Query, QueryFails,
           CopyPacket, ReadGoodbye, CopyFails, Put, Goto, mainVars, Busy
  <1>5. QED
    BY <1>1, <1>2, <1>3, <1>4, GuessFrame DEF OnlyOf, SameTx

\* The steps of handleOutbound.
LEMMA OutboundGuess ==
    ASSUME TInv, NEW s \in Sessions, Outbound(s)
    PROVE  OnlyOf(s) /\ GuessInv(s)'
PROOF
  <1>1. TypeOK /\ GuessInv(s)
    BY DEF TInv, PInv
  <1>2. /\ SameTx(s) /\ inTrans' = inTrans /\ tx' = tx
        /\ UNCHANGED <<req, inbox, svc, db, conn, toMain>>
    BY DEF SameTx, Outbound, CopyFromMain, CopyGoodbye, CopyFromMainFails, OutboundEnds, sessionVars
  <1>3. \A t \in Sessions \ {s} :
          /\ client'[t] = client[t] /\ got'[t] = got[t] /\ fromMain'[t] = fromMain[t]
          /\ main'[t] = main[t]
    <2>1. CASE CopyFromMain(s)
      <3>1. Head(fromMain[s]) \in Packets
        BY <1>1, <2>1, ReadFacts DEF TypeOK, CopyFromMain
      <3>2. QED
        BY <1>1, <2>1, <3>1, DeliverFacts DEF TypeOK, CopyFromMain
    <2>2. CASE CopyGoodbye(s) \/ CopyFromMainFails(s) \/ OutboundEnds(s)
      BY <1>1, <2>2 DEF TypeOK, CopyGoodbye, CopyFromMainFails, OutboundEnds, sessionVars
    <2>3. QED
      BY <2>1, <2>2 DEF Outbound
  <1>4. main'[s] \in {"bye", "dead"} => main[s] \in {"bye", "dead"}
    BY DEF Outbound, CopyFromMain, CopyGoodbye, CopyFromMainFails, OutboundEnds
  <1>5. QED
    BY <1>1, <1>2, <1>3, <1>4, GuessFrame DEF OnlyOf, OthersSame, Same, SameTx

\* handleInbound ends: the main server learns of it, and the guess is not used
\* any more.
LEMMA ReadEOFGuess ==
    ASSUME TInv, NEW s \in Sessions, ReadEOF(s)
    PROVE  OnlyOf(s) /\ GuessInv(s)'
PROOF
  <1>1. TypeOK /\ GuessInv(s)
    BY DEF TInv, PInv
  <1>2. OnlyOf(s)
    BY <1>1 DEF TypeOK, OnlyOf, OthersSame, Same, SameTx, ReadEOF, EndService, Goto
  <1>3. /\ tx'[s] = tx[s] /\ toMain'[s] = <<>> /\ svc'[s] = "done" /\ main'[s] = "closed"
    BY <1>1 DEF TypeOK, ReadEOF, EndService, Goto
  <1>4. GuessInv(s)'
    BY <1>1, <1>3 DEF GuessInv, Busy
  <1>5. QED
    BY <1>2, <1>4

\* delegateSelect takes a SELECT to a replica only if p.inTrans is not set.
LEMMA ChooseDbGuess ==
    ASSUME TInv, NEW s \in Sessions, ChooseDb(s)
    PROVE  OnlyOf(s) /\ GuessInv(s)'
PROOF
  <1>1. TypeOK /\ GuessInv(s)
    BY DEF TInv, PInv
  <1>2. OnlyOf(s)
    BY <1>1 DEF TypeOK, OnlyOf, OthersSame, Same, SameTx, ChooseDb, Goto, mainVars
  <1>3. /\ svc[s] = "read" /\ svc'[s] = "get" /\ ~inTrans[s]
        /\ inTrans' = inTrans /\ tx' = tx /\ toMain' = toMain /\ main' = main
    BY <1>1 DEF TypeOK, ChooseDb, ToReplica, Goto, mainVars
  <1>4. GuessInv(s)'
    BY <1>1, <1>3 DEF GuessInv, TxAfter
  <1>5. QED
    BY <1>2, <1>4

\* A command that delegateSelect leaves to the main server has been looked at
\* first: afterwards the guess covers the transaction that the command leaves,
\* and the one it leaves when it fails.
LEMMA TrackFacts ==
    ASSUME TrackedOnly, NEW k \in Commands, NEW b \in BOOLEAN, NEW x \in TxStates,
           x.auto = TRUE, x.open => b
    PROVE  LET c == IF IsQuery(k) THEN TrackTrans(k, b) ELSE b
           IN  /\ TxAfter(k, x).open => c
               /\ k # "end" => (x.open => c)
               /\ TxAfter(k, x).auto = TRUE
PROOF
  BY DEF TrackedOnly, Tracked, Plain, TxStates, TxAfter, TrackTrans, MatchBegin, MatchEnd,
         IsQuery

\* The command is on its way to the main server, which will catch up.
LEMMA ForwardToMainGuess ==
    ASSUME TrackedOnly, TInv, NEW s \in Sessions, ForwardToMain(s)
    PROVE  OnlyOf(s) /\ GuessInv(s)'
PROOF
  <1> DEFINE e == <<Tag(s), inbox[s]>>
  <1>1. TypeOK /\ GuessInv(s) /\ FlowInv(s) /\ HeldInv(s)
    BY DEF TInv, PInv, SessionInv
  <1>2. OnlyOf(s)
    BY <1>1 DEF TypeOK, OnlyOf, OthersSame, Same, SameTx, ForwardToMain
  <1>3. /\ toMain[s] = <<>> /\ svc[s] = "read" /\ inbox[s] \in Commands
        /\ main[s] \in {"open", "bye", "dead"} /\ inTrans[s] \in BOOLEAN /\ tx[s] \in TxStates
        /\ tx[s].auto = TRUE /\ (tx[s].open => inTrans[s])
    BY <1>1 DEF TypeOK, FlowInv, HeldInv, GuessInv, ForwardToMain
  <1>4. /\ inTrans'[s] = IF IsQuery(inbox[s]) THEN TrackTrans(inbox[s], inTrans[s])
                                              ELSE inTrans[s]
        /\ svc' = svc /\ tx' = tx /\ main' = main
    BY <1>1 DEF TypeOK, ForwardToMain
  <1>5. CASE main[s] = "open"
    <2>1. toMain'[s] = <<e>>
      <3>1. toMain'[s] = Append(<<>>, e)
        BY <1>1, <1>3, <1>5 DEF TypeOK, ForwardToMain
      <3>2. QED
        BY <3>1
    <2>2. toMain'[s] # <<>> /\ toMain'[s][1][2] = inbox[s]
      BY <2>1
    <2>3. /\ TxAfter(inbox[s], tx[s]).open => inTrans'[s]
          /\ inbox[s] # "end" => (tx[s].open => inTrans'[s])
      BY <1>3, <1>4, TrackFacts
    <2>4. GuessInv(s)'
      BY <1>3, <1>4, <1>5, <2>2, <2>3 DEF GuessInv, Busy, TxAfter
    <2>5. QED
      BY <1>2, <2>4
  <1>6. CASE main[s] \in {"bye", "dead"}
    <2>1. toMain'[s] = <<>> /\ ~tx[s].open
      BY <1>1, <1>3, <1>6 DEF TypeOK, GuessInv, ForwardToMain
    <2>2. GuessInv(s)'
      BY <1>3, <1>4, <2>1 DEF GuessInv, Busy
    <2>3. QED
      BY <1>2, <2>2
  <1>7. QED
    BY <1>3, <1>5, <1>6

\* handleInbound ends after the guess has been changed.
LEMMA ForwardFailsGuess ==
    ASSUME TInv, NEW s \in Sessions, ForwardFails(s)
    PROVE  OnlyOf(s) /\ GuessInv(s)'
PROOF
  <1>1. TypeOK /\ GuessInv(s)
    BY DEF TInv, PInv
  <1>2. OnlyOf(s)
    BY <1>1 DEF TypeOK, OnlyOf, OthersSame, Same, SameTx, ForwardFails, EndService, Goto
  <1>3. tx'[s] = tx[s] /\ toMain'[s] = <<>> /\ svc'[s] = "done" /\ main'[s] = "closed"
    BY <1>1 DEF TypeOK, ForwardFails, EndService, Goto
  <1>4. GuessInv(s)'
    BY <1>1, <1>3 DEF GuessInv, Busy
  <1>5. QED
    BY <1>2, <1>4

\* What the main server does with the command that was on its way.
LEMMA MainExecutesFacts ==
    ASSUME PInv, NEW s \in Sessions, MainExecutes(s)
    PROVE  /\ OthersSame(s) /\ \A t \in Sessions \ {s} : SameTx(t)
           /\ toMain[s] # <<>> /\ toMain'[s] = <<>>
           /\ toMain[s][1][2] \in Commands
           /\ fromMain'[s] # <<>>
           /\ UNCHANGED <<client, inbox, svc, inTrans, main>>
           /\ \/ tx'[s] = TxAfter(toMain[s][1][2], tx[s])
              \/ /\ toMain[s][1][2] # "end"
                 /\ tx'[s] \in {tx[s], [tx[s] EXCEPT !.open = FALSE]}
PROOF
  <1>1. TypeOK /\ FlowInv(s)
    BY DEF PInv, SessionInv
  <1>2. /\ toMain[s] \in Seq(Tags \X Commands) /\ toMain[s] # <<>>
        /\ Len(toMain[s]) = 1 /\ fromMain[s] = <<>>
    BY <1>1 DEF TypeOK, FlowInv, MainExecutes
  <1>3. /\ Head(toMain[s]) = toMain[s][1] /\ Tail(toMain[s]) = <<>>
        /\ toMain[s][1] \in Tags \X Commands
    BY <1>2, ReadFacts
  <1>4. toMain'[s] = <<>> /\ \A t \in Sessions \ {s} : toMain'[t] = toMain[t]
    BY <1>1, <1>3 DEF TypeOK, MainExecutes
  <1>5. /\ \A t \in Sessions \ {s} : fromMain'[t] = fromMain[t] /\ tx'[t] = tx[t]
        /\ \/ tx'[s] = TxAfter(toMain[s][1][2], tx[s])
           \/ /\ toMain[s][1][2] # "end"
              /\ tx'[s] \in {tx[s], [tx[s] EXCEPT !.open = FALSE]}
    BY <1>1, <1>3 DEF TypeOK, MainExecutes
  <1>6. fromMain'[s] # <<>>
    <2> DEFINE t == Head(toMain[s])[1]
               Ok == <<Packet(t, "ok", "main")>>
               Err == <<Packet(t, "err", "main")>>
               Result == <<Packet(t, "head", "main"), Packet(t, "eof", "main")>>
    <2>1. \/ fromMain'[s] = fromMain[s] \o Ok
          \/ fromMain'[s] = fromMain[s] \o Result
          \/ fromMain'[s] = Append(fromMain[s], Packet(t, "err", "main"))
      BY <1>1 DEF TypeOK, MainExecutes
    <2> HIDE DEF t
    <2>2. /\ fromMain[s] \o Ok # <<>> /\ fromMain[s] \o Result # <<>>
          /\ Append(fromMain[s], Packet(t, "err", "main")) # <<>>
      BY <1>2
    <2>3. QED
      BY <2>1, <2>2
  <1>7. UNCHANGED sessionVars /\ main' = main
    BY DEF MainExecutes
  <1>8. QED
    BY <1>2, <1>3, <1>4, <1>5, <1>6, <1>7 DEF OthersSame, Same, SameTx, sessionVars

\* The main server catches up with the guess.
LEMMA MainExecutesGuess ==
    ASSUME TrackedOnly, TInv, NEW s \in Sessions, MainExecutes(s)
    PROVE  OnlyOf(s) /\ GuessInv(s)'
PROOF
  <1> DEFINE k == toMain[s][1][2]
  <1>1. GuessInv(s) /\ FlowInv(s) /\ tx[s] \in TxStates /\ inTrans[s] \in BOOLEAN
    BY DEF TInv, PInv, TypeOK, SessionInv
  <1>2. /\ toMain[s] # <<>> /\ toMain'[s] = <<>> /\ k \in Commands
        /\ UNCHANGED <<svc, inTrans, main>>
        /\ \/ tx'[s] = TxAfter(k, tx[s])
           \/ k # "end" /\ tx'[s] \in {tx[s], [tx[s] EXCEPT !.open = FALSE]}
        /\ main[s] = "open" /\ svc[s] \notin Busy
    BY <1>1, MainExecutesFacts DEF TInv, FlowInv, MainExecutes
  <1>3. tx'[s].auto = TRUE /\ (tx'[s].open => inTrans[s])
    <2>1. /\ tx[s].auto = TRUE
          /\ TxAfter(k, tx[s]).open => inTrans[s]
          /\ k # "end" => (tx[s].open => inTrans[s])
      BY <1>1, <1>2 DEF GuessInv
    <2>2. k # "autocommit0"
      BY <1>2 DEF TrackedOnly, Tracked, Plain
    <2> HIDE DEF k
    <2>3. CASE tx'[s] = TxAfter(k, tx[s])
      <3>1. TxAfter(k, tx[s]).auto = TRUE
        BY <2>1, <2>2 DEF TxAfter
      <3>2. QED
        BY <2>1, <2>3, <3>1
    <2>4. CASE k # "end" /\ tx'[s] \in {tx[s], [tx[s] EXCEPT !.open = FALSE]}
      BY <1>1, <2>1, <2>4 DEF TxStates
    <2>5. QED
      BY <1>2, <2>3, <2>4
  <1>4. GuessInv(s)'
    BY <1>2, <1>3 DEF GuessInv
  <1>5. QED
    BY <1>4, MainExecutesFacts DEF TInv, OnlyOf

\* A session that is dropped has no transaction any more.
LEMMA MainDropsGuess ==
    ASSUME TInv, NEW s \in Sessions, MainDrops(s)
    PROVE  OnlyOf(s) /\ GuessInv(s)'
PROOF
  <1>1. TypeOK /\ GuessInv(s)
    BY DEF TInv, PInv
  <1>2. OnlyOf(s)
    BY <1>1 DEF TypeOK, OnlyOf, OthersSame, Same, SameTx, MainDrops, sessionVars
  <1>3. /\ tx'[s] = NoTx /\ toMain'[s] = <<>>
        /\ svc'[s] = svc[s] /\ inTrans'[s] = inTrans[s]
    BY <1>1 DEF TypeOK, MainDrops, sessionVars
  <1>4. GuessInv(s)'
    BY <1>1, <1>3 DEF GuessInv, NoTx
  <1>5. QED
    BY <1>2, <1>4

\* Every step keeps the guess ahead of the main server.
LEMMA NextTInv ==
    ASSUME TrackedOnly, TInv, [Next]_vars
    PROVE  TInv'
PROOF
  <1>1. PInv'
    BY NextPInv DEF TInv
  <1>2. CASE UNCHANGED vars
    <2>1. ASSUME NEW t \in Sessions PROVE GuessInv(t)'
      BY <1>2, GuessFrame DEF TInv, SameTx, vars, sessionVars, mainVars
    <2>2. QED
      BY <1>1, <2>1 DEF TInv
  <1>3. ASSUME NEW s \in Sessions, Service(s) PROVE OnlyOf(s) /\ GuessInv(s)'
    BY <1>3, ReplicaGuess, ReadEOFGuess, ForwardToMainGuess, ForwardFailsGuess, ChooseDbGuess
    DEF Service
  <1>4. ASSUME NEW c \in Conns, ReplicaAnswers(c) \/ ReplicaDrops(c) PROVE TInv'
    <2>1. UNCHANGED <<sessionVars, mainVars>>
      BY <1>4 DEF ReplicaAnswers, ReplicaDrops
    <2>2. ASSUME NEW t \in Sessions PROVE GuessInv(t)'
      BY <2>1, GuessFrame DEF TInv, SameTx, sessionVars, mainVars
    <2>3. QED
      BY <1>1, <2>2 DEF TInv
  <1>5. CASE Next
    <2>1. CASE \E s \in Sessions : OnlyOf(s) /\ GuessInv(s)'
      BY <1>1, <2>1, GuessStep
    <2>2. CASE \E c \in Conns : ReplicaAnswers(c) \/ ReplicaDrops(c)
      BY <1>4, <2>2
    <2>3. QED
      BY <1>3, <1>5, <2>1, <2>2, ClientGuess, OutboundGuess, MainExecutesGuess, MainDropsGuess
      DEF Next
  <1>6. QED
    BY <1>2, <1>5

\* A session starts outside a transaction.
LEMMA InitTInv == Init => TInv
PROOF
  <1> SUFFICES ASSUME Init PROVE TInv
    OBVIOUS
  <1>1. ASSUME NEW s \in Sessions PROVE GuessInv(s)
    BY DEF Init, GuessInv, NoTx, Busy
  <1>2. QED
    BY <1>1, InitPInv DEF TInv

\* For commands of the kinds the proxy's patterns were made for, the guess is
\* never behind the main server, through all faults.
THEOREM GuessInvariant == ASSUME TrackedOnly PROVE Spec => []TInv
PROOF
  <1>1. Init => TInv
    BY InitTInv
  <1>2. TInv /\ [Next]_vars => TInv'
    BY TrackedOnly, NextTInv
  <1>3. QED
    BY <1>1, <1>2, PTL DEF Spec

\* "Forwards transactions SELECTs to main database": no SELECT of a session is
\* with a replica while the session has a transaction open on the main server.
THEOREM ProxyTxOnMain == ASSUME TrackedOnly PROVE Spec => []TxOnMain
PROOF
  <1>1. TInv => TxOnMain
    <2> SUFFICES ASSUME TInv, NEW s \in Sessions, svc[s] \in Busy
                 PROVE  ~InTransaction(tx[s])
      BY DEF TxOnMain, Busy
    <2>1. FlowInv(s) /\ GuessInv(s)
      BY DEF TInv, PInv, SessionInv
    <2>2. QED
      BY <2>1 DEF FlowInv, GuessInv, InTransaction, Busy
  <1>2. QED
    BY <1>1, GuessInvariant, TrackedOnly, PTL

-----------------------------------------------------------------------------
(***************************************************************************)
(* The refinement.                                                         *)
(***************************************************************************)

\* The steps ReadWriteSplit allows for one session: from a client in state c, a
\* command in place p and a transaction that is open or not (o), to the same
\* with a 1.
Allowed(c, p, o, c1, p1, o1) ==
    \/ c1 = c /\ p1 = p /\ o1 = o
    \/ c = "new" /\ c1 = "idle" /\ p1 = p /\ o1 = o
    \/ c = "idle" /\ c1 = "waiting" /\ p = "none" /\ p1 = "proxy" /\ o1 = o
    \/ c1 = c /\ p = "proxy" /\ p1 = "main" /\ o1 = o
    \/ c1 = c /\ p = "proxy" /\ p1 = "replica" /\ ~o /\ o1 = o
    \/ c1 = c /\ p = "main" /\ p1 = "done"
    \/ c = "waiting" /\ c1 = "idle" /\ p \in {"done", "replica"} /\ p1 = "none" /\ o1 = o
    \/ c1 = c /\ p1 = "none" /\ o1 \in {o, FALSE}
    \/ c1 = c /\ p1 = p /\ o1 = FALSE
    \/ c \in {"idle", "waiting"} /\ c1 = "gone" /\ p1 = p /\ o1 = o

\* What a step does to session s, as ReadWriteSplit sees it.
Moves(s) == Allowed(client[s], Place(s), InTransaction(tx[s]),
                    client'[s], Place(s)', InTransaction(tx[s])')

\* A step of one session that moves it as allowed is a step of ReadWriteSplit.
LEMMA SplitStep ==
    ASSUME PInv, PInv', NEW s \in Sessions, OnlyOf(s), Moves(s)
    PROVE  [Split!SNext]_(Split!splitVars)
PROOF
  <1> DEFINE place == [u \in Sessions |-> Place(u)]
             open == [u \in Sessions |-> InTransaction(tx[u])]
             c1 == client'[s]
             p1 == Place(s)'
             o1 == InTransaction(tx[s])'
  <1>1. client' = [client EXCEPT ![s] = c1]
    BY DEF PInv, TypeOK, OnlyOf, OthersSame, Same
  <1>2. place' = [place EXCEPT ![s] = p1]
    <2>1. \A t \in Sessions \ {s} : Place(t)' = Place(t)
      BY DEF OnlyOf, OthersSame, Same, Place
    <2>2. QED
      BY <2>1
  <1>3. open' = [open EXCEPT ![s] = o1]
    <2>1. \A t \in Sessions \ {s} : InTransaction(tx[t])' = InTransaction(tx[t])
      BY DEF OnlyOf, SameTx, InTransaction
    <2>2. QED
      BY <2>1
  <1>4. /\ place[s] = Place(s) /\ open[s] = InTransaction(tx[s])
        /\ o1 \in BOOLEAN /\ open[s] \in BOOLEAN
    BY DEF InTransaction
  <1>5. /\ client \in [Sessions -> {"new", "idle", "waiting", "gone"}]
        /\ DOMAIN place = Sessions /\ DOMAIN open = Sessions
    BY DEF PInv, TypeOK
  <1>6. Allowed(client[s], place[s], open[s], c1, p1, o1)
    BY <1>4 DEF Moves
  <1>7. [client EXCEPT ![s] = client[s]] = client
    BY <1>5
  <1>8. [place EXCEPT ![s] = place[s]] = place /\ [open EXCEPT ![s] = open[s]] = open
    OBVIOUS
  <1> HIDE DEF place, open, c1, p1, o1
  <1>9. \/ client' = client /\ place' = place /\ open' = open
        \/ /\ client[s] = "new" /\ client' = [client EXCEPT ![s] = "idle"]
           /\ place' = place /\ open' = open
        \/ /\ client[s] = "idle" /\ client' = [client EXCEPT ![s] = "waiting"]
           /\ place[s] = "none" /\ place' = [place EXCEPT ![s] = "proxy"] /\ open' = open
        \/ /\ place[s] = "proxy" /\ place' = [place EXCEPT ![s] = "main"]
           /\ client' = client /\ open' = open
        \/ /\ ~open[s] /\ place[s] = "proxy" /\ place' = [place EXCEPT ![s] = "replica"]
           /\ client' = client /\ open' = open
        \/ /\ place[s] = "main" /\ place' = [place EXCEPT ![s] = "done"]
           /\ \E b \in BOOLEAN : open' = [open EXCEPT ![s] = b]
           /\ client' = client
        \/ /\ client[s] = "waiting" /\ client' = [client EXCEPT ![s] = "idle"]
           /\ place[s] \in {"done", "replica"} /\ place' = [place EXCEPT ![s] = "none"]
           /\ open' = open
        \/ /\ place' = [place EXCEPT ![s] = "none"]
           /\ \E b \in {open[s], FALSE} : open' = [open EXCEPT ![s] = b]
           /\ client' = client
        \/ /\ open' = [open EXCEPT ![s] = FALSE]
           /\ client' = client /\ place' = place
        \/ /\ client[s] \in {"idle", "waiting"} /\ client' = [client EXCEPT ![s] = "gone"]
           /\ place' = place /\ open' = open
    BY <1>1, <1>2, <1>3, <1>4, <1>6, <1>7, <1>8 DEF Allowed
  <1>10. QED
    BY <1>9 DEF place, open, Split!SNext, Split!splitVars, Split!Arrive, Split!Ask,
       Split!GiveMain, Split!GiveReplica, Split!Execute, Split!Answer, Split!Lose, Split!Drop,
       Split!Leave, Split!Move

\* A client arrives, asks when its last command is nowhere any more, or leaves.
LEMMA ClientMoves ==
    ASSUME TInv, NEW s \in Sessions,
           Accept(s) \/ (\E k \in Commands : ClientSend(s, k)) \/ ClientLeave(s) \/ ClientClosed(s)
    PROVE  Moves(s)
PROOF
  <1>1. TypeOK /\ FlowInv(s)
    BY DEF TInv, PInv, SessionInv
  <1>2. InTransaction(tx[s])' = InTransaction(tx[s])
    BY DEF Accept, ClientSend, ClientLeave, ClientClosed, mainVars, InTransaction
  <1>3. CASE Accept(s)
    <2>1. Place(s) = "none" /\ Place(s)' = "none"
      BY <1>1, <1>3 DEF TypeOK, FlowInv, Accept, Goto, mainVars, Place, Busy
    <2>2. client[s] = "new" /\ client'[s] = "idle"
      BY <1>1, <1>3 DEF TypeOK, Accept
    <2>3. QED
      BY <1>2, <2>1, <2>2 DEF Moves, Allowed
  <1>4. ASSUME NEW k \in Commands, ClientSend(s, k) PROVE Moves(s)
    <2>1. Place(s) = "none" /\ Place(s)' = "proxy"
      BY <1>1, <1>4, ProxyAssumption DEF TypeOK, FlowInv, ClientSend, Place, Busy
    <2>2. client[s] = "idle" /\ client'[s] = "waiting"
      BY <1>1, <1>4 DEF TypeOK, ClientSend
    <2>3. QED
      BY <1>2, <2>1, <2>2 DEF Moves, Allowed
  <1>5. CASE ClientLeave(s) \/ ClientClosed(s)
    <2>1. Place(s)' = Place(s)
      BY <1>5 DEF ClientLeave, ClientClosed, mainVars, Place
    <2>2. client[s] \in {"idle", "waiting"} /\ client'[s] = "gone"
      BY <1>1, <1>5 DEF TypeOK, ClientLeave, ClientClosed
    <2>3. QED
      BY <1>2, <2>1, <2>2 DEF Moves, Allowed
  <1>6. QED
    BY <1>3, <1>4, <1>5

\* The command leaves the receive buffer for one server, or is lost.
LEMMA InboundMoves ==
    ASSUME TInv, NEW s \in Sessions,
           ReadEOF(s) \/ ForwardToMain(s) \/ ForwardFails(s) \/ ChooseDb(s)
    PROVE  Moves(s)
PROOF
  <1>1. TypeOK /\ FlowInv(s) /\ GuessInv(s)
    BY DEF TInv, PInv, SessionInv
  <1>2. client' = client /\ InTransaction(tx[s])' = InTransaction(tx[s])
    BY DEF ReadEOF, ForwardToMain, ForwardFails, ChooseDb, mainVars, InTransaction
  <1>3. CASE ReadEOF(s)
    <2>1. Place(s)' = "none"
      BY <1>1, <1>3 DEF TypeOK, ReadEOF, EndService, Goto, Place
    <2>2. QED
      BY <1>2, <2>1 DEF Moves, Allowed
  <1>4. CASE ForwardToMain(s)
    <2>1. Place(s) = "proxy"
      BY <1>4 DEF ForwardToMain, Place
    <2>2. /\ toMain[s] = <<>> /\ fromMain'[s] = <<>> /\ svc'[s] = "read" /\ inbox'[s] = None
      BY <1>1, <1>4 DEF TypeOK, FlowInv, ForwardToMain
    <2>3. CASE main[s] = "open"
      <3>1. toMain'[s] = Append(<<>>, <<Tag(s), inbox[s]>>)
        BY <1>1, <1>4, <2>2, <2>3 DEF TypeOK, ForwardToMain
      <3>2. toMain'[s] # <<>>
        BY <3>1
      <3>3. Place(s)' = "main"
        BY <2>2, <3>2 DEF Place
      <3>4. QED
        BY <1>2, <2>1, <3>3 DEF Moves, Allowed
    <2>4. CASE main[s] # "open"
      <3>1. Place(s)' = "none"
        BY <1>1, <1>4, <2>2, <2>4 DEF TypeOK, ForwardToMain, Place
      <3>2. QED
        BY <1>2, <3>1 DEF Moves, Allowed
    <2>5. QED
      BY <2>3, <2>4
  <1>5. CASE ForwardFails(s)
    <2>1. Place(s)' = "none"
      BY <1>1, <1>5 DEF TypeOK, ForwardFails, EndService, Goto, Place
    <2>2. QED
      BY <1>2, <2>1 DEF Moves, Allowed
  <1>6. CASE ChooseDb(s)
    <2>1. Place(s) = "proxy" /\ ~InTransaction(tx[s])
      BY <1>1, <1>6 DEF FlowInv, GuessInv, ChooseDb, ToReplica, Place, InTransaction
    <2>2. Place(s)' = "replica"
      BY <1>1, <1>6 DEF TypeOK, FlowInv, ChooseDb, Goto, mainVars, Place
    <2>3. QED
      BY <1>2, <2>1, <2>2 DEF Moves, Allowed
  <1>7. QED
    BY <1>3, <1>4, <1>5, <1>6

\* The replica answers, or the command is lost there.
LEMMA ReplicaMoves ==
    ASSUME TInv, NEW s \in Sessions,
           \/ DialMain(s) \/ DialMainFail(s) \/ GetIdle(s) \/ GetNew(s) \/ GetFails(s)
           \/ Query(s) \/ QueryFails(s) \/ CopyPacket(s) \/ ReadGoodbye(s) \/ CopyFails(s) \/ Put(s)
    PROVE  Moves(s)
PROOF
  <1>1. TypeOK /\ FlowInv(s)
    BY DEF TInv, PInv, SessionInv
  <1>2. /\ UNCHANGED <<inbox, toMain, fromMain, tx>>
        /\ InTransaction(tx[s])' = InTransaction(tx[s])
    BY DEF DialMain, DialMainFail, GetIdle, GetNew, GetFails, Query, QueryFails,
           CopyPacket, ReadGoodbye, CopyFails, Put, mainVars, InTransaction
  <1>3. CASE \/ DialMain(s) \/ DialMainFail(s) \/ GetIdle(s) \/ GetNew(s) \/ Query(s) \/ Put(s)
    <2>1. client' = client /\ (svc'[s] \in Busy <=> svc[s] \in Busy)
      BY <1>1, <1>3 DEF TypeOK, DialMain, DialMainFail, GetIdle, GetNew, Query, Put, Goto, Busy
    <2>2. Place(s)' = Place(s)
      BY <1>2, <2>1 DEF Place, Busy
    <2>3. QED
      BY <1>2, <2>1, <2>2 DEF Moves, Allowed
  <1>4. CASE GetFails(s) \/ QueryFails(s) \/ ReadGoodbye(s) \/ CopyFails(s)
    <2>1. client' = client /\ svc[s] \in Busy /\ svc'[s] \notin Busy
      BY <1>1, <1>4 DEF TypeOK, GetFails, QueryFails, ReadGoodbye, CopyFails, Goto, Busy
    <2>2. Place(s)' = "none"
      BY <1>1, <1>2, <2>1 DEF FlowInv, Place, Busy
    <2>3. QED
      BY <1>2, <2>1, <2>2 DEF Moves, Allowed
  <1>5. CASE CopyPacket(s)
    <2> DEFINE q == Head(stream[conn[s]])
    <2>1. q \in Packets
      <3>1. stream[conn[s]] \in Seq(Packets) /\ stream[conn[s]] # <<>>
        BY <1>5, HoldsFacts DEF TInv, CopyPacket
      <3>2. QED
        BY <3>1, ReadFacts
    <2>2. /\ svc[s] \in Busy /\ svc'[s] = (IF Last(q) THEN "put" ELSE "rows")
          /\ Deliver(s, q)
      BY <1>1, <1>5 DEF TypeOK, CopyPacket, Goto, Busy
    <2>3. /\ Place(s) = "replica" /\ client[s] \in {"waiting", "gone"}
          /\ Place(s)' = IF Last(q) THEN "none" ELSE "replica"
      BY <1>1, <1>2, <2>2 DEF TypeOK, FlowInv, Place, Busy
    <2>4. client'[s] = IF client[s] = "waiting" /\ Last(q) THEN "idle" ELSE client[s]
      BY <1>1, <2>1, <2>2, <2>3, DeliverFacts
    <2> HIDE DEF q
    <2>5. QED
      BY <1>2, <2>3, <2>4 DEF Moves, Allowed
  <1>6. QED
    BY <1>3, <1>4, <1>5

\* The main server's answer arrives with its last packet.
LEMMA OutboundMoves ==
    ASSUME TInv, NEW s \in Sessions, Outbound(s)
    PROVE  Moves(s)
PROOF
  <1>1. TypeOK /\ FlowInv(s) /\ BackInv(s)
    BY DEF TInv, PInv, SessionInv
  <1>2. /\ UNCHANGED <<inbox, svc, toMain, tx>>
        /\ InTransaction(tx[s])' = InTransaction(tx[s])
    BY DEF Outbound, CopyFromMain, CopyGoodbye, CopyFromMainFails, OutboundEnds, sessionVars,
           InTransaction
  <1>3. CASE CopyGoodbye(s) \/ CopyFromMainFails(s) \/ OutboundEnds(s)
    <2>1. client' = client /\ Place(s)' = Place(s)
      BY <1>2, <1>3 DEF CopyGoodbye, CopyFromMainFails, OutboundEnds, sessionVars, Place
    <2>2. QED
      BY <1>2, <2>1 DEF Moves, Allowed
  <1>4. CASE CopyFromMain(s)
    <2> DEFINE q == Head(fromMain[s])
    <2>1. /\ fromMain[s] \in Seq(Packets) /\ fromMain[s] # <<>>
          /\ fromMain'[s] = Tail(fromMain[s]) /\ Deliver(s, q)
      BY <1>1, <1>4 DEF TypeOK, CopyFromMain
    <2>2. q \in Packets /\ (Last(q) <=> fromMain'[s] = <<>>)
      BY <1>1, <2>1, ReadFacts DEF BackInv
    <2>3. /\ Place(s) = "done" /\ client[s] \in {"waiting", "gone"}
          /\ Place(s)' = IF Last(q) THEN "none" ELSE "done"
      BY <1>1, <1>2, <2>1, <2>2 DEF TypeOK, FlowInv, Place, Busy
    <2>4. client'[s] = IF client[s] = "waiting" /\ Last(q) THEN "idle" ELSE client[s]
      BY <1>1, <2>1, <2>2, <2>3, DeliverFacts
    <2> HIDE DEF q
    <2>5. QED
      BY <1>2, <2>3, <2>4 DEF Moves, Allowed
  <1>5. QED
    BY <1>3, <1>4 DEF Outbound

\* The main server carries the command out, or loses it with the session.
LEMMA MainMoves ==
    ASSUME TInv, NEW s \in Sessions, MainExecutes(s) \/ MainDrops(s)
    PROVE  Moves(s)
PROOF
  <1>1. TypeOK /\ FlowInv(s)
    BY DEF TInv, PInv, SessionInv
  <1>2. CASE MainExecutes(s)
    <2>1. /\ toMain[s] # <<>> /\ toMain'[s] = <<>> /\ fromMain'[s] # <<>>
          /\ inbox[s] = None /\ inbox' = inbox /\ client' = client
      BY <1>1, <1>2, MainExecutesFacts DEF TInv, FlowInv
    <2>2. Place(s) = "main" /\ Place(s)' = "done"
      BY <2>1 DEF Place
    <2>3. QED
      BY <2>1, <2>2 DEF Moves, Allowed
  <1>3. CASE MainDrops(s)
    <2>1. /\ client' = client /\ inbox' = inbox /\ svc' = svc /\ fromMain' = fromMain
          /\ toMain'[s] = <<>> /\ tx'[s] = NoTx
      BY <1>1, <1>3 DEF TypeOK, MainDrops, sessionVars
    <2>2. InTransaction(tx[s])' = FALSE
      BY <2>1 DEF InTransaction, NoTx
    <2>3. Place(s)' = Place(s) \/ Place(s)' = "none"
      BY <1>1, <2>1 DEF FlowInv, Place, Busy
    <2>4. QED
      BY <2>1, <2>2, <2>3 DEF Moves, Allowed
  <1>4. QED
    BY <1>2, <1>3

\* Every step of the proxy is a step of ReadWriteSplit or none.
LEMMA NextSplit ==
    ASSUME TrackedOnly, TInv, TInv', [Next]_vars
    PROVE  [Split!SNext]_(Split!splitVars)
PROOF
  <1>1. ASSUME UNCHANGED <<sessionVars, mainVars>> PROVE UNCHANGED Split!splitVars
    <2>1. \A s \in Sessions : /\ Place(s)' = Place(s)
                              /\ InTransaction(tx[s])' = InTransaction(tx[s])
      BY <1>1 DEF Place, InTransaction, sessionVars, mainVars
    <2>2. QED
      BY <1>1, <2>1 DEF Split!splitVars, sessionVars
  <1>2. CASE UNCHANGED vars
    BY <1>1, <1>2 DEF vars
  <1>3. ASSUME NEW c \in Conns, ReplicaAnswers(c) \/ ReplicaDrops(c)
        PROVE  UNCHANGED Split!splitVars
    BY <1>1, <1>3 DEF ReplicaAnswers, ReplicaDrops
  <1>4. ASSUME NEW s \in Sessions, Service(s) PROVE OnlyOf(s) /\ Moves(s)
    BY <1>4, ReplicaGuess, ReadEOFGuess, ForwardToMainGuess, ForwardFailsGuess, ChooseDbGuess,
       ReplicaMoves, InboundMoves
    DEF Service
  <1>5. CASE Next
    <2>1. CASE \E s \in Sessions : OnlyOf(s) /\ Moves(s)
      BY <2>1, SplitStep DEF TInv
    <2>2. CASE \E c \in Conns : ReplicaAnswers(c) \/ ReplicaDrops(c)
      BY <1>3, <2>2
    <2>3. QED
      BY <1>4, <1>5, <2>1, <2>2, ClientGuess, ClientMoves, OutboundGuess, OutboundMoves,
         MainExecutesGuess, MainDropsGuess, MainMoves
      DEF Next
  <1>6. QED
    BY <1>2, <1>5

\* With any number of sessions, pools and faults, the proxy keeps the promise of
\* ReadWriteSplit: a command is given to one server, once, to a replica only
\* outside a transaction, and answered at most once, after it was carried out.
THEOREM ProxyImplementsSplit == ASSUME TrackedOnly PROVE Spec => ImplementsSplit
PROOF
  <1>1. Init => Split!SInit
    <2> SUFFICES ASSUME Init PROVE Split!SInit
      OBVIOUS
    <2>1. \A s \in Sessions : Place(s) = "none" /\ InTransaction(tx[s]) = FALSE
      BY DEF Init, Place, InTransaction, NoTx
    <2>2. QED
      BY <2>1 DEF Init, Split!SInit
  <1>2. TInv /\ TInv' /\ [Next]_vars => [Split!SNext]_(Split!splitVars)
    BY NextSplit, TrackedOnly
  <1>3. QED
    BY <1>1, <1>2, GuessInvariant, TrackedOnly, PTL DEF Spec, ImplementsSplit, Split!SSpec

=============================================================================
