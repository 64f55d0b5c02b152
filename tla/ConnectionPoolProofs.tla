------------------------ MODULE ConnectionPoolProofs ------------------------
(***************************************************************************)
(* Proofs about ConnectionPool, for any number of goroutines and           *)
(* connections and any minConns and maxConns.                              *)
(***************************************************************************)
EXTENDS ConnectionPool, TLAPS

\* The mutex protects what the code thinks it does: exactly its holder is in
\* one of the sections that run with cp.mu held.
MutexInv == \A p \in Procs : pc[p] \in Critical <=> mu = p

\* A goroutine has a connection in hand exactly between the return of Get and
\* the end of Put, and between Connect and the send in Open.
HeldInv == \A p \in Procs : held[p] # None <=> pc[p] \in {"use", "put", "push"}

\* The inductive invariant.
IInv == TypeOK /\ MutexInv /\ HeldInv /\ Exclusive /\ NoLeak

-----------------------------------------------------------------------------
(***************************************************************************)
(* Sequences without repetition, as cp.conns is used: receive at the head, *)
(* send at the tail.                                                       *)
(***************************************************************************)
In(s, c) == \E i \in DOMAIN s : s[i] = c

Distinct(s) == \A i, j \in DOMAIN s : s[i] = s[j] => i = j

\* Receiving takes exactly the head out of the channel.
LEMMA TailFacts ==
    ASSUME NEW S, NEW s \in Seq(S), s # <<>>, Distinct(s)
    PROVE  /\ Tail(s) \in Seq(S)
           /\ Len(Tail(s)) = Len(s) - 1
           /\ Head(s) \in S
           /\ In(s, Head(s))
           /\ Distinct(Tail(s))
           /\ \A c : In(Tail(s), c) <=> In(s, c) /\ c # Head(s)
PROOF
  <1>1. /\ Tail(s) \in Seq(S)
        /\ Len(Tail(s)) = Len(s) - 1
        /\ Len(s) \in Nat /\ Len(s) > 0
        /\ Head(s) = s[1]
        /\ DOMAIN s = 1..Len(s)
        /\ DOMAIN Tail(s) = 1..(Len(s) - 1)
        /\ \A i \in 1..(Len(s) - 1) : Tail(s)[i] = s[i + 1]
    OBVIOUS
  <1>2. Head(s) \in S /\ In(s, Head(s))
    BY <1>1 DEF In
  <1>3. Distinct(Tail(s))
    BY <1>1 DEF Distinct
  <1>4. ASSUME NEW c PROVE In(Tail(s), c) <=> In(s, c) /\ c # Head(s)
    <2>1. ASSUME In(Tail(s), c) PROVE In(s, c) /\ c # Head(s)
      BY <1>1, <2>1 DEF In, Distinct
    <2>2. ASSUME In(s, c), c # Head(s) PROVE In(Tail(s), c)
      <3>1. PICK i \in 1..Len(s) : s[i] = c
        BY <1>1, <2>2 DEF In
      <3>2. i # 1 /\ i - 1 \in 1..(Len(s) - 1)
        BY <1>1, <2>2, <3>1
      <3>3. Tail(s)[i - 1] = c
        BY <1>1, <3>1, <3>2
      <3>4. QED
        BY <1>1, <3>2, <3>3 DEF In
    <2>3. QED
      BY <2>1, <2>2
  <1>5. QED
    BY <1>1, <1>2, <1>3, <1>4

\* Sending adds exactly the connection sent.
LEMMA AppendFacts ==
    ASSUME NEW S, NEW s \in Seq(S), NEW e \in S, Distinct(s), ~In(s, e)
    PROVE  /\ Append(s, e) \in Seq(S)
           /\ Len(Append(s, e)) = Len(s) + 1
           /\ Distinct(Append(s, e))
           /\ \A c : In(Append(s, e), c) <=> In(s, c) \/ c = e
PROOF
  <1>1. /\ Append(s, e) \in Seq(S)
        /\ Len(Append(s, e)) = Len(s) + 1
        /\ Len(s) \in Nat
        /\ DOMAIN s = 1..Len(s)
        /\ DOMAIN Append(s, e) = 1..(Len(s) + 1)
        /\ \A i \in 1..Len(s) : Append(s, e)[i] = s[i]
        /\ Append(s, e)[Len(s) + 1] = e
    OBVIOUS
  <1>2. Distinct(Append(s, e))
    BY <1>1 DEF Distinct, In
  <1>3. ASSUME NEW c PROVE In(Append(s, e), c) <=> In(s, c) \/ c = e
    <2>1. ASSUME In(Append(s, e), c) PROVE In(s, c) \/ c = e
      BY <1>1, <2>1 DEF In
    <2>2. ASSUME In(s, c) PROVE In(Append(s, e), c)
      BY <1>1, <2>2 DEF In
    <2>3. In(Append(s, e), e)
      <3>1. Len(s) + 1 \in DOMAIN Append(s, e)
        BY <1>1
      <3>2. QED
        BY <1>1, <3>1 DEF In
    <2>4. QED
      BY <2>1, <2>2, <2>3
  <1>4. QED
    BY <1>1, <1>2, <1>3

-----------------------------------------------------------------------------
(***************************************************************************)
(* The steps.                                                              *)
(***************************************************************************)

\* The pool's constructor establishes the invariant.
LEMMA InitIInv == Init => IInv
PROOF
  <1> SUFFICES ASSUME Init PROVE IInv
    OBVIOUS
  <1>1. TypeOK
    <2>1. conns \in Seq(Conns) /\ Len(conns) = 0
      BY DEF Init
    <2>2. /\ socket \in [Conns -> {"open", "stale", "closed"}]
          /\ pc \in [Procs -> PcValues]
          /\ held \in [Procs -> Conns \cup {None}]
          /\ count \in [Procs -> Nat]
      BY DEF Init, PcValues
    <2>3. closed \in BOOLEAN
      BY DEF Init
    <2>4. QED
      BY <2>1, <2>2, <2>3, PoolAssumption DEF Init, TypeOK, ReaperValues
  <1>2. MutexInv /\ HeldInv
    BY PoolAssumption DEF Init, MutexInv, HeldInv, Critical
  <1>3. DOMAIN conns = {}
    BY DEF Init
  <1>4. Exclusive /\ NoLeak
    BY <1>3 DEF Init, Exclusive, NoLeak, InChannel
  <1>5. QED
    BY <1>1, <1>2, <1>4 DEF IInv

\* Steps that move no connection, close none and touch neither the mutex nor
\* the channel need only keep the control state in order.
LEMMA ControlStep ==
    ASSUME IInv, TypeOK', MutexInv', HeldInv',
           UNCHANGED <<conns, held, socket>>
    PROVE  IInv'
PROOF
  BY DEF IInv, Exclusive, NoLeak, InChannel

\* A connection is dialled for p.
LEMMA ConnectStep ==
    ASSUME IInv, NEW p \in Procs, NEW c \in Conns, Fresh(c), held[p] = None,
           held' = [held EXCEPT ![p] = c],
           socket' = [socket EXCEPT ![c] = "open"],
           UNCHANGED conns
    PROVE  Exclusive' /\ NoLeak'
PROOF
  <1>1. Exclusive'
    BY PoolAssumption DEF IInv, TypeOK, Exclusive, Fresh, InChannel
  <1>2. NoLeak'
    BY PoolAssumption DEF IInv, TypeOK, NoLeak, Fresh, InChannel
  <1>3. QED
    BY <1>1, <1>2

\* p closes the connection it has in hand and forgets it.
LEMMA DiscardStep ==
    ASSUME IInv, NEW p \in Procs, held[p] # None,
           held' = [held EXCEPT ![p] = None],
           CloseSocket(held[p]),
           UNCHANGED conns
    PROVE  Exclusive' /\ NoLeak'
PROOF
  <1>1. Exclusive'
    BY PoolAssumption DEF IInv, TypeOK, Exclusive, InChannel
  <1>2. NoLeak'
    BY PoolAssumption DEF IInv, TypeOK, NoLeak, InChannel, CloseSocket
  <1>3. QED
    BY <1>1, <1>2

\* p sends the connection it has in hand to the channel.
LEMMA SendStep ==
    ASSUME IInv, NEW p \in Procs, held[p] # None,
           held' = [held EXCEPT ![p] = None],
           conns' = Append(conns, held[p]),
           UNCHANGED socket
    PROVE  /\ conns' \in Seq(Conns)
           /\ Len(conns') = Len(conns) + 1
           /\ Exclusive' /\ NoLeak'
PROOF
  <1>1. /\ held[p] \in Conns /\ conns \in Seq(Conns)
        /\ Distinct(conns) /\ ~In(conns, held[p])
    BY DEF IInv, TypeOK, Exclusive, InChannel, Distinct, In
  <1>2. /\ conns' \in Seq(Conns)
        /\ Len(conns') = Len(conns) + 1
        /\ Distinct(conns')
        /\ \A c : In(conns', c) <=> In(conns, c) \/ c = held[p]
    BY <1>1, AppendFacts
  <1>3. \A q \in Procs : ~In(conns', held'[q])
    <2>1. ~In(conns, None) /\ held[p] # None
      BY <1>1, PoolAssumption DEF In
    <2>2. TAKE q \in Procs
    <2>3. CASE q = p
      BY <1>2, <2>1, <2>3 DEF IInv, TypeOK
    <2>4. CASE q # p
      <3>1. held'[q] = held[q] /\ ~In(conns, held[q])
        BY <2>4 DEF IInv, TypeOK, Exclusive, InChannel, In
      <3>2. held[q] # held[p]
        BY <2>1, <2>4 DEF IInv, Exclusive
      <3>3. QED
        BY <1>2, <3>1, <3>2
    <2>5. QED
      BY <2>3, <2>4
  <1>4. Exclusive'
    <2>1. \A q, r \in Procs : held'[q] = held'[r] /\ held'[q] # None => q = r
      BY DEF IInv, TypeOK, Exclusive
    <2>2. QED
      BY <1>2, <1>3, <2>1 DEF Exclusive, Distinct, In, InChannel
  <1>5. NoLeak'
    <2>1. SUFFICES ASSUME NEW c \in Conns, socket[c] # "closed"
                   PROVE  In(conns', c) \/ \E q \in Procs : held'[q] = c
      BY DEF NoLeak, InChannel, In
    <2>2. CASE In(conns, c)
      BY <1>2, <2>2
    <2>3. CASE \E q \in Procs : held[q] = c
      BY <1>2, <2>3 DEF IInv, TypeOK
    <2>4. QED
      BY <2>1, <2>2, <2>3 DEF IInv, NoLeak, InChannel, In
  <1>6. QED
    BY <1>2, <1>4, <1>5

\* p, which has no connection in hand, receives the head of the channel.
LEMMA ReceiveStep ==
    ASSUME IInv, NEW p \in Procs, held[p] = None, conns # <<>>,
           held' = [held EXCEPT ![p] = Head(conns)],
           conns' = Tail(conns),
           UNCHANGED socket
    PROVE  /\ conns' \in Seq(Conns)
           /\ Len(conns') = Len(conns) - 1
           /\ Head(conns) \in Conns
           /\ Exclusive' /\ NoLeak'
PROOF
  <1>1. conns \in Seq(Conns) /\ Distinct(conns)
    BY DEF IInv, TypeOK, Exclusive, Distinct
  <1>2. /\ conns' \in Seq(Conns)
        /\ Len(conns') = Len(conns) - 1
        /\ Head(conns) \in Conns
        /\ In(conns, Head(conns))
        /\ Distinct(conns')
        /\ \A c : In(conns', c) <=> In(conns, c) /\ c # Head(conns)
    BY <1>1, TailFacts
  <1>3. \A q \in Procs : held[q] # Head(conns) /\ ~In(conns, held[q])
    BY <1>2 DEF IInv, Exclusive, InChannel, In
  <1>4. Exclusive'
    <2>1. \A q, r \in Procs : held'[q] = held'[r] /\ held'[q] # None => q = r
      BY <1>3 DEF IInv, TypeOK, Exclusive
    <2>2. \A q \in Procs : ~In(conns', held'[q])
      BY <1>2, <1>3 DEF IInv, TypeOK
    <2>3. QED
      BY <1>2, <2>1, <2>2 DEF Exclusive, Distinct, In, InChannel
  <1>5. NoLeak'
    <2>1. SUFFICES ASSUME NEW c \in Conns, socket[c] # "closed"
                   PROVE  In(conns', c) \/ \E q \in Procs : held'[q] = c
      BY DEF NoLeak, InChannel, In
    <2>2. CASE In(conns, c)
      BY <1>2, <2>2 DEF IInv, TypeOK
    <2>3. CASE \E q \in Procs : held[q] = c
      BY <1>2, <2>3, PoolAssumption DEF IInv, TypeOK
    <2>4. QED
      BY <2>1, <2>2, <2>3 DEF IInv, NoLeak, InChannel, In
  <1>6. QED
    BY <1>2, <1>4, <1>5

\* Close or the reaper receives the head of the channel and closes it.
LEMMA DrainHeadStep ==
    ASSUME IInv, conns # <<>>,
           conns' = Tail(conns),
           CloseSocket(Head(conns)),
           UNCHANGED held
    PROVE  /\ conns' \in Seq(Conns)
           /\ Len(conns') = Len(conns) - 1
           /\ Head(conns) \in Conns
           /\ Exclusive' /\ NoLeak'
PROOF
  <1>1. conns \in Seq(Conns) /\ Distinct(conns)
    BY DEF IInv, TypeOK, Exclusive, Distinct
  <1>2. /\ conns' \in Seq(Conns)
        /\ Len(conns') = Len(conns) - 1
        /\ Head(conns) \in Conns
        /\ Distinct(conns')
        /\ \A c : In(conns', c) <=> In(conns, c) /\ c # Head(conns)
    BY <1>1, TailFacts
  <1>3. Exclusive'
    BY <1>2 DEF IInv, Exclusive, Distinct, In, InChannel
  <1>4. NoLeak'
    <2>1. SUFFICES ASSUME NEW c \in Conns, socket'[c] # "closed"
                   PROVE  In(conns', c) \/ \E q \in Procs : held'[q] = c
      BY DEF NoLeak, InChannel, In
    <2>2. c # Head(conns) /\ socket[c] # "closed"
      BY <1>2, <2>1 DEF IInv, TypeOK, CloseSocket
    <2>3. QED
      BY <1>2, <2>2 DEF IInv, NoLeak, InChannel, In
  <1>5. QED
    BY <1>2, <1>3, <1>4

\* Every step of the pool, its callers and its environment keeps the invariant.
LEMMA NextIInv == IInv /\ [Next]_vars => IInv'
PROOF
  <1> SUFFICES ASSUME IInv, [Next]_vars PROVE IInv'
    OBVIOUS
  <1> USE PoolAssumption
  <1>1. ASSUME NEW p \in Procs, GetCall(p) PROVE IInv'
    <2>1. TypeOK' /\ MutexInv' /\ HeldInv'
      BY <1>1 DEF GetCall, IInv, TypeOK, MutexInv, HeldInv, Critical, PcValues, ReaperValues, Goto
    <2>2. QED
      BY <1>1, <2>1, ControlStep DEF GetCall
  <1>2. ASSUME NEW p \in Procs, GetClosed(p) PROVE IInv'
    <2>1. TypeOK' /\ MutexInv' /\ HeldInv'
      BY <1>2 DEF GetClosed, IInv, TypeOK, MutexInv, HeldInv, Critical, PcValues, ReaperValues, Goto
    <2>2. QED
      BY <1>2, <2>1, ControlStep DEF GetClosed
  <1>3. ASSUME NEW p \in Procs, GetDial(p) PROVE IInv'
    <2>1. TypeOK' /\ MutexInv' /\ HeldInv'
      BY <1>3 DEF GetDial, IInv, TypeOK, MutexInv, HeldInv, Critical, PcValues, ReaperValues, Goto
    <2>2. QED
      BY <1>3, <2>1, ControlStep DEF GetDial
  <1>4. ASSUME NEW p \in Procs, DialFail(p) PROVE IInv'
    <2>1. TypeOK' /\ MutexInv' /\ HeldInv'
      BY <1>4 DEF DialFail, IInv, TypeOK, MutexInv, HeldInv, Critical, PcValues, ReaperValues, Goto
    <2>2. QED
      BY <1>4, <2>1, ControlStep DEF DialFail
  <1>5. ASSUME NEW p \in Procs, PutCall(p) PROVE IInv'
    <2>1. TypeOK' /\ MutexInv' /\ HeldInv'
      BY <1>5 DEF PutCall, IInv, TypeOK, MutexInv, HeldInv, Critical, PcValues, ReaperValues, Goto
    <2>2. QED
      BY <1>5, <2>1, ControlStep DEF PutCall
  <1>6. ASSUME NEW p \in Procs, CloseCall(p) PROVE IInv'
    <2>1. TypeOK' /\ MutexInv' /\ HeldInv'
      BY <1>6 DEF CloseCall, IInv, TypeOK, MutexInv, HeldInv, Critical, PcValues, ReaperValues, Goto
    <2>2. QED
      BY <1>6, <2>1, ControlStep DEF CloseCall
  <1>7. ASSUME NEW p \in Procs, CloseAgain(p) PROVE IInv'
    <2>1. TypeOK' /\ MutexInv' /\ HeldInv'
      BY <1>7 DEF CloseAgain, IInv, TypeOK, MutexInv, HeldInv, Critical, PcValues, ReaperValues, Goto
    <2>2. QED
      BY <1>7, <2>1, ControlStep DEF CloseAgain
  <1>8. ASSUME NEW p \in Procs, CloseBegin(p) PROVE IInv'
    <2>1. TypeOK' /\ MutexInv' /\ HeldInv'
      BY <1>8 DEF CloseBegin, IInv, TypeOK, MutexInv, HeldInv, Critical, PcValues, ReaperValues, Goto
    <2>2. QED
      BY <1>8, <2>1, ControlStep DEF CloseBegin
  <1>9. ASSUME NEW p \in Procs, DrainMore(p) PROVE IInv'
    <2>1. TypeOK' /\ MutexInv' /\ HeldInv'
      BY <1>9 DEF DrainMore, IInv, TypeOK, MutexInv, HeldInv, Critical, PcValues, ReaperValues, Goto
    <2>2. QED
      BY <1>9, <2>1, ControlStep DEF DrainMore
  <1>10. ASSUME NEW p \in Procs, DrainDone(p) PROVE IInv'
    <2>1. TypeOK' /\ MutexInv' /\ HeldInv'
      BY <1>10 DEF DrainDone, IInv, TypeOK, MutexInv, HeldInv, Critical, PcValues, ReaperValues, Goto
    <2>2. QED
      BY <1>10, <2>1, ControlStep DEF DrainDone
  <1>11. ASSUME NEW p \in Procs, OpenCall(p) PROVE IInv'
    <2>1. TypeOK' /\ MutexInv' /\ HeldInv'
      BY <1>11 DEF OpenCall, IInv, TypeOK, MutexInv, HeldInv, Critical, PcValues, ReaperValues, Goto
    <2>2. QED
      BY <1>11, <2>1, ControlStep DEF OpenCall
  <1>12. ASSUME NEW p \in Procs, OpenClosed(p) PROVE IInv'
    <2>1. TypeOK' /\ MutexInv' /\ HeldInv'
      BY <1>12 DEF OpenClosed, IInv, TypeOK, MutexInv, HeldInv, Critical, PcValues, ReaperValues, Goto
    <2>2. QED
      BY <1>12, <2>1, ControlStep DEF OpenClosed
  <1>13. ASSUME NEW p \in Procs, OpenBegin(p) PROVE IInv'
    <2>1. TypeOK' /\ MutexInv' /\ HeldInv'
      BY <1>13 DEF OpenBegin, IInv, TypeOK, MutexInv, HeldInv, Critical, PcValues, ReaperValues, Goto
    <2>2. QED
      BY <1>13, <2>1, ControlStep DEF OpenBegin
  <1>14. ASSUME NEW p \in Procs, FillFail(p) PROVE IInv'
    <2>1. TypeOK' /\ MutexInv' /\ HeldInv'
      BY <1>14 DEF FillFail, IInv, TypeOK, MutexInv, HeldInv, Critical, PcValues, ReaperValues, Goto
    <2>2. QED
      BY <1>14, <2>1, ControlStep DEF FillFail
  <1>15. ASSUME NEW p \in Procs, FillDone(p) PROVE IInv'
    <2>1. TypeOK' /\ MutexInv' /\ HeldInv'
      BY <1>15 DEF FillDone, IInv, TypeOK, MutexInv, HeldInv, Critical, PcValues, ReaperValues, Goto
    <2>2. QED
      BY <1>15, <2>1, ControlStep DEF FillDone
  <1>16. ASSUME NEW p \in Procs, NEW c \in Conns, DialOk(p, c) PROVE IInv'
    <2>1. TypeOK' /\ MutexInv' /\ HeldInv'
      BY <1>16 DEF DialOk, IInv, TypeOK, MutexInv, HeldInv, Critical, PcValues, ReaperValues, Goto, Fresh
    <2>2. held[p] = None
      BY <1>16 DEF DialOk, IInv, HeldInv
    <2>3. Exclusive' /\ NoLeak'
      BY <1>16, <2>2, ConnectStep DEF DialOk
    <2>4. QED
      BY <2>1, <2>3 DEF IInv
  <1>17. ASSUME NEW p \in Procs, NEW c \in Conns, FillDial(p, c) PROVE IInv'
    <2>1. TypeOK' /\ MutexInv' /\ HeldInv'
      BY <1>17 DEF FillDial, IInv, TypeOK, MutexInv, HeldInv, Critical, PcValues, ReaperValues, Goto, Fresh
    <2>2. held[p] = None
      BY <1>17 DEF FillDial, IInv, HeldInv
    <2>3. Exclusive' /\ NoLeak'
      BY <1>17, <2>2, ConnectStep DEF FillDial
    <2>4. QED
      BY <2>1, <2>3 DEF IInv
  <1>18. ASSUME NEW p \in Procs, PutClosed(p) PROVE IInv'
    <2>1. held[p] # None
      BY <1>18 DEF PutClosed, IInv, HeldInv
    <2>2. TypeOK' /\ MutexInv' /\ HeldInv'
      BY <1>18, <2>1 DEF PutClosed, IInv, TypeOK, MutexInv, HeldInv, Critical, PcValues, ReaperValues, Goto, CloseSocket
    <2>3. Exclusive' /\ NoLeak'
      BY <1>18, <2>1, DiscardStep DEF PutClosed
    <2>4. QED
      BY <2>2, <2>3 DEF IInv
  <1>19. ASSUME NEW p \in Procs, PutHandOff(p) PROVE IInv'
    <2>1. held[p] # None
      BY <1>19 DEF PutHandOff, IInv, HeldInv
    <2>2. TypeOK' /\ MutexInv' /\ HeldInv'
      BY <1>19, <2>1 DEF PutHandOff, IInv, TypeOK, MutexInv, HeldInv, Critical, PcValues, ReaperValues, Goto, CloseSocket
    <2>3. Exclusive' /\ NoLeak'
      BY <1>19, <2>1, DiscardStep DEF PutHandOff
    <2>4. QED
      BY <2>2, <2>3 DEF IInv
  <1>20. ASSUME NEW p \in Procs, PutFull(p) PROVE IInv'
    <2>1. held[p] # None
      BY <1>20 DEF PutFull, IInv, HeldInv
    <2>2. TypeOK' /\ MutexInv' /\ HeldInv'
      BY <1>20, <2>1 DEF PutFull, IInv, TypeOK, MutexInv, HeldInv, Critical, PcValues, ReaperValues, Goto, CloseSocket
    <2>3. Exclusive' /\ NoLeak'
      BY <1>20, <2>1, DiscardStep DEF PutFull
    <2>4. QED
      BY <2>2, <2>3 DEF IInv
  <1>21. ASSUME NEW p \in Procs, PutBack(p) PROVE IInv'
    <2>1. held[p] # None
      BY <1>21 DEF PutBack, IInv, HeldInv
    <2>2. /\ conns' \in Seq(Conns)
          /\ Len(conns') = Len(conns) + 1
          /\ Exclusive' /\ NoLeak'
      BY <1>21, <2>1, SendStep DEF PutBack
    <2>3. TypeOK' /\ MutexInv' /\ HeldInv'
      BY <1>21, <2>1, <2>2 DEF PutBack, IInv, TypeOK, MutexInv, HeldInv, Critical, PcValues, ReaperValues, Goto
    <2>4. QED
      BY <2>2, <2>3 DEF IInv
  <1>22. ASSUME NEW p \in Procs, FillPush(p) PROVE IInv'
    <2>1. held[p] # None
      BY <1>22 DEF FillPush, IInv, HeldInv
    <2>2. /\ conns' \in Seq(Conns)
          /\ Len(conns') = Len(conns) + 1
          /\ Exclusive' /\ NoLeak'
      BY <1>22, <2>1, SendStep DEF FillPush
    <2>3. TypeOK' /\ MutexInv' /\ HeldInv'
      BY <1>22, <2>1, <2>2 DEF FillPush, IInv, TypeOK, MutexInv, HeldInv, Critical, PcValues, ReaperValues, Goto
    <2>4. QED
      BY <2>2, <2>3 DEF IInv
  <1>23. ASSUME NEW p \in Procs, GetTake(p) PROVE IInv'
    <2>1. held[p] = None
      BY <1>23 DEF GetTake, IInv, HeldInv
    <2>2. /\ conns' \in Seq(Conns)
          /\ Len(conns') = Len(conns) - 1
          /\ Head(conns) \in Conns
          /\ Exclusive' /\ NoLeak'
      BY <1>23, <2>1, ReceiveStep DEF GetTake
    <2>3. TypeOK' /\ MutexInv' /\ HeldInv'
      BY <1>23, <2>1, <2>2 DEF GetTake, IInv, TypeOK, MutexInv, HeldInv, Critical, PcValues, ReaperValues, Goto
    <2>4. QED
      BY <2>2, <2>3 DEF IInv
  <1>24. ASSUME NEW p \in Procs, DrainRecv(p) PROVE IInv'
    <2>1. /\ conns' \in Seq(Conns)
          /\ Len(conns') = Len(conns) - 1
          /\ Head(conns) \in Conns
          /\ Exclusive' /\ NoLeak'
      BY <1>24, DrainHeadStep DEF DrainRecv
    <2>2. TypeOK' /\ MutexInv' /\ HeldInv'
      BY <1>24, <2>1 DEF DrainRecv, IInv, TypeOK, MutexInv, HeldInv, Critical, PcValues, ReaperValues, Goto, CloseSocket
    <2>3. QED
      BY <2>1, <2>2 DEF IInv
  <1>25. CASE ReapRecv
    <2>1. /\ conns' \in Seq(Conns)
          /\ Len(conns') = Len(conns) - 1
          /\ Head(conns) \in Conns
          /\ Exclusive' /\ NoLeak'
      BY <1>25, DrainHeadStep DEF ReapRecv
    <2>2. TypeOK' /\ MutexInv' /\ HeldInv'
      BY <1>25, <2>1 DEF ReapRecv, IInv, TypeOK, MutexInv, HeldInv, Critical, PcValues, ReaperValues, Goto, CloseSocket
    <2>3. QED
      BY <2>1, <2>2 DEF IInv
  <1>26. CASE ReapExit
    <2>1. TypeOK' /\ MutexInv' /\ HeldInv'
      BY <1>26 DEF ReapExit, IInv, TypeOK, MutexInv, HeldInv, Critical, PcValues, ReaperValues, Goto
    <2>2. QED
      BY <1>26, <2>1, ControlStep DEF ReapExit
  <1>27. CASE ReapTimeout
    <2>1. TypeOK' /\ MutexInv' /\ HeldInv'
      BY <1>27 DEF ReapTimeout, IInv, TypeOK, MutexInv, HeldInv, Critical, PcValues, ReaperValues, Goto
    <2>2. QED
      BY <1>27, <2>1, ControlStep DEF ReapTimeout
  <1>28. CASE ReapCount
    <2>1. TypeOK' /\ MutexInv' /\ HeldInv'
      BY <1>28 DEF ReapCount, IInv, TypeOK, MutexInv, HeldInv, Critical, PcValues, ReaperValues, Goto
    <2>2. QED
      BY <1>28, <2>1, ControlStep DEF ReapCount
  <1>29. CASE ReapBlock
    <2>1. TypeOK' /\ MutexInv' /\ HeldInv'
      BY <1>29 DEF ReapBlock, IInv, TypeOK, MutexInv, HeldInv, Critical, PcValues, ReaperValues, Goto
    <2>2. QED
      BY <1>29, <2>1, ControlStep DEF ReapBlock
  <1>30. CASE ReapDone
    <2>1. TypeOK' /\ MutexInv' /\ HeldInv'
      BY <1>30 DEF ReapDone, IInv, TypeOK, MutexInv, HeldInv, Critical, PcValues, ReaperValues, Goto
    <2>2. QED
      BY <1>30, <2>1, ControlStep DEF ReapDone
  <1>31. ASSUME NEW c \in Conns, ServerDrop(c) PROVE IInv'
    BY <1>31 DEF ServerDrop, IInv, TypeOK, MutexInv, HeldInv, Critical, PcValues, ReaperValues, Goto, Exclusive, NoLeak, InChannel
  <1>32. ASSUME NEW p \in Procs, UseFails(p) PROVE IInv'
    BY <1>32 DEF UseFails, CloseSocket, IInv, TypeOK, MutexInv, HeldInv, Critical, PcValues, ReaperValues, Goto, Exclusive, NoLeak, InChannel
  <1>33. CASE UNCHANGED vars
    BY <1>33 DEF vars, IInv, TypeOK, MutexInv, HeldInv, Critical, PcValues, ReaperValues, Goto, Exclusive, NoLeak, InChannel
  <1>34. QED
    BY <1>1, <1>2, <1>3, <1>4, <1>5, <1>6, <1>7, <1>8, <1>9, <1>10, <1>11,
       <1>12, <1>13, <1>14, <1>15, <1>16, <1>17, <1>18, <1>19, <1>20, <1>21,
       <1>22, <1>23, <1>24, <1>25, <1>26, <1>27, <1>28, <1>29, <1>30, <1>31,
       <1>32, <1>33
    DEF Next, CallStep, GetStep, DialStep, PutStep, CloseStep, DrainStep,
        OpenStep, FillStep, ReapStep

-----------------------------------------------------------------------------
\* The invariant holds in every reachable state.
THEOREM InductiveInvariant == Spec => []IInv
PROOF
  BY InitIInv, NextIInv, PTL DEF Spec

\* Types: in particular the channel never holds more than maxConns connections.
THEOREM PoolTypes == Spec => []TypeOK
PROOF
  <1>1. IInv => TypeOK
    BY DEF IInv
  <1>2. QED
    BY <1>1, InductiveInvariant, PTL

\* No two goroutines ever share a connection, and none is both in use and in
\* the channel: Get, Put, Open, Close and the reaper, whatever their order.
THEOREM PoolExclusive == Spec => []Exclusive
PROOF
  <1>1. IInv => Exclusive
    BY DEF IInv
  <1>2. QED
    BY <1>1, InductiveInvariant, PTL

\* No connection is forgotten while its socket is open.
THEOREM PoolNoLeak == Spec => []NoLeak
PROOF
  <1>1. IInv => NoLeak
    BY DEF IInv
  <1>2. QED
    BY <1>1, InductiveInvariant, PTL

-----------------------------------------------------------------------------
(***************************************************************************)
(* Close is final.                                                         *)
(***************************************************************************)

\* Close has to wait for the mutex, so no dial is under way in a closed pool.
ClosedInv == closed => \A p \in Procs : pc[p] \notin {"dial", "fill", "push"}

\* It holds when the pool is made, and every step keeps it.
LEMMA ClosedInvariant == Spec => [](IInv /\ ClosedInv)
PROOF
  <1>1. Init => ClosedInv
    BY DEF Init, ClosedInv
  <1>2. ASSUME IInv, ClosedInv, [Next]_vars PROVE ClosedInv'
    <2> USE <1>2, PoolAssumption
    <2>1. ASSUME NEW p \in Procs,
                 GetCall(p) \/ UseFails(p) \/ PutCall(p) \/ CloseCall(p) \/ OpenCall(p)
          PROVE  ClosedInv'
      BY <2>1
      DEF GetCall, UseFails, PutCall, CloseCall, OpenCall, Goto, ClosedInv, IInv,
          TypeOK
    <2>2. ASSUME NEW p \in Procs, GetStep(p) \/ DialStep(p) PROVE ClosedInv'
      BY <2>2
      DEF GetStep, GetClosed, GetTake, GetDial, DialStep, DialOk, DialFail, Goto,
          ClosedInv, IInv, TypeOK
    <2>3. ASSUME NEW p \in Procs, PutStep(p) PROVE ClosedInv'
      BY <2>3
      DEF PutStep, PutClosed, PutHandOff, PutBack, PutFull, Goto, ClosedInv, IInv,
          TypeOK
    <2>4. ASSUME NEW p \in Procs, CloseBegin(p) PROVE ClosedInv'
      <3>1. \A q \in Procs : pc[q] \notin Critical
        BY <2>4 DEF CloseBegin, IInv, MutexInv
      <3>2. QED
        BY <2>4, <3>1 DEF CloseBegin, Goto, ClosedInv, Critical, IInv, TypeOK
    <2>5. ASSUME NEW p \in Procs, CloseAgain(p) \/ DrainStep(p) PROVE ClosedInv'
      BY <2>5
      DEF CloseAgain, DrainStep, DrainMore, DrainRecv, DrainDone, Goto, ClosedInv,
          IInv, TypeOK
    <2>6. ASSUME NEW p \in Procs, OpenStep(p) \/ FillStep(p) PROVE ClosedInv'
      BY <2>6
      DEF OpenStep, OpenClosed, OpenBegin, FillStep, FillDial, FillFail, FillPush,
          FillDone, Goto, ClosedInv, IInv, TypeOK
    <2>7. CASE ReapStep \/ (\E c \in Conns : ServerDrop(c)) \/ UNCHANGED vars
      BY <2>7
      DEF ReapStep, ReapExit, ReapTimeout, ReapCount, ReapRecv, ReapBlock, ReapDone,
          ServerDrop, vars, ClosedInv
    <2>8. QED
      BY <2>1, <2>2, <2>3, <2>4, <2>5, <2>6, <2>7 DEF Next, CallStep, CloseStep
  <1>3. QED
    BY <1>1, <1>2, InitIInv, NextIInv, PTL DEF Spec

\* After Close has set cp.closed, nothing enters the channel and nobody
\* obtains a connection.
THEOREM PoolClosedIsFinal == Spec => ClosedIsFinal
PROOF
  <1>1. ASSUME IInv, ClosedInv, [Next]_vars, closed
        PROVE  /\ closed'
               /\ Len(conns') <= Len(conns)
               /\ \A p \in Procs : held[p] = None => held'[p] = None
    <2> USE <1>1, PoolAssumption
    <2> DEFINE Final == /\ closed'
                        /\ Len(conns') <= Len(conns)
                        /\ \A p \in Procs : held[p] = None => held'[p] = None
    <2> SUFFICES Final
      OBVIOUS
    <2>1. /\ Len(conns) \in Nat
          /\ conns # <<>> => Len(Tail(conns)) <= Len(conns)
          /\ closed \in BOOLEAN
      BY DEF IInv, TypeOK
    <2>2. ASSUME UNCHANGED <<conns, closed, held>> PROVE Final
      BY <2>1, <2>2
    <2>3. ASSUME NEW p \in Procs, UNCHANGED <<conns, closed>>,
                 held' = [held EXCEPT ![p] = None]
          PROVE  Final
      BY <2>1, <2>3 DEF IInv, TypeOK
    <2>4. ASSUME conns # <<>>, conns' = Tail(conns), UNCHANGED <<closed, held>>
          PROVE  Final
      BY <2>1, <2>4
    <2>5. ASSUME NEW p \in Procs,
                 GetCall(p) \/ UseFails(p) \/ PutCall(p) \/ CloseCall(p) \/ OpenCall(p)
          PROVE  Final
      BY <2>2, <2>5 DEF GetCall, UseFails, PutCall, CloseCall, OpenCall
    <2>6. ASSUME NEW p \in Procs, GetStep(p) \/ DialStep(p) PROVE Final
      BY <2>2, <2>6
      DEF GetStep, GetClosed, GetTake, GetDial, DialStep, DialOk, DialFail, ClosedInv
    <2>7. ASSUME NEW p \in Procs, PutStep(p) PROVE Final
      BY <2>3, <2>7 DEF PutStep, PutClosed, PutHandOff, PutBack, PutFull
    <2>8. ASSUME NEW p \in Procs, CloseStep(p) \/ DrainStep(p) PROVE Final
      BY <2>2, <2>4, <2>8
      DEF CloseStep, CloseAgain, CloseBegin, DrainStep, DrainMore, DrainRecv,
          DrainDone
    <2>9. ASSUME NEW p \in Procs, OpenStep(p) \/ FillStep(p) PROVE Final
      BY <2>2, <2>9
      DEF OpenStep, OpenClosed, OpenBegin, FillStep, FillDial, FillFail, FillPush,
          FillDone, ClosedInv
    <2>10. CASE ReapStep \/ (\E c \in Conns : ServerDrop(c)) \/ UNCHANGED vars
      BY <2>2, <2>4, <2>10
      DEF ReapStep, ReapExit, ReapTimeout, ReapCount, ReapRecv, ReapBlock, ReapDone,
          ServerDrop, vars
    <2>11. QED
      BY <2>5, <2>6, <2>7, <2>8, <2>9, <2>10 DEF Next, CallStep
  <1>2. QED
    BY <1>1, ClosedInvariant, PTL DEF Spec, ClosedIsFinal

-----------------------------------------------------------------------------
(***************************************************************************)
(* The pool implements PoolOwnership.                                      *)
(***************************************************************************)

\* What the refinement mapping makes of a connection that is in use, idle in
\* the channel, or neither.
OwnerInv ==
    \A c \in Conns :
        /\ \A p \in Procs : held[p] = c => OwnerOf(c) = p
        /\ InChannel(c) => OwnerOf(c) = "idle"
        /\ ~InChannel(c) /\ (\A p \in Procs : held[p] # c) => OwnerOf(c) = "unused"

\* The mapping is well defined: Exclusive makes the owner unique, NoLeak makes
\* a connection without an owner a closed one.
LEMMA OwnerIsUnique == IInv => OwnerInv
PROOF
  <1> SUFFICES ASSUME IInv, NEW c \in Conns
               PROVE  /\ \A p \in Procs : held[p] = c => OwnerOf(c) = p
                      /\ InChannel(c) => OwnerOf(c) = "idle"
                      /\ ~InChannel(c) /\ (\A p \in Procs : held[p] # c)
                            => OwnerOf(c) = "unused"
    BY DEF OwnerInv
  <1>1. ASSUME NEW p \in Procs, held[p] = c PROVE OwnerOf(c) = p
    <2>1. \A q \in Procs : held[q] = c => q = p
      BY <1>1, PoolAssumption DEF IInv, Exclusive
    <2>2. QED
      BY <1>1, <2>1 DEF OwnerOf
  <1>2. ASSUME InChannel(c) PROVE OwnerOf(c) = "idle"
    <2>1. ~\E p \in Procs : held[p] = c
      BY <1>2 DEF IInv, Exclusive
    <2>2. QED
      BY <1>2, <2>1 DEF OwnerOf
  <1>3. ASSUME ~InChannel(c), \A p \in Procs : held[p] # c PROVE OwnerOf(c) = "unused"
    BY <1>3 DEF IInv, NoLeak, OwnerOf
  <1>4. QED
    BY <1>1, <1>2, <1>3

\* A connection that stays where it is keeps its owner.
LEMMA OwnerFrame ==
    ASSUME OwnerInv, OwnerInv', NEW c \in Conns,
           InChannel(c)' <=> InChannel(c),
           \A p \in Procs : held'[p] = c <=> held[p] = c
    PROVE  OwnerOf(c)' = OwnerOf(c)
PROOF
  <1>1. CASE \E p \in Procs : held[p] = c
    BY <1>1 DEF OwnerInv
  <1>2. CASE InChannel(c)
    BY <1>2 DEF OwnerInv
  <1>3. CASE ~InChannel(c) /\ \A p \in Procs : held[p] # c
    BY <1>3 DEF OwnerInv
  <1>4. QED
    BY <1>1, <1>2, <1>3

\* Nobody's ownership changes in a step that moves no connection.
LEMMA OwnerKept ==
    ASSUME OwnerInv, OwnerInv', UNCHANGED <<conns, held, closed>>
    PROVE  UNCHANGED Abstract!ownerVars
PROOF
  <1>1. \A c \in Conns : OwnerOf(c)' = OwnerOf(c)
    BY OwnerFrame DEF InChannel
  <1>2. QED
    BY <1>1 DEF Abstract!ownerVars

\* A goroutine without a connection in hand owns none.
LEMMA OwnsNothing ==
    ASSUME IInv, OwnerInv, NEW p \in Procs, held[p] = None
    PROVE  \A d \in Conns : [c \in Conns |-> OwnerOf(c)][d] # p
PROOF
  <1>1. TAKE d \in Conns
  <1>2. p \notin {"idle", "unused"}
    BY PoolAssumption
  <1>3. CASE \E q \in Procs : held[q] = d
    BY <1>3, PoolAssumption DEF OwnerInv
  <1>4. CASE ~\E q \in Procs : held[q] = d
    BY <1>2, <1>4 DEF OwnerInv
  <1>5. QED
    BY <1>3, <1>4

\* Connect creates a connection for p.
LEMMA ConnectCreates ==
    ASSUME IInv, OwnerInv, OwnerInv', NEW p \in Procs, NEW c \in Conns,
           Fresh(c), held[p] = None, ~closed,
           held' = [held EXCEPT ![p] = c],
           UNCHANGED <<conns, closed>>
    PROVE  Abstract!Create(p, c)
PROOF
  <1>1. OwnerOf(c) = "unused" /\ OwnerOf(c)' = p
    BY DEF OwnerInv, Fresh, IInv, TypeOK
  <1>2. ASSUME NEW d \in Conns, d # c PROVE OwnerOf(d)' = OwnerOf(d)
    <2>1. \A q \in Procs : held'[q] = d <=> held[q] = d
      BY <1>2, PoolAssumption DEF IInv, TypeOK
    <2>2. QED
      BY <2>1, OwnerFrame DEF InChannel
  <1>3. [d \in Conns |-> OwnerOf(d)]' = [[d \in Conns |-> OwnerOf(d)] EXCEPT ![c] = p]
    BY <1>1, <1>2
  <1>4. QED
    BY <1>1, <1>3, OwnsNothing DEF Abstract!Create

\* A receive by Get takes an idle connection.
LEMMA ReceiveTakes ==
    ASSUME IInv, OwnerInv, OwnerInv', NEW p \in Procs,
           held[p] = None, conns # <<>>, ~closed,
           held' = [held EXCEPT ![p] = Head(conns)],
           conns' = Tail(conns),
           UNCHANGED closed
    PROVE  \E c \in Conns : Abstract!Take(p, c)
PROOF
  <1>0. PICK h \in Conns : h = Head(conns)
    <2>1. Head(conns) \in Conns
      BY DEF IInv, TypeOK
    <2>2. QED
      BY <2>1
  <1>1. /\ h \in Conns /\ In(conns, h)
        /\ \A c : In(conns', c) <=> In(conns, c) /\ c # h
    <2>1. conns \in Seq(Conns) /\ Distinct(conns)
      BY DEF IInv, TypeOK, Exclusive, Distinct
    <2>2. QED
      BY <1>0, <2>1, TailFacts
  <1>2. OwnerOf(h) = "idle" /\ OwnerOf(h)' = p
    BY <1>0, <1>1 DEF OwnerInv, InChannel, In, IInv, TypeOK
  <1>3. ASSUME NEW d \in Conns, d # h PROVE OwnerOf(d)' = OwnerOf(d)
    <2>1. \A q \in Procs : held'[q] = d <=> held[q] = d
      BY <1>0, <1>3, PoolAssumption DEF IInv, TypeOK
    <2>2. InChannel(d)' <=> InChannel(d)
      BY <1>1, <1>3 DEF InChannel, In
    <2>3. QED
      BY <2>1, <2>2, OwnerFrame
  <1>4. [d \in Conns |-> OwnerOf(d)]' = [[d \in Conns |-> OwnerOf(d)] EXCEPT ![h] = p]
    BY <1>1, <1>2, <1>3
  <1>5. Abstract!Take(p, h)
    BY <1>1, <1>2, <1>4, OwnsNothing DEF Abstract!Take
  <1>6. QED
    BY <1>1, <1>5

\* A send by Put or Open gives a connection to the pool.
LEMMA SendGives ==
    ASSUME IInv, OwnerInv, OwnerInv', NEW p \in Procs,
           held[p] # None, ~closed,
           held' = [held EXCEPT ![p] = None],
           conns' = Append(conns, held[p]),
           UNCHANGED closed
    PROVE  \E c \in Conns : Abstract!Give(p, c)
PROOF
  <1>0. PICK h \in Conns : h = held[p]
    BY DEF IInv, TypeOK
  <1>1. /\ h \in Conns
        /\ \A c : In(conns', c) <=> In(conns, c) \/ c = h
    <2>1. /\ h \in Conns /\ conns \in Seq(Conns)
          /\ Distinct(conns) /\ ~In(conns, h)
      BY <1>0 DEF IInv, TypeOK, Exclusive, InChannel, Distinct, In
    <2>2. QED
      BY <1>0, <2>1, AppendFacts
  <1>2. OwnerOf(h) = p /\ OwnerOf(h)' = "idle"
    BY <1>0, <1>1 DEF OwnerInv, InChannel, In
  <1>3. ASSUME NEW d \in Conns, d # h PROVE OwnerOf(d)' = OwnerOf(d)
    <2>1. \A q \in Procs : held'[q] = d <=> held[q] = d
      BY <1>0, <1>3, PoolAssumption DEF IInv, TypeOK
    <2>2. InChannel(d)' <=> InChannel(d)
      BY <1>1, <1>3 DEF InChannel, In
    <2>3. QED
      BY <2>1, <2>2, OwnerFrame
  <1>4. [d \in Conns |-> OwnerOf(d)]' = [[d \in Conns |-> OwnerOf(d)] EXCEPT ![h] = "idle"]
    BY <1>1, <1>2, <1>3
  <1>5. Abstract!Give(p, h)
    BY <1>1, <1>2, <1>4 DEF Abstract!Give
  <1>6. QED
    BY <1>1, <1>5

\* Put without room for the connection discards it.
LEMMA ForgetDiscards ==
    ASSUME IInv, OwnerInv, OwnerInv', NEW p \in Procs,
           held[p] # None,
           held' = [held EXCEPT ![p] = None],
           UNCHANGED <<conns, closed>>
    PROVE  \E c \in Conns : Abstract!Discard(c)
PROOF
  <1>0. PICK h \in Conns : h = held[p]
    BY DEF IInv, TypeOK
  <1>1. h \in Conns /\ ~InChannel(h)
    BY <1>0 DEF IInv, TypeOK, Exclusive
  <1>2. OwnerOf(h) = p
    BY <1>0, <1>1 DEF OwnerInv
  <1>3. OwnerOf(h)' = "unused"
    <2>1. ~InChannel(h)'
      BY <1>1 DEF InChannel
    <2>2. \A q \in Procs : held'[q] # h
      BY <1>0 DEF IInv, TypeOK, Exclusive
    <2>3. QED
      BY <1>1, <2>1, <2>2 DEF OwnerInv, InChannel
  <1>4. ASSUME NEW d \in Conns, d # h PROVE OwnerOf(d)' = OwnerOf(d)
    <2>1. \A q \in Procs : held'[q] = d <=> held[q] = d
      BY <1>0, <1>4, PoolAssumption DEF IInv, TypeOK
    <2>2. QED
      BY <2>1, OwnerFrame DEF InChannel
  <1>5. [d \in Conns |-> OwnerOf(d)]' = [[d \in Conns |-> OwnerOf(d)] EXCEPT ![h] = "unused"]
    BY <1>1, <1>3, <1>4
  <1>6. Abstract!Discard(h)
    <2>1. p # "unused"
      BY PoolAssumption
    <2>2. QED
      BY <1>1, <1>2, <1>5, <2>1 DEF Abstract!Discard
  <1>7. QED
    BY <1>1, <1>6

\* A receive by Close or by the reaper discards an idle connection.
LEMMA DrainDiscards ==
    ASSUME IInv, OwnerInv, OwnerInv', conns # <<>>,
           conns' = Tail(conns),
           UNCHANGED <<held, closed>>
    PROVE  \E c \in Conns : Abstract!Discard(c)
PROOF
  <1>0. PICK h \in Conns : h = Head(conns)
    <2>1. Head(conns) \in Conns
      BY DEF IInv, TypeOK
    <2>2. QED
      BY <2>1
  <1>1. /\ h \in Conns /\ In(conns, h)
        /\ \A c : In(conns', c) <=> In(conns, c) /\ c # h
    <2>1. conns \in Seq(Conns) /\ Distinct(conns)
      BY DEF IInv, TypeOK, Exclusive, Distinct
    <2>2. QED
      BY <1>0, <2>1, TailFacts
  <1>2. OwnerOf(h) = "idle"
    BY <1>1 DEF OwnerInv, InChannel, In
  <1>3. OwnerOf(h)' = "unused"
    <2>1. \A q \in Procs : held'[q] # h
      BY <1>1 DEF IInv, Exclusive, InChannel, In
    <2>2. ~InChannel(h)'
      BY <1>1 DEF InChannel, In
    <2>3. QED
      BY <1>1, <2>1, <2>2 DEF OwnerInv, InChannel
  <1>4. ASSUME NEW d \in Conns, d # h PROVE OwnerOf(d)' = OwnerOf(d)
    <2>1. InChannel(d)' <=> InChannel(d)
      BY <1>1, <1>4 DEF InChannel, In
    <2>2. QED
      BY <2>1, OwnerFrame
  <1>5. [d \in Conns |-> OwnerOf(d)]' = [[d \in Conns |-> OwnerOf(d)] EXCEPT ![h] = "unused"]
    BY <1>1, <1>3, <1>4
  <1>6. Abstract!Discard(h)
    BY <1>1, <1>2, <1>5 DEF Abstract!Discard
  <1>7. QED
    BY <1>1, <1>6

\* ConnectionPool implements PoolOwnership: the mutex, the channel and the
\* loops of Get, Put, Open, Close and the reaper never hand out more than
\* exclusive ownership allows.
THEOREM PoolImplementsOwnership == Spec => ImplementsOwnership
PROOF
  <1>1. Init => Abstract!OInit
    <2> SUFFICES ASSUME Init PROVE Abstract!OInit
      OBVIOUS
    <2>1. OwnerInv
      BY InitIInv, OwnerIsUnique
    <2>2. \A c \in Conns : OwnerOf(c) = "unused"
      BY <2>1, PoolAssumption DEF Init, OwnerInv, InChannel
    <2>3. QED
      BY <2>2 DEF Abstract!OInit, Init
  <1>2. ASSUME IInv, IInv', OwnerInv, OwnerInv', ClosedInv, [Next]_vars
        PROVE  [Abstract!ONext]_(Abstract!ownerVars)
    <2> USE <1>2
    <2> DEFINE Step == [Abstract!ONext]_(Abstract!ownerVars)
    <2>1. ASSUME UNCHANGED <<conns, held, closed>> PROVE Step
      BY <2>1, OwnerKept
    <2>2. ASSUME NEW p \in Procs,
                 \/ GetCall(p) \/ UseFails(p) \/ PutCall(p) \/ CloseCall(p)
                 \/ OpenCall(p) \/ GetClosed(p) \/ GetDial(p) \/ DialFail(p)
                 \/ CloseAgain(p) \/ DrainMore(p) \/ DrainDone(p) \/ OpenStep(p)
                 \/ FillFail(p) \/ FillDone(p)
          PROVE  Step
      BY <2>1, <2>2
      DEF GetCall, UseFails, PutCall, CloseCall, OpenCall, GetClosed, GetDial,
          DialFail, CloseAgain, DrainMore, DrainDone, OpenStep, OpenClosed,
          OpenBegin, FillFail, FillDone
    <2>3. ASSUME NEW p \in Procs, NEW c \in Conns, DialOk(p, c) \/ FillDial(p, c)
          PROVE  Step
      <3>1. held[p] = None /\ ~closed
        BY <2>3 DEF DialOk, FillDial, IInv, HeldInv, ClosedInv
      <3>2. Abstract!Create(p, c)
        BY <2>3, <3>1, ConnectCreates DEF DialOk, FillDial
      <3>3. QED
        BY <3>2 DEF Abstract!ONext
    <2>4. ASSUME NEW p \in Procs, GetTake(p) PROVE Step
      <3>1. held[p] = None
        BY <2>4 DEF GetTake, IInv, HeldInv
      <3>2. \E c \in Conns : Abstract!Take(p, c)
        BY <2>4, <3>1, ReceiveTakes DEF GetTake
      <3>3. QED
        BY <3>2 DEF Abstract!ONext
    <2>5. ASSUME NEW p \in Procs, PutBack(p) \/ FillPush(p) PROVE Step
      <3>1. held[p] # None /\ ~closed
        BY <2>5 DEF PutBack, FillPush, IInv, HeldInv, ClosedInv
      <3>2. \E c \in Conns : Abstract!Give(p, c)
        BY <2>5, <3>1, SendGives DEF PutBack, FillPush
      <3>3. QED
        BY <3>2 DEF Abstract!ONext
    <2>6. ASSUME NEW p \in Procs, PutClosed(p) \/ PutHandOff(p) \/ PutFull(p)
          PROVE  Step
      <3>1. held[p] # None
        BY <2>6 DEF PutClosed, PutHandOff, PutFull, IInv, HeldInv
      <3>2. \E c \in Conns : Abstract!Discard(c)
        BY <2>6, <3>1, ForgetDiscards DEF PutClosed, PutHandOff, PutFull
      <3>3. QED
        BY <3>2 DEF Abstract!ONext
    <2>7. ASSUME NEW p \in Procs, DrainRecv(p) PROVE Step
      <3>1. \E c \in Conns : Abstract!Discard(c)
        BY <2>7, DrainDiscards DEF DrainRecv
      <3>2. QED
        BY <3>1 DEF Abstract!ONext
    <2>8. ASSUME NEW p \in Procs, CloseBegin(p) PROVE Step
      <3>1. \A c \in Conns : OwnerOf(c)' = OwnerOf(c)
        BY <2>8, OwnerFrame DEF CloseBegin, InChannel
      <3>2. Abstract!Shut
        BY <2>8, <3>1 DEF CloseBegin, Abstract!Shut
      <3>3. QED
        BY <3>2 DEF Abstract!ONext
    <2>9. CASE ReapStep
      <3>1. CASE ReapRecv
        <4>1. \E c \in Conns : Abstract!Discard(c)
          BY <3>1, DrainDiscards DEF ReapRecv
        <4>2. QED
          BY <4>1 DEF Abstract!ONext
      <3>2. CASE ~ReapRecv
        BY <2>1, <2>9, <3>2
        DEF ReapStep, ReapExit, ReapTimeout, ReapCount, ReapBlock, ReapDone
      <3>3. QED
        BY <3>1, <3>2
    <2>10. CASE (\E c \in Conns : ServerDrop(c)) \/ UNCHANGED vars
      BY <2>1, <2>10 DEF ServerDrop, vars
    <2>11. QED
      BY <2>2, <2>3, <2>4, <2>5, <2>6, <2>7, <2>8, <2>9, <2>10
      DEF Next, CallStep, GetStep, DialStep, PutStep, CloseStep, DrainStep, FillStep
  <1>3. QED
    BY <1>1, <1>2, ClosedInvariant, OwnerIsUnique, PTL
    DEF Spec, ImplementsOwnership, Abstract!OSpec

=============================================================================
