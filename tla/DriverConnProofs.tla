-------------------------- MODULE DriverConnProofs --------------------------
(***************************************************************************)
(* Proofs about DriverConn, for any number of calls and any server whose   *)
(* answers follow the protocol.                                            *)
(***************************************************************************)
EXTENDS DriverConn, FiniteSetTheorems, SequenceTheorems, TLAPS

\* The caller is in a part of a call in which a watcher may have its context.
InCall == {"check", "write", "read", "file", "rows", "copy", "finish"}

\* The watcher has the context of the call in progress and no other, and lets go
\* of it before the call returns; only what closes the connection stops this.
WatchInv ==
    /\ conn.closech => conn.closed
    /\ wire.link = "shut" => conn.closed
    /\ conn.closed => wire.link = "shut" \/ watcher.pc = "close"
    /\ watcher.pc = "swap" => watcher.ctx \in cancelled
    /\ watcher.pc = "close" =>
        /\ conn.closed /\ ~conn.closech /\ conn.watching
        /\ call.pc \in InCall /\ call.n \in cancelled
    /\ ~conn.closed /\ conn.watching =>
        /\ call.pc \in InCall
        /\ \/ watcher.pc = "idle" /\ watcher.chan = <<call.n>>
           \/ watcher.pc \in {"watch", "swap"} /\ watcher.chan = <<>> /\ watcher.ctx = call.n
    /\ ~conn.closed /\ ~conn.watching => watcher.pc = "idle" /\ watcher.chan = <<>>

\* The query of a statement has not returned its Rows yet.
Detached == call.op = "stmtQuery" /\ call.rows = None

\* What may follow a file.
FilePackets == {"ok", "okMore", "err"}

\* What the caller reads next is what the server sent next.
Expected ==
    IF call.pc = "read"
    THEN IF call.mode = "header" THEN IF Detached THEN FirstPackets \ {"okMore", "infile"} ELSE FirstPackets
         ELSE IF call.mode \in {"skip", "row"} THEN RowPackets
         ELSE IF call.mode = "drop" THEN {"ok", "err"}
         ELSE IF call.op \in {"ping", "prepare"} THEN SinglePackets ELSE FilePackets
    ELSE IF call.pc \in {"rows", "finish"} /\ call.rows = "open" THEN RowPackets
    ELSE IF call.pc \in {"rows", "finish"} /\ call.rows = "more" THEN FirstPackets
    ELSE {}

\* The unread packets are the rest of one answer, and the caller is where it has
\* read the part before.  A connection that was shut under it is not read again
\* once the call has ended.
StreamInv ==
    /\ Chained(wire.stream)
    /\ wire.asked # None =>
        /\ call.pc = "read" /\ wire.link = "up" /\ wire.stream = <<>>
        /\ wire.asked = call.op /\ call.mode = FirstMode(call.op)
    /\ wire.stream # <<>> /\ (wire.link # "shut" \/ call.pc \in {"read", "file", "copy"})
         => wire.stream[1] \in Expected

\* What the server has carried out is known to the caller that gets ErrBadConn.
RanInv ==
    /\ call.pc \in {"enter", "watch", "check", "write", "file"} => wire.ran \subseteq SessionOnly
    /\ wire.asked # None => wire.ran \subseteq SessionOnly
    /\ wire.stream # <<>> /\ wire.stream[1] \in {"errReadOnly", "infile"} => wire.ran \subseteq SessionOnly
    /\ call.op \in SessionOnly => wire.ran \subseteq SessionOnly
    /\ call.pc \notin {"finish", "rows", "idle"} => call.ret = None
    /\ call.ret = "bad" => wire.ran \subseteq SessionOnly

\* Calls are counted from one, and only a query has rows.
RowsInv ==
    /\ call.pc # "idle" => call.n # 0 /\ call.op \in Ops
    /\ call.rows # None => IsQuery(call.op)
    /\ call.pc = "rows" => HoldsRows
    /\ call.pc = "read" /\ call.mode = "row" => call.rows = "open"
    /\ call.pc = "file" \/ (call.pc = "read" /\ call.mode \in {"one", "skip"}) => ~Detached
    /\ call.op \in {"ping", "prepare"} => call.pc # "file" /\ (call.pc = "read" => call.mode = "one")

\* The results still to come in what is unread.
Coming(q) == Cardinality({i \in DOMAIN q : q[i] \in Headers})

\* mc.result has an entry for every result the caller has begun to read.
CountInv ==
    call.op \in {"exec", "stmtExec"} /\ call.n \notin cancelled =>
        /\ call.pc \in {"write", "read", "file", "copy"} => ~conn.closed
        /\ call.pc = "write" => conn.result = 0
        /\ call.pc \in {"file", "copy"} => conn.result = wire.results
        /\ call.pc = "read" /\ call.mode = "one" /\ wire.stream # <<>> =>
            conn.result + Coming(Tail(wire.stream)) = wire.results
        /\ call.pc = "read" /\ wire.asked # None => conn.result = 1
        /\ call.pc = "read" /\ call.mode = "header" /\ wire.stream # <<>> =>
            conn.result + Coming(wire.stream) = wire.results + 1
        /\ call.pc = "read" /\ call.mode = "skip" /\ wire.stream # <<>> =>
            conn.result + Coming(wire.stream) = wire.results

\* The inductive invariant.
DInv == TypeOK /\ WatchInv /\ StreamInv /\ RanInv /\ RowsInv /\ CountInv

-----------------------------------------------------------------------------
(***************************************************************************)
(* The operators of the model.                                             *)
(***************************************************************************)

\* cleanup closes everything, once.
LEMMA CleanupFacts ==
    ASSUME TypeOK
    PROVE  /\ Cleanup(conn) \in ConnStates /\ Shut(wire, conn) \in Wires
           /\ Cleanup(conn).closed = TRUE
           /\ Cleanup(conn).watching = conn.watching
           /\ Cleanup(conn).closech = (IF conn.closed THEN conn.closech ELSE TRUE)
           /\ Shut(wire, conn).stream = wire.stream
           /\ Shut(wire, conn).results = wire.results
           /\ Shut(wire, conn).ran = wire.ran
           /\ Shut(wire, conn).link = (IF conn.closed THEN wire.link ELSE "shut")
           /\ Shut(wire, conn).asked = (IF conn.closed THEN wire.asked ELSE None)
PROOF
  BY DEF TypeOK, ConnStates, Wires, Cleanup, Shut

LEMMA NoneFacts ==
    /\ \A x \in Ops : x # None
    /\ \A x \in Modes : x # None
    /\ \A x \in Errors : x # None
    /\ \A x \in RowsStates : x # None
PROOF
  BY DriverAssumption

\* A call that ends, or returns to the holder of its Rows, goes on from there.
LEMMA EndsFacts ==
    ASSUME TypeOK, NEW ret \in Errors \cup {None}, Ends(ret)
    PROVE  /\ call' \in Calls
           /\ call'.pc \in {"rows", "finish"}
           /\ call'.pc = "rows" <=> HoldsRows
           /\ call'.pc = "rows" => HoldsRows'
           /\ call'.n = call.n /\ call'.op = call.op /\ call'.rows = call.rows
           /\ call'.ret = ret /\ call'.mode = None
PROOF
  <1>1. /\ call' \in Calls
        /\ call'.pc = IF HoldsRows THEN "rows" ELSE "finish"
        /\ call'.n = call.n /\ call'.op = call.op /\ call'.rows = call.rows
        /\ call'.ret = ret /\ call'.mode = None
    BY DEF TypeOK, Calls, Ends
  <1>2. HoldsRows => HoldsRows'
    BY <1>1 DEF HoldsRows
  <1>3. QED
    BY <1>1, <1>2

\* The errors that a call on a closed connection returns never ask for a retry.
LEMMA ErrorFacts ==
    ASSUME TypeOK
    PROVE  /\ ConnError \in {None, "ctx", "invalid"}
           /\ SocketError("invalid") \in {"ctx", "invalid"}
           /\ SocketError("bad") \in {"ctx", "bad"}
PROOF
  BY DEF ConnError, SocketError

\* Reading a packet leaves the rest of the answer: nothing after its last one.
LEMMA RestFacts ==
    ASSUME NEW q \in Seq(Packets), q # <<>>, Chained(q)
    PROVE  /\ Head(q) = q[1] /\ q[1] \in Packets
           /\ Tail(q) \in Seq(Packets)
           /\ Chained(Tail(q))
           /\ Follow(q[1]) = {} <=> Tail(q) = <<>>
           /\ Tail(q) # <<>> => Tail(q)[1] \in Follow(q[1])
PROOF
  <1>1. /\ Tail(q) \in Seq(Packets) /\ Len(q) \in Nat \ {0}
        /\ Len(Tail(q)) = Len(q) - 1
        /\ Head(q) = q[1] /\ DOMAIN q = 1..Len(q)
        /\ DOMAIN Tail(q) = 1..(Len(q) - 1)
        /\ \A i \in 1..(Len(q) - 1) : Tail(q)[i] = q[i + 1]
    OBVIOUS
  <1>2. Tail(q) = <<>> <=> Len(q) = 1
    BY <1>1, EmptySeq
  <1>3. Chained(Tail(q))
    <2> SUFFICES ASSUME NEW i \in DOMAIN Tail(q)
                 PROVE  IF i = Len(Tail(q)) THEN Follow(Tail(q)[i]) = {}
                        ELSE Tail(q)[i + 1] \in Follow(Tail(q)[i])
      BY DEF Chained
    <2>1. /\ i \in Nat /\ i + 1 \in DOMAIN q /\ Tail(q)[i] = q[i + 1]
          /\ i = Len(Tail(q)) <=> i + 1 = Len(q)
      BY <1>1
    <2>2. i # Len(Tail(q)) => Tail(q)[i + 1] = q[i + 2]
      BY <1>1
    <2>3. IF i + 1 = Len(q) THEN Follow(q[i + 1]) = {} ELSE q[(i + 1) + 1] \in Follow(q[i + 1])
      BY <2>1 DEF Chained
    <2>4. (i + 1) + 1 = i + 2
      BY <2>1
    <2>5. QED
      BY <2>1, <2>2, <2>3, <2>4
  <1>4. 1 \in DOMAIN q /\ q[1] \in Packets
    BY <1>1
  <1>5. IF 1 = Len(q) THEN Follow(q[1]) = {} ELSE q[1 + 1] \in Follow(q[1])
    BY <1>4 DEF Chained
  <1>6. Tail(q) # <<>> => Tail(q)[1] \in Follow(q[1])
    BY <1>1, <1>2, <1>5
  <1>7. QED
    BY <1>1, <1>2, <1>3, <1>4, <1>5, <1>6

LEMMA OneElement ==
    ASSUME NEW S, NEW e \in S
    PROVE  <<e>> \in Seq(S)
PROOF
  OBVIOUS

LEMMA AppendFacts ==
    ASSUME NEW S, NEW s \in Seq(S), NEW e \in S
    PROVE  /\ Append(s, e) \in Seq(S)
           /\ s = <<>> => Append(s, e) = <<e>>
PROOF
  <1>1. Append(s, e) \in Seq(S)
    OBVIOUS
  <1>2. Append(<<>>, e) = <<e>>
    OBVIOUS
  <1>3. QED
    BY <1>1, <1>2

LEMMA HeadTailFacts ==
    ASSUME NEW S, NEW s \in Seq(S), s # <<>>
    PROVE  Head(s) \in S /\ Tail(s) \in Seq(S)
PROOF
  OBVIOUS

\* An answer of one packet.
LEMMA SingleFacts ==
    ASSUME NEW p \in Packets, Follow(p) = {}
    PROVE  <<p>> \in Seq(Packets) /\ <<p>> # <<>> /\ <<p>>[1] = p /\ Chained(<<p>>)
PROOF
  <1>1. <<p>> \in Seq(Packets)
    BY OneElement
  <1>2. <<p>> # <<>> /\ Len(<<p>>) = 1 /\ <<p>>[1] = p
    OBVIOUS
  <1>3. \A i \in DOMAIN <<p>> : i = Len(<<p>>)
    OBVIOUS
  <1>4. QED
    BY <1>1, <1>2, <1>3 DEF Chained

LEMMA EmptyFacts == <<>> \in Seq(Packets) /\ Chained(<<>>)
PROOF
  BY DEF Chained

\* The results in an answer are counted from its front.
LEMMA ComingFacts ==
    ASSUME NEW q \in Seq(Packets)
    PROVE  /\ Coming(q) \in Nat
           /\ q # <<>> => Coming(q) = Coming(Tail(q)) + (IF q[1] \in Headers THEN 1 ELSE 0)
           /\ q # <<>> /\ Tail(q) = <<>> => Coming(q) = IF q[1] \in Headers THEN 1 ELSE 0
PROOF
  <1> DEFINE At(s) == {i \in DOMAIN s : s[i] \in Headers}
  <1>1. ASSUME NEW s \in Seq(Packets)
        PROVE  IsFiniteSet(At(s)) /\ Cardinality(At(s)) \in Nat
    <2>1. DOMAIN s = 1..Len(s) /\ Len(s) \in Nat
      OBVIOUS
    <2>2. IsFiniteSet(1..Len(s)) /\ At(s) \in SUBSET (1..Len(s))
      BY <2>1, FS_Interval
    <2>3. QED
      BY <2>2, FS_Subset, FS_CardinalityType
  <1>2. ASSUME q # <<>>
        PROVE  Coming(q) = Coming(Tail(q)) + (IF q[1] \in Headers THEN 1 ELSE 0)
    <2>1. /\ Tail(q) \in Seq(Packets) /\ Len(q) \in Nat /\ 1 \in DOMAIN q
          /\ DOMAIN q = 1..Len(q) /\ DOMAIN Tail(q) = 1..(Len(q) - 1)
          /\ \A i \in 1..(Len(q) - 1) : Tail(q)[i] = q[i + 1]
      BY <1>2
    <2> DEFINE f == [i \in At(Tail(q)) |-> i + 1]
    <2>2. f \in Bijection(At(Tail(q)), At(q) \ {1})
      <3>1. f \in [At(Tail(q)) -> At(q) \ {1}]
        BY <2>1
      <3>2. \A i, j \in At(Tail(q)) : f[i] = f[j] => i = j
        BY <2>1
      <3>3. \A j \in At(q) \ {1} : j - 1 \in At(Tail(q)) /\ f[j - 1] = j
        BY <2>1
      <3>4. f \in Injection(At(Tail(q)), At(q) \ {1})
        BY <3>1, <3>2 DEF Injection, IsInjective
      <3>5. f \in Surjection(At(Tail(q)), At(q) \ {1})
        BY <3>1, <3>3 DEF Surjection
      <3>6. QED
        BY <3>4, <3>5 DEF Bijection
    <2>3. Cardinality(At(q) \ {1}) = Cardinality(At(Tail(q)))
      BY <1>1, <2>1, <2>2, FS_Bijection, ZenonT(60) DEF ExistsBijection
    <2>4. Cardinality(At(q) \ {1}) = IF 1 \in At(q) THEN Cardinality(At(q)) - 1 ELSE Cardinality(At(q))
      BY <1>1, FS_RemoveElement
    <2>5. 1 \in At(q) <=> q[1] \in Headers
      BY <2>1
    <2>6. Cardinality(At(q)) \in Nat /\ Cardinality(At(Tail(q))) \in Nat
      BY <1>1, <2>1
    <2>7. Coming(q) = Cardinality(At(q)) /\ Coming(Tail(q)) = Cardinality(At(Tail(q)))
      BY DEF Coming
    <2> HIDE DEF At
    <2>8. QED
      BY <2>3, <2>4, <2>5, <2>6, <2>7
  <1>3. Coming(<<>>) = 0
    BY FS_EmptySet DEF Coming
  <1>4. Coming(q) \in Nat
    BY <1>1 DEF Coming
  <1>5. ASSUME q # <<>>, Tail(q) = <<>>
        PROVE  Coming(q) = IF q[1] \in Headers THEN 1 ELSE 0
    <2>1. Coming(Tail(q)) = 0
      BY <1>3, <1>5
    <2>2. QED
      BY <1>2, <1>5, <2>1
  <1>6. QED
    BY <1>2, <1>4, <1>5

-----------------------------------------------------------------------------
(***************************************************************************)
(* What most steps leave alone.                                            *)
(***************************************************************************)

\* A step of the caller that neither takes nor returns a context.
LEMMA WatchFrame ==
    ASSUME WatchInv, watcher' = watcher, cancelled' = cancelled,
           conn'.closed = conn.closed, conn'.closech = conn.closech,
           conn'.watching = conn.watching, wire'.link = wire.link,
           call'.n = call.n, call'.pc = call.pc \/ call'.pc \in InCall
    PROVE  WatchInv'
PROOF
  BY DEF WatchInv

\* A step in which the caller closes the connection, if nobody has yet.
LEMMA WatchCleanup ==
    ASSUME TypeOK, WatchInv, watcher' = watcher, cancelled' = cancelled,
           conn'.closed = Cleanup(conn).closed, conn'.closech = Cleanup(conn).closech,
           conn'.watching = Cleanup(conn).watching, wire'.link = Shut(wire, conn).link,
           call'.n = call.n, call'.pc = call.pc \/ call'.pc \in InCall
    PROVE  WatchInv'
PROOF
  <1>1. CASE conn.closed
    BY <1>1, CleanupFacts, WatchFrame DEF TypeOK, ConnStates
  <1>2. CASE ~conn.closed
    BY <1>2, CleanupFacts DEF WatchInv
  <1>3. QED
    BY <1>1, <1>2

\* Outside a call, and on its way in, nothing can be read from a connection that
\* is not shut.
LEMMA QuietFacts ==
    ASSUME StreamInv, call.pc \in {"idle", "enter", "watch", "check", "write", "after"}
    PROVE  wire.asked = None /\ (wire.link # "shut" => wire.stream = <<>>)
PROOF
  BY DEF StreamInv, Expected

\* A step to where nothing is read.
LEMMA QuietStream ==
    ASSUME wire'.link # "shut" => wire'.stream = <<>>, wire'.asked = None,
           Chained(wire'.stream), call'.pc \notin {"read", "file", "copy"}
    PROVE  StreamInv'
PROOF
  BY DEF StreamInv

\* A step to where mc.result is not looked at.
LEMMA QuietCount ==
    ASSUME call'.pc \notin {"write", "read", "file", "copy"}
    PROVE  CountInv'
PROOF
  BY DEF CountInv

\* A step of somebody else: the caller, its answer and its result stay.
LEMMA CallerFrame ==
    ASSUME StreamInv, RanInv, RowsInv, CountInv, call' = call, wire' = wire,
           conn'.closed = conn.closed, conn'.result = conn.result, cancelled \subseteq cancelled'
    PROVE  StreamInv' /\ RanInv' /\ RowsInv' /\ CountInv'
PROOF
  <1>1. StreamInv'
    BY DEF StreamInv, Expected, Detached
  <1>2. RanInv' /\ RowsInv'
    BY DEF RanInv, RowsInv, HoldsRows, Detached
  <1>3. CountInv'
    BY DEF CountInv
  <1>4. QED
    BY <1>1, <1>2, <1>3

-----------------------------------------------------------------------------
(***************************************************************************)
(* The way into a call.                                                    *)
(***************************************************************************)

LEMMA InitDInv ==
    ASSUME Init
    PROVE  DInv
PROOF
  <1>1. TypeOK
    BY DriverAssumption DEF Init, TypeOK, Calls, ConnStates, Watchers, Wires
  <1>2. WatchInv /\ StreamInv /\ RanInv /\ RowsInv /\ CountInv
    BY EmptyFacts DEF Init, WatchInv, StreamInv, RanInv, RowsInv, CountInv
  <1>3. QED
    BY <1>1, <1>2 DEF DInv

LEMMA StartStep ==
    ASSUME DInv, NEW op \in Ops, Start(op)
    PROVE  DInv'
PROOF
  <1>1. TypeOK /\ WatchInv /\ StreamInv
    BY DEF DInv
  <1>2. call' \in Calls /\ wire' \in Wires
    <2>1. call.n + 1 \in 0..MaxCalls
      BY <1>1, DriverAssumption DEF TypeOK, Calls, Start
    <2>2. call' \in Calls
      BY <2>1 DEF Calls, Start
    <2>3. wire' \in Wires
      BY <1>1 DEF TypeOK, Wires, Start
    <2>4. QED
      BY <2>2, <2>3
  <1>3. TypeOK'
    BY <1>1, <1>2 DEF TypeOK, Start
  <1>4. /\ call.pc = "idle" /\ call'.pc = "enter" /\ call'.ret = None /\ call'.rows = None
        /\ wire'.link = wire.link /\ wire'.asked = wire.asked /\ wire'.stream = wire.stream
        /\ wire'.ran = {} /\ call'.n # 0 /\ call'.op = op
    BY <1>1 DEF TypeOK, Calls, Wires, Start
  <1>5. WatchInv'
    BY <1>1, <1>4 DEF WatchInv, InCall, Start
  <1>6. StreamInv'
    BY <1>1, <1>4, QuietFacts, QuietStream DEF StreamInv
  <1>7. RanInv' /\ RowsInv'
    BY <1>4, DriverAssumption DEF RanInv, RowsInv
  <1>8. QED
    BY <1>3, <1>4, <1>5, <1>6, <1>7, QuietCount DEF DInv

LEMMA ResetSessionStep ==
    ASSUME DInv, ResetSession
    PROVE  DInv'
PROOF
  <1>1. TypeOK /\ WatchInv /\ StreamInv /\ RanInv /\ RowsInv /\ CountInv
    BY DEF DInv
  <1>2. conn' \in ConnStates
    BY <1>1 DEF TypeOK, ConnStates, ResetSession
  <1>3. TypeOK'
    BY <1>1, <1>2 DEF TypeOK, ResetSession
  <1>4. /\ conn'.closed = conn.closed /\ conn'.closech = conn.closech
        /\ conn'.watching = conn.watching /\ conn'.result = conn.result
    BY <1>1 DEF TypeOK, ConnStates, ResetSession
  <1>5. WatchInv'
    BY <1>1, <1>4, WatchFrame DEF ResetSession
  <1>6. StreamInv' /\ RanInv' /\ RowsInv' /\ CountInv'
    BY <1>1, <1>4, CallerFrame DEF ResetSession
  <1>7. QED
    BY <1>3, <1>5, <1>6 DEF DInv

LEMMA EnterStep ==
    ASSUME DInv, Enter
    PROVE  DInv'
PROOF
  <1>1. TypeOK /\ WatchInv /\ StreamInv /\ RanInv /\ RowsInv
    BY DEF DInv
  <1>2. call' \in Calls
    BY <1>1 DEF TypeOK, Calls, Errors, Enter
  <1>3. TypeOK'
    BY <1>1, <1>2 DEF TypeOK, Enter
  <1>4. /\ call.pc = "enter" /\ call'.pc \in {"idle", "watch", "check"}
        /\ call'.n = call.n /\ call'.op = call.op /\ call'.rows = call.rows
        /\ call'.pc # "idle" => call'.ret = call.ret
    BY <1>1 DEF TypeOK, Calls, Errors, Enter
  <1>5. WatchInv'
    BY <1>1, <1>4 DEF WatchInv, InCall, Enter
  <1>6. StreamInv'
    BY <1>1, <1>4, QuietFacts, QuietStream DEF StreamInv, Enter
  <1>7. RanInv' /\ RowsInv'
    BY <1>1, <1>4 DEF RanInv, RowsInv, Enter
  <1>8. QED
    BY <1>3, <1>4, <1>5, <1>6, <1>7, QuietCount DEF DInv

LEMMA WatchCancelStep ==
    ASSUME DInv, WatchCancel
    PROVE  DInv'
PROOF
  <1>1. TypeOK /\ WatchInv /\ StreamInv /\ RanInv /\ RowsInv
    BY DEF DInv
  <1>2. /\ call.pc = "watch" /\ call'.pc \in {"idle", "check"} /\ call' \in Calls
        /\ call'.n = call.n /\ call'.op = call.op /\ call'.rows = call.rows
        /\ call'.ret \in {call.ret, "ctx"}
        /\ call'.pc # "idle" => call'.ret = call.ret
    BY <1>1 DEF TypeOK, Calls, Errors, WatchCancel
  <1>3. /\ wire'.stream = wire.stream /\ wire'.ran = wire.ran
        /\ wire'.link \in {wire.link, "shut"} /\ wire'.asked \in {wire.asked, None}
        /\ wire' \in Wires
    BY <1>1, CleanupFacts DEF TypeOK, WatchCancel, GiveUp
  <1>4. StreamInv'
    BY <1>1, <1>2, <1>3, QuietFacts, QuietStream DEF StreamInv
  <1>5. RanInv' /\ RowsInv'
    BY <1>1, <1>2, <1>3, DriverAssumption DEF RanInv, RowsInv
  <1>6. CountInv'
    BY <1>2, QuietCount
  <1>7. TypeOK' /\ WatchInv'
    <2>1. CASE conn.watching /\ GiveUp /\ UNCHANGED watcher
      <3>1. call'.pc \in InCall
        BY <1>2, <2>1 DEF WatchCancel, TypeOK, Calls, InCall
      <3>2. WatchInv'
        BY <1>1, <1>2, <2>1, <3>1, WatchCleanup DEF GiveUp, WatchCancel
      <3>3. TypeOK'
        BY <1>1, <1>2, <1>3, <2>1, CleanupFacts DEF TypeOK, GiveUp, WatchCancel
      <3>4. QED
        BY <3>2, <3>3
    <2>2. CASE ~conn.watching /\ UNCHANGED <<conn, watcher, wire>>
      BY <1>1, <1>2, <2>2 DEF TypeOK, WatchInv, WatchCancel, InCall
    <2>3. CASE /\ ~conn.watching /\ call.n \notin cancelled
               /\ call' = [call EXCEPT !.pc = "check"]
               /\ conn' = [conn EXCEPT !.watching = TRUE]
               /\ watcher' = [watcher EXCEPT !.chan = Append(@, call.n)]
               /\ UNCHANGED wire
      <3>1. /\ conn' \in ConnStates /\ conn'.watching = TRUE
            /\ conn'.closed = conn.closed /\ conn'.closech = conn.closech
        BY <1>1, <2>3 DEF TypeOK, ConnStates
      <3>2. call'.pc = "check"
        BY <1>1, <2>3 DEF TypeOK, Calls
      <3>3. call.n \in 1..MaxCalls
        BY <1>1, <1>2, DriverAssumption DEF TypeOK, Calls, RowsInv
      <3>4. /\ Append(watcher.chan, call.n) \in Seq(1..MaxCalls)
            /\ watcher.chan = <<>> => Append(watcher.chan, call.n) = <<call.n>>
        <4>1. watcher.chan \in Seq(1..MaxCalls)
          BY <1>1 DEF TypeOK, Watchers
        <4>2. QED
          BY <3>3, <4>1, AppendFacts
      <3>5. /\ watcher' \in Watchers /\ watcher'.pc = watcher.pc /\ watcher'.ctx = watcher.ctx
            /\ watcher'.chan = Append(watcher.chan, call.n)
        BY <1>1, <2>3, <3>4 DEF TypeOK, Watchers
      <3>6. WatchInv'
        BY <1>1, <1>2, <2>3, <3>1, <3>2, <3>4, <3>5 DEF WatchInv, WatchCancel, InCall
      <3>7. TypeOK'
        BY <1>1, <1>2, <2>3, <3>1, <3>5 DEF TypeOK, WatchCancel
      <3>8. QED
        BY <3>6, <3>7
    <2>4. QED
      BY <2>1, <2>2, <2>3 DEF WatchCancel
  <1>8. QED
    BY <1>4, <1>5, <1>6, <1>7 DEF DInv

LEMMA CheckStep ==
    ASSUME DInv, Check
    PROVE  DInv'
PROOF
  <1>1. TypeOK /\ WatchInv /\ StreamInv /\ RanInv /\ RowsInv /\ CountInv
    BY DEF DInv
  <1>2. ClearResult(conn) \in ConnStates
    BY <1>1 DEF TypeOK, ConnStates, ClearResult
  <1>3. /\ ClearResult(conn).closed = conn.closed /\ ClearResult(conn).closech = conn.closech
        /\ ClearResult(conn).watching = conn.watching /\ ClearResult(conn).result = 0
    BY <1>1 DEF TypeOK, ConnStates, ClearResult
  <1>4. CASE \E ret \in {"bad", "err"} : Ends(ret) /\ UNCHANGED conn
    <2>1. /\ call' \in Calls /\ call'.pc \in {"rows", "finish"}
          /\ call'.n = call.n /\ call'.op = call.op /\ call'.rows = call.rows
          /\ call'.pc = "rows" => HoldsRows'
      BY <1>1, <1>4, EndsFacts DEF Errors
    <2>2. TypeOK'
      BY <1>1, <1>4, <2>1 DEF TypeOK, Check
    <2>3. WatchInv'
      BY <1>1, <1>4, <2>1, WatchFrame DEF InCall, Check
    <2>4. StreamInv'
      BY <1>1, <2>1, QuietFacts, QuietStream DEF StreamInv, Check
    <2>5. RanInv' /\ RowsInv'
      BY <1>1, <2>1 DEF RanInv, RowsInv, Check
    <2>6. QED
      BY <2>1, <2>2, <2>3, <2>4, <2>5, QuietCount DEF DInv
  <1>5. CASE /\ ~conn.closed \/ ~ChecksLater(call.op)
             /\ call' = [call EXCEPT !.pc = "write"]
             /\ conn' = ClearResult(conn)
    <2>1. /\ call' \in Calls /\ call'.pc = "write" /\ call'.ret = call.ret
          /\ call'.n = call.n /\ call'.op = call.op /\ call'.rows = call.rows
      BY <1>1, <1>5 DEF TypeOK, Calls
    <2>2. TypeOK'
      BY <1>1, <1>2, <1>5, <2>1 DEF TypeOK, Check
    <2>3. WatchInv'
      BY <1>1, <1>3, <1>5, <2>1, WatchFrame DEF InCall, Check
    <2>4. StreamInv'
      BY <1>1, <2>1, QuietFacts, QuietStream DEF StreamInv, Check
    <2>5. RanInv' /\ RowsInv'
      BY <1>1, <2>1 DEF RanInv, RowsInv, Check
    <2>6. CountInv'
      BY <1>3, <1>5, <2>1 DEF CountInv, ChecksLater
    <2>7. QED
      BY <2>2, <2>3, <2>4, <2>5, <2>6 DEF DInv
  <1>6. QED
    BY <1>4, <1>5 DEF Check

-----------------------------------------------------------------------------
(***************************************************************************)
(* writePacket.                                                            *)
(***************************************************************************)

\* A call whose command was not written ends, on a connection that is closed or
\* stays as it is; nothing has been carried out.
LEMMA WriteEnds ==
    ASSUME DInv, call.pc = "write", UNCHANGED <<watcher, cancelled>>,
           NEW ret \in {"ctx", "bad", "invalid"}, Ends(ret),
           \/ /\ conn' \in {conn, [conn EXCEPT !.reset = FALSE]}
              /\ wire' = wire
           \/ /\ conn' = [Cleanup(conn) EXCEPT !.reset = FALSE]
              /\ wire' = Shut(wire, conn)
    PROVE  DInv'
PROOF
  <1>1. TypeOK /\ WatchInv /\ StreamInv /\ RanInv /\ RowsInv /\ CountInv
    BY DEF DInv
  <1>2. /\ call' \in Calls /\ call'.pc \in {"rows", "finish"}
        /\ call'.n = call.n /\ call'.op = call.op /\ call'.rows = call.rows
        /\ call'.pc = "rows" => HoldsRows'
    BY <1>1, EndsFacts DEF Errors
  <1>3. /\ wire' \in Wires /\ wire'.stream = wire.stream /\ wire'.ran = wire.ran
        /\ wire'.link \in {wire.link, "shut"} /\ wire'.asked \in {wire.asked, None}
    BY <1>1, CleanupFacts DEF TypeOK
  <1>4. conn' \in ConnStates
    BY <1>1, CleanupFacts DEF TypeOK, ConnStates
  <1>5. WatchInv'
    <2>1. CASE conn' \in {conn, [conn EXCEPT !.reset = FALSE]} /\ wire' = wire
      <3>1. /\ conn'.closed = conn.closed /\ conn'.closech = conn.closech
            /\ conn'.watching = conn.watching
        BY <1>1, <2>1 DEF TypeOK, ConnStates
      <3>2. QED
        BY <1>1, <1>2, <2>1, <3>1, WatchFrame DEF InCall
    <2>2. CASE conn' = [Cleanup(conn) EXCEPT !.reset = FALSE] /\ wire' = Shut(wire, conn)
      <3>1. /\ conn'.closed = Cleanup(conn).closed /\ conn'.closech = Cleanup(conn).closech
            /\ conn'.watching = Cleanup(conn).watching
        BY <1>1, <2>2, CleanupFacts DEF ConnStates
      <3>2. QED
        BY <1>1, <1>2, <2>2, <3>1, WatchCleanup DEF InCall
    <2>3. QED
      BY <2>1, <2>2
  <1>6. StreamInv'
    BY <1>1, <1>2, <1>3, QuietFacts, QuietStream DEF StreamInv
  <1>7. RanInv' /\ RowsInv'
    BY <1>1, <1>2, <1>3 DEF RanInv, RowsInv
  <1>8. TypeOK'
    BY <1>1, <1>2, <1>3, <1>4 DEF TypeOK
  <1>9. QED
    BY <1>2, <1>5, <1>6, <1>7, <1>8, QuietCount DEF DInv

LEMMA WriteFailsStep ==
    ASSUME DInv, CheckFails \/ WriteFails
    PROVE  DInv'
PROOF
  <1>1. CASE CheckFails
    BY <1>1, WriteEnds DEF CheckFails
  <1>2. CASE WriteFails
    BY <1>2, WriteEnds, ErrorFacts DEF WriteFails, DInv
  <1>3. QED
    BY <1>1, <1>2

LEMMA WriteCommandStep ==
    ASSUME DInv, WriteCommand
    PROVE  DInv'
PROOF
  <1>1. TypeOK /\ WatchInv /\ StreamInv /\ RanInv /\ RowsInv /\ CountInv
    BY DEF DInv
  <1>2. /\ call' \in Calls /\ call'.pc = "read" /\ call'.mode = FirstMode(call.op)
        /\ call'.n = call.n /\ call'.op = call.op /\ call'.rows = call.rows
        /\ call'.ret = call.ret /\ call.pc = "write"
    BY <1>1 DEF TypeOK, Calls, Modes, WriteCommand, FirstMode
  <1>3. /\ wire' \in Wires /\ wire'.stream = wire.stream /\ wire'.ran = wire.ran
        /\ wire'.link = wire.link /\ wire'.link # "shut"
        /\ wire'.asked = IF wire.link = "up" THEN call.op ELSE None
        /\ wire'.results = wire.results
    BY <1>1 DEF TypeOK, Wires, Calls, WriteCommand
  <1>4. Entry(FirstMode(call.op)) \in Nat
    BY DEF Entry
  <1> DEFINE entries == conn.result + Entry(FirstMode(call.op))
  <1>a. entries \in Nat
    BY <1>1, <1>4 DEF TypeOK, ConnStates
  <1>b. conn' = [conn EXCEPT !.result = entries, !.reset = FALSE]
    BY DEF WriteCommand
  <1> HIDE DEF entries
  <1>5. /\ conn' \in ConnStates /\ conn'.closed = conn.closed /\ conn'.closech = conn.closech
        /\ conn'.watching = conn.watching
        /\ conn'.result = entries
    BY <1>1, <1>a, <1>b DEF TypeOK, ConnStates
  <1>6. wire'.stream = <<>>
    BY <1>1, <1>2, <1>3, QuietFacts
  <1>7. TypeOK'
    BY <1>1, <1>2, <1>3, <1>5 DEF TypeOK, WriteCommand
  <1>8. WatchInv'
    BY <1>1, <1>2, <1>3, <1>5, WatchFrame DEF InCall, WriteCommand
  <1>9. StreamInv'
    BY <1>1, <1>2, <1>3, <1>6 DEF StreamInv
  <1>10. RanInv' /\ RowsInv'
    BY <1>1, <1>2, <1>3, <1>6 DEF RanInv, RowsInv, FirstMode, Detached
  <1>11. CountInv'
    <2> SUFFICES ASSUME call.op \in {"exec", "stmtExec"}, call.n \notin cancelled
                 PROVE  CountInv'
      BY <1>2 DEF CountInv, WriteCommand
    <2>1. FirstMode(call.op) = "header" /\ entries = conn.result + 1
      BY DEF FirstMode, Entry, entries
    <2>2. ~conn.closed /\ conn.result = 0
      BY <1>1, <1>2 DEF CountInv
    <2>3. QED
      BY <1>2, <1>3, <1>5, <1>6, <2>1, <2>2 DEF CountInv
  <1>12. QED
    BY <1>7, <1>8, <1>9, <1>10, <1>11 DEF DInv

-----------------------------------------------------------------------------
(***************************************************************************)
(* Reading an answer.                                                      *)
(***************************************************************************)

\* The connection is lost under a caller that has nothing more to read.
LEMMA LostStep ==
    ASSUME DInv, Lost, UNCHANGED <<watcher, cancelled>>, call.pc \in {"read", "file"},
           wire.link # "up", wire.link = "shut" \/ wire.stream = <<>>
    PROVE  DInv'
PROOF
  <1>1. TypeOK /\ WatchInv /\ StreamInv /\ RanInv /\ RowsInv /\ CountInv
    BY DEF DInv
  <1>2. PICK ret \in {"ctx", "invalid", "err"} : Ends(ret)
    BY <1>1, ErrorFacts DEF Lost
  <1>3. /\ call' \in Calls /\ call'.pc \in {"rows", "finish"} /\ call'.ret = ret
        /\ call'.n = call.n /\ call'.op = call.op /\ call'.rows = call.rows
        /\ call'.pc = "rows" => HoldsRows'
    BY <1>1, <1>2, EndsFacts DEF Errors
  <1>4. \/ conn' = conn /\ wire' = wire
        \/ conn' = Cleanup(conn) /\ wire' = Shut(wire, conn)
    BY DEF Lost, GiveUp
  <1>5. /\ wire' \in Wires /\ wire'.stream = wire.stream /\ wire'.ran = wire.ran
        /\ wire'.link \in {wire.link, "shut"} /\ wire'.asked \in {wire.asked, None}
        /\ conn' \in ConnStates
    BY <1>1, <1>4, CleanupFacts DEF TypeOK
  <1>6. WatchInv'
    BY <1>1, <1>3, <1>4, WatchFrame, WatchCleanup DEF InCall
  <1>7. StreamInv'
    BY <1>1, <1>3, <1>5, QuietStream DEF StreamInv
  <1>8. RanInv' /\ RowsInv'
    BY <1>1, <1>3, <1>5 DEF RanInv, RowsInv
  <1>9. TypeOK'
    BY <1>1, <1>3, <1>5 DEF TypeOK
  <1>10. QED
    BY <1>3, <1>6, <1>7, <1>8, <1>9, QuietCount DEF DInv

LEMMA ReadFailsStep ==
    ASSUME DInv, ReadFails
    PROVE  DInv'
PROOF
  BY LostStep DEF ReadFails

LEMMA SendFileStep ==
    ASSUME Protocol, DInv, SendFile
    PROVE  DInv'
PROOF
  <1>1. TypeOK /\ WatchInv /\ StreamInv /\ RanInv /\ RowsInv /\ CountInv
    BY DEF DInv
  <1>2. /\ call.pc = "file" /\ wire.stream = <<>> /\ wire.asked = None /\ ~Detached
        /\ call.op \in Ops /\ call.op \notin {"ping", "prepare"}
        /\ wire.ran \subseteq SessionOnly /\ call.ret = None
    BY <1>1 DEF SendFile, StreamInv, Expected, RowsInv, RanInv
  <1>3. CASE wire.link # "up" /\ Lost
    BY <1>2, <1>3, LostStep DEF SendFile
  <1>4. CASE wire.link # "up" /\ Ends(SocketError(NoWrite)) /\ UNCHANGED <<conn, wire>>
    <2>1. SocketError(NoWrite) \in Errors
      BY DEF SocketError, NoWrite, Errors
    <2>2. /\ call' \in Calls /\ call'.pc \in {"rows", "finish"}
          /\ call'.n = call.n /\ call'.op = call.op /\ call'.rows = call.rows
          /\ call'.pc = "rows" => HoldsRows'
      BY <1>1, <1>4, <2>1, EndsFacts
    <2>3. UNCHANGED <<watcher, cancelled>>
      BY DEF SendFile
    <2>4. TypeOK'
      BY <1>1, <1>4, <2>2, <2>3 DEF TypeOK
    <2>5. WatchInv'
      BY <1>1, <1>4, <2>2, <2>3, WatchFrame DEF InCall
    <2>6. StreamInv'
      BY <1>1, <1>2, <1>4, <2>2, QuietStream DEF StreamInv
    <2>7. RanInv' /\ RowsInv'
      BY <1>1, <1>2, <1>4, <2>2 DEF RanInv, RowsInv, Detached
    <2>8. QED
      BY <2>2, <2>4, <2>5, <2>6, <2>7, QuietCount DEF DInv
  <1>5. ASSUME NEW sent \in BOOLEAN, NEW a \in IF sent THEN AfterFile ELSE AfterNoFile, wire.link = "up",
               call' = [call EXCEPT !.pc = "read", !.mode = IF sent THEN "one" ELSE "drop"],
               wire' = [wire EXCEPT !.stream = a, !.results = @ + Results(Tail(a)),
                                    !.ran = IF Ran(a) THEN @ \cup {call.op} ELSE @],
               UNCHANGED <<conn, watcher, cancelled>>
        PROVE  DInv'
    <2> DEFINE m == IF sent THEN "one" ELSE "drop"
               results == wire.results + Coming(Tail(a))
               ran == IF Ran(a) THEN wire.ran \cup {call.op} ELSE wire.ran
    <2>1. /\ a \in Seq(Packets) /\ a # <<>> /\ Chained(a)
          /\ sent => a[1] \in FilePackets
          /\ ~sent => a[1] \in {"ok", "err"}
      <3>1. CASE sent
        BY <3>1, DriverAssumption DEF Protocol, FilePackets
      <3>2. CASE ~sent
        <4>1. PICK p \in {"ok", "err"} : a = <<p>>
          BY <3>2 DEF Protocol
        <4>2. QED
          BY <3>2, <4>1, SingleFacts DEF Packets, Follow
      <3>3. QED
        BY <3>1, <3>2
    <2>2. results \in Nat
      <3>1. Tail(a) \in Seq(Packets)
        BY <2>1
      <3>2. Coming(Tail(a)) \in Nat
        BY <3>1, ComingFacts
      <3>3. QED
        BY <1>1, <3>2 DEF TypeOK, Wires
    <2>3. ran \in SUBSET Ops /\ (call.op \in SessionOnly => ran \subseteq SessionOnly)
      BY <1>1, <1>2 DEF TypeOK, Wires
    <2>4. wire' = [wire EXCEPT !.stream = a, !.results = results, !.ran = ran]
      BY <1>5 DEF Coming, Results
    <2>5. call' = [call EXCEPT !.pc = "read", !.mode = m]
      BY <1>5
    <2>6. m \in Modes /\ m = IF sent THEN "one" ELSE "drop"
      BY DEF Modes
    <2> HIDE DEF m, ran
    <2>7. /\ call' \in Calls /\ call'.pc = "read" /\ call'.mode = m /\ call'.ret = call.ret
          /\ call'.n = call.n /\ call'.op = call.op /\ call'.rows = call.rows
      BY <1>1, <2>5, <2>6 DEF TypeOK, Calls
    <2>8. /\ wire' \in Wires /\ wire'.stream = a /\ wire'.ran = ran
          /\ wire'.link = wire.link /\ wire'.asked = None /\ wire'.results = results
      <3> HIDE DEF results
      <3>1. QED
        BY <1>1, <1>2, <2>1, <2>2, <2>3, <2>4 DEF TypeOK, Wires
    <2>9. TypeOK'
      BY <1>1, <1>5, <2>7, <2>8 DEF TypeOK
    <2>10. WatchInv'
      BY <1>1, <1>5, <2>7, <2>8, WatchFrame DEF InCall
    <2>11. StreamInv'
      <3>1. a[1] \in Expected'
        BY <1>2, <2>1, <2>6, <2>7 DEF Expected
      <3>2. QED
        BY <2>1, <2>7, <2>8, <3>1 DEF StreamInv
    <2>12. RanInv' /\ RowsInv'
      <3>1. a[1] \notin {"errReadOnly", "infile"} /\ None # "bad"
        BY <2>1, NoneFacts DEF FilePackets, Errors
      <3>2. RanInv'
        BY <1>2, <2>3, <2>7, <2>8, <3>1 DEF RanInv
      <3>3. RowsInv'
        BY <1>1, <1>2, <2>6, <2>7 DEF RowsInv, Detached
      <3>4. QED
        BY <3>2, <3>3
    <2>13. CountInv'
      <3>1. call.op \in {"exec", "stmtExec"} /\ call.n \notin cancelled =>
                ~conn.closed /\ conn.result = wire.results
        BY <1>1, <1>2 DEF CountInv
      <3>2. results = wire.results + Coming(Tail(a))
        OBVIOUS
      <3> HIDE DEF results
      <3>3. QED
        BY <1>5, <2>6, <2>7, <2>8, <3>1, <3>2 DEF CountInv
    <2>14. QED
      BY <2>9, <2>10, <2>11, <2>12, <2>13 DEF DInv
  <1>6. QED
    BY <1>3, <1>4, <1>5 DEF SendFile

\* What every packet does: it leaves the rest of the answer, and one that closes
\* the connection closes all of it.
LEMMA PacketFacts ==
    ASSUME DInv, ReadPacket
    PROVE  /\ wire.stream \in Seq(Packets) /\ wire.stream # <<>> /\ call.pc = "read"
           /\ wire.stream[1] \in Expected
           /\ wire' \in Wires /\ wire'.stream = Tail(wire.stream) /\ wire'.asked = None
           /\ wire'.ran = wire.ran /\ wire'.results = wire.results
           /\ Chained(Tail(wire.stream))
           /\ Follow(wire.stream[1]) = {} <=> Tail(wire.stream) = <<>>
           /\ Tail(wire.stream) # <<>> => Tail(wire.stream)[1] \in Follow(wire.stream[1])
           /\ wire'.link = (IF wire.stream[1] = "errReadOnly" THEN Shut(wire, conn).link ELSE wire.link)
PROOF
  <1>1. TypeOK /\ StreamInv /\ wire.stream # <<>> /\ call.pc = "read"
    BY DEF DInv, ReadPacket
  <1>2. wire.stream \in Seq(Packets) /\ Chained(wire.stream) /\ wire.asked = None
    BY <1>1 DEF TypeOK, Wires, StreamInv
  <1>3. wire.stream[1] \in Expected
    BY <1>1 DEF StreamInv
  <1>4. /\ Head(wire.stream) = wire.stream[1] /\ Tail(wire.stream) \in Seq(Packets)
        /\ Chained(Tail(wire.stream))
        /\ Follow(wire.stream[1]) = {} <=> Tail(wire.stream) = <<>>
        /\ Tail(wire.stream) # <<>> => Tail(wire.stream)[1] \in Follow(wire.stream[1])
    BY <1>1, <1>2, RestFacts
  <1> DEFINE w == IF wire.stream[1] = "errReadOnly" THEN Shut(wire, conn) ELSE wire
  <1>5. wire' = [w EXCEPT !.stream = Tail(w.stream)]
    <2>1. wire.stream[1] = "errReadOnly" => call.mode # "drop"
      BY <1>1, <1>3 DEF Expected
    <2>2. QED
      BY <1>4, <2>1 DEF ReadPacket
  <1>6. /\ w \in Wires /\ w.stream = wire.stream /\ w.asked = None /\ w.ran = wire.ran
        /\ w.results = wire.results
        /\ w.link = IF wire.stream[1] = "errReadOnly" THEN Shut(wire, conn).link ELSE wire.link
    BY <1>1, <1>2, CleanupFacts DEF TypeOK
  <1> HIDE DEF w
  <1>7. /\ wire' \in Wires /\ wire'.stream = Tail(wire.stream) /\ wire'.asked = w.asked
        /\ wire'.ran = w.ran /\ wire'.results = w.results /\ wire'.link = w.link
    BY <1>4, <1>5, <1>6 DEF Wires
  <1>8. QED
    BY <1>1, <1>2, <1>3, <1>4, <1>6, <1>7

\* The invariant follows from where the caller goes with the rest of the answer.
LEMMA PacketKeeps ==
    ASSUME DInv, ReadPacket, call' \in Calls, conn' \in ConnStates,
           call'.pc \in {"read", "file", "rows", "copy", "finish"}, call'.n = call.n,
           call'.op = call.op,
           \/ /\ wire.stream[1] # "errReadOnly"
              /\ conn'.closed = conn.closed /\ conn'.closech = conn.closech
              /\ conn'.watching = conn.watching
           \/ wire.stream[1] = "errReadOnly" /\ conn' = Cleanup(conn),
           Tail(wire.stream) # <<>> => Tail(wire.stream)[1] \in Expected',
           call'.pc \notin {"finish", "rows"} => call'.ret = None,
           call'.ret = "bad" => wire.stream[1] = "errReadOnly",
           call'.rows # None => IsQuery(call.op),
           call'.pc = "rows" => HoldsRows',
           call'.pc = "read" => call'.mode # "row",
           call'.pc = "file" => wire.stream[1] = "infile",
           call'.pc = "file" \/ (call'.pc = "read" /\ call'.mode \in {"one", "skip"}) => ~Detached',
           call'.pc \in {"read", "file"} => call.op \notin {"ping", "prepare"}
    PROVE  TypeOK' /\ WatchInv' /\ StreamInv' /\ RanInv' /\ RowsInv'
PROOF
  <1>1. TypeOK /\ WatchInv /\ StreamInv /\ RanInv /\ RowsInv
    BY DEF DInv
  <1>2. UNCHANGED <<watcher, cancelled>> /\ call.pc = "read"
    BY DEF ReadPacket
  <1>3. TypeOK'
    BY <1>1, <1>2, PacketFacts DEF TypeOK
  <1>4. WatchInv'
    <2>1. call'.pc \in InCall
      BY DEF InCall
    <2>2. CASE wire.stream[1] # "errReadOnly"
      BY <1>1, <1>2, <2>1, <2>2, PacketFacts, WatchFrame
    <2>3. CASE wire.stream[1] = "errReadOnly"
      BY <1>1, <1>2, <2>1, <2>3, PacketFacts, WatchCleanup
    <2>4. QED
      BY <2>2, <2>3
  <1>5. StreamInv'
    BY PacketFacts DEF StreamInv
  <1>6. \A p : {"errReadOnly", "infile"} \cap Follow(p) = {}
    BY DEF Follow, FirstPackets, RowPackets
  <1>7. RanInv'
    <2>1. Tail(wire.stream) # <<>> => Tail(wire.stream)[1] \notin {"errReadOnly", "infile"}
      BY <1>6, PacketFacts
    <2>2. wire.stream[1] \in {"errReadOnly", "infile"} => wire.ran \subseteq SessionOnly
      BY <1>1, PacketFacts DEF RanInv
    <2>3. call.op \in SessionOnly => wire.ran \subseteq SessionOnly
      BY <1>1 DEF RanInv
    <2>4. QED
      BY <2>1, <2>2, <2>3, PacketFacts DEF RanInv
  <1>8. RowsInv'
    BY <1>1, <1>2 DEF RowsInv
  <1>9. QED
    BY <1>3, <1>4, <1>5, <1>7, <1>8

LEMMA AfterResultFacts ==
    ASSUME TypeOK, NEW more \in BOOLEAN, AfterResult(more)
    PROVE  /\ call' \in Calls
           /\ call'.n = call.n /\ call'.op = call.op /\ call'.ret = call.ret
           /\ more => call'.pc = call.pc /\ call'.mode = "header" /\ call'.rows = call.rows
           /\ ~more /\ IsQuery(call.op) /\ call.rows # "drain" =>
                call'.pc = "rows" /\ call'.mode = None /\ call'.rows = "end"
           /\ ~more /\ ~(IsQuery(call.op) /\ call.rows # "drain") =>
                call'.pc = "copy" /\ call'.mode = None /\ call'.rows = call.rows
PROOF
  BY DEF TypeOK, Calls, Modes, RowsStates, AfterResult

LEMMA NextEntryFacts ==
    ASSUME TypeOK, NEW more \in BOOLEAN, NextEntry(more)
    PROVE  /\ conn' \in ConnStates /\ conn'.result = conn.result + (IF more THEN 1 ELSE 0)
           /\ conn'.closed = conn.closed /\ conn'.closech = conn.closech
           /\ conn'.watching = conn.watching
PROOF
  <1> DEFINE entries == conn.result + IF more THEN 1 ELSE 0
  <1>1. conn' = [conn EXCEPT !.result = entries]
    BY DEF NextEntry
  <1>2. entries \in Nat
    BY DEF TypeOK, ConnStates
  <1> HIDE DEF entries
  <1>3. /\ conn' \in ConnStates /\ conn'.result = entries
        /\ conn'.closed = conn.closed /\ conn'.closech = conn.closech
        /\ conn'.watching = conn.watching
    BY <1>1, <1>2 DEF TypeOK, ConnStates
  <1>4. QED
    BY <1>3 DEF entries

\* An error packet ends the call, or is returned to the holder of the Rows; it
\* is the last one of an answer.
LEMMA ReadErrorStep ==
    ASSUME DInv, ReadPacket, wire.stream[1] \in {"err", "errReadOnly"}, call.mode # "drop",
           ReadError(wire.stream[1])
    PROVE  DInv'
PROOF
  <1>1. TypeOK /\ WatchInv /\ StreamInv /\ RanInv /\ RowsInv /\ CountInv
    BY DEF DInv
  <1>2. call.pc = "read" /\ Tail(wire.stream) = <<>>
    BY PacketFacts DEF Follow
  <1>3. /\ call' \in Calls /\ call'.n = call.n /\ call'.op = call.op
        /\ call'.pc = IF HoldsRows THEN "rows" ELSE "finish"
        /\ call'.ret = IF wire.stream[1] = "errReadOnly" THEN "bad" ELSE "err"
        /\ call'.rows = IF call.mode = "row" THEN "end"
                        ELSE IF HoldsRows THEN "open" ELSE call.rows
    <2> DEFINE ret == IF wire.stream[1] = "errReadOnly" THEN "bad" ELSE "err"
               rows == IF call.mode = "row" THEN "end" ELSE IF HoldsRows THEN "open" ELSE call.rows
               pc == IF HoldsRows THEN "rows" ELSE "finish"
    <2>1. /\ ret \in Errors \cup {None} /\ rows \in RowsStates \cup {None}
          /\ pc \in {"rows", "finish"}
      BY <1>1 DEF TypeOK, Calls, Errors, RowsStates
    <2>2. call' = [call EXCEPT !.pc = pc, !.mode = None, !.ret = ret, !.rows = rows]
      BY <1>1 DEF TypeOK, Calls, ReadError
    <2> HIDE DEF ret, rows, pc
    <2>3. /\ call' \in Calls /\ call'.n = call.n /\ call'.op = call.op
          /\ call'.pc = pc /\ call'.ret = ret /\ call'.rows = rows
      BY <1>1, <2>1, <2>2 DEF TypeOK, Calls
    <2>4. QED
      BY <2>3 DEF ret, rows, pc
  <1>4. conn' \in ConnStates
    BY <1>1, CleanupFacts DEF TypeOK, ReadError
  <1>5. call'.rows # None => IsQuery(call.op)
    <2>1. \A r \in {"open", "more", "end"} : r # None
      BY NoneFacts DEF RowsStates
    <2>2. QED
      BY <1>1, <1>2, <1>3, <2>1 DEF RowsInv, HoldsRows
  <1>6. call'.pc = "rows" => HoldsRows'
    BY <1>3 DEF HoldsRows
  <1>7. TypeOK' /\ WatchInv' /\ StreamInv' /\ RanInv' /\ RowsInv'
    <2>1. \/ /\ wire.stream[1] # "errReadOnly"
             /\ conn'.closed = conn.closed /\ conn'.closech = conn.closech
             /\ conn'.watching = conn.watching
          \/ wire.stream[1] = "errReadOnly" /\ conn' = Cleanup(conn)
      BY DEF ReadError
    <2>2. /\ call'.pc \in {"rows", "finish"}
          /\ call'.ret = "bad" => wire.stream[1] = "errReadOnly"
      BY <1>3
    <2>3. QED
      BY <1>2, <1>3, <1>4, <1>5, <1>6, <2>1, <2>2, PacketKeeps
  <1>8. CountInv'
    BY <1>3, QuietCount
  <1>9. QED
    BY <1>7, <1>8 DEF DInv

\* A result ends and the next one, if one is announced, is read.
LEMMA ResultEndsStep ==
    ASSUME DInv, ReadPacket, NEW more \in BOOLEAN, AfterResult(more), NextEntry(more),
           call.mode \in {"header", "skip", "one"}, call.op \notin {"ping", "prepare"},
           wire.stream[1] \in IF call.mode = "skip" THEN {"eof", "eofMore"} ELSE {"ok", "okMore"},
           more <=> wire.stream[1] \in {"okMore", "eofMore"}
    PROVE  DInv'
PROOF
  <1>1. TypeOK /\ WatchInv /\ StreamInv /\ RanInv /\ RowsInv /\ CountInv
    BY DEF DInv
  <1>2. call.pc = "read" /\ call.ret = None
    BY <1>1, PacketFacts DEF RanInv
  <1>3. /\ more => Follow(wire.stream[1]) = FirstPackets \ {"errReadOnly", "infile"}
        /\ ~more => Follow(wire.stream[1]) = {}
    BY DEF Follow
  <1>4. /\ more => Tail(wire.stream) # <<>>
        /\ Tail(wire.stream) # <<>> => more /\ Tail(wire.stream)[1] \in FirstPackets
    <2>1. FirstPackets \ {"errReadOnly", "infile"} # {}
      BY DEF FirstPackets
    <2>2. QED
      BY <1>3, <2>1, PacketFacts
  <1>a. more => ~Detached
    <2>1. call.mode = "header" /\ more => wire.stream[1] = "okMore" /\ wire.stream[1] \in Expected
      BY PacketFacts
    <2>2. QED
      BY <1>1, <1>2, <2>1 DEF RowsInv, Expected
  <1>5. more => Expected' = FirstPackets /\ ~Detached'
    BY <1>1, <1>2, <1>a, AfterResultFacts DEF Expected, Detached
  <1>6. /\ call'.rows # None => IsQuery(call.op)
        /\ call'.pc = "rows" => HoldsRows'
    BY <1>1, <1>2, AfterResultFacts DEF RowsInv, HoldsRows
  <1>7. TypeOK' /\ WatchInv' /\ StreamInv' /\ RanInv' /\ RowsInv'
    <2>1. /\ call' \in Calls /\ call'.pc \in {"read", "rows", "copy"} /\ call'.n = call.n
          /\ call'.op = call.op /\ call'.ret = None
          /\ call'.pc = "read" => call'.mode = "header"
      BY <1>1, <1>2, AfterResultFacts
    <2>2. wire.stream[1] # "errReadOnly"
      OBVIOUS
    <2>3. None # "bad"
      BY NoneFacts DEF Errors
    <2>4. QED
      BY <1>1, <1>4, <1>5, <1>6, <2>1, <2>2, <2>3, NextEntryFacts, PacketKeeps
  <1>8. CountInv'
    <2> SUFFICES ASSUME call.op \in {"exec", "stmtExec"}, call.n \notin cancelled
                 PROVE  CountInv'
      BY <1>1, AfterResultFacts DEF CountInv, ReadPacket
    <2>1. ~IsQuery(call.op)
      BY DEF IsQuery
    <2>2. /\ ~conn.closed /\ conn.result \in Nat /\ wire.results \in Nat
          /\ call.mode = "header" => conn.result + Coming(wire.stream) = wire.results + 1
          /\ call.mode = "skip" => conn.result + Coming(wire.stream) = wire.results
          /\ call.mode = "one" => conn.result + Coming(Tail(wire.stream)) = wire.results
      BY <1>1, <1>2, PacketFacts DEF CountInv, TypeOK, ConnStates, Wires
    <2>0. /\ Tail(wire.stream) \in Seq(Packets)
          /\ call.mode # "skip" => wire.stream[1] \in Headers
          /\ call.mode = "skip" => wire.stream[1] \notin Headers
      BY PacketFacts DEF Headers, Wires
    <2>3. /\ Coming(wire.stream) \in Nat /\ Coming(Tail(wire.stream)) \in Nat
          /\ call.mode = "header" => Coming(wire.stream) = Coming(Tail(wire.stream)) + 1
          /\ call.mode = "skip" => Coming(wire.stream) = Coming(Tail(wire.stream))
          /\ ~more /\ call.mode = "header" => Coming(wire.stream) = 1
          /\ ~more /\ call.mode = "skip" => Coming(wire.stream) = 0
          /\ ~more => Coming(Tail(wire.stream)) = 0
      <3>1. /\ wire.stream \in Seq(Packets) /\ wire.stream # <<>>
            /\ ~more => Tail(wire.stream) = <<>>
        BY <1>4, PacketFacts
      <3>2. Coming(wire.stream) \in Nat /\ Coming(Tail(wire.stream)) \in Nat
        BY <2>0, <3>1, ComingFacts
      <3>3. Coming(wire.stream) = Coming(Tail(wire.stream)) + (IF wire.stream[1] \in Headers THEN 1 ELSE 0)
        BY <3>1, ComingFacts
      <3>4. ~more => Coming(wire.stream) = IF wire.stream[1] \in Headers THEN 1 ELSE 0
        BY <3>1, ComingFacts
      <3>5. QED
        BY <2>0, <3>2, <3>3, <3>4
    <2>4. CASE more
      <3>1. conn'.result = conn.result + 1 /\ ~conn'.closed
        BY <1>1, <2>2, <2>4, NextEntryFacts
      <3>2. conn'.result + Coming(Tail(wire.stream)) = wire.results + 1
        BY <2>2, <2>3, <3>1
      <3>3. QED
        BY <1>1, <1>2, <2>4, <3>1, <3>2, PacketFacts, AfterResultFacts DEF CountInv
    <2>5. CASE ~more
      <3>1. conn'.result = conn.result /\ ~conn'.closed
        BY <1>1, <2>2, <2>5, NextEntryFacts
      <3>2. conn'.result = wire.results
        BY <2>2, <2>3, <2>5, <3>1
      <3>3. QED
        BY <1>1, <2>1, <2>5, <3>1, <3>2, PacketFacts, AfterResultFacts DEF CountInv
    <2>6. QED
      BY <2>4, <2>5
  <1>9. QED
    BY <1>7, <1>8 DEF DInv

\* A column count: a query returns its Rows, anything else reads on to the end.
LEMMA ReadColsStep ==
    ASSUME DInv, ReadPacket, wire.stream[1] = "cols", call.mode = "header", UNCHANGED conn,
           call' = IF IsQuery(call.op) /\ call.rows # "drain"
                   THEN [call EXCEPT !.pc = "rows", !.mode = None, !.rows = "open"]
                   ELSE [call EXCEPT !.mode = "skip"]
    PROVE  DInv'
PROOF
  <1>1. TypeOK /\ WatchInv /\ StreamInv /\ RanInv /\ RowsInv /\ CountInv
    BY DEF DInv
  <1>2. call.pc = "read" /\ call.ret = None
    BY <1>1, PacketFacts DEF RanInv
  <1>3. /\ call' \in Calls /\ call'.n = call.n /\ call'.op = call.op /\ call'.ret = None
        /\ \/ call'.pc = "rows" /\ call'.mode = None /\ call'.rows = "open" /\ IsQuery(call.op)
           \/ /\ call'.pc = "read" /\ call'.mode = "skip" /\ call'.rows = call.rows
              /\ ~(IsQuery(call.op) /\ call.rows # "drain")
    BY <1>1, <1>2 DEF TypeOK, Calls, Modes, RowsStates
  <1>4. Expected' = RowPackets
    BY <1>3 DEF Expected
  <1>5. /\ call'.rows # None => IsQuery(call.op)
        /\ call'.pc = "rows" => HoldsRows'
    BY <1>1, <1>3 DEF RowsInv, HoldsRows
  <1>6. TypeOK' /\ WatchInv' /\ StreamInv' /\ RanInv' /\ RowsInv'
    <2>1. Tail(wire.stream) # <<>> => Tail(wire.stream)[1] \in Expected'
      BY <1>4, PacketFacts DEF Follow
    <2>2. None # "bad" /\ conn' \in ConnStates
      BY <1>1, NoneFacts DEF Errors, TypeOK
    <2>3. call.op \notin {"ping", "prepare"}
      BY <1>1, <1>2 DEF RowsInv
    <2>4. call'.pc = "read" => ~Detached'
      BY <1>3, NoneFacts DEF Detached, IsQuery, RowsStates
    <2>5. QED
      BY <1>3, <1>5, <2>1, <2>2, <2>3, <2>4, PacketKeeps
  <1>7. CountInv'
    <2> SUFFICES ASSUME call.op \in {"exec", "stmtExec"}, call.n \notin cancelled
                 PROVE  CountInv'
      BY <1>3 DEF CountInv, ReadPacket
    <2>1. call'.pc = "read" /\ call'.mode = "skip"
      BY <1>3 DEF IsQuery
    <2>2. /\ ~conn.closed /\ conn.result \in Nat /\ wire.results \in Nat
          /\ conn.result + Coming(wire.stream) = wire.results + 1
      BY <1>1, <1>2, PacketFacts DEF CountInv, TypeOK, ConnStates, Wires
    <2>3. Tail(wire.stream) \in Seq(Packets) /\ wire.stream[1] \in Headers
      BY PacketFacts DEF Headers, Wires
    <2>4. Coming(wire.stream) = Coming(Tail(wire.stream)) + 1 /\ Coming(Tail(wire.stream)) \in Nat
      BY <2>3, PacketFacts, ComingFacts
    <2>5. conn.result + Coming(Tail(wire.stream)) = wire.results
      BY <2>2, <2>4
    <2>6. QED
      BY <1>3, <2>1, <2>2, <2>5, PacketFacts DEF CountInv
  <1>8. QED
    BY <1>6, <1>7 DEF DInv

\* The server asks for a file, and sends no more until it has it.
LEMMA ReadInfileStep ==
    ASSUME DInv, ReadPacket, wire.stream[1] = "infile", call.mode = "header", UNCHANGED conn,
           call' = [call EXCEPT !.pc = "file"]
    PROVE  DInv'
PROOF
  <1>1. TypeOK /\ WatchInv /\ StreamInv /\ RanInv /\ RowsInv /\ CountInv
    BY DEF DInv
  <1>2. call.pc = "read" /\ call.ret = None /\ Tail(wire.stream) = <<>>
    BY <1>1, PacketFacts DEF RanInv, Follow
  <1>3. /\ call' \in Calls /\ call'.n = call.n /\ call'.op = call.op /\ call'.ret = None
        /\ call'.pc = "file" /\ call'.rows = call.rows
    BY <1>1, <1>2 DEF TypeOK, Calls
  <1>4. TypeOK' /\ WatchInv' /\ StreamInv' /\ RanInv' /\ RowsInv'
    <2>1. None # "bad" /\ conn' \in ConnStates
      BY <1>1, NoneFacts DEF Errors, TypeOK
    <2>2. call'.rows # None => IsQuery(call.op)
      BY <1>1, <1>3 DEF RowsInv
    <2>3. ~Detached' /\ call.op \notin {"ping", "prepare"}
      <3>1. wire.stream[1] \in Expected
        BY PacketFacts
      <3>2. QED
        BY <1>1, <1>2, <1>3, <3>1 DEF RowsInv, Expected, Detached
    <2>4. QED
      BY <1>2, <1>3, <2>1, <2>2, <2>3, PacketKeeps
  <1>5. CountInv'
    <2> SUFFICES ASSUME call.op \in {"exec", "stmtExec"}, call.n \notin cancelled
                 PROVE  CountInv'
      BY <1>3 DEF CountInv, ReadPacket
    <2>1. /\ ~conn.closed /\ conn.result \in Nat /\ wire.results \in Nat
          /\ conn.result + Coming(wire.stream) = wire.results + 1
      BY <1>1, <1>2, PacketFacts DEF CountInv, TypeOK, ConnStates, Wires
    <2>2. Coming(wire.stream) = 1
      BY <1>2, PacketFacts, ComingFacts DEF Headers
    <2>3. conn.result = wire.results
      BY <2>1, <2>2
    <2>4. QED
      BY <1>3, <2>1, <2>3, PacketFacts DEF CountInv
  <1>6. QED
    BY <1>4, <1>5 DEF DInv

\* readUntilEOF drops a row.
LEMMA SkipRowStep ==
    ASSUME DInv, ReadPacket, wire.stream[1] = "row", call.mode = "skip", UNCHANGED <<call, conn>>
    PROVE  DInv'
PROOF
  <1>1. TypeOK /\ WatchInv /\ StreamInv /\ RanInv /\ RowsInv /\ CountInv
    BY DEF DInv
  <1>2. call.pc = "read" /\ call.ret = None
    BY <1>1, PacketFacts DEF RanInv
  <1>3. Tail(wire.stream) # <<>> /\ Tail(wire.stream)[1] \in Expected'
    <2>1. Follow(wire.stream[1]) = RowPackets /\ RowPackets # {}
      BY DEF Follow, RowPackets
    <2>2. Expected' = RowPackets
      BY <1>2 DEF Expected
    <2>3. QED
      BY <2>1, <2>2, PacketFacts
  <1>4. TypeOK' /\ WatchInv' /\ StreamInv' /\ RanInv' /\ RowsInv'
    <2>1. call' \in Calls /\ conn' \in ConnStates
      BY <1>1 DEF TypeOK
    <2>2. None # "bad" /\ call'.ret = None
      BY <1>2, NoneFacts DEF Errors
    <2>3. call'.rows # None => IsQuery(call.op)
      BY <1>1 DEF RowsInv
    <2>4. ~Detached' /\ call.op \notin {"ping", "prepare"}
      BY <1>1, <1>2 DEF RowsInv, Detached
    <2>5. QED
      BY <1>2, <1>3, <2>1, <2>2, <2>3, <2>4, PacketKeeps
  <1>5. CountInv'
    <2>1. Coming(Tail(wire.stream)) = Coming(wire.stream)
      <3>1. Tail(wire.stream) \in Seq(Packets) /\ wire.stream[1] \notin Headers
        BY PacketFacts DEF Headers, Wires
      <3>2. Coming(Tail(wire.stream)) \in Nat
        BY <3>1, ComingFacts
      <3>3. Coming(wire.stream) = Coming(Tail(wire.stream)) + 0
        BY <3>1, PacketFacts, ComingFacts
      <3>4. QED
        BY <3>2, <3>3
    <2>2. cancelled' = cancelled
      BY DEF ReadPacket
    <2>3. QED
      BY <1>1, <1>2, <2>1, <2>2, PacketFacts DEF CountInv
  <1>6. QED
    BY <1>4, <1>5 DEF DInv

\* Rows.Next reads a row, or the end of the result set.
LEMMA ReadRowStep ==
    ASSUME DInv, ReadPacket, call.mode = "row", ReadRow(wire.stream[1])
    PROVE  DInv'
PROOF
  <1>1. TypeOK /\ WatchInv /\ StreamInv /\ RanInv /\ RowsInv /\ CountInv
    BY DEF DInv
  <1>2. call.pc = "read" /\ call.ret = None /\ call.rows = "open" /\ IsQuery(call.op)
    <2>1. call.pc = "read" /\ call.ret = None /\ call.rows = "open"
      BY <1>1, PacketFacts DEF RanInv, RowsInv
    <2>2. call.rows # None
      BY <2>1, NoneFacts DEF RowsStates
    <2>3. QED
      BY <1>1, <2>1, <2>2 DEF RowsInv
  <1>3. conn' = conn /\ conn' \in ConnStates
    BY <1>1 DEF ReadRow, TypeOK
  <1>4. /\ call' \in Calls /\ call'.n = call.n /\ call'.op = call.op /\ call'.pc = "rows"
        /\ call'.ret \in {None, "err"} /\ HoldsRows'
        /\ Tail(wire.stream) # <<>> => Tail(wire.stream)[1] \in Expected'
    <2>1. CASE wire.stream[1] = "row"
      <3>1. PICK ret \in {None, "err"} : Ends(ret)
        BY <2>1 DEF ReadRow
      <3>2. HoldsRows
        BY <1>2 DEF HoldsRows
      <3>3. /\ call' \in Calls /\ call'.n = call.n /\ call'.op = call.op /\ call'.pc = "rows"
            /\ call'.ret = ret /\ call'.rows = "open" /\ HoldsRows'
        BY <1>1, <1>2, <3>1, <3>2, EndsFacts DEF Errors
      <3>4. Tail(wire.stream) # <<>> => Tail(wire.stream)[1] \in Expected'
        BY <2>1, <3>3, PacketFacts DEF Expected, Follow
      <3>5. QED
        BY <3>3, <3>4
    <2>2. CASE wire.stream[1] = "eof"
      <3>1. call' = [call EXCEPT !.pc = "rows", !.mode = None, !.rows = "end"]
        BY <2>2 DEF ReadRow
      <3>2. /\ call' \in Calls /\ call'.n = call.n /\ call'.op = call.op /\ call'.pc = "rows"
            /\ call'.ret = call.ret /\ call'.rows = "end"
        BY <1>1, <3>1 DEF TypeOK, Calls, RowsStates
      <3>3. QED
        BY <1>2, <2>2, <3>2, PacketFacts DEF Follow, HoldsRows
    <2>3. CASE wire.stream[1] = "eofMore"
      <3>1. call' = [call EXCEPT !.pc = "rows", !.mode = None, !.rows = "more"]
        BY <2>3 DEF ReadRow
      <3>2. /\ call' \in Calls /\ call'.n = call.n /\ call'.op = call.op /\ call'.pc = "rows"
            /\ call'.ret = call.ret /\ call'.rows = "more"
        BY <1>1, <3>1 DEF TypeOK, Calls, RowsStates
      <3>3. QED
        BY <1>2, <2>3, <3>2, PacketFacts DEF Follow, HoldsRows, Expected
    <2>4. QED
      BY <2>1, <2>2, <2>3 DEF ReadRow
  <1>5. TypeOK' /\ WatchInv' /\ StreamInv' /\ RanInv' /\ RowsInv'
    <2>1. call'.ret # "bad" /\ wire.stream[1] # "errReadOnly"
      BY <1>4, NoneFacts DEF Errors, ReadRow
    <2>2. QED
      BY <1>2, <1>3, <1>4, <2>1, PacketKeeps
  <1>6. CountInv'
    BY <1>4, QuietCount
  <1>7. QED
    BY <1>5, <1>6 DEF DInv

\* An answer of one packet, or what follows a file that could not be sent.
LEMMA ReadOneStep ==
    ASSUME DInv, ReadPacket, call.mode \in {"one", "drop"}, ReadOne(wire.stream[1]),
           ~(wire.stream[1] \in {"err", "errReadOnly"} /\ call.mode # "drop"),
           call.mode = "drop" \/ call.op \in {"ping", "prepare"}
    PROVE  DInv'
PROOF
  <1>1. TypeOK /\ WatchInv /\ StreamInv /\ RanInv /\ RowsInv /\ CountInv
    BY DEF DInv
  <1>2. /\ call.pc = "read" /\ call.ret = None /\ wire.stream[1] \in {"ok", "stmt", "err"}
        /\ Tail(wire.stream) = <<>>
    <2>1. call.pc = "read" /\ call.ret = None
      BY <1>1, PacketFacts DEF RanInv
    <2>2. wire.stream[1] \in {"ok", "stmt", "err"}
      BY <2>1, PacketFacts DEF Expected, SinglePackets
    <2>3. QED
      BY <2>1, <2>2, PacketFacts DEF Follow
  <1>3. conn' = conn /\ conn' \in ConnStates
    BY <1>1 DEF ReadOne, TypeOK
  <1>4. /\ call' \in Calls /\ call'.n = call.n /\ call'.op = call.op
        /\ call'.pc \in {"rows", "finish", "copy"}
        /\ call'.pc = "copy" => call'.ret = None /\ call.op \in {"ping", "prepare"}
        /\ call'.ret # "bad"
        /\ call'.rows = call.rows
        /\ call'.pc = "rows" => HoldsRows'
    <2>1. CASE call.mode = "drop"
      BY <1>1, <2>1, EndsFacts DEF ReadOne, Errors
    <2>2. CASE call.mode # "drop" /\ call.op \in {"ping", "prepare"}
      <3>1. call' = [call EXCEPT !.pc = "copy", !.mode = None]
        BY <2>2 DEF ReadOne
      <3>2. /\ call' \in Calls /\ call'.n = call.n /\ call'.op = call.op /\ call'.pc = "copy"
            /\ call'.ret = call.ret /\ call'.rows = call.rows
        BY <1>1, <3>1 DEF TypeOK, Calls
      <3>3. QED
        BY <1>2, <2>2, <3>2, NoneFacts DEF Errors
    <2>3. QED
      BY <2>1, <2>2
  <1>5. TypeOK' /\ WatchInv' /\ StreamInv' /\ RanInv' /\ RowsInv'
    <2>1. call'.rows # None => IsQuery(call.op)
      BY <1>1, <1>4 DEF RowsInv
    <2>2. QED
      BY <1>2, <1>3, <1>4, <2>1, PacketKeeps
  <1>6. CountInv'
    BY <1>1, <1>2, <1>3, <1>4, PacketFacts DEF CountInv, ReadPacket
  <1>7. QED
    BY <1>5, <1>6 DEF DInv

LEMMA ReadPacketStep ==
    ASSUME DInv, ReadPacket
    PROVE  DInv'
PROOF
  <1> DEFINE p == wire.stream[1]
             error == p \in {"err", "errReadOnly"} /\ call.mode # "drop"
  <1>1. wire.stream \in Seq(Packets) /\ wire.stream # <<>>
    BY PacketFacts
  <1>2. Head(wire.stream) = p
    BY <1>1
  <1>a. call.pc = "read" /\ RowsInv
    BY DEF DInv, ReadPacket
  <1>b. p \in Expected
    BY PacketFacts
  <1>c. call.mode \in {"header", "skip"} => call.op \notin {"ping", "prepare"}
    BY <1>a DEF RowsInv
  <1>3. \/ error /\ ReadError(p)
        \/ ~error /\ call.mode = "header" /\ ReadHeader(p)
        \/ ~error /\ call.mode = "skip" /\ SkipRows(p)
        \/ ~error /\ call.mode = "row" /\ ReadRow(p)
        \/ ~error /\ call.mode \in {"one", "drop"} /\ ReadOne(p)
    BY <1>2 DEF ReadPacket
  <1>4. CASE error /\ ReadError(p)
    BY <1>4, ReadErrorStep
  <1>5. CASE call.mode = "header" /\ ReadHeader(p)
    <2>1. CASE p \in {"ok", "okMore"} /\ AfterResult(GoesOn(p)) /\ NextEntry(GoesOn(p))
      <3>1. GoesOn(p) <=> p = "okMore"
        BY <1>5, <1>a, <1>b DEF Expected, Detached, GoesOn
      <3>2. GoesOn(p) \in BOOLEAN
        BY DEF GoesOn
      <3>3. QED
        BY <1>5, <1>c, <2>1, <3>1, <3>2, ResultEndsStep
    <2>2. CASE p = "cols"
      BY <1>5, <2>2, ReadColsStep DEF ReadHeader
    <2>3. CASE p = "infile"
      BY <1>5, <2>3, ReadInfileStep DEF ReadHeader
    <2>4. QED
      BY <1>5, <2>1, <2>2, <2>3 DEF ReadHeader
  <1>6. CASE call.mode = "skip" /\ SkipRows(p)
    <2>1. CASE p \in {"eof", "eofMore"} /\ AfterResult(p = "eofMore") /\ NextEntry(p = "eofMore")
      BY <1>6, <1>c, <2>1, ResultEndsStep
    <2>2. CASE p = "row"
      BY <1>6, <2>2, SkipRowStep DEF SkipRows
    <2>3. QED
      BY <1>6, <2>1, <2>2 DEF SkipRows
  <1>7. CASE call.mode = "row" /\ ReadRow(p)
    BY <1>7, ReadRowStep
  <1>8. CASE ~error /\ call.mode \in {"one", "drop"} /\ ReadOne(p)
    <2>1. CASE call.mode = "drop" \/ call.op \in {"ping", "prepare"}
      BY <1>8, <2>1, ReadOneStep
    <2>2. CASE call.mode = "one" /\ call.op \notin {"ping", "prepare"}
      <3>1. AfterResult(GoesOn(p)) /\ NextEntry(GoesOn(p))
        BY <1>8, <2>2 DEF ReadOne
      <3>2. GoesOn(p) \in BOOLEAN
        BY DEF GoesOn
      <3>3. p \in {"ok", "okMore"} /\ (GoesOn(p) <=> p = "okMore")
        BY <1>8, <1>a, <1>b, <2>2 DEF Expected, FilePackets, RowsInv, Detached, GoesOn
      <3>4. QED
        BY <2>2, <3>1, <3>2, <3>3, ResultEndsStep
    <2>3. QED
      BY <1>8, <2>1, <2>2
  <1>9. QED
    BY <1>3, <1>4, <1>5, <1>6, <1>7, <1>8

LEMMA CopyResultStep ==
    ASSUME DInv, CopyResult
    PROVE  DInv'
PROOF
  <1>1. TypeOK /\ WatchInv /\ StreamInv /\ RanInv /\ RowsInv /\ CountInv
    BY DEF DInv
  <1>2. call.pc = "copy" /\ call.ret = None /\ wire.stream = <<>> /\ wire.asked = None
    BY <1>1 DEF CopyResult, RanInv, StreamInv, Expected
  <1>3. CASE call.op = "beginLevel"
    <2>0. "begin" \in Ops
      BY <1>1, <1>2, <1>3, DriverAssumption DEF RowsInv
    <2>1. /\ call' = [call EXCEPT !.op = "begin", !.pc = "check"]
          /\ wire' = [wire EXCEPT !.results = 0]
      BY <1>3 DEF CopyResult
    <2>2. /\ call' \in Calls /\ call'.n = call.n /\ call'.op = "begin" /\ call'.pc = "check"
          /\ call'.ret = call.ret /\ call'.rows = call.rows
      BY <1>1, <2>0, <2>1 DEF TypeOK, Calls
    <2>3. /\ wire' \in Wires /\ wire'.link = wire.link /\ wire'.stream = wire.stream
          /\ wire'.asked = wire.asked /\ wire'.ran = wire.ran
      BY <1>1, <2>1 DEF TypeOK, Wires
    <2>4. TypeOK'
      BY <1>1, <2>2, <2>3 DEF TypeOK, CopyResult
    <2>5. WatchInv'
      BY <1>1, <2>2, <2>3, WatchFrame DEF CopyResult, InCall
    <2>6. StreamInv'
      BY <1>2, <2>2, <2>3, EmptyFacts DEF StreamInv
    <2>7. RanInv' /\ RowsInv'
      BY <1>1, <1>2, <1>3, <2>0, <2>2, <2>3 DEF RanInv, RowsInv, IsQuery, SessionOnly
    <2>8. QED
      BY <2>2, <2>4, <2>5, <2>6, <2>7, QuietCount DEF DInv
  <1>4. CASE call.op # "beginLevel"
    <2>1. Ends(None) /\ wire' = wire
      BY <1>4 DEF CopyResult
    <2>2. /\ call' \in Calls /\ call'.n = call.n /\ call'.op = call.op
          /\ call'.pc \in {"rows", "finish"} /\ call'.ret = None /\ call'.rows = call.rows
          /\ call'.pc = "rows" => HoldsRows'
      BY <1>1, <2>1, EndsFacts
    <2>3. TypeOK'
      BY <1>1, <2>1, <2>2 DEF TypeOK, CopyResult
    <2>4. WatchInv'
      BY <1>1, <2>1, <2>2, WatchFrame DEF CopyResult, InCall
    <2>5. StreamInv'
      BY <1>2, <2>1, <2>2, EmptyFacts DEF StreamInv
    <2>6. RanInv' /\ RowsInv'
      <3>1. None # "bad"
        BY NoneFacts DEF Errors
      <3>2. QED
        BY <1>1, <1>2, <2>1, <2>2, <3>1 DEF RanInv, RowsInv
    <2>7. QED
      BY <2>2, <2>3, <2>4, <2>5, <2>6, QuietCount DEF DInv
  <1>5. QED
    BY <1>3, <1>4

-----------------------------------------------------------------------------
(***************************************************************************)
(* Rows.                                                                   *)
(***************************************************************************)

\* A call on the Rows of a connection that is closed.
LEMMA RowsErrorStep ==
    ASSUME DInv, call.pc = "rows", call' = [call EXCEPT !.ret = ConnError],
           UNCHANGED <<conn, watcher, wire, cancelled>>
    PROVE  DInv'
PROOF
  <1>1. TypeOK /\ WatchInv /\ StreamInv /\ RanInv /\ RowsInv /\ CountInv
    BY DEF DInv
  <1>2. ConnError \in {None, "ctx", "invalid"} /\ None # "bad"
    BY <1>1, ErrorFacts, NoneFacts DEF Errors
  <1>3. /\ call' \in Calls /\ call'.n = call.n /\ call'.op = call.op /\ call'.pc = call.pc
        /\ call'.ret = ConnError /\ call'.rows = call.rows /\ call'.mode = call.mode
    BY <1>1, <1>2 DEF TypeOK, Calls, Errors
  <1>4. TypeOK' /\ WatchInv'
    BY <1>1, <1>3, WatchFrame DEF TypeOK
  <1>5. StreamInv'
    BY <1>1, <1>3 DEF StreamInv, Expected
  <1>6. RanInv' /\ RowsInv'
    BY <1>1, <1>2, <1>3 DEF RanInv, RowsInv, HoldsRows
  <1>7. QED
    BY <1>3, <1>4, <1>5, <1>6, QuietCount DEF DInv

\* A call on the Rows, or their Close, reads on where the Rows have stopped.
LEMMA RowsReadStep ==
    ASSUME DInv, call.pc \in {"rows", "finish"}, call.rows \in {"open", "more"}, ~conn.closed,
           call' \in Calls, call'.n = call.n, call'.op = call.op, call'.pc = "read",
           call'.ret = None, call'.rows \in {"open", "more", "drain"},
           call'.mode \in IF call.rows = "open" THEN {"row", "skip"} ELSE {"header"},
           call'.mode = "row" => call'.rows = "open",
           conn' \in ConnStates, wire' = wire, TypeOK', WatchInv'
    PROVE  DInv'
PROOF
  <1>1. StreamInv /\ RanInv /\ RowsInv
    BY DEF DInv
  <1>2. call.rows # None /\ None # "bad"
    BY NoneFacts DEF RowsStates, Errors
  <1>3. Expected' = Expected
    BY <1>2, NoneFacts DEF Expected, Detached, RowsStates
  <1>4. StreamInv'
    <2>1. wire.asked = None
      BY <1>1 DEF StreamInv
    <2>2. wire.stream # <<>> => wire.stream[1] \in Expected
      BY <1>1 DEF StreamInv, DInv, WatchInv
    <2>3. QED
      BY <1>1, <1>3, <2>1, <2>2 DEF StreamInv
  <1>5. RanInv' /\ RowsInv'
    BY <1>1, <1>2, NoneFacts DEF RanInv, RowsInv, Detached, IsQuery, RowsStates
  <1>6. CountInv'
    <2>1. call'.op \notin {"exec", "stmtExec"}
      BY <1>1, <1>2 DEF RowsInv, IsQuery
    <2>2. QED
      BY <2>1 DEF CountInv
  <1>7. QED
    BY <1>4, <1>5, <1>6 DEF DInv

LEMMA RowsNextStep ==
    ASSUME DInv, RowsNext
    PROVE  DInv'
PROOF
  <1>1. TypeOK /\ WatchInv /\ call.pc = "rows" /\ call.rows = "open" /\ call.ret = None
    BY DEF DInv, RowsNext
  <1>2. CASE conn.closed
    BY <1>1, <1>2, RowsErrorStep DEF RowsNext
  <1>3. CASE ~conn.closed
    <2>1. call' = [call EXCEPT !.pc = "read", !.mode = "row"]
      BY <1>3 DEF RowsNext
    <2>2. /\ call' \in Calls /\ call'.n = call.n /\ call'.op = call.op /\ call'.pc = "read"
          /\ call'.ret = call.ret /\ call'.rows = call.rows /\ call'.mode = "row"
      BY <1>1, <2>1 DEF TypeOK, Calls, Modes
    <2>3. TypeOK'
      BY <1>1, <2>2 DEF TypeOK, RowsNext
    <2>4. WatchInv'
      BY <1>1, <2>2, WatchFrame DEF InCall, RowsNext
    <2>5. QED
      BY <1>1, <1>3, <2>2, <2>3, <2>4, RowsReadStep DEF RowsNext, TypeOK
  <1>4. QED
    BY <1>2, <1>3

LEMMA NextResultSetStep ==
    ASSUME DInv, NextResultSet
    PROVE  DInv'
PROOF
  <1>1. /\ TypeOK /\ WatchInv /\ call.pc = "rows" /\ call.rows \in {"open", "more"}
        /\ call.ret = None
    BY DEF DInv, NextResultSet
  <1>2. CASE conn.closed
    BY <1>1, <1>2, RowsErrorStep DEF NextResultSet
  <1>3. CASE ~conn.closed
    <2> DEFINE mode == IF call.rows = "open" THEN "skip" ELSE "header"
    <2>1. /\ call' = [call EXCEPT !.pc = "read", !.mode = mode]
          /\ NextEntry(call.rows = "more")
      BY <1>3 DEF NextResultSet
    <2>2. mode \in Modes
      BY DEF Modes
    <2> HIDE DEF mode
    <2>3. /\ call' \in Calls /\ call'.n = call.n /\ call'.op = call.op /\ call'.pc = "read"
          /\ call'.ret = call.ret /\ call'.rows = call.rows /\ call'.mode = mode
      BY <1>1, <2>1, <2>2 DEF TypeOK, Calls
    <2>4. /\ conn' \in ConnStates
          /\ conn'.closed = conn.closed /\ conn'.closech = conn.closech
          /\ conn'.watching = conn.watching
      BY <1>1, <2>1, NextEntryFacts
    <2>5. TypeOK'
      BY <1>1, <2>3, <2>4 DEF TypeOK, NextResultSet
    <2>6. WatchInv'
      BY <1>1, <2>3, <2>4, WatchFrame DEF InCall, NextResultSet
    <2>7. /\ call'.mode \in IF call.rows = "open" THEN {"row", "skip"} ELSE {"header"}
          /\ call'.mode # "row"
      BY <2>3 DEF mode
    <2>8. QED
      BY <1>1, <1>3, <2>3, <2>4, <2>5, <2>6, <2>7, RowsReadStep DEF NextResultSet
  <1>4. QED
    BY <1>2, <1>3

LEMMA RowsCloseStep ==
    ASSUME DInv, RowsClose
    PROVE  DInv'
PROOF
  <1>1. TypeOK /\ WatchInv /\ StreamInv /\ RanInv /\ RowsInv /\ CountInv
    BY DEF DInv
  <1>2. /\ call' \in Calls /\ call'.n = call.n /\ call'.op = call.op /\ call'.pc = "finish"
        /\ call'.ret = call.ret /\ call'.rows = call.rows /\ call.pc = "rows"
    BY <1>1 DEF TypeOK, Calls, RowsClose
  <1>3. TypeOK'
    BY <1>1, <1>2 DEF TypeOK, RowsClose
  <1>4. WatchInv'
    BY <1>1, <1>2, WatchFrame DEF InCall, RowsClose
  <1>5. StreamInv'
    BY <1>1, <1>2 DEF StreamInv, Expected, RowsClose
  <1>6. RanInv' /\ RowsInv'
    BY <1>1, <1>2 DEF RanInv, RowsInv, RowsClose
  <1>7. QED
    BY <1>2, <1>3, <1>4, <1>5, <1>6, QuietCount DEF DInv

\* The watcher after finish: it has let go of the context, or the connection is
\* closed; the caller is no longer in the call, or goes on as the same call.
LEMMA FinishConn ==
    ASSUME DInv, Finish
    PROVE  /\ conn' \in ConnStates /\ watcher' \in Watchers
           /\ conn'.closed = conn.closed /\ conn'.closech = conn.closech
           /\ \/ /\ watcher' = watcher /\ conn'.watching = conn.watching
                 /\ conn.watching => conn.closech
              \/ /\ conn.watching /\ watcher.pc = "watch" /\ ~conn'.watching
                 /\ watcher'.pc = "idle" /\ watcher'.chan = watcher.chan
PROOF
  <1>1. TypeOK
    BY DEF DInv
  <1>2. ReturnResult \in Nat
    BY <1>1 DEF TypeOK, ConnStates, ReturnResult
  <1>3. CASE /\ ~conn.watching \/ conn.closech
             /\ conn' = [conn EXCEPT !.result = ReturnResult]
             /\ UNCHANGED watcher
    BY <1>1, <1>2, <1>3 DEF TypeOK, ConnStates
  <1>4. CASE /\ conn.watching /\ watcher.pc = "watch"
             /\ conn' = [conn EXCEPT !.watching = FALSE, !.result = ReturnResult]
             /\ watcher' = [watcher EXCEPT !.pc = "idle"]
    <2>1. /\ conn' \in ConnStates /\ ~conn'.watching
          /\ conn'.closed = conn.closed /\ conn'.closech = conn.closech
      BY <1>1, <1>2, <1>4 DEF TypeOK, ConnStates
    <2>2. watcher' \in Watchers /\ watcher'.pc = "idle" /\ watcher'.chan = watcher.chan
      BY <1>1, <1>4 DEF TypeOK, Watchers
    <2>3. QED
      BY <1>4, <2>1, <2>2
  <1>5. QED
    BY <1>3, <1>4 DEF Finish

LEMMA FinishStep ==
    ASSUME DInv, Finish
    PROVE  DInv'
PROOF
  <1>1. TypeOK /\ WatchInv /\ StreamInv /\ RanInv /\ RowsInv /\ CountInv
    BY DEF DInv
  <1>2. call.pc = "finish" /\ UNCHANGED <<wire, cancelled>>
    BY DEF Finish
  <1>3. ASSUME call'.n = call.n, call'.pc \in {"idle", "after", "read"}
        PROVE  WatchInv'
    BY <1>1, <1>2, <1>3, FinishConn DEF WatchInv, InCall
  <1>4. CASE call.rows \in {"open", "more"} /\ ~conn.closed
    <2> DEFINE mode == IF call.rows = "open" THEN "skip" ELSE "header"
    <2>1. call' = [call EXCEPT !.pc = "read", !.ret = None, !.rows = "drain", !.mode = mode]
      BY <1>4 DEF Finish, Return
    <2>2. mode \in Modes
      BY DEF Modes
    <2> HIDE DEF mode
    <2>3. /\ call' \in Calls /\ call'.n = call.n /\ call'.op = call.op /\ call'.pc = "read"
          /\ call'.ret = None /\ call'.rows = "drain" /\ call'.mode = mode
      BY <1>1, <2>1, <2>2 DEF TypeOK, Calls, RowsStates
    <2>4. TypeOK' /\ WatchInv'
      BY <1>1, <1>2, <1>3, <2>3, FinishConn DEF TypeOK
    <2>5. /\ call'.mode \in IF call.rows = "open" THEN {"row", "skip"} ELSE {"header"}
          /\ call'.mode # "row"
      BY <2>3 DEF mode
    <2>6. QED
      BY <1>2, <1>4, <2>3, <2>4, <2>5, FinishConn, RowsReadStep
  <1>5. CASE ~(call.rows \in {"open", "more"} /\ ~conn.closed)
    <2>1. ConnError \in {None, "ctx", "invalid"} /\ None # "bad"
      BY <1>1, ErrorFacts, NoneFacts DEF Errors
    <2>2. \/ call' = [call EXCEPT !.pc = "idle", !.ret = ConnError]
          \/ call' = [call EXCEPT !.pc = "idle"]
          \/ call' = [call EXCEPT !.pc = "after"] /\ call.ret = None
      BY <1>5 DEF Finish, Return
    <2>3. /\ call' \in Calls /\ call'.n = call.n /\ call'.op = call.op
          /\ call'.pc \in {"idle", "after"} /\ call'.rows = call.rows
          /\ call'.ret \in {call.ret, ConnError}
          /\ call'.pc = "after" => call'.ret = None
      BY <1>1, <2>1, <2>2 DEF TypeOK, Calls, Errors
    <2>4. TypeOK' /\ WatchInv'
      BY <1>1, <1>2, <1>3, <2>3, FinishConn DEF TypeOK
    <2>5. wire.asked = None /\ (wire.link # "shut" => wire.stream = <<>>)
      <3>1. conn.closed => wire.link = "shut"
        BY <1>1, FinishConn DEF WatchInv
      <3>2. QED
        BY <1>1, <1>2, <1>5, <3>1 DEF StreamInv, Expected
    <2>6. StreamInv'
      BY <1>1, <1>2, <2>3, <2>5, QuietStream DEF StreamInv
    <2>7. RanInv' /\ RowsInv'
      BY <1>1, <1>2, <2>1, <2>3 DEF RanInv, RowsInv
    <2>8. QED
      BY <2>3, <2>4, <2>6, <2>7, QuietCount DEF DInv
  <1>6. QED
    BY <1>4, <1>5

LEMMA PrepareReturnsStep ==
    ASSUME DInv, PrepareReturns
    PROVE  DInv'
PROOF
  <1>1. TypeOK /\ WatchInv /\ StreamInv /\ RanInv /\ RowsInv /\ CountInv
    BY DEF DInv
  <1>2. /\ call' \in Calls /\ call'.n = call.n /\ call'.op = call.op /\ call'.pc = "idle"
        /\ call'.ret \in {None, "ctx"} /\ call'.rows = call.rows /\ call.pc = "after"
    BY <1>1 DEF TypeOK, Calls, Errors, PrepareReturns
  <1>3. TypeOK'
    BY <1>1, <1>2 DEF TypeOK, PrepareReturns
  <1>4. WatchInv'
    BY <1>1, <1>2 DEF WatchInv, InCall, PrepareReturns
  <1>5. StreamInv'
    BY <1>1, <1>2, QuietFacts, QuietStream DEF StreamInv, PrepareReturns
  <1>6. RanInv' /\ RowsInv'
    <2>1. None # "bad"
      BY NoneFacts DEF Errors
    <2>2. QED
      BY <1>1, <1>2, <2>1 DEF RanInv, RowsInv, PrepareReturns
  <1>7. QED
    BY <1>2, <1>3, <1>4, <1>5, <1>6, QuietCount DEF DInv

LEMMA CloseStep ==
    ASSUME DInv, Close
    PROVE  DInv'
PROOF
  <1>1. TypeOK /\ WatchInv /\ StreamInv /\ RanInv /\ RowsInv /\ CountInv
    BY DEF DInv
  <1>2. /\ call.pc = "idle" /\ call' = call /\ watcher' = watcher /\ cancelled' = cancelled
        /\ conn' = Cleanup(conn) /\ wire' = Shut(wire, conn) /\ ~conn.closed
    BY DEF Close, GiveUp
  <1>3. TypeOK'
    BY <1>1, <1>2, CleanupFacts DEF TypeOK
  <1>4. WatchInv'
    BY <1>1, <1>2, WatchCleanup
  <1>5. StreamInv'
    BY <1>1, <1>2, CleanupFacts, QuietStream DEF StreamInv
  <1>6. RanInv' /\ RowsInv'
    BY <1>1, <1>2, CleanupFacts DEF RanInv, RowsInv, HoldsRows
  <1>7. QED
    BY <1>2, <1>3, <1>4, <1>5, <1>6, QuietCount DEF DInv

-----------------------------------------------------------------------------
(***************************************************************************)
(* The watcher.                                                            *)
(***************************************************************************)

LEMMA TakeContextStep ==
    ASSUME DInv, TakeContext
    PROVE  DInv'
PROOF
  <1>1. TypeOK /\ WatchInv /\ StreamInv /\ RanInv /\ RowsInv /\ CountInv
    BY DEF DInv
  <1>2. watcher.chan \in Seq(1..MaxCalls) /\ watcher.chan # <<>>
    BY <1>1 DEF TypeOK, Watchers, TakeContext
  <1>3. /\ Head(watcher.chan) \in 1..MaxCalls /\ Tail(watcher.chan) \in Seq(1..MaxCalls)
        /\ \A e : watcher.chan = <<e>> => Head(watcher.chan) = e /\ Tail(watcher.chan) = <<>>
    <2>1. Head(watcher.chan) \in 1..MaxCalls /\ Tail(watcher.chan) \in Seq(1..MaxCalls)
      BY <1>2, HeadTailFacts
    <2>2. \A e : Head(<<e>>) = e /\ Tail(<<e>>) = <<>>
      OBVIOUS
    <2>3. QED
      BY <2>1, <2>2
  <1>4. /\ watcher' \in Watchers /\ watcher'.pc = "watch"
        /\ watcher'.ctx = Head(watcher.chan) /\ watcher'.chan = Tail(watcher.chan)
    BY <1>3 DEF TakeContext, Watchers
  <1>5. TypeOK'
    BY <1>1, <1>4 DEF TypeOK, TakeContext
  <1>6. WatchInv'
    BY <1>1, <1>2, <1>3, <1>4 DEF WatchInv, InCall, TakeContext
  <1>7. StreamInv' /\ RanInv' /\ RowsInv' /\ CountInv'
    BY <1>1, CallerFrame DEF TakeContext
  <1>8. QED
    BY <1>5, <1>6, <1>7 DEF DInv

LEMMA WatcherEndsStep ==
    ASSUME DInv, WatcherEnds
    PROVE  DInv'
PROOF
  <1>1. TypeOK /\ WatchInv /\ StreamInv /\ RanInv /\ RowsInv /\ CountInv
    BY DEF DInv
  <1>2. watcher' \in Watchers /\ watcher'.pc = "ended"
    BY <1>1 DEF TypeOK, Watchers, WatcherEnds
  <1>3. TypeOK'
    BY <1>1, <1>2 DEF TypeOK, WatcherEnds
  <1>4. WatchInv'
    BY <1>1, <1>2 DEF WatchInv, WatcherEnds
  <1>5. StreamInv' /\ RanInv' /\ RowsInv' /\ CountInv'
    BY <1>1, CallerFrame DEF WatcherEnds
  <1>6. QED
    BY <1>3, <1>4, <1>5 DEF DInv

LEMMA SeeCancelStep ==
    ASSUME DInv, SeeCancel
    PROVE  DInv'
PROOF
  <1>1. TypeOK /\ WatchInv /\ StreamInv /\ RanInv /\ RowsInv /\ CountInv
    BY DEF DInv
  <1>2. /\ watcher' \in Watchers /\ watcher'.pc = "swap" /\ watcher'.ctx = watcher.ctx
        /\ watcher'.chan = watcher.chan
    BY <1>1 DEF TypeOK, Watchers, SeeCancel
  <1>3. /\ conn' \in ConnStates /\ conn'.closed = conn.closed /\ conn'.closech = conn.closech
        /\ conn'.watching = conn.watching /\ conn'.result = conn.result
    BY <1>1 DEF TypeOK, Watchers, ConnStates, SeeCancel
  <1>4. TypeOK'
    BY <1>1, <1>2, <1>3 DEF TypeOK, SeeCancel
  <1>5. WatchInv'
    BY <1>1, <1>2, <1>3 DEF WatchInv, SeeCancel
  <1>6. StreamInv' /\ RanInv' /\ RowsInv' /\ CountInv'
    BY <1>1, <1>3, CallerFrame DEF SeeCancel
  <1>7. QED
    BY <1>4, <1>5, <1>6 DEF DInv

\* Only a cancelled call sees closed set under it.
LEMMA SwapClosedStep ==
    ASSUME DInv, SwapClosed
    PROVE  DInv'
PROOF
  <1>1. TypeOK /\ WatchInv /\ StreamInv /\ RanInv /\ RowsInv /\ CountInv
    BY DEF DInv
  <1>2. /\ watcher' \in Watchers /\ watcher'.pc = (IF conn.closed THEN "idle" ELSE "close")
        /\ watcher'.ctx = watcher.ctx /\ watcher'.chan = watcher.chan
    BY <1>1 DEF TypeOK, Watchers, SwapClosed
  <1>3. /\ conn' \in ConnStates /\ conn'.closed = TRUE /\ conn'.closech = conn.closech
        /\ conn'.watching = conn.watching /\ conn'.result = conn.result
    BY <1>1 DEF TypeOK, ConnStates, SwapClosed
  <1>4. TypeOK'
    BY <1>1, <1>2, <1>3 DEF TypeOK, SwapClosed
  <1>5. WatchInv'
    BY <1>1, <1>2, <1>3 DEF WatchInv, SwapClosed
  <1>6. CASE conn.closed
    <2>1. StreamInv' /\ RanInv' /\ RowsInv' /\ CountInv'
      <3>1. conn'.closed = conn.closed
        BY <1>1, <1>3, <1>6 DEF TypeOK, ConnStates
      <3>2. QED
        BY <1>1, <1>3, <3>1, CallerFrame DEF SwapClosed
    <2>2. QED
      BY <1>4, <1>5, <2>1 DEF DInv
  <1>7. CASE ~conn.closed
    <2>1. call.n \in cancelled
      BY <1>1, <1>7 DEF WatchInv, SwapClosed
    <2>2. CountInv'
      BY <2>1 DEF CountInv, SwapClosed
    <2>3. StreamInv' /\ RanInv' /\ RowsInv'
      BY <1>1 DEF StreamInv, Expected, RanInv, RowsInv, HoldsRows, Detached, SwapClosed
    <2>4. QED
      BY <1>4, <1>5, <2>2, <2>3 DEF DInv
  <1>8. QED
    BY <1>6, <1>7

LEMMA CloseSocketStep ==
    ASSUME DInv, CloseSocket
    PROVE  DInv'
PROOF
  <1>1. TypeOK /\ WatchInv /\ StreamInv /\ RanInv /\ RowsInv /\ CountInv
    BY DEF DInv
  <1>2. /\ watcher' \in Watchers /\ watcher'.pc = "clear"
        /\ watcher'.ctx = watcher.ctx /\ watcher'.chan = watcher.chan
    BY <1>1 DEF TypeOK, Watchers, CloseSocket
  <1>3. /\ conn' \in ConnStates /\ conn'.closed = conn.closed /\ conn'.closech = TRUE
        /\ conn'.watching = conn.watching /\ conn'.result = conn.result
    BY <1>1 DEF TypeOK, ConnStates, CloseSocket
  <1>4. /\ wire' \in Wires /\ wire'.link = "shut" /\ wire'.asked = None
        /\ wire'.stream = wire.stream /\ wire'.ran = wire.ran /\ wire'.results = wire.results
    BY <1>1 DEF TypeOK, Wires, CloseSocket
  <1>5. call.n \in cancelled /\ call' = call /\ cancelled' = cancelled /\ watcher.pc = "close"
    BY <1>1 DEF WatchInv, CloseSocket
  <1>6. TypeOK'
    BY <1>1, <1>2, <1>3, <1>4, <1>5 DEF TypeOK
  <1>7. WatchInv'
    BY <1>1, <1>2, <1>3, <1>4, <1>5 DEF WatchInv
  <1>8. StreamInv'
    BY <1>1, <1>4, <1>5 DEF StreamInv, Expected, Detached
  <1>9. RanInv' /\ RowsInv' /\ CountInv'
    BY <1>1, <1>4, <1>5 DEF RanInv, RowsInv, HoldsRows, Detached, CountInv
  <1>10. QED
    BY <1>6, <1>7, <1>8, <1>9 DEF DInv

LEMMA WatcherClearsStep ==
    ASSUME DInv, WatcherClears
    PROVE  DInv'
PROOF
  <1>1. TypeOK /\ WatchInv /\ StreamInv /\ RanInv /\ RowsInv /\ CountInv
    BY DEF DInv
  <1>2. /\ watcher' \in Watchers /\ watcher'.pc = "idle"
        /\ watcher'.ctx = watcher.ctx /\ watcher'.chan = watcher.chan
    BY <1>1 DEF TypeOK, Watchers, WatcherClears
  <1>3. /\ conn' \in ConnStates /\ conn'.closed = conn.closed /\ conn'.closech = conn.closech
        /\ conn'.watching = conn.watching
    BY <1>1 DEF TypeOK, ConnStates, WatcherClears, ClearResult
  <1>4. /\ conn.closed /\ watcher.pc = "clear" /\ call' = call /\ wire' = wire
        /\ cancelled' = cancelled
    BY <1>1 DEF WatchInv, WatcherClears
  <1>5. TypeOK'
    BY <1>1, <1>2, <1>3, <1>4 DEF TypeOK
  <1>6. WatchInv'
    BY <1>1, <1>2, <1>3, <1>4 DEF WatchInv
  <1>7. StreamInv' /\ RanInv' /\ RowsInv'
    BY <1>1, <1>4 DEF StreamInv, Expected, RanInv, RowsInv, HoldsRows, Detached
  <1>8. CountInv'
    BY <1>1, <1>3, <1>4 DEF CountInv
  <1>9. QED
    BY <1>5, <1>6, <1>7, <1>8 DEF DInv

-----------------------------------------------------------------------------
(***************************************************************************)
(* Contexts, the server and the network.                                   *)
(***************************************************************************)

LEMMA CancelContextStep ==
    ASSUME DInv, CancelContext
    PROVE  DInv'
PROOF
  <1>1. TypeOK /\ WatchInv /\ StreamInv /\ RanInv /\ RowsInv /\ CountInv
    BY DEF DInv
  <1>2. cancelled \subseteq cancelled' /\ UNCHANGED <<call, conn, watcher, wire>>
    BY DEF CancelContext
  <1>3. call.n \in 1..MaxCalls
    BY <1>1, DriverAssumption DEF TypeOK, Calls, RowsInv, CancelContext
  <1>4. TypeOK'
    BY <1>1, <1>2, <1>3 DEF TypeOK, CancelContext
  <1>5. WatchInv'
    BY <1>1, <1>2 DEF WatchInv
  <1>6. StreamInv' /\ RanInv' /\ RowsInv' /\ CountInv'
    BY <1>1, <1>2, CallerFrame
  <1>7. QED
    BY <1>4, <1>5, <1>6 DEF DInv

LEMMA ServerAnswersStep ==
    ASSUME Protocol, DInv, NEW a, ServerAnswers(a)
    PROVE  DInv'
PROOF
  <1>1. TypeOK /\ WatchInv /\ StreamInv /\ RanInv /\ RowsInv /\ CountInv
    BY DEF DInv
  <1>2. /\ call.pc = "read" /\ wire.asked = call.op /\ call.op \in Ops /\ a \in Answers[call.op]
        /\ call.mode = FirstMode(call.op) /\ wire.link = "up" /\ wire.asked # None
    BY <1>1 DEF StreamInv, ServerAnswers, RowsInv
  <1>3. /\ a \in Seq(Packets) /\ a # <<>> /\ Chained(a)
        /\ a[1] \in FirstOf(call.op)
    BY <1>2, DriverAssumption DEF Protocol
  <1>4. Coming(a) \in Nat
    BY <1>3, ComingFacts
  <1>5. /\ wire' \in Wires /\ wire'.stream = a /\ wire'.asked = None /\ wire'.link = wire.link
        /\ wire'.results = Coming(a) /\ wire'.ran = (IF Ran(a) THEN wire.ran \cup {call.op} ELSE wire.ran)
    <2> DEFINE ran == IF Ran(a) THEN wire.ran \cup {call.op} ELSE wire.ran
    <2>1. wire' = [wire EXCEPT !.stream = a, !.asked = None, !.results = Coming(a), !.ran = ran]
      BY <1>2 DEF ServerAnswers, Coming, Results
    <2>2. ran \in SUBSET Ops
      BY <1>1, <1>2 DEF TypeOK, Wires
    <2> HIDE DEF ran
    <2>3. /\ wire' \in Wires /\ wire'.stream = a /\ wire'.asked = None /\ wire'.link = wire.link
          /\ wire'.results = Coming(a) /\ wire'.ran = ran
      BY <1>1, <1>3, <1>4, <2>1, <2>2 DEF TypeOK, Wires
    <2>4. QED
      BY <2>3 DEF ran
  <1>6. UNCHANGED <<call, conn, watcher, cancelled>>
    BY DEF ServerAnswers
  <1>7. TypeOK'
    BY <1>1, <1>5, <1>6 DEF TypeOK
  <1>8. WatchInv'
    BY <1>1, <1>5, <1>6, WatchFrame
  <1>9. StreamInv'
    <2>1. a[1] \in Expected'
      BY <1>2, <1>3, <1>6 DEF Expected, FirstMode, FirstOf, Detached
    <2>2. QED
      BY <1>3, <1>5, <2>1 DEF StreamInv
  <1>10. RanInv'
    <2>1. ASSUME a[1] \in {"errReadOnly", "infile"}
          PROVE  wire'.ran \subseteq SessionOnly
      <3>1. Tail(a) = <<>>
        BY <1>3, <2>1, RestFacts DEF Follow
      <3>2. Len(Tail(a)) = Len(a) - 1 /\ Len(a) \in Nat /\ DOMAIN a = 1..Len(a)
        BY <1>3
      <3>3. Len(Tail(a)) = 0
        BY <3>1, EmptySeq
      <3>4. \A i \in DOMAIN a : i = 1
        BY <3>2, <3>3
      <3>5. ~Ran(a)
        BY <2>1, <3>4 DEF Ran, Headers
      <3>6. QED
        BY <1>1, <1>2, <1>5, <3>5 DEF RanInv
    <2>2. call.ret = None /\ None # "bad"
      BY <1>1, <1>2, NoneFacts DEF RanInv, Errors
    <2>3. call.op \in SessionOnly => wire'.ran \subseteq SessionOnly
      BY <1>1, <1>5 DEF RanInv
    <2>4. QED
      BY <1>2, <1>5, <1>6, <2>1, <2>2, <2>3 DEF RanInv
  <1>11. RowsInv'
    BY <1>1, <1>6 DEF RowsInv, HoldsRows, Detached
  <1>12. CountInv'
    <2>1. call.op \in {"exec", "stmtExec"} => call.mode = "header"
      BY <1>2 DEF FirstMode
    <2>2. 1 + Coming(a) = Coming(a) + 1
      BY <1>4
    <2>3. QED
      BY <1>1, <1>2, <1>5, <1>6, <2>1, <2>2 DEF CountInv
  <1>13. QED
    BY <1>7, <1>8, <1>9, <1>10, <1>11, <1>12 DEF DInv

LEMMA LinkFailsStep ==
    ASSUME DInv, LinkFails
    PROVE  DInv'
PROOF
  <1>1. TypeOK /\ WatchInv /\ StreamInv /\ RanInv /\ RowsInv /\ CountInv
    BY DEF DInv
  <1>2. PICK arrived \in {wire.stream, <<>>}, ran \in {wire.ran, wire.ran \cup ({wire.asked} \ {None})} :
            wire' = [wire EXCEPT !.link = "down", !.asked = None, !.stream = arrived, !.ran = ran]
    BY DEF LinkFails
  <1>3. wire.link = "up" /\ UNCHANGED <<call, conn, watcher, cancelled>>
    BY DEF LinkFails
  <1>4. arrived \in Seq(Packets) /\ Chained(arrived) /\ ran \in SUBSET Ops
    BY <1>1, EmptyFacts DEF TypeOK, Wires, StreamInv
  <1>5. /\ wire' \in Wires /\ wire'.link = "down" /\ wire'.asked = None /\ wire'.stream = arrived
        /\ wire'.ran = ran /\ wire'.results = wire.results
    BY <1>1, <1>2, <1>4 DEF TypeOK, Wires
  <1>6. TypeOK'
    BY <1>1, <1>3, <1>5 DEF TypeOK
  <1>7. WatchInv'
    BY <1>1, <1>3, <1>5 DEF WatchInv
  <1>8. StreamInv'
    BY <1>1, <1>3, <1>4, <1>5 DEF StreamInv, Expected, Detached
  <1>9. RanInv'
    <2>1. wire.asked # None => call.pc = "read" /\ wire.stream = <<>> /\ call.ret = None
      BY <1>1 DEF StreamInv, RanInv
    <2>2. /\ wire.asked = None => ran = wire.ran
          /\ wire.asked # None => wire.asked = call.op /\ ran \subseteq wire.ran \cup {call.op}
      BY <1>1 DEF StreamInv
    <2>3. None # "bad"
      BY NoneFacts DEF Errors
    <2>4. arrived = wire.stream \/ arrived = <<>>
      OBVIOUS
    <2>5. call.op \in SessionOnly => ran \subseteq SessionOnly
      BY <1>1, <2>2 DEF RanInv
    <2>6. QED
      BY <1>1, <1>3, <1>5, <2>1, <2>2, <2>3, <2>4, <2>5 DEF RanInv
  <1>10. RowsInv' /\ CountInv'
    BY <1>1, <1>3, <1>5 DEF RowsInv, HoldsRows, Detached, CountInv
  <1>11. QED
    BY <1>6, <1>7, <1>8, <1>9, <1>10 DEF DInv

-----------------------------------------------------------------------------
(***************************************************************************)
(* The theorems.                                                           *)
(***************************************************************************)

LEMMA DriverStep ==
    ASSUME Protocol, DInv, [Next]_vars
    PROVE  DInv'
PROOF
  <1>1. CASE Next
    <2>1. CASE CallerStep
      BY <2>1, EnterStep, WatchCancelStep, CheckStep, WriteFailsStep, WriteCommandStep,
         ReadPacketStep, ReadFailsStep, SendFileStep, CopyResultStep, RowsNextStep,
         NextResultSetStep, RowsCloseStep, FinishStep, PrepareReturnsStep DEF CallerStep
    <2>2. CASE WatcherStep
      BY <2>2, TakeContextStep, WatcherEndsStep, SeeCancelStep, SwapClosedStep, CloseSocketStep,
         WatcherClearsStep DEF WatcherStep
    <2>3. QED
      BY <1>1, <2>1, <2>2, StartStep, ResetSessionStep, CloseStep, CancelContextStep,
         ServerAnswersStep, LinkFailsStep DEF Next
  <1>2. CASE UNCHANGED vars
    <2>1. call' = call /\ conn' = conn /\ watcher' = watcher /\ wire' = wire /\ cancelled' = cancelled
      BY <1>2 DEF vars
    <2>2. TypeOK' /\ WatchInv'
      BY <2>1 DEF DInv, TypeOK, WatchInv
    <2>3. QED
      BY <2>1, <2>2, CallerFrame DEF DInv
  <1>3. QED
    BY <1>1, <1>2

\* DInv is an invariant of the connection, for every number of calls and every
\* server that follows the protocol.
THEOREM DriverInvariant == ASSUME Protocol PROVE Spec => []DInv
PROOF
  BY InitDInv, DriverStep, PTL DEF Spec

\* Nothing is closed for somebody else's context: finish does not return before
\* the watcher has let go.
THEOREM DriverCancelOwn == ASSUME Protocol PROVE Spec => []CancelOwn
PROOF
  <1>1. DInv => CancelOwn
    BY DEF DInv, WatchInv, InCall, CancelOwn
  <1>2. QED
    BY <1>1, DriverInvariant, PTL

\* A command is written only when the answers to the ones before have been read
\* to the end, however their calls ended, unless another statement follows one
\* whose file could not be read: Protocol leaves that to TLC.
THEOREM DriverCleanStart == ASSUME Protocol PROVE Spec => []CleanStart
PROOF
  <1>1. DInv => CleanStart
    BY QuietFacts DEF DInv, WatchInv, CleanStart
  <1>2. QED
    BY <1>1, DriverInvariant, PTL

\* A caller that gets driver.ErrBadConn may run the call again, if a file is asked
\* for, and a read-only server says so, before anything is carried out (Protocol).
THEOREM DriverRetrySafe == ASSUME Protocol PROVE Spec => []RetrySafe
PROOF
  <1>1. DInv => RetrySafe
    BY DEF DInv, RanInv, RetrySafe
  <1>2. QED
    BY <1>1, DriverInvariant, PTL

\* A successful Exec has an entry in mc.result for every result of its answer.
THEOREM DriverResultCounts == ASSUME Protocol PROVE Spec => []ResultCounts
PROOF
  <1>1. DInv => ResultCounts
    BY DEF DInv, CountInv, ResultCounts
  <1>2. QED
    BY <1>1, DriverInvariant, PTL

=============================================================================
