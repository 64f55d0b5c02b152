---------------------------- MODULE RoutingProofs ----------------------------
(***************************************************************************)
(* Proofs about Routing: for which sessions the proxy's guess of the       *)
(* transaction is good enough, and that a synchronous client is sent only  *)
(* replies that it expects, wherever a Read cuts its commands.             *)
(***************************************************************************)
EXTENDS Routing, SequenceTheorems, TLAPS

\* A synchronous client whose commands arrive whole and are of the kinds the
\* patterns of initRegexp were made for.
Ordinary ==
    /\ Commands \subseteq Tracked
    /\ Window = 1
    /\ Cuts = {}

Whole == {f \in Pieces : f.part = "whole" /\ f.shows = f.kind}

\* What is under way: at most one command, in one place.
FlowInv ==
    /\ sent \in 0..MaxCommands
    /\ waiting \in 0..1
    /\ wire \in Seq(Whole)
    /\ mainIn \in Seq(Whole)
    /\ replica \in Seq(Whole)
    /\ Len(wire) + Len(mainIn) + Len(replica) = waiting
    /\ partial = 0
    /\ mainUp = TRUE

\* p.inTrans is never behind the main server: it is set if a transaction is
\* open, or will be when the main server has executed the command on its way,
\* whether that succeeds or fails.
GuessInv ==
    /\ inTrans \in BOOLEAN
    /\ tx \in TxStates
    /\ tx.auto = TRUE
    /\ mainIn = <<>> => (tx.open => inTrans)
    /\ mainIn # <<>> =>
        /\ TxAfter(mainIn[1].kind, tx).open => inTrans
        /\ mainIn[1].kind # "end" => (tx.open => inTrans)
    /\ replica # <<>> => ~inTrans

RInv == FlowInv /\ GuessInv

-----------------------------------------------------------------------------
\* The receive buffer, or a link to a server, that holds no pieces is empty.
LEMMA NoPieces ==
    ASSUME NEW S, NEW q \in Seq(S), Len(q) = 0
    PROVE  q = <<>>
PROOF
  BY EmptySeq

\* Where the command under way is, the other places hold nothing.
LEMMA OnePlace ==
    ASSUME NEW a \in Nat, NEW b \in Nat, NEW c \in Nat, NEW w \in 0..1,
           a + b + c = w, a # 0
    PROVE  w = 1 /\ a = 1 /\ b = 0 /\ c = 0
PROOF
  OBVIOUS

\* A piece by itself.
LEMMA OnePiece ==
    ASSUME NEW S, NEW q \in Seq(S), Len(q) = 1
    PROVE  SubSeq(q, 1, 1) = <<q[1]>>
PROOF
  <1>1. q[1] \in S
    OBVIOUS
  <1> DEFINE t == SubSeq(q, 1, 1)
             u == <<q[1]>>
  <1>2. t \in Seq(S) /\ Len(t) = 1 /\ t[1] = q[1]
    OBVIOUS
  <1>3. u \in Seq(S) /\ Len(u) = 1 /\ u[1] = q[1]
    BY <1>1
  <1>4. \A i \in 1..Len(t) : t[i] = u[i]
    BY <1>2, <1>3
  <1> HIDE DEF t, u
  <1>5. t = u
    BY <1>2, <1>3, <1>4, SeqEqual
  <1>6. QED
    BY <1>5 DEF t, u

\* A session starts with nothing under way and outside a transaction.
LEMMA InitRInv == ASSUME Ordinary, Init PROVE RInv
PROOF
  <1>1. /\ wire \in Seq(Whole) /\ mainIn \in Seq(Whole) /\ replica \in Seq(Whole)
        /\ Len(wire) = 0 /\ Len(mainIn) = 0 /\ Len(replica) = 0
    BY DEF Init
  <1>2. FlowInv
    BY <1>1, RoutingAssumption DEF Init, FlowInv
  <1>3. GuessInv
    BY DEF Init, GuessInv, NoTx, TxStates
  <1>4. QED
    BY <1>2, <1>3 DEF RInv

\* The client sends when nothing is under way.
LEMMA SendRInv ==
    ASSUME Ordinary, RInv, NEW k \in Commands, Send(k)
    PROVE  RInv'
PROOF
  <1>1. /\ waiting = 0 /\ Len(wire) = 0 /\ Len(mainIn) = 0 /\ Len(replica) = 0
        /\ HasReply(k)
    BY DEF Ordinary, RInv, FlowInv, Send, HasReply, Tracked, Plain
  <1>8. HeadShows(k) = {}
    BY DEF Ordinary, HeadShows
  <1>2. /\ sent' \in 0..MaxCommands /\ sent + 1 \in 1..MaxCommands
        /\ waiting' = 1
        /\ wire' = Append(wire, Piece(sent + 1, k, "whole", k))
    BY <1>1, <1>8, RoutingAssumption DEF RInv, FlowInv, Send
  <1>3. Piece(sent + 1, k, "whole", k) \in Whole
    BY <1>2, RoutingAssumption DEF Piece, Whole, Pieces
  <1>4. wire' \in Seq(Whole) /\ Len(wire') = 1
    BY <1>1, <1>2, <1>3 DEF RInv, FlowInv
  <1>5. FlowInv'
    BY <1>1, <1>2, <1>4 DEF RInv, FlowInv, Send
  <1>6. GuessInv'
    BY DEF RInv, GuessInv, Send
  <1>7. QED
    BY <1>5, <1>6 DEF RInv

\* What a Read returns is the one command under way.
LEMMA ReadFacts ==
    ASSUME RInv, NEW n \in 1..Len(wire)
    PROVE  /\ waiting = 1 /\ Len(wire) = 1 /\ mainIn = <<>> /\ replica = <<>>
           /\ n = 1
           /\ wire[1] \in Whole
           /\ SubSeq(wire, 1, n) = <<wire[1]>>
           /\ SubSeq(wire, n + 1, Len(wire)) = <<>>
PROOF
  <1>1. /\ waiting = 1 /\ Len(wire) = 1 /\ Len(mainIn) = 0 /\ Len(replica) = 0
        /\ n = 1
    <2>1. Len(wire) \in Nat /\ Len(mainIn) \in Nat /\ Len(replica) \in Nat
      BY DEF RInv, FlowInv
    <2>2. waiting \in 0..1 /\ Len(wire) + Len(mainIn) + Len(replica) = waiting
      BY DEF RInv, FlowInv
    <2>3. waiting = 1 /\ Len(wire) = 1 /\ Len(mainIn) = 0 /\ Len(replica) = 0
      <3> DEFINE a == Len(wire)
                 b == Len(mainIn)
                 c == Len(replica)
      <3>1. /\ a \in Nat /\ b \in Nat /\ c \in Nat /\ waiting \in 0..1
            /\ a + b + c = waiting /\ a # 0
        BY <2>1, <2>2
      <3> HIDE DEF a, b, c
      <3>2. waiting = 1 /\ a = 1 /\ b = 0 /\ c = 0
        BY <3>1, OnePlace
      <3>3. QED
        BY <3>2 DEF a, b, c
    <2>4. QED
      BY <2>3
  <1>2. mainIn = <<>> /\ replica = <<>>
    <2>1. mainIn \in Seq(Whole) /\ replica \in Seq(Whole)
      BY DEF RInv, FlowInv
    <2>2. QED
      BY <1>1, <2>1, NoPieces
  <1>3. wire \in Seq(Whole) /\ wire[1] \in Whole
    BY <1>1 DEF RInv, FlowInv
  <1>4. SubSeq(wire, 1, 1) = <<wire[1]>>
    BY <1>1, <1>3, OnePiece
  <1>5. SubSeq(wire, 2, 1) = <<>>
    <2>1. SubSeq(wire, 2, 1) \in Seq(Whole) /\ Len(SubSeq(wire, 2, 1)) = 0
      BY <1>1, <1>3
    <2>2. QED
      BY <2>1, NoPieces
  <1>6. QED
    BY <1>1, <1>2, <1>3, <1>4, <1>5

\* A command left to the main server is seen by TrackTrans first.
LEMMA ReadToMainRInv ==
    ASSUME Ordinary, RInv, NEW n \in 1..Len(wire), ReadToMain(n)
    PROVE  RInv'
PROOF
  <1> DEFINE f == wire[1]
  <1>1. /\ waiting = 1 /\ Len(wire) = 1 /\ mainIn = <<>> /\ replica = <<>>
        /\ f \in Whole
        /\ SubSeq(wire, 1, n) = <<f>>
        /\ SubSeq(wire, n + 1, Len(wire)) = <<>>
    BY ReadFacts
  <1>2. wire' = <<>> /\ mainIn' = <<f>> /\ replica' = <<>>
    BY <1>1 DEF ReadToMain, RInv, FlowInv
  <1>3. FlowInv'
    <2>1. /\ wire' \in Seq(Whole) /\ Len(wire') = 0
          /\ mainIn' \in Seq(Whole) /\ Len(mainIn') = 1
          /\ replica' \in Seq(Whole) /\ Len(replica') = 0
      BY <1>1, <1>2
    <2>2. QED
      BY <1>1, <2>1 DEF RInv, FlowInv, ReadToMain
  <1>4. GuessInv'
    <2>1. f.part = "whole" /\ f.kind \in Tracked /\ Seen(n) = f.kind
      BY <1>1 DEF Whole, Pieces, Ordinary, Seen
    <2>2. inTrans' = IF IsQuery(f.kind) THEN TrackTrans(f.kind, inTrans) ELSE inTrans
      BY <2>1 DEF ReadToMain
    <2>3. tx \in TxStates /\ tx.auto = TRUE /\ (tx.open => inTrans) /\ tx' = tx
          /\ inTrans \in BOOLEAN
      BY <1>1 DEF RInv, GuessInv, ReadToMain
    <2>4. inTrans' \in BOOLEAN
      BY <2>2, <2>3 DEF TrackTrans, MatchBegin, MatchEnd
    <2>5. TxAfter(f.kind, tx).open => inTrans'
      BY <2>1, <2>2, <2>3
      DEF TxAfter, TrackTrans, MatchBegin, MatchEnd, IsQuery, Tracked, Plain
    <2>6. f.kind # "end" => (tx.open => inTrans')
      BY <2>1, <2>2, <2>3
      DEF TrackTrans, MatchBegin, MatchEnd, IsQuery, Tracked, Plain
    <2>7. mainIn' # <<>> /\ mainIn'[1] = f
      BY <1>2
    <2>8. QED
      BY <1>2, <2>3, <2>4, <2>5, <2>6, <2>7 DEF GuessInv
  <1>5. QED
    BY <1>3, <1>4 DEF RInv

\* A command goes to a replica only if p.inTrans is not set.
LEMMA ReadToReplicaRInv ==
    ASSUME Ordinary, RInv, NEW n \in 1..Len(wire), ReadToReplica(n)
    PROVE  RInv'
PROOF
  <1> DEFINE f == wire[1]
  <1>1. /\ waiting = 1 /\ Len(wire) = 1 /\ mainIn = <<>> /\ replica = <<>>
        /\ f \in Whole
        /\ SubSeq(wire, 1, n) = <<f>>
        /\ SubSeq(wire, n + 1, Len(wire)) = <<>>
    BY ReadFacts
  <1>2. wire' = <<>> /\ mainIn' = <<>> /\ replica' = <<f>> /\ ~inTrans'
    BY <1>1 DEF ReadToReplica, ToReplica
  <1>3. FlowInv'
    <2>1. /\ wire' \in Seq(Whole) /\ Len(wire') = 0
          /\ mainIn' \in Seq(Whole) /\ Len(mainIn') = 0
          /\ replica' \in Seq(Whole) /\ Len(replica') = 1
      BY <1>1, <1>2
    <2>2. QED
      BY <1>1, <2>1 DEF RInv, FlowInv, ReadToReplica
  <1>4. GuessInv'
    BY <1>1, <1>2 DEF RInv, GuessInv, ReadToReplica
  <1>5. QED
    BY <1>3, <1>4 DEF RInv

\* The replica has answered: nothing is under way.
LEMMA ReplicaAnsweredRInv ==
    ASSUME Ordinary, RInv, ReplicaAnswered
    PROVE  RInv'
PROOF
  <1>1. /\ waiting = 1 /\ Len(wire) = 0 /\ Len(mainIn) = 0
    BY DEF RInv, FlowInv, ReplicaAnswered
  <1>2. replica' \in Seq(Whole) /\ Len(replica') = 0 /\ replica' = <<>>
    BY DEF ReplicaAnswered
  <1>3. FlowInv'
    BY <1>1, <1>2 DEF RInv, FlowInv, ReplicaAnswered
  <1>4. GuessInv'
    BY <1>1, <1>2 DEF RInv, GuessInv, ReplicaAnswered
  <1>5. QED
    BY <1>3, <1>4 DEF RInv

\* The main server catches up with the guess.
LEMMA MainReadsRInv ==
    ASSUME Ordinary, RInv, MainReads
    PROVE  RInv'
PROOF
  <1>1. /\ waiting = 1 /\ Len(mainIn) = 1 /\ Len(wire) = 0 /\ Len(replica) = 0
        /\ mainIn[1] \in Whole /\ Head(mainIn) = mainIn[1]
        /\ Tail(mainIn) \in Seq(Whole) /\ Len(Tail(mainIn)) = 0
    <2>1. /\ Len(wire) \in Nat /\ Len(mainIn) \in Nat \ {0} /\ Len(replica) \in Nat
          /\ mainIn \in Seq(Whole)
      BY DEF RInv, FlowInv, MainReads
    <2>2. waiting \in 0..1 /\ Len(wire) + Len(mainIn) + Len(replica) = waiting
      BY DEF RInv, FlowInv
    <2>3. waiting = 1 /\ Len(mainIn) = 1 /\ Len(wire) = 0 /\ Len(replica) = 0
      <3>1. Len(mainIn) + Len(wire) + Len(replica) = waiting
        BY <2>1, <2>2
      <3>2. QED
        BY <2>1, <2>2, <3>1, OnePlace
    <2>4. QED
      BY <2>1, <2>3
  <1>2. Tail(mainIn) = <<>> /\ replica = <<>>
    <2>1. replica \in Seq(Whole)
      BY DEF RInv, FlowInv
    <2>2. QED
      BY <1>1, <2>1, NoPieces
  <1>3. PICK k \in Tracked : k = mainIn[1].kind /\ HasReply(k)
    BY <1>1 DEF Whole, Pieces, Ordinary, HasReply, Tracked, Plain
  <1>4. Execute(k) /\ partial' = 0 /\ mainUp' = TRUE /\ mainIn' = <<>>
    BY <1>1, <1>2, <1>3 DEF MainReads, RInv, FlowInv, Whole
  <1>5. FlowInv'
    <2>1. waiting' = 0 /\ mainIn' \in Seq(Whole) /\ Len(mainIn') = 0
      BY <1>1, <1>3, <1>4 DEF Execute
    <2>2. QED
      BY <1>1, <1>4, <2>1 DEF RInv, FlowInv, MainReads
  <1>6. GuessInv'
    <2>1. mainIn # <<>>
      BY DEF MainReads
    <2>2. /\ TxAfter(k, tx).open => inTrans
          /\ k # "end" => (tx.open => inTrans)
          /\ tx \in TxStates /\ tx.auto = TRUE /\ inTrans \in BOOLEAN
      BY <1>3, <2>1 DEF RInv, GuessInv
    <2>3. k # "autocommit0"
      BY DEF Tracked, Plain
    <2>4. tx' \in TxStates /\ tx'.auto = TRUE /\ (tx'.open => inTrans)
      <3>1. CASE tx' = TxAfter(k, tx)
        BY <2>2, <2>3, <3>1 DEF TxAfter, TxStates
      <3>2. CASE k # "end" /\ tx' \in {tx, [tx EXCEPT !.open = FALSE]}
        BY <2>2, <3>2 DEF TxStates
      <3>3. QED
        BY <1>4, <3>1, <3>2 DEF Execute
    <2>5. inTrans' = inTrans /\ replica' = <<>>
      BY <1>2 DEF MainReads
    <2>6. QED
      BY <1>4, <2>2, <2>4, <2>5 DEF GuessInv
  <1>7. QED
    BY <1>5, <1>6 DEF RInv

-----------------------------------------------------------------------------
\* For an ordinary session of any length, no SELECT of an open transaction is
\* ever executed by a replica, although the proxy only guesses from three
\* patterns and commands may fail on the main server.
THEOREM OrdinaryTxSelectsToMain ==
    ASSUME Ordinary
    PROVE  Spec => []TxSelectsToMain
PROOF
  <1>1. Init => RInv
    BY InitRInv, Ordinary
  <1>2. RInv /\ [Next]_vars => RInv'
    <2> SUFFICES ASSUME RInv, [Next]_vars PROVE RInv'
      OBVIOUS
    <2>1. CASE UNCHANGED vars
      BY <2>1 DEF vars, RInv, FlowInv, GuessInv
    <2>2. CASE Next
      BY <2>2, Ordinary, SendRInv, ReadToMainRInv, ReadToReplicaRInv,
         ReplicaAnsweredRInv, MainReadsRInv
      DEF Next
    <2>3. QED
      BY <2>1, <2>2
  <1>3. RInv => TxSelectsToMain
    BY DEF RInv, GuessInv, TxSelectsToMain, InTransaction
  <1>4. QED
    BY <1>1, <1>2, <1>3, PTL DEF Spec

-----------------------------------------------------------------------------
(***************************************************************************)
(* A synchronous client, whose commands may arrive in pieces.              *)
(***************************************************************************)

\* The client waits for the reply to a command before it sends the next, and no
\* command has a second piece that looks like a command.
Synchronous == Window = 1 /\ "lookalike" \notin Cuts

\* The place of a piece in what the client has sent.
Key(f) == 2 * f.id + (IF f.part = "tail" THEN 1 ELSE 0)

Increasing(q) == \A i, j \in DOMAIN q : i < j => Key(q[i]) < Key(q[j])

Before(q, r) == \A i \in DOMAIN q, j \in DOMAIN r : Key(q[i]) < Key(r[j])

\* What the bytes of a piece show is the command or nothing; nothing, of a tail.
Honest(f) == f.shows = "other" \/ (f.part # "tail" /\ f.shows = f.kind)

\* The first piece of a command that will be answered.
Live(f) == f.part # "tail" /\ HasReply(f.kind)

\* A piece that is under way after n commands, when w replies are expected, the
\* main server has the beginning of command p, and kind[i] is the kind of command
\* i.  Only the last command can be one that will be answered.
Good(f, kind, n, w, p) ==
    /\ f.id <= n /\ f.kind = kind[f.id] /\ 2 * p < Key(f) /\ Honest(f)
    /\ Live(f) => f.id = n /\ w = 1

AllGood(q, kind, n, w, p) == \A i \in DOMAIN q : Good(q[i], kind, n, w, p)

\* The pieces are in the order in which they were sent, those with the main
\* server before those with a replica and these before those not yet read; a
\* replica has pieces of the last command only.
PieceInv(kind) ==
    /\ AllGood(wire, kind, sent, waiting, partial)
    /\ AllGood(mainIn, kind, sent, waiting, partial)
    /\ AllGood(replica, kind, sent, waiting, partial)
    /\ Increasing(wire) /\ Increasing(mainIn)
    /\ Before(mainIn, replica) /\ Before(mainIn, wire) /\ Before(replica, wire)
    /\ partial # 0 => partial <= sent /\ (HasReply(kind[partial]) => partial = sent /\ waiting = 1)
    /\ replica # <<>> => Live(replica[1]) /\ \A i \in DOMAIN replica : replica[i].id = sent

KindsOf == [1..MaxCommands -> Kinds]

SyncInv == TypeOK /\ \E kind \in KindsOf : PieceInv(kind)

\* The places of the first and the second piece of a command.
LEMMA KeyFacts ==
    ASSUME NEW f \in Pieces
    PROVE  /\ f.id \in Nat \ {0} /\ f.id \in 1..MaxCommands /\ Key(f) \in Nat
           /\ f.part # "tail" => Key(f) = 2 * f.id
           /\ f.part = "tail" => Key(f) = 2 * f.id + 1
PROOF
  <1>1. f.id \in 1..MaxCommands /\ f.id \in Nat \ {0}
    BY RoutingAssumption DEF Pieces
  <1>2. QED
    BY <1>1 DEF Key

\* What is left of a sequence without its first n elements.
LEMMA RestFacts ==
    ASSUME NEW S, NEW q \in Seq(S), NEW len \in Nat, len = Len(q), NEW n \in Nat, n <= len
    PROVE  /\ SubSeq(q, n + 1, len) \in Seq(S) /\ Len(SubSeq(q, n + 1, len)) = len - n
           /\ \A i \in 1..(len - n) : SubSeq(q, n + 1, len)[i] = q[i + n]
PROOF
  <1> DEFINE m == n + 1
             b == SubSeq(q, m, len)
  <1>1. m \in Int /\ len \in Int
    OBVIOUS
  <1>2. \A i \in m..len : q[i] \in S
    OBVIOUS
  <1>6. n + 1 = m
    OBVIOUS
  <1> HIDE DEF m
  <1>3. /\ b \in Seq(S) /\ Len(b) = (IF m <= len THEN len - m + 1 ELSE 0)
        /\ \A i \in 1..(len - m + 1) : b[i] = q[m + i - 1]
    BY <1>1, <1>2, SubSeqProperties
  <1> HIDE DEF b
  <1>4. (IF m <= len THEN len - m + 1 ELSE 0) = len - n /\ len - m + 1 = len - n
    BY <1>6
  <1>5. \A i \in 1..(len - n) : m + i - 1 = i + n
    BY <1>6
  <1>7. b \in Seq(S) /\ Len(b) = len - n /\ \A i \in 1..(len - n) : b[i] = q[i + n]
    BY <1>3, <1>4, <1>5
  <1>8. QED
    BY <1>7 DEF b, m

\* What a Read takes from the wire, and what it leaves there.
LEMMA SplitFacts ==
    ASSUME NEW q \in Seq(Pieces), NEW n \in 1..Len(q)
    PROVE  LET a == SubSeq(q, 1, n)
               b == SubSeq(q, n + 1, Len(q))
           IN  /\ a \in Seq(Pieces) /\ b \in Seq(Pieces) /\ a # <<>> /\ a[1] = q[1]
               /\ DOMAIN a = 1..n /\ 1..n \subseteq DOMAIN q /\ \A i \in DOMAIN a : a[i] = q[i]
               /\ \A i \in DOMAIN b : i + n \in DOMAIN q /\ b[i] = q[i + n]
PROOF
  <1> DEFINE a == SubSeq(q, 1, n)
             b == SubSeq(q, n + 1, Len(q))
  <1>1. Len(q) \in Nat /\ n \in Nat /\ 1 <= n /\ n <= Len(q) /\ DOMAIN q = 1..Len(q)
    OBVIOUS
  <1>2. a \in Seq(Pieces) /\ Len(a) = n /\ \A i \in 1..n : a[i] = q[i]
    BY <1>1
  <1>3. b \in Seq(Pieces) /\ Len(b) = Len(q) - n /\ \A i \in 1..(Len(q) - n) : b[i] = q[i + n]
    <2> DEFINE len == Len(q)
    <2>1. len \in Nat /\ n <= len /\ n \in Nat
      BY <1>1
    <2> HIDE DEF len
    <2>2. /\ SubSeq(q, n + 1, len) \in Seq(Pieces) /\ Len(SubSeq(q, n + 1, len)) = len - n
          /\ \A i \in 1..(len - n) : SubSeq(q, n + 1, len)[i] = q[i + n]
      BY <2>1, RestFacts DEF len
    <2>3. QED
      BY <2>2 DEF len
  <1> HIDE DEF a, b
  <1>4. a # <<>> /\ a[1] = q[1] /\ DOMAIN a = 1..n /\ DOMAIN b = 1..(Len(q) - n)
    BY <1>1, <1>2, <1>3
  <1>5. \A i \in 1..(Len(q) - n) : i + n \in 1..Len(q)
    BY <1>1
  <1>6. 1..n \subseteq 1..Len(q)
    BY <1>1
  <1>7. QED
    BY <1>1, <1>2, <1>3, <1>4, <1>5, <1>6 DEF a, b

\* A Read keeps the order of the pieces and what is known of each.
LEMMA SplitOrder ==
    ASSUME NEW q \in Seq(Pieces), NEW n \in 1..Len(q), NEW r \in Seq(Pieces),
           NEW kind, NEW m, NEW w, NEW p
    PROVE  LET a == SubSeq(q, 1, n)
               b == SubSeq(q, n + 1, Len(q))
           IN  /\ AllGood(q, kind, m, w, p) => AllGood(a, kind, m, w, p) /\ AllGood(b, kind, m, w, p)
               /\ Increasing(q) => Increasing(a) /\ Increasing(b) /\ Before(a, b)
               /\ Before(r, q) => Before(r, a) /\ Before(r, b)
PROOF
  <1> DEFINE a == SubSeq(q, 1, n)
             b == SubSeq(q, n + 1, Len(q))
  <1>1. /\ DOMAIN a = 1..n /\ 1..n \subseteq DOMAIN q /\ \A i \in DOMAIN a : a[i] = q[i]
        /\ \A i \in DOMAIN b : i + n \in DOMAIN q /\ b[i] = q[i + n]
    BY SplitFacts
  <1>2. b \in Seq(Pieces) /\ DOMAIN b \subseteq Nat \ {0} /\ n \in Nat
    BY SplitFacts
  <1> HIDE DEF a, b
  <1>3. AllGood(q, kind, m, w, p) => AllGood(a, kind, m, w, p) /\ AllGood(b, kind, m, w, p)
    BY <1>1 DEF AllGood
  <1>4. Increasing(q) => Increasing(a)
    BY <1>1 DEF Increasing
  <1>5. Increasing(q) => Increasing(b)
    <2>1. \A i, j \in DOMAIN b : i < j => i + n < j + n
      BY <1>2
    <2>2. QED
      BY <1>1, <2>1 DEF Increasing
  <1>6. Increasing(q) => Before(a, b)
    <2>1. \A i \in DOMAIN a, j \in DOMAIN b : i < j + n
      BY <1>1, <1>2
    <2>2. QED
      BY <1>1, <2>1 DEF Increasing, Before
  <1>7. Before(r, q) => Before(r, a) /\ Before(r, b)
    BY <1>1 DEF Before
  <1>8. QED
    BY <1>3, <1>4, <1>5, <1>6, <1>7 DEF a, b

\* One sequence of pieces behind another.
LEMMA ConcatFacts ==
    ASSUME NEW a \in Seq(Pieces), NEW b \in Seq(Pieces)
    PROVE  /\ a \o b \in Seq(Pieces)
           /\ \A i \in DOMAIN a : i \in DOMAIN (a \o b) /\ (a \o b)[i] = a[i]
           /\ \A i \in DOMAIN (a \o b) :
                \/ i \in DOMAIN a /\ (a \o b)[i] = a[i]
                \/ i - Len(a) \in DOMAIN b /\ (a \o b)[i] = b[i - Len(a)]
PROOF
  <1>1. a \o b \in Seq(Pieces) /\ Len(a \o b) = Len(a) + Len(b) /\ Len(a) \in Nat /\ Len(b) \in Nat
    OBVIOUS
  <1>2. DOMAIN a = 1..Len(a) /\ DOMAIN b = 1..Len(b) /\ DOMAIN (a \o b) = 1..(Len(a) + Len(b))
    BY <1>1
  <1>3. \A i \in 1..(Len(a) + Len(b)) :
            (a \o b)[i] = IF i <= Len(a) THEN a[i] ELSE b[i - Len(a)]
    BY ConcatProperties
  <1>4. QED
    BY <1>1, <1>2, <1>3

\* So does what is forwarded behind pieces that were sent earlier.
LEMMA ConcatOrder ==
    ASSUME NEW a \in Seq(Pieces), NEW b \in Seq(Pieces), NEW r \in Seq(Pieces),
           NEW kind, NEW m, NEW w, NEW p
    PROVE  /\ AllGood(a, kind, m, w, p) /\ AllGood(b, kind, m, w, p) => AllGood(a \o b, kind, m, w, p)
           /\ Increasing(a) /\ Increasing(b) /\ Before(a, b) => Increasing(a \o b)
           /\ Before(r, a) /\ Before(r, b) => Before(r, a \o b)
           /\ Before(a, r) /\ Before(b, r) => Before(a \o b, r)
PROOF
  <1> DEFINE c == a \o b
             k == Len(a)
  <1>1. \A i \in DOMAIN c : \/ i \in DOMAIN a /\ c[i] = a[i]
                            \/ i - k \in DOMAIN b /\ c[i] = b[i - k]
    BY ConcatFacts
  <1>2. k \in Nat /\ DOMAIN a = 1..k /\ c \in Seq(Pieces) /\ DOMAIN c \subseteq Nat
    BY ConcatFacts
  <1>3. DOMAIN b \subseteq Nat \ {0}
    OBVIOUS
  <1> HIDE DEF c, k
  <1>4. AllGood(a, kind, m, w, p) /\ AllGood(b, kind, m, w, p) => AllGood(c, kind, m, w, p)
    BY <1>1 DEF AllGood
  <1>5. ASSUME Increasing(a), Increasing(b), Before(a, b)
        PROVE  Increasing(c)
    <2> SUFFICES ASSUME NEW i \in DOMAIN c, NEW j \in DOMAIN c, i < j
                 PROVE  Key(c[i]) < Key(c[j])
      BY DEF Increasing
    <2>1. CASE j \in DOMAIN a /\ c[j] = a[j]
      <3>1. i \notin DOMAIN a => i - k \notin DOMAIN b
        BY <1>2, <1>3, <2>1
      <3>2. i \in DOMAIN a /\ c[i] = a[i]
        BY <1>1, <3>1, <1>2, <1>3, <2>1
      <3>3. QED
        BY <1>5, <2>1, <3>2 DEF Increasing
    <2>2. CASE j - k \in DOMAIN b /\ c[j] = b[j - k]
      <3>1. CASE i \in DOMAIN a /\ c[i] = a[i]
        BY <1>5, <2>2, <3>1 DEF Before
      <3>2. CASE i - k \in DOMAIN b /\ c[i] = b[i - k]
        <4>1. i - k < j - k
          BY <1>2
        <4>2. QED
          BY <1>5, <2>2, <3>2, <4>1 DEF Increasing
      <3>3. QED
        BY <1>1, <3>1, <3>2
    <2>3. QED
      BY <1>1, <2>1, <2>2
  <1>6. Before(r, a) /\ Before(r, b) => Before(r, c)
    BY <1>1 DEF Before
  <1>7. Before(a, r) /\ Before(b, r) => Before(c, r)
    BY <1>1 DEF Before
  <1>8. QED
    BY <1>4, <1>5, <1>6, <1>7 DEF c

\* A replica has the beginning of the command that the client waits for.
LEMMA ReplicaFacts ==
    ASSUME TypeOK, NEW kind, PieceInv(kind), replica # <<>>
    PROVE  /\ 1 \in DOMAIN replica /\ replica[1] \in Pieces
           /\ Key(replica[1]) = 2 * sent /\ waiting = 1 /\ 2 * partial < 2 * sent
PROOF
  <1>1. 1 \in DOMAIN replica /\ replica[1] \in Pieces
    BY DEF TypeOK
  <1>2. Live(replica[1]) /\ Good(replica[1], kind, sent, waiting, partial)
    BY <1>1 DEF PieceInv, AllGood
  <1>3. QED
    BY <1>1, <1>2, KeyFacts DEF Live, Good

\* When the reply has arrived, what is left under way will not be answered.
LEMMA AnsweredPieces ==
    ASSUME NEW q \in Seq(Pieces), NEW kind, NEW n \in Nat, NEW w, NEW p,
           AllGood(q, kind, n, w, p), \A i \in DOMAIN q : Key(q[i]) # 2 * n
    PROVE  \A w1 : AllGood(q, kind, n, w1, p)
PROOF
  <1> SUFFICES ASSUME NEW i \in DOMAIN q, NEW w1
               PROVE  Good(q[i], kind, n, w1, p)
    BY DEF AllGood
  <1>1. q[i] \in Pieces /\ Good(q[i], kind, n, w, p) /\ Key(q[i]) # 2 * n
    BY DEF AllGood
  <1>2. ~Live(q[i])
    <2>1. Live(q[i]) => q[i].id = n /\ q[i].part # "tail"
      BY <1>1 DEF Good, Live
    <2>2. q[i].part # "tail" => Key(q[i]) = 2 * q[i].id
      BY <1>1, KeyFacts
    <2>3. QED
      BY <1>1, <2>1, <2>2
  <1>3. QED
    BY <1>1, <1>2 DEF Good

\* The first piece, and those behind it.
LEMMA TailFacts ==
    ASSUME NEW q \in Seq(Pieces), q # <<>>, NEW r \in Seq(Pieces), NEW kind, NEW m, NEW w, NEW p
    PROVE  /\ Tail(q) \in Seq(Pieces) /\ 1 \in DOMAIN q /\ Head(q) = q[1] /\ q[1] \in Pieces
           /\ AllGood(q, kind, m, w, p) => AllGood(Tail(q), kind, m, w, p) /\ Good(q[1], kind, m, w, p)
           /\ Increasing(q) => Increasing(Tail(q)) /\ \A i \in DOMAIN Tail(q) : Key(q[1]) < Key(Tail(q)[i])
           /\ Before(q, r) => Before(Tail(q), r) /\ \A i \in DOMAIN r : Key(q[1]) < Key(r[i])
PROOF
  <1> DEFINE t == Tail(q)
  <1>1. t \in Seq(Pieces) /\ 1 \in DOMAIN q /\ Head(q) = q[1] /\ q[1] \in Pieces
    OBVIOUS
  <1>2. \A i \in DOMAIN t : i \in Nat \ {0} /\ i + 1 \in DOMAIN q /\ t[i] = q[i + 1]
    OBVIOUS
  <1>3. AllGood(q, kind, m, w, p) => AllGood(t, kind, m, w, p) /\ Good(q[1], kind, m, w, p)
    BY <1>1, <1>2 DEF AllGood
  <1> HIDE DEF t
  <1>4. \A i, j \in DOMAIN t : i < j => i + 1 < j + 1
    BY <1>2
  <1>5. \A i \in DOMAIN t : 1 < i + 1
    BY <1>2
  <1>6. Increasing(q) => Increasing(t) /\ \A i \in DOMAIN t : Key(q[1]) < Key(t[i])
    BY <1>1, <1>2, <1>4, <1>5 DEF Increasing
  <1>7. Before(q, r) => Before(t, r) /\ \A i \in DOMAIN r : Key(q[1]) < Key(r[i])
    BY <1>1, <1>2 DEF Before
  <1>8. QED
    BY <1>1, <1>3, <1>6, <1>7 DEF t

\* A session starts with no piece under way.
LEMMA InitSyncInv == ASSUME Synchronous, Init PROVE SyncInv
PROOF
  <1>1. TypeOK
    <2>1. <<>> \in Seq(Pieces)
      BY EmptySeq
    <2>2. 0 \in 0..Window /\ 0 \in 0..MaxCommands
      BY RoutingAssumption
    <2>3. NoTx \in TxStates
      BY DEF NoTx, TxStates
    <2>4. QED
      BY <2>1, <2>2, <2>3 DEF Init, TypeOK
  <1> DEFINE kind == [i \in 1..MaxCommands |-> "select"]
  <1>2. kind \in KindsOf
    BY DEF KindsOf, Kinds, Plain
  <1>3. PieceInv(kind)
    BY DEF Init, PieceInv, AllGood, Increasing, Before
  <1>4. QED
    BY <1>1, <1>2, <1>3 DEF SyncInv

\* The client sends a command, in one piece or two, when it waits for no reply.
LEMMA SendSyncInv ==
    ASSUME Synchronous, SyncInv, NEW k \in Commands, Send(k)
    PROVE  SyncInv'
PROOF
  <1>1. PICK kind \in KindsOf : PieceInv(kind)
    BY DEF SyncInv
  <1> DEFINE n1 == sent + 1
             w1 == IF HasReply(k) THEN 1 ELSE 0
  <1>2. /\ waiting = 0 /\ sent \in Nat /\ n1 \in 1..MaxCommands /\ TypeOK
        /\ wire \in Seq(Pieces) /\ mainIn \in Seq(Pieces) /\ replica \in Seq(Pieces)
        /\ partial \in Nat
    BY RoutingAssumption DEF Synchronous, SyncInv, TypeOK, Send
  <1>3. /\ sent' = n1 /\ waiting' = w1 /\ partial' = partial /\ mainIn' = mainIn /\ replica' = replica
    BY <1>2 DEF Send
  <1>4. replica = <<>>
    BY <1>1, <1>2, ReplicaFacts
  <1>5. PICK kind1 \in KindsOf : kind1[n1] = k /\ \A i \in 1..sent : kind1[i] = kind[i]
    <2>1. [kind EXCEPT ![n1] = k] \in KindsOf
      BY <1>2, RoutingAssumption DEF KindsOf
    <2>2. [kind EXCEPT ![n1] = k][n1] = k
      BY <1>2 DEF KindsOf
    <2>3. \A i \in 1..sent : [kind EXCEPT ![n1] = k][i] = kind[i]
      <3>1. \A i \in 1..sent : i \in 1..MaxCommands /\ i # n1
        BY <1>2, RoutingAssumption
      <3>2. QED
        BY <3>1 DEF KindsOf
    <2>4. QED
      BY <2>1, <2>2, <2>3
  <1>6. partial <= sent /\ (partial # 0 => ~HasReply(kind1[partial]))
    <2>1. partial # 0 => partial <= sent /\ ~HasReply(kind[partial])
      BY <1>1, <1>2 DEF PieceInv
    <2>2. QED
      BY <1>2, <1>5, <2>1
  <1>7. ASSUME NEW q \in Seq(Pieces), AllGood(q, kind, sent, waiting, partial)
        PROVE  /\ AllGood(q, kind1, n1, w1, partial)
               /\ \A i \in DOMAIN q : q[i] \in Pieces /\ q[i].id <= sent
    <2>1. \A i \in DOMAIN q : q[i] \in Pieces /\ Good(q[i], kind, sent, waiting, partial)
      BY <1>7 DEF AllGood
    <2>2. ASSUME NEW f \in Pieces, Good(f, kind, sent, waiting, partial)
          PROVE  Good(f, kind1, n1, w1, partial) /\ f.id <= sent
      <3>1. f.id \in Nat \ {0} /\ f.id <= sent /\ f.kind = kind[f.id] /\ 2 * partial < Key(f) /\ ~Live(f)
            /\ Honest(f)
        BY <1>2, <2>2, KeyFacts DEF Good
      <3>2. f.id \in 1..sent /\ f.id <= n1
        BY <1>2, <3>1
      <3>3. QED
        BY <1>5, <3>1, <3>2 DEF Good
    <2>3. QED
      BY <2>1, <2>2 DEF AllGood
  <1>8. PICK new \in Seq(Pieces) :
            /\ wire' = wire \o new
            /\ \A i \in DOMAIN new : new[i].id = n1 /\ new[i].kind = k /\ Honest(new[i])
            /\ Increasing(new)
    <2>1. \A part \in {"whole", "head", "tail"} : \A s \in Kinds :
              /\ Piece(n1, k, part, s) \in Pieces /\ Piece(n1, k, part, s).id = n1
              /\ Piece(n1, k, part, s).kind = k /\ Piece(n1, k, part, s).part = part
              /\ Piece(n1, k, part, s).shows = s
      BY <1>2 DEF Piece, Pieces
    <2>2. CASE wire' = Append(wire, Piece(n1, k, "whole", k))
      <3> DEFINE x == Piece(n1, k, "whole", k)
                 new == <<x>>
      <3>0. k \in Kinds
        BY RoutingAssumption
      <3>1. x \in Pieces /\ x.id = n1 /\ x.kind = k /\ Honest(x)
        BY <2>1, <3>0 DEF Honest
      <3> HIDE DEF x
      <3>2. new \in Seq(Pieces) /\ DOMAIN new = {1} /\ new[1] = x
        BY <3>1
      <3>3. wire' = wire \o new
        BY <1>2, <2>2, <3>1, AppendIsConcat DEF x
      <3> HIDE DEF new
      <3>4. Increasing(new)
        BY <3>2 DEF Increasing
      <3>5. QED
        BY <3>1, <3>2, <3>3, <3>4
    <2>3. ASSUME NEW h \in HeadShows(k), NEW t \in TailShows,
                 wire' = wire \o <<Piece(n1, k, "head", h), Piece(n1, k, "tail", t)>>
          PROVE  \E new \in Seq(Pieces) :
                    /\ wire' = wire \o new
                    /\ \A i \in DOMAIN new : new[i].id = n1 /\ new[i].kind = k /\ Honest(new[i])
                    /\ Increasing(new)
      <3> DEFINE x == Piece(n1, k, "head", h)
                 y == Piece(n1, k, "tail", t)
                 new == <<x, y>>
      <3>0. h \in {k, "other"} /\ t = "other" /\ k \in Kinds /\ "other" \in Kinds
        BY RoutingAssumption DEF HeadShows, TailShows, Synchronous, Kinds, Plain
      <3>1. /\ x \in Pieces /\ x.id = n1 /\ x.kind = k /\ x.part = "head" /\ Honest(x)
            /\ y \in Pieces /\ y.id = n1 /\ y.kind = k /\ y.part = "tail" /\ Honest(y)
        BY <2>1, <3>0 DEF Honest
      <3> HIDE DEF x, y
      <3>2. Key(x) < Key(y)
        <4>1. x.id \in Nat /\ Key(x) = 2 * x.id
          BY <3>1, KeyFacts
        <4>2. y.id \in Nat /\ Key(y) = 2 * y.id + 1
          BY <3>1, KeyFacts
        <4>3. x.id = y.id
          BY <3>1
        <4>4. QED
          BY <4>1, <4>2, <4>3
      <3>3. new \in Seq(Pieces) /\ DOMAIN new = {1, 2} /\ new[1] = x /\ new[2] = y
        BY <3>1
      <3>4. wire' = wire \o new
        BY <2>3 DEF x, y
      <3> HIDE DEF new
      <3>5. Increasing(new)
        BY <3>2, <3>3 DEF Increasing
      <3>6. QED
        BY <3>1, <3>3, <3>4, <3>5
    <2>4. QED
      BY <2>2, <2>3 DEF Send
  <1>9. AllGood(new, kind1, n1, w1, partial)
    <2> SUFFICES ASSUME NEW i \in DOMAIN new
                 PROVE  Good(new[i], kind1, n1, w1, partial)
      BY DEF AllGood
    <2> DEFINE f == new[i]
    <2>1. f \in Pieces /\ f.id = n1 /\ f.kind = k /\ Honest(f)
      BY <1>8
    <2> HIDE DEF f
    <2>2. 2 * partial < Key(f)
      <3>1. Key(f) \in Nat /\ (Key(f) = 2 * n1 \/ Key(f) = 2 * n1 + 1)
        BY <2>1, KeyFacts
      <3>2. QED
        BY <1>2, <1>6, <3>1
    <2>3. Live(f) => w1 = 1
      BY <2>1 DEF Live
    <2>4. n1 <= n1
      BY <1>2
    <2>5. Good(f, kind1, n1, w1, partial)
      BY <1>5, <2>1, <2>2, <2>3, <2>4 DEF Good
    <2>6. QED
      BY <2>5 DEF f
  <1>10. ASSUME NEW q \in Seq(Pieces), AllGood(q, kind, sent, waiting, partial)
         PROVE  Before(q, new)
    <2> SUFFICES ASSUME NEW i \in DOMAIN q, NEW j \in DOMAIN new
                 PROVE  Key(q[i]) < Key(new[j])
      BY DEF Before
    <2>1. q[i] \in Pieces /\ q[i].id <= sent /\ new[j] \in Pieces /\ new[j].id = n1
      BY <1>7, <1>8, <1>10
    <2>2. /\ Key(q[i]) \in Nat /\ q[i].id \in Nat
          /\ Key(q[i]) = 2 * q[i].id \/ Key(q[i]) = 2 * q[i].id + 1
          /\ Key(new[j]) = 2 * n1 \/ Key(new[j]) = 2 * n1 + 1
      BY <2>1, KeyFacts
    <2>3. QED
      BY <1>2, <2>1, <2>2, SMTT(30)
  <1>11. PieceInv(kind1)'
    <2> HIDE DEF n1, w1
    <2>1. /\ AllGood(wire, kind, sent, waiting, partial) /\ AllGood(mainIn, kind, sent, waiting, partial)
          /\ AllGood(replica, kind, sent, waiting, partial)
          /\ Increasing(wire) /\ Increasing(mainIn) /\ Before(mainIn, wire)
      BY <1>1 DEF PieceInv
    <2>2. /\ AllGood(wire, kind1, n1, w1, partial) /\ AllGood(mainIn, kind1, n1, w1, partial)
          /\ AllGood(replica, kind1, n1, w1, partial) /\ Before(wire, new) /\ Before(mainIn, new)
      BY <1>2, <1>7, <1>10, <2>1
    <2>3. AllGood(wire \o new, kind1, n1, w1, partial)
      BY <1>2, <1>9, <2>2, ConcatOrder
    <2>4. Increasing(wire \o new) /\ Before(mainIn, wire \o new)
      BY <1>2, <1>8, <2>1, <2>2, ConcatOrder
    <2>5. Before(mainIn, replica) /\ Before(replica, wire \o new)
      BY <1>4 DEF Before
    <2>6. partial # 0 => partial <= n1 /\ ~HasReply(kind1[partial])
      BY <1>2, <1>6 DEF n1
    <2>7. /\ wire' = wire \o new /\ mainIn' = mainIn /\ replica' = replica
          /\ sent' = n1 /\ waiting' = w1 /\ partial' = partial
      BY <1>3, <1>8 DEF n1, w1
    <2>8. /\ AllGood(wire', kind1, sent', waiting', partial')
          /\ AllGood(mainIn', kind1, sent', waiting', partial')
          /\ AllGood(replica', kind1, sent', waiting', partial')
      BY <2>2, <2>3, <2>7
    <2>9. /\ Increasing(wire') /\ Increasing(mainIn') /\ Before(mainIn', replica')
          /\ Before(mainIn', wire') /\ Before(replica', wire')
      BY <2>1, <2>4, <2>5, <2>7
    <2>10. partial' # 0 => partial' <= sent' /\ ~HasReply(kind1[partial'])
      BY <2>6, <2>7
    <2>11. replica' = <<>>
      BY <1>4, <2>7
    <2>12. QED
      BY <2>8, <2>9, <2>10, <2>11 DEF PieceInv
  <1>12. TypeOK'
    <2>1. wire' \in Seq(Pieces)
      BY <1>2, <1>8, ConcatFacts
    <2>2. QED
      BY <1>2, <1>3, <2>1 DEF TypeOK, Send, Synchronous
  <1>13. QED
    BY <1>5, <1>11, <1>12 DEF SyncInv

\* What a Read returns moves on, in order.
LEMMA ReadSyncInv ==
    ASSUME SyncInv, NEW n \in 1..Len(wire), ReadToMain(n) \/ ReadToReplica(n)
    PROVE  SyncInv'
PROOF
  <1>1. PICK kind \in KindsOf : PieceInv(kind)
    BY DEF SyncInv
  <1> DEFINE a == SubSeq(wire, 1, n)
             b == SubSeq(wire, n + 1, Len(wire))
  <1>2. /\ TypeOK /\ sent \in Nat
        /\ wire \in Seq(Pieces) /\ mainIn \in Seq(Pieces) /\ replica = <<>>
    BY RoutingAssumption DEF SyncInv, TypeOK, ReadToMain, ReadToReplica
  <1>3. /\ sent' = sent /\ waiting' = waiting /\ partial' = partial /\ wire' = b
    BY DEF ReadToMain, ReadToReplica
  <1>4. /\ AllGood(wire, kind, sent, waiting, partial) /\ AllGood(mainIn, kind, sent, waiting, partial)
        /\ Increasing(wire) /\ Increasing(mainIn) /\ Before(mainIn, wire)
        /\ partial # 0 => partial <= sent /\ (HasReply(kind[partial]) => partial = sent /\ waiting = 1)
    BY <1>1 DEF PieceInv
  <1>5. /\ a \in Seq(Pieces) /\ b \in Seq(Pieces) /\ a # <<>> /\ a[1] = wire[1]
        /\ 1 \in DOMAIN wire /\ 1 \in DOMAIN a /\ DOMAIN a \subseteq Nat \ {0}
    BY <1>2, SplitFacts
  <1>6. /\ AllGood(a, kind, sent, waiting, partial) /\ AllGood(b, kind, sent, waiting, partial)
        /\ Increasing(a) /\ Increasing(b) /\ Before(a, b) /\ Before(mainIn, a) /\ Before(mainIn, b)
    BY <1>2, <1>4, SplitOrder
  <1> HIDE DEF a, b
  <1>7. CASE ReadToMain(n)
    <2>1. replica' = <<>> /\ (mainIn' = mainIn \o a \/ mainIn' = mainIn)
      BY <1>2, <1>7 DEF ReadToMain, a
    <2>2. /\ mainIn \o a \in Seq(Pieces) /\ AllGood(mainIn \o a, kind, sent, waiting, partial)
      BY <1>2, <1>4, <1>5, <1>6, ConcatOrder, ConcatFacts
    <2>3. Increasing(mainIn \o a)
      BY <1>2, <1>4, <1>5, <1>6, ConcatOrder
    <2>4. Before(mainIn \o a, b)
      BY <1>2, <1>4, <1>5, <1>6, ConcatOrder
    <2>5. PieceInv(kind)'
      <3>1. /\ AllGood(mainIn', kind, sent, waiting, partial) /\ Increasing(mainIn') /\ Before(mainIn', b)
        BY <1>4, <1>6, <2>1, <2>2, <2>3, <2>4
      <3>2. /\ AllGood(<<>>, kind, sent, waiting, partial) /\ Before(mainIn', <<>>) /\ Before(<<>>, b)
        BY DEF AllGood, Before
      <3>3. QED
        BY <1>3, <1>4, <1>6, <2>1, <3>1, <3>2 DEF PieceInv
    <2>6. TypeOK'
      <3>1. inTrans' \in BOOLEAN
        BY <1>2, <1>7 DEF TypeOK, ReadToMain, TrackTrans, MatchBegin, MatchEnd
      <3>2. mainIn' \in Seq(Pieces) /\ replica' \in Seq(Pieces)
        BY <1>2, <2>1, <2>2 DEF TypeOK
      <3>3. QED
        BY <1>2, <1>3, <1>5, <1>7, <3>1, <3>2 DEF TypeOK, ReadToMain
    <2>7. QED
      BY <2>5, <2>6 DEF SyncInv
  <1>8. CASE ReadToReplica(n)
    <2>1. replica' = a /\ mainIn' = mainIn
      BY <1>8 DEF ReadToReplica, a
    <2>2. Live(a[1])
      <3>1. a[1] = wire[1] /\ Honest(a[1]) /\ MatchSelect(Seen(n))
        BY <1>5, <1>6, <1>8 DEF ReadToReplica, ToReplica, AllGood, Good
      <3>2. QED
        BY <3>1 DEF Seen, Honest, Live, MatchSelect, HasReply
    <2>3. a[1] \in Pieces /\ a[1].id = sent /\ Key(a[1]) = 2 * sent
      BY <1>5, <1>6, <2>2, KeyFacts DEF AllGood, Good, Live
    <2>4. ASSUME NEW i \in DOMAIN a
          PROVE  a[i].id = sent
      <3>1. CASE i = 1
        BY <2>3, <3>1
      <3>2. CASE i # 1
        <4>1. 1 < i
          BY <1>5, <3>2
        <4>2. 2 * sent < Key(a[i]) /\ a[i] \in Pieces /\ a[i].id <= sent
          BY <1>5, <1>6, <2>3, <4>1 DEF Increasing, AllGood, Good
        <4>3. a[i].id \in Nat /\ (Key(a[i]) = 2 * a[i].id \/ Key(a[i]) = 2 * a[i].id + 1)
          BY <4>2, KeyFacts
        <4>4. QED
          BY <1>2, <4>2, <4>3
      <3>3. QED
        BY <3>1, <3>2
    <2>5. PieceInv(kind)'
      BY <1>3, <1>4, <1>6, <2>1, <2>2, <2>4 DEF PieceInv
    <2>6. TypeOK'
      BY <1>2, <1>3, <1>5, <1>8, <2>1 DEF TypeOK, ReadToReplica
    <2>7. QED
      BY <2>5, <2>6 DEF SyncInv
  <1>9. QED
    BY <1>7, <1>8

\* The replica's answer is the reply the client waits for.
LEMMA ReplicaAnsweredSyncInv ==
    ASSUME SyncInv, ReplicaAnswered
    PROVE  SyncInv'
PROOF
  <1>1. PICK kind \in KindsOf : PieceInv(kind)
    BY DEF SyncInv
  <1> DEFINE f == replica[1]
  <1>2. /\ TypeOK /\ sent \in Nat /\ partial \in Nat /\ waiting \in Nat
        /\ wire \in Seq(Pieces) /\ mainIn \in Seq(Pieces) /\ replica # <<>>
    BY RoutingAssumption DEF SyncInv, TypeOK, ReplicaAnswered
  <1>3. 1 \in DOMAIN replica /\ Key(f) = 2 * sent /\ waiting = 1 /\ 2 * partial < 2 * sent
    BY <1>1, <1>2, ReplicaFacts
  <1>4. /\ sent' = sent /\ waiting' = 0 /\ partial' = partial /\ wire' = wire /\ mainIn' = mainIn
        /\ replica' = <<>>
    BY <1>3 DEF ReplicaAnswered
  <1>5. \A i \in DOMAIN wire : wire[i] \in Pieces /\ Key(wire[i]) # 2 * sent
    <2>1. \A i \in DOMAIN wire : wire[i] \in Pieces /\ 2 * sent < Key(wire[i])
      BY <1>1, <1>2, <1>3 DEF PieceInv, Before
    <2>2. QED
      BY <1>2, <2>1, KeyFacts
  <1>6. \A i \in DOMAIN mainIn : mainIn[i] \in Pieces /\ Key(mainIn[i]) # 2 * sent
    <2>1. \A i \in DOMAIN mainIn : mainIn[i] \in Pieces /\ Key(mainIn[i]) < 2 * sent
      BY <1>1, <1>2, <1>3 DEF PieceInv, Before
    <2>2. QED
      BY <1>2, <2>1, KeyFacts
  <1>7. AllGood(wire, kind, sent, 0, partial) /\ AllGood(mainIn, kind, sent, 0, partial)
    BY <1>1, <1>2, <1>5, <1>6, AnsweredPieces DEF PieceInv
  <1>8. partial # 0 => partial <= sent /\ ~HasReply(kind[partial])
    <2>1. partial # sent
      BY <1>2, <1>3
    <2>2. QED
      BY <1>1, <2>1 DEF PieceInv
  <1>9. PieceInv(kind)'
    <2>1. AllGood(<<>>, kind, sent, 0, partial) /\ Before(mainIn, <<>>) /\ Before(<<>>, wire)
      BY DEF AllGood, Before
    <2>2. Increasing(wire) /\ Increasing(mainIn) /\ Before(mainIn, wire)
      BY <1>1 DEF PieceInv
    <2>3. QED
      BY <1>4, <1>7, <1>8, <2>1, <2>2 DEF PieceInv
  <1>10. TypeOK'
    <2>1. replica' \in Seq(Pieces) /\ 0 \in 0..Window
      BY <1>4, EmptySeq, RoutingAssumption
    <2>2. QED
      BY <1>2, <1>4, <2>1 DEF TypeOK, ReplicaAnswered
  <1>11. QED
    BY <1>9, <1>10 DEF SyncInv

\* What a command leaves of the transaction, whether it succeeds or fails.
LEMMA ExecuteTx ==
    ASSUME NEW k, tx \in TxStates, Execute(k)
    PROVE  tx' \in TxStates
PROOF
  <1>1. tx.open \in BOOLEAN /\ tx.auto \in BOOLEAN
    BY DEF TxStates
  <1>2. [tx EXCEPT !.open = FALSE] \in TxStates
    BY DEF TxStates
  <1>3. TxAfter(k, tx) \in TxStates
    <2>1. /\ (k \in {"begin", "chain", "execBegin"} \/ (tx.open /\ k \notin {"end", "ddl"})) \in BOOLEAN
          /\ (tx.auto /\ k # "autocommit0") \in BOOLEAN
      BY <1>1
    <2>2. QED
      BY <2>1 DEF TxAfter, TxStates
  <1>4. QED
    BY <1>2, <1>3 DEF Execute

\* The main server takes a piece.
LEMMA MainReadsSyncInv ==
    ASSUME Synchronous, SyncInv, MainReads
    PROVE  SyncInv'
PROOF
  <1>1. PICK kind \in KindsOf : PieceInv(kind)
    BY DEF SyncInv
  <1> DEFINE f == mainIn[1]
             t == Tail(mainIn)
  <1>2. /\ TypeOK /\ sent \in Nat /\ partial \in Nat /\ waiting \in Nat /\ tx \in TxStates
        /\ wire \in Seq(Pieces) /\ mainIn \in Seq(Pieces) /\ replica \in Seq(Pieces) /\ mainIn # <<>>
    BY RoutingAssumption DEF SyncInv, TypeOK, MainReads
  <1>3. /\ AllGood(wire, kind, sent, waiting, partial) /\ AllGood(mainIn, kind, sent, waiting, partial)
        /\ AllGood(replica, kind, sent, waiting, partial)
        /\ Increasing(wire) /\ Increasing(mainIn)
        /\ Before(mainIn, replica) /\ Before(mainIn, wire) /\ Before(replica, wire)
    BY <1>1 DEF PieceInv
  <1>4. /\ t \in Seq(Pieces) /\ Head(mainIn) = f /\ f \in Pieces
        /\ AllGood(t, kind, sent, waiting, partial) /\ Good(f, kind, sent, waiting, partial)
        /\ Increasing(t) /\ \A i \in DOMAIN t : Key(f) < Key(t[i])
    BY <1>2, <1>3, TailFacts
  <1>5. /\ Before(t, replica) /\ \A i \in DOMAIN replica : Key(f) < Key(replica[i])
        /\ Before(t, wire) /\ \A i \in DOMAIN wire : Key(f) < Key(wire[i])
    BY <1>2, <1>3, TailFacts
  <1>6. /\ sent' = sent /\ wire' = wire /\ inTrans' = inTrans /\ replica' = replica /\ mainIn' = t
    BY DEF MainReads
  <1> HIDE DEF f, t
  <1>7. /\ f.id \in Nat \ {0} /\ f.id \in 1..MaxCommands /\ f.id <= sent /\ f.kind = kind[f.id]
        /\ Key(f) \in Nat /\ 2 * partial < Key(f)
        /\ f.part # "tail" => Key(f) = 2 * f.id
        /\ f.part = "tail" => Key(f) = 2 * f.id + 1
        /\ Live(f) => f.id = sent /\ waiting = 1
    BY <1>4, KeyFacts DEF Good
  <1>8. \A q \in {wire, t, replica} :
            /\ q \in Seq(Pieces) /\ AllGood(q, kind, sent, waiting, partial)
            /\ \A i \in DOMAIN q : q[i] \in Pieces /\ Key(q[i]) \in Nat /\ Key(f) < Key(q[i])
    <2>1. \A q \in {wire, t, replica} :
              /\ q \in Seq(Pieces) /\ AllGood(q, kind, sent, waiting, partial)
              /\ \A i \in DOMAIN q : Key(f) < Key(q[i])
      BY <1>2, <1>3, <1>4, <1>5
    <2>2. \A q \in {wire, t, replica} : \A i \in DOMAIN q : q[i] \in Pieces
      BY <2>1
    <2>3. QED
      BY <2>1, <2>2, KeyFacts
  \* Whichever way the piece is taken, it is enough to look at the pieces one by one.
  <1>9. ASSUME NEW w \in 0..1, NEW p \in 0..MaxCommands,
               \A q \in {wire, t, replica} : AllGood(q, kind, sent, w, p),
               p # 0 => p <= sent /\ (HasReply(kind[p]) => p = sent /\ w = 1),
               waiting' = w, partial' = p, tx' \in TxStates, mainUp' \in BOOLEAN
        PROVE  SyncInv'
    <2>1. replica # <<>> => Live(replica[1]) /\ \A i \in DOMAIN replica : replica[i].id = sent
      BY <1>1 DEF PieceInv
    <2>2. PieceInv(kind)'
      BY <1>3, <1>4, <1>5, <1>6, <1>9, <2>1 DEF PieceInv
    <2>3. TypeOK'
      <3>1. w \in 0..Window
        BY RoutingAssumption
      <3>2. QED
        BY <1>2, <1>4, <1>6, <1>9, <3>1 DEF TypeOK
    <2>4. QED
      BY <2>2, <2>3 DEF SyncInv
  <1>10. waiting \in 0..1
    BY <1>2 DEF TypeOK, Synchronous
  <1>11. partial # 0 => partial <= sent /\ (HasReply(kind[partial]) => partial = sent /\ waiting = 1)
    BY <1>1 DEF PieceInv
  \* Once the last command is answered, nothing under way will be answered.
  <1>12. ASSUME 2 * sent <= Key(f)
         PROVE  \A q \in {wire, t, replica} : AllGood(q, kind, sent, 0, partial)
    <2>1. \A q \in {wire, t, replica} : \A i \in DOMAIN q : Key(q[i]) # 2 * sent
      BY <1>2, <1>7, <1>8, <1>12
    <2>2. QED
      BY <1>2, <1>8, <2>1, AnsweredPieces
  \* The bound on the pieces' places can be replaced by any that the first one reaches.
  <1>13. ASSUME NEW w, NEW p \in Nat, \A q \in {wire, t, replica} : AllGood(q, kind, sent, w, partial),
                2 * p <= Key(f)
         PROVE  \A q \in {wire, t, replica} : AllGood(q, kind, sent, w, p)
    <2>1. \A q \in {wire, t, replica} : \A i \in DOMAIN q : 2 * p < Key(q[i])
      BY <1>7, <1>8, <1>13
    <2>2. \A q \in {wire, t, replica} : \A i \in DOMAIN q : Good(q[i], kind, sent, w, partial)
      BY <1>13 DEF AllGood
    <2>3. QED
      BY <2>1, <2>2 DEF AllGood, Good
  <1>14. CASE f.part = "whole" /\ partial = 0 /\ Execute(f.kind) /\ UNCHANGED <<partial, mainUp>>
    <2>1. tx' \in TxStates /\ mainUp' \in BOOLEAN /\ partial' = 0 /\ 0 \in 0..MaxCommands
      BY <1>2, <1>14, ExecuteTx, RoutingAssumption DEF TypeOK
    <2>2. CASE HasReply(f.kind)
      <3>1. Live(f)
        BY <1>14, <2>2 DEF Live
      <3>2. f.id = sent /\ waiting = 1 /\ Key(f) = 2 * f.id
        BY <1>7, <1>14, <3>1
      <3>3. 2 * sent <= Key(f) /\ waiting - 1 = 0
        BY <1>2, <3>2
      <3>4. waiting' = 0
        BY <1>14, <2>2, <3>3 DEF Execute
      <3>5. \A q \in {wire, t, replica} : AllGood(q, kind, sent, 0, 0)
        BY <1>12, <1>14, <3>3
      <3>6. QED
        BY <1>9, <2>1, <3>4, <3>5
    <2>3. CASE ~HasReply(f.kind)
      <3>1. waiting' = waiting
        BY <1>14, <2>3 DEF Execute
      <3>2. \A q \in {wire, t, replica} : AllGood(q, kind, sent, waiting, 0)
        BY <1>8, <1>14
      <3>3. QED
        BY <1>9, <1>10, <2>1, <3>1, <3>2
    <2>4. QED
      BY <2>2, <2>3
  <1>15. CASE f.part = "head" /\ partial = 0 /\ partial' = f.id /\ UNCHANGED <<waiting, mainUp, tx>>
    <2>1. tx' \in TxStates /\ mainUp' \in BOOLEAN /\ waiting' = waiting
      BY <1>2, <1>15 DEF TypeOK
    <2>2. f.id \in Nat /\ f.id \in 0..MaxCommands /\ 2 * f.id <= Key(f)
      BY <1>7, <1>15
    <2>3. \A q \in {wire, t, replica} : AllGood(q, kind, sent, waiting, f.id)
      BY <1>8, <1>13, <2>2
    <2>4. f.id <= sent /\ (HasReply(kind[f.id]) => f.id = sent /\ waiting = 1)
      BY <1>7, <1>15 DEF Live
    <2>5. QED
      BY <1>9, <1>10, <1>15, <2>1, <2>2, <2>3, <2>4
  <1>16. CASE f.part = "tail" /\ partial = f.id /\ partial' = 0 /\ Execute(f.kind) /\ UNCHANGED mainUp
    <2>1. tx' \in TxStates /\ mainUp' \in BOOLEAN /\ partial' = 0 /\ 0 \in 0..MaxCommands
      BY <1>2, <1>16, ExecuteTx, RoutingAssumption DEF TypeOK
    <2>2. 0 \in Nat /\ 2 * 0 <= Key(f) /\ Key(f) = 2 * f.id + 1
      BY <1>7, <1>16
    <2>3. CASE HasReply(f.kind)
      <3>1. f.id = sent /\ waiting = 1
        BY <1>7, <1>11, <1>16, <2>3
      <3>2. 2 * sent <= Key(f) /\ waiting - 1 = 0
        BY <1>2, <2>2, <3>1
      <3>3. waiting' = 0
        BY <1>16, <2>3, <3>2 DEF Execute
      <3>4. \A q \in {wire, t, replica} : AllGood(q, kind, sent, 0, 0)
        BY <1>12, <1>13, <2>2, <3>2
      <3>5. QED
        BY <1>9, <2>1, <3>3, <3>4
    <2>4. CASE ~HasReply(f.kind)
      <3>1. waiting' = waiting
        BY <1>16, <2>4 DEF Execute
      <3>2. \A q \in {wire, t, replica} : AllGood(q, kind, sent, waiting, 0)
        BY <1>8, <1>13, <2>2
      <3>3. QED
        BY <1>9, <1>10, <2>1, <3>1, <3>2
    <2>5. QED
      BY <2>3, <2>4
  <1>17. CASE mainUp' = FALSE /\ tx' = NoTx /\ UNCHANGED <<waiting, partial>>
    <2>1. tx' \in TxStates /\ mainUp' \in BOOLEAN
      BY <1>17 DEF NoTx, TxStates
    <2>2. waiting' = waiting /\ partial' = partial /\ partial \in 0..MaxCommands
      BY <1>2, <1>17 DEF TypeOK
    <2>3. \A q \in {wire, t, replica} : AllGood(q, kind, sent, waiting, partial)
      BY <1>8
    <2>4. QED
      BY <1>9, <1>10, <1>11, <2>1, <2>2, <2>3
  <1>18. QED
    <2>1. Head(mainIn) = f
      BY <1>4
    <2>2. \/ f.part = "whole" /\ partial = 0 /\ Execute(f.kind) /\ UNCHANGED <<partial, mainUp>>
          \/ f.part = "head" /\ partial = 0 /\ partial' = f.id /\ UNCHANGED <<waiting, mainUp, tx>>
          \/ /\ f.part = "tail" /\ partial = f.id /\ partial' = 0 /\ Execute(f.kind)
             /\ UNCHANGED mainUp
          \/ mainUp' = FALSE /\ tx' = NoTx /\ UNCHANGED <<waiting, partial>>
      BY <2>1, Zenon DEF MainReads
    <2>3. QED
      BY <1>14, <1>15, <1>16, <1>17, <2>2

\* The invariant is inductive.
LEMMA NextSyncInv ==
    ASSUME Synchronous, SyncInv, [Next]_vars
    PROVE  SyncInv'
PROOF
  <1>1. CASE \E k \in Commands : Send(k)
    BY <1>1, SendSyncInv
  <1>2. CASE \E n \in 1..Len(wire) : ReadToMain(n) \/ ReadToReplica(n)
    BY <1>2, ReadSyncInv
  <1>3. CASE ReplicaAnswered
    BY <1>3, ReplicaAnsweredSyncInv
  <1>4. CASE MainReads
    BY <1>4, MainReadsSyncInv
  <1>5. CASE UNCHANGED vars
    <2>1. PICK kind \in KindsOf : PieceInv(kind)
      BY DEF SyncInv
    <2>2. PieceInv(kind)'
      BY <1>5, <2>1 DEF vars, PieceInv
    <2>3. TypeOK'
      BY <1>5 DEF vars, SyncInv, TypeOK
    <2>4. QED
      BY <2>2, <2>3 DEF SyncInv
  <1>6. QED
    BY <1>1, <1>2, <1>3, <1>4, <1>5 DEF Next

\* With a synchronous client, whether its commands arrive whole or in pieces, and
\* wherever these are cut as long as a tail does not look like a command,
\* the session's state keeps its type: in particular each reply that the client
\* is sent is one it expects, so that waiting never falls below zero.
THEOREM SynchronousTypes == ASSUME Synchronous PROVE Spec => []TypeOK
PROOF
  <1>1. Init => SyncInv
    BY InitSyncInv
  <1>2. SyncInv /\ [Next]_vars => SyncInv'
    BY NextSyncInv
  <1>3. SyncInv => TypeOK
    BY DEF SyncInv
  <1>4. QED
    BY <1>1, <1>2, <1>3, PTL DEF Spec

=============================================================================
