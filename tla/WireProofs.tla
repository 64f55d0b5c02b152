------------------------------ MODULE WireProofs ------------------------------
(***************************************************************************)
(* Proofs about Wire, for all packet, buffer and cache sizes, all lengths  *)
(* of packets and any number of commands.                                  *)
(***************************************************************************)
EXTENDS Wire, WellFoundedInduction, SequenceTheorems, TLAPS

-----------------------------------------------------------------------------
(***************************************************************************)
(* Arithmetic and sequences.                                               *)
(***************************************************************************)

\* A set of numbers has a least one.
LEMMA NatMin ==
    ASSUME NEW T, T \subseteq Nat, T # {}
    PROVE  \E n \in T : \A m \in T : n <= m
PROOF
  <1> DEFINE R == OpToRel(<, Nat)
  <1>1. \A x, y \in Nat : x < y => <<x, y>> \in R
    BY DEF OpToRel
  <1>2. IsWellFoundedOn(R, Nat)
    BY NatLessThanWellFounded
  <1> HIDE DEF R
  <1>3. PICK n \in T : \A m \in T : ~(<<m, n>> \in R)
    BY <1>2, WFMin
  <1>4. ASSUME NEW m \in T PROVE n <= m
    <2>1. n \in Nat /\ m \in Nat
      OBVIOUS
    <2>2. ~(m < n)
      BY <1>1, <1>3, <2>1
    <2>3. QED
      BY <2>1, <2>2
  <1>5. QED
    BY <1>4

\* Induction on numbers, over a set of them.
LEMMA Induction ==
    ASSUME NEW G, 0 \in G, \A n \in Nat : n \in G => n + 1 \in G
    PROVE  Nat \subseteq G
PROOF
  <1> SUFFICES ASSUME Nat \ G # {}
               PROVE  FALSE
    OBVIOUS
  <1>1. PICK n \in Nat \ G : \A m \in Nat \ G : n <= m
    BY NatMin
  <1>2. n # 0 /\ n - 1 \in Nat
    BY <1>1
  <1>3. n - 1 \in G
    BY <1>1, <1>2
  <1>4. (n - 1) + 1 \in G
    BY <1>2, <1>3
  <1>5. QED
    BY <1>1, <1>4

\* The remainder lies below the divisor.
LEMMA DivMod ==
    ASSUME NEW a \in Nat, NEW m \in Nat \ {0}
    PROVE  a \div m \in Nat /\ a % m \in Nat /\ a % m < m
  OBVIOUS

\* A number below the modulus is its own remainder.
LEMMA SmallMod ==
    ASSUME NEW m \in Nat \ {0}, NEW a \in Nat, a < m
    PROVE  a % m = a
PROOF
  OBVIOUS

\* One modulus less leaves the same remainder.
LEMMA ModBack ==
    ASSUME NEW m \in Nat \ {0}, NEW a \in Nat
    PROVE  a >= m => a - m \in Nat /\ (a - m) \div m = a \div m - 1 /\ (a - m) % m = a % m
PROOF
  OBVIOUS

\* It does not matter whether a remainder is taken on the way.
LEMMA ModAdd ==
    ASSUME NEW m \in Nat \ {0}, NEW a \in Nat, NEW b \in Nat
    PROVE  ((a % m) + b) % m = (a + b) % m
PROOF
  <1> DEFINE Same(x) == ((x % m) + b) % m = (x + b) % m
             S == {x \in Nat : ~Same(x)}
  <1> SUFFICES ASSUME S # {} PROVE FALSE
    OBVIOUS
  <1>1. PICK x \in S : \A y \in S : x <= y
    BY NatMin
  <1>2. x >= m
    <2> SUFFICES ASSUME x < m PROVE FALSE
      OBVIOUS
    <2>1. x % m = x
      BY SmallMod
    <2>2. QED
      BY <1>1, <2>1
  <1>9. x \in Nat /\ m \in Nat /\ m > 0
    BY <1>1
  <1>3. x - m \in Nat /\ x - m < x /\ (x - m) % m = x % m
    <2> HIDE DEF S
    <2>1. x - m \in Nat /\ (x - m) % m = x % m
      BY <1>2, <1>9, ModBack, Zenon
    <2>2. QED
      BY <1>9, <2>1
  <1>4. x + b >= m /\ x + b \in Nat /\ (x + b - m) % m = (x + b) % m
    <2>1. x + b >= m /\ x + b \in Nat
      BY <1>1, <1>2
    <2> DEFINE c == x + b
    <2>2. c >= m /\ c \in Nat
      BY <2>1
    <2> HIDE DEF c
    <2>3. (c - m) % m = c % m
      BY <2>2, ModBack, Zenon
    <2>4. QED
      BY <2>2, <2>3 DEF c
  <1>5. Same(x - m)
    <2> HIDE DEF Same
    <2>1. QED
    BY <1>1, <1>3
  <1>6. (x - m) + b = x + b - m
    BY <1>1
  <1>7. Same(x)
    BY <1>3, <1>4, <1>5, <1>6, Zenon
  <1>8. QED
    BY <1>1, <1>7

\* A packet at or above the limit starts with a full frame.
LEMMA SizesStep ==
    ASSUME NEW len \in Nat
    PROVE  /\ Sizes(len) \in Seq(Nat)
           /\ len < PacketMax => Sizes(len) = <<len>>
           /\ len >= PacketMax => len - PacketMax \in Nat /\ Sizes(len) = <<PacketMax>> \o Sizes(len - PacketMax)
PROOF
  <1>1. PacketMax \in Nat \ {0}
    BY WireAssumption
  <1> DEFINE q(l) == l \div PacketMax
             r(l) == l % PacketMax
  <1>2. q(len) \in Nat /\ r(len) \in Nat
    BY <1>1, DivMod
  <1>3. len < PacketMax => q(len) = 0 /\ r(len) = len
    BY <1>1
  <1>4. len >= PacketMax => len - PacketMax \in Nat /\ q(len - PacketMax) = q(len) - 1 /\ r(len - PacketMax) = r(len)
    BY <1>1
  <1>5. \A l \in Nat : Sizes(l) = [j \in 1..(q(l) + 1) |-> IF j <= q(l) THEN PacketMax ELSE r(l)]
    BY DEF Sizes
  <1>8. len >= PacketMax => q(len) >= 1
    BY <1>1
  <1> HIDE DEF q, r
  <1>6. Sizes(len) \in Seq(Nat) /\ Len(Sizes(len)) = q(len) + 1
    <2> DEFINE k == q(len)
               t == Sizes(len)
    <2>1. t = [j \in 1..(k + 1) |-> IF j <= k THEN PacketMax ELSE r(len)]
      BY <1>5
    <2> HIDE DEF k, t
    <2>2. t \in Seq(Nat) /\ Len(t) = k + 1
      BY <1>1, <1>2, <2>1 DEF k
    <2>3. QED
      BY <2>2 DEF k, t
  <1>7. ASSUME len < PacketMax PROVE Sizes(len) = <<len>>
    BY <1>3, <1>5, <1>6, <1>7
  <1>9. ASSUME len >= PacketMax PROVE Sizes(len) = <<PacketMax>> \o Sizes(len - PacketMax)
    <2>1. len - PacketMax \in Nat /\ q(len - PacketMax) = q(len) - 1 /\ r(len - PacketMax) = r(len)
      BY <1>4, <1>9
    <2> DEFINE k == q(len) - 1
               t == Sizes(len - PacketMax)
    <2>2. k \in Nat
      BY <1>2, <1>8, <1>9
    <2>3. t = [j \in 1..(k + 1) |-> IF j <= k THEN PacketMax ELSE r(len)]
      BY <1>5, <2>1
    <2>4. Sizes(len) = [j \in 1..(k + 2) |-> IF j <= k + 1 THEN PacketMax ELSE r(len)]
      BY <1>2, <1>5
    <2> HIDE DEF k, t
    <2>5. t \in Seq(Nat) /\ Len(t) = k + 1
      BY <1>1, <1>2, <2>2, <2>3
    <2>6. <<PacketMax>> \o t \in Seq(Nat) /\ Len(<<PacketMax>> \o t) = k + 2
      BY <1>1, <2>2, <2>5
    <2>7. ASSUME NEW j \in 1..(k + 2) PROVE (<<PacketMax>> \o t)[j] = IF j <= k + 1 THEN PacketMax ELSE r(len)
      BY <1>1, <2>2, <2>3, <2>5
    <2>8. <<PacketMax>> \o t = [j \in 1..(k + 2) |-> IF j <= k + 1 THEN PacketMax ELSE r(len)]
      <3> DEFINE s == <<PacketMax>> \o t
      <3>1. \A j \in 1..(k + 2) : s[j] = IF j <= k + 1 THEN PacketMax ELSE r(len)
        BY <2>7
      <3>2. s \in Seq(Nat) /\ Len(s) = k + 2
        BY <2>6
      <3> HIDE DEF s
      <3>3. s = [j \in 1..(k + 2) |-> s[j]]
        BY <3>2
      <3>4. QED
        BY <3>1, <3>3 DEF s
    <2>9. QED
      BY <2>4, <2>8 DEF t
  <1>10. QED
    BY <1>4, <1>6, <1>7, <1>9

\* The loop of writePacket cuts a command the way the protocol says.
LEMMA WriteFramesSizes ==
    ASSUME NEW len \in Nat
    PROVE  WriteFrames(len) = Sizes(len)
PROOF
  <1> DEFINE Loop(f) == [rest \in 0..len |->
                 IF rest >= PacketMax THEN <<PacketMax>> \o f[rest - PacketMax] ELSE <<rest>>]
             frames == CHOOSE f : f = Loop(f)
             g == [rest \in 0..len |-> Sizes(rest)]
  <1>1. PacketMax \in Nat \ {0}
    BY WireAssumption
  <1>2. WriteFrames(len) = frames[len]
    BY DEF WriteFrames
  <1>3. g = Loop(g)
    <2>1. ASSUME NEW rest \in 0..len
          PROVE  Sizes(rest) = IF rest >= PacketMax THEN <<PacketMax>> \o g[rest - PacketMax] ELSE <<rest>>
      <3>1. rest >= PacketMax => rest - PacketMax \in 0..len
        BY <1>1
      <3>2. rest >= PacketMax => g[rest - PacketMax] = Sizes(rest - PacketMax)
        BY <3>1
      <3>3. rest \in Nat
        OBVIOUS
      <3> HIDE DEF g
      <3>4. /\ rest < PacketMax => Sizes(rest) = <<rest>>
            /\ rest >= PacketMax => Sizes(rest) = <<PacketMax>> \o Sizes(rest - PacketMax)
        BY <3>3, SizesStep
      <3>5. CASE rest >= PacketMax
        BY <3>2, <3>4, <3>5
      <3>6. CASE ~(rest >= PacketMax)
        BY <1>1, <3>3, <3>4, <3>6
      <3>7. QED
        BY <3>5, <3>6
    <2>2. QED
      BY <2>1
  <1>4. frames = Loop(frames)
    BY <1>3, Zenon
  <1> HIDE DEF frames, g
  <1> DEFINE T == {rest \in 0..len : frames[rest] # Sizes(rest)}
  <1>5. ASSUME T # {} PROVE FALSE
    <2>1. PICK n \in T : \A m \in T : n <= m
      <3>1. T \subseteq Nat
        OBVIOUS
      <3> HIDE DEF T
      <3>2. QED
        BY <1>5, <3>1, NatMin
    <2>2. frames[n] = IF n >= PacketMax THEN <<PacketMax>> \o frames[n - PacketMax] ELSE <<n>>
      BY <1>4
    <2>3. n >= PacketMax => n - PacketMax \in 0..len /\ ~(n - PacketMax \in T)
      BY <1>1, <2>1
    <2>4. n \in Nat /\ (n >= PacketMax => frames[n - PacketMax] = Sizes(n - PacketMax))
      BY <2>3
    <2>6. /\ n < PacketMax => Sizes(n) = <<n>>
          /\ n >= PacketMax => Sizes(n) = <<PacketMax>> \o Sizes(n - PacketMax)
      BY <2>4, SizesStep
    <2>7. frames[n] = Sizes(n)
      <3>1. CASE n >= PacketMax
        BY <2>2, <2>4, <2>6, <3>1
      <3>2. CASE ~(n >= PacketMax)
        BY <1>1, <2>2, <2>4, <2>6, <3>2
      <3>3. QED
        BY <3>1, <3>2
    <2>8. QED
      BY <2>7
  <1>6. QED
    BY <1>2, <1>5

\* What FlattenSeq puts together, part by part: f[n] is what the first n are.
LEMMA FlattenParts ==
    ASSUME NEW S, NEW qs \in Seq(Seq(S))
    PROVE  \E f \in [0..Len(qs) -> Seq(S)] :
               /\ f[0] = <<>>
               /\ \A i \in 1..Len(qs) : f[i] = f[i - 1] \o qs[i]
               /\ FlattenSeq(qs) = f[Len(qs)]
PROOF
  <1> DEFINE Rec(f, i) == IF i = 1 THEN qs[i] ELSE f[i - 1] \o qs[i]
             flatten == CHOOSE f : f = [i \in 1..Len(qs) |-> Rec(f, i)]
             Has(n) == \E f : f \in [1..n -> Seq(S)] /\ \A i \in 1..n : f[i] = Rec(f, i)
             G == {n \in Nat : n <= Len(qs) => Has(n)}
  <1>1. FlattenSeq(qs) = IF Len(qs) = 0 THEN qs ELSE flatten[Len(qs)]
    BY DEF FlattenSeq
  <1>2. Has(0)
    <2> DEFINE e == [i \in 1..0 |-> <<>>]
    <2>1. e \in [1..0 -> Seq(S)]
      OBVIOUS
    <2>2. \A i \in 1..0 : e[i] = Rec(e, i)
      OBVIOUS
    <2>3. QED
      BY <2>1, <2>2
  <1>3. ASSUME NEW n \in Nat, Has(n), n + 1 <= Len(qs) PROVE Has(n + 1)
    <2>1. PICK f : f \in [1..n -> Seq(S)] /\ \A i \in 1..n : f[i] = Rec(f, i)
      BY <1>3
    <2> DEFINE last == IF n = 0 THEN qs[1] ELSE f[n] \o qs[n + 1]
               g == [i \in 1..(n + 1) |-> IF i = n + 1 THEN last ELSE f[i]]
    <2>2. qs[n + 1] \in Seq(S) /\ (n # 0 => f[n] \in Seq(S))
      BY <1>3, <2>1
    <2>3. last \in Seq(S)
      BY <2>2
    <2> HIDE DEF last
    <2>4. g \in [1..(n + 1) -> Seq(S)]
      BY <2>1, <2>3
    <2>5. g[n + 1] = last /\ \A i \in 1..n : g[i] = f[i]
      OBVIOUS
    <2> HIDE DEF g
    <2>6. g[n + 1] = Rec(g, n + 1)
      <3>1. (n + 1) - 1 = n /\ (n + 1 = 1 <=> n = 0) /\ (n # 0 => n \in 1..n)
        OBVIOUS
      <3>2. n # 0 => g[n] = f[n]
        BY <2>5, <3>1
      <3>3. CASE n = 0
        BY <2>5, <3>3 DEF last
      <3>4. CASE n # 0
        BY <2>5, <3>1, <3>2, <3>4 DEF last
      <3>5. QED
        BY <3>3, <3>4
    <2>7. ASSUME NEW i \in 1..n PROVE g[i] = Rec(g, i)
      <3>1. i # 1 => i - 1 \in 1..n
        OBVIOUS
      <3>2. QED
        BY <2>1, <2>5, <3>1
    <2>8. \A i \in 1..(n + 1) : i = n + 1 \/ i \in 1..n
      OBVIOUS
    <2>9. \A i \in 1..(n + 1) : g[i] = Rec(g, i)
      BY <2>6, <2>7, <2>8
    <2>10. QED
      BY <2>4, <2>9
  <1>4. Has(Len(qs))
    <2> HIDE DEF Has
    <2>1. 0 \in G
      BY <1>2
    <2>2. \A n \in Nat : n \in G => n + 1 \in G
      BY <1>3
    <2> HIDE DEF G
    <2>3. Nat \subseteq G
      BY <2>1, <2>2, Induction
    <2>4. Len(qs) \in Nat
      OBVIOUS
    <2>5. Len(qs) \in G
      BY <2>3, <2>4
    <2>6. QED
      BY <2>4, <2>5 DEF G
  <1>5. PICK f : f \in [1..Len(qs) -> Seq(S)] /\ \A i \in 1..Len(qs) : f[i] = Rec(f, i)
    BY <1>4
  <1>6. f = [i \in 1..Len(qs) |-> Rec(f, i)]
    BY <1>5
  <1>7. flatten = [i \in 1..Len(qs) |-> Rec(flatten, i)]
    BY <1>6, Zenon
  <1> HIDE DEF flatten, Has, G
  <1>8. \A i \in 1..Len(qs) : flatten[i] = Rec(flatten, i)
    BY <1>7
  <1>9. \A i \in 1..Len(qs) : flatten[i] \in Seq(S)
    <2> DEFINE H == {n \in Nat : n \in 1..Len(qs) => flatten[n] \in Seq(S)}
    <2>1. 0 \in H
      OBVIOUS
    <2>2. ASSUME NEW n \in Nat, n \in H, n + 1 \in 1..Len(qs) PROVE flatten[n + 1] \in Seq(S)
      <3>1. flatten[n + 1] = IF n = 0 THEN qs[1] ELSE flatten[n] \o qs[n + 1]
        BY <1>8, <2>2
      <3>2. n # 0 => flatten[n] \in Seq(S)
        BY <2>2
      <3>3. qs[n + 1] \in Seq(S)
        BY <2>2
      <3>4. QED
        BY <3>1, <3>2, <3>3
    <2>3. ASSUME NEW n \in Nat, n \in H PROVE n + 1 \in H
      <3>1. n + 1 \in 1..Len(qs) => flatten[n + 1] \in Seq(S)
        BY <2>2, <2>3
      <3>2. QED
        BY <3>1
    <2>4. \A n \in H : n \in 1..Len(qs) => flatten[n] \in Seq(S)
      OBVIOUS
    <2> HIDE DEF H
    <2>5. Nat \subseteq H
      BY <2>1, <2>3, Induction
    <2>6. QED
      BY <2>4, <2>5
  <1> DEFINE h == [i \in 0..Len(qs) |-> IF i = 0 THEN <<>> ELSE flatten[i]]
  <1>10. h \in [0..Len(qs) -> Seq(S)] /\ h[0] = <<>> /\ \A i \in 1..Len(qs) : h[i] = flatten[i]
    BY <1>9
  <1>11. FlattenSeq(qs) = h[Len(qs)]
    BY <1>1, <1>10
  <1> HIDE DEF h
  <1>12. ASSUME NEW i \in 1..Len(qs) PROVE h[i] = h[i - 1] \o qs[i]
    <2>1. CASE i = 1
      <3>1. h[i] = qs[i] /\ qs[i] \in Seq(S)
        BY <1>8, <1>10, <2>1
      <3>2. QED
        <4>1. h[i - 1] = <<>>
          BY <1>10, <2>1
        <4>2. QED
          BY <3>1, <4>1, ConcatEmptySeq
    <2>2. CASE i # 1
      <3>1. i - 1 \in 1..Len(qs)
        BY <2>2
      <3>2. QED
        BY <1>8, <1>10, <2>2, <3>1
    <2>3. QED
      BY <2>1, <2>2
  <1>13. QED
    BY <1>10, <1>11, <1>12

\* The parts of a sequence over S make a sequence over S.
LEMMA FlattenType ==
    ASSUME NEW S, NEW qs \in Seq(Seq(S))
    PROVE  FlattenSeq(qs) \in Seq(S)
PROOF
  <1>1. PICK f \in [0..Len(qs) -> Seq(S)] : FlattenSeq(qs) = f[Len(qs)]
    BY FlattenParts
  <1>2. Len(qs) \in 0..Len(qs)
    OBVIOUS
  <1>3. QED
    BY <1>1, <1>2

\* The last part comes last.
LEMMA FlattenSnoc ==
    ASSUME NEW S, NEW qs \in Seq(Seq(S)), NEW ps \in Seq(Seq(S)), Len(qs) = Len(ps) + 1,
           \A i \in 1..Len(ps) : qs[i] = ps[i]
    PROVE  FlattenSeq(qs) = FlattenSeq(ps) \o qs[Len(qs)]
PROOF
  <1> DEFINE n == Len(ps)
  <1>1. n \in Nat /\ Len(qs) = n + 1
    OBVIOUS
  <1>2. PICK f \in [0..Len(qs) -> Seq(S)] :
            f[0] = <<>> /\ (\A i \in 1..Len(qs) : f[i] = f[i - 1] \o qs[i]) /\ FlattenSeq(qs) = f[Len(qs)]
    BY FlattenParts
  <1>3. PICK g \in [0..n -> Seq(S)] :
            g[0] = <<>> /\ (\A i \in 1..n : g[i] = g[i - 1] \o ps[i]) /\ FlattenSeq(ps) = g[n]
    BY FlattenParts
  <1>4. \A i \in 1..n : qs[i] = ps[i]
    OBVIOUS
  <1> HIDE DEF n
  <1> DEFINE G == {i \in Nat : i <= n => f[i] = g[i]}
  <1>5. 0 \in G
    BY <1>2, <1>3
  <1>6. ASSUME NEW i \in Nat, i \in G PROVE i + 1 \in G
    <2> SUFFICES ASSUME i + 1 <= n PROVE f[i + 1] = g[i + 1]
      OBVIOUS
    <2>1. i + 1 \in 1..n /\ i + 1 \in 1..(n + 1) /\ (i + 1) - 1 = i /\ i <= n
      BY <1>1
    <2>2. f[i] = g[i]
      BY <1>6, <2>1
    <2>3. f[i + 1] = f[i] \o qs[i + 1]
      BY <1>1, <1>2, <2>1
    <2>4. g[i + 1] = g[i] \o ps[i + 1]
      BY <1>3, <2>1
    <2>5. qs[i + 1] = ps[i + 1]
      BY <1>4, <2>1
    <2>6. QED
      BY <2>2, <2>3, <2>4, <2>5
  <1>7. n \in G => f[n] = g[n]
    BY <1>1
  <1> HIDE DEF G
  <1>8. f[n] = g[n]
    BY <1>1, <1>5, <1>6, <1>7, Induction
  <1>9. n + 1 \in 1..Len(qs) /\ (n + 1) - 1 = n
    BY <1>1
  <1>10. f[n + 1] = f[n] \o qs[n + 1]
    BY <1>2, <1>9
  <1>11. QED
    BY <1>1, <1>2, <1>3, <1>8, <1>10

-----------------------------------------------------------------------------
(***************************************************************************)
(* What the server writes.                                                 *)
(***************************************************************************)

Header(len, seq, j) == [Junk EXCEPT !.len = Sizes(len)[j], !.seq = (seq + j - 1) % SeqWrap]

Payload(id, len, j) == [i \in 1..Sizes(len)[j] |-> Piece(id, (j - 1) * PacketMax + i)]

Frames(id, len, seq) == [j \in DOMAIN Sizes(len) |-> <<Header(len, seq, j)>> \o Payload(id, len, j)]

Packets(len, lens) == [j \in DOMAIN lens |-> Cells(j, lens[j], FirstSeq(len, lens, j))]

\* The assumption on the sizes, size by size.
LEMMA Sized ==
    /\ PacketMax \in Nat \ {0} /\ BufSize \in Nat \ {0} /\ CacheMax \in Nat \ {0} /\ SeqWrap \in Nat \ {0}
    /\ MaxCommands \in Nat \ {0} /\ Lengths \subseteq Nat \ {0} /\ CommandLengths \subseteq Nat \ {0}
    /\ BufSize <= CacheMax /\ SeqWrap > 1 /\ PacketMax > 1
PROOF
  BY WireAssumption

\* What memory holds before anything is read is a cell.
LEMMA JunkType == Junk \in CellSet
PROOF
  BY DEF Junk, CellSet

\* A frame is a header, which has its length, and that many cells.
LEMMA FrameTypes ==
    ASSUME NEW id \in Nat, NEW len \in Nat, NEW seq \in Int, NEW j \in DOMAIN Sizes(len)
    PROVE  /\ j \in Nat /\ Sizes(len)[j] \in Nat
           /\ Header(len, seq, j) \in CellSet /\ Header(len, seq, j).len = Sizes(len)[j]
           /\ Payload(id, len, j) \in Seq(CellSet) /\ Len(Payload(id, len, j)) = Sizes(len)[j]
PROOF
  <1>1. Sizes(len) \in Seq(Nat)
    BY SizesStep
  <1>2. j \in 1..Len(Sizes(len)) /\ Sizes(len)[j] \in Nat
    BY <1>1
  <1> DEFINE n == Sizes(len)[j]
             s == (seq + j - 1) % SeqWrap
             base == (j - 1) * PacketMax
  <1>3. n \in Nat /\ s \in Int /\ base \in Int
    BY <1>2, Sized
  <1>4. Header(len, seq, j) = [Junk EXCEPT !.len = n, !.seq = s]
    BY DEF Header
  <1>5. Payload(id, len, j) = [i \in 1..n |-> Piece(id, base + i)]
    BY DEF Payload
  <1> HIDE DEF n, s, base
  <1>6. Header(len, seq, j) \in CellSet /\ Header(len, seq, j).len = n
    BY <1>3, <1>4, JunkType DEF CellSet
  <1>7. ASSUME NEW i \in 1..n PROVE Piece(id, base + i) \in CellSet
    <2>1. base + i \in Int
      BY <1>3
    <2>2. QED
      BY <2>1, JunkType DEF Piece, CellSet
  <1>8. Payload(id, len, j) \in Seq(CellSet) /\ Len(Payload(id, len, j)) = n
    BY <1>3, <1>5, <1>7
  <1>9. QED
    BY <1>2, <1>6, <1>8 DEF n

\* The cells of a packet are the cells of its frames.
LEMMA FramesTypes ==
    ASSUME NEW id \in Nat, NEW len \in Nat, NEW seq \in Int
    PROVE  /\ Frames(id, len, seq) \in Seq(Seq(CellSet))
           /\ Len(Frames(id, len, seq)) = Len(Sizes(len))
           /\ Cells(id, len, seq) = FlattenSeq(Frames(id, len, seq))
           /\ Cells(id, len, seq) \in Seq(CellSet)
PROOF
  <1> DEFINE n == Len(Sizes(len))
             fs == Frames(id, len, seq)
  <1>1. n \in Nat /\ DOMAIN Sizes(len) = 1..n
    <2>1. Sizes(len) \in Seq(Nat)
      BY SizesStep
    <2>2. QED
      BY <2>1
  <1>2. fs = [j \in 1..n |-> fs[j]] /\ \A j \in 1..n : fs[j] = <<Header(len, seq, j)>> \o Payload(id, len, j)
    BY <1>1 DEF Frames
  <1>3. ASSUME NEW j \in 1..n PROVE fs[j] \in Seq(CellSet)
    <2>1. Header(len, seq, j) \in CellSet /\ Payload(id, len, j) \in Seq(CellSet)
      BY <1>1, FrameTypes
    <2>2. <<Header(len, seq, j)>> \o Payload(id, len, j) \in Seq(CellSet)
      BY <2>1
    <2>3. QED
      BY <1>2, <2>2
  <1>4. Cells(id, len, seq) = FlattenSeq(fs)
    BY DEF Cells, Frames, Header, Payload
  <1> HIDE DEF fs
  <1>5. fs \in Seq(Seq(CellSet)) /\ Len(fs) = n
    BY <1>1, <1>2, <1>3
  <1>6. FlattenSeq(fs) \in Seq(CellSet)
    BY <1>5, FlattenType
  <1>7. QED
    BY <1>4, <1>5, <1>6 DEF fs

\* Sequence numbers are numbers.
LEMMA FirstSeqType ==
    ASSUME NEW len \in Nat, NEW lens \in Seq(Nat), NEW j \in 1..Len(lens)
    PROVE  FirstSeq(len, lens, j) \in Int
PROOF
  <1> DEFINE n == j - 1
             before == [k \in 1..(j - 1) |-> Sizes(lens[k])]
  <1>1. n \in Nat /\ before = [k \in 1..n |-> before[k]]
    OBVIOUS
  <1>2. ASSUME NEW k \in 1..n PROVE before[k] \in Seq(Nat)
    <2>1. lens[k] \in Nat
      OBVIOUS
    <2>2. QED
      BY <2>1, SizesStep
  <1>3. FirstSeq(len, lens, j) = Len(Sizes(len) \o FlattenSeq(before)) % SeqWrap
    BY DEF FirstSeq
  <1> HIDE DEF n, before
  <1>4. before \in Seq(Seq(Nat))
    BY <1>1, <1>2
  <1>5. FlattenSeq(before) \in Seq(Nat) /\ Sizes(len) \in Seq(Nat)
    BY <1>4, FlattenType, SizesStep
  <1>6. Len(Sizes(len) \o FlattenSeq(before)) \in Nat
    BY <1>5
  <1>7. QED
    BY <1>3, <1>6, Sized

\* A function on the first m numbers is a sequence.
LEMMA IsSeq ==
    ASSUME NEW S, NEW m \in Nat, NEW b, b = [k \in 1..m |-> b[k]], \A k \in 1..m : b[k] \in S
    PROVE  b \in Seq(S) /\ Len(b) = m
PROOF
  OBVIOUS

\* Packet after packet, the frames add up.
LEMMA FirstSeqStep ==
    ASSUME NEW len \in Nat, NEW lens \in Seq(Nat)
    PROVE  /\ FirstSeq(len, lens, 1) = Len(Sizes(len)) % SeqWrap
           /\ \A j \in 1..Len(lens) :
                 /\ FirstSeq(len, lens, j) \in Nat
                 /\ FirstSeq(len, lens, j + 1) = (FirstSeq(len, lens, j) + Len(Sizes(lens[j]))) % SeqWrap
PROOF
  <1> DEFINE B(j) == [k \in 1..(j - 1) |-> Sizes(lens[k])]
             T(j) == Len(Sizes(len) \o FlattenSeq(B(j)))
  <1>1. Len(lens) \in Nat /\ \A k \in 1..Len(lens) : lens[k] \in Nat /\ Sizes(lens[k]) \in Seq(Nat)
    <2>1. Len(lens) \in Nat /\ \A k \in 1..Len(lens) : lens[k] \in Nat
      OBVIOUS
    <2>2. \A l \in Nat : Sizes(l) \in Seq(Nat)
      BY SizesStep
    <2>3. QED
      BY <2>1, <2>2
  <1>2. Sizes(len) \in Seq(Nat) /\ SeqWrap \in Nat \ {0}
    BY SizesStep, WireAssumption
  <1>3. ASSUME NEW j \in 1..(Len(lens) + 1)
        PROVE  /\ B(j) \in Seq(Seq(Nat)) /\ Len(B(j)) = j - 1 /\ \A k \in 1..(j - 1) : B(j)[k] = Sizes(lens[k])
               /\ FlattenSeq(B(j)) \in Seq(Nat) /\ FirstSeq(len, lens, j) = T(j) % SeqWrap
               /\ T(j) = Len(Sizes(len)) + Len(FlattenSeq(B(j))) /\ T(j) \in Nat
    <2> DEFINE m == j - 1
               b == B(j)
    <2>1. m \in Nat /\ b = [k \in 1..m |-> b[k]] /\ \A k \in 1..m : b[k] = Sizes(lens[k])
      BY <1>1
    <2>2. \A k \in 1..m : b[k] \in Seq(Nat)
      BY <1>1, <2>1
    <2>3. FirstSeq(len, lens, j) = Len(Sizes(len) \o FlattenSeq(b)) % SeqWrap
      BY DEF FirstSeq
    <2> HIDE DEF m, b
    <2>4. b \in Seq(Seq(Nat)) /\ Len(b) = m
      <3> HIDE DEF B, T
      <3>1. m \in Nat /\ b = [k \in 1..m |-> b[k]] /\ \A k \in 1..m : b[k] \in Seq(Nat)
        BY <2>1, <2>2
      <3>2. QED
        BY <3>1, IsSeq, Zenon
    <2>5. FlattenSeq(b) \in Seq(Nat)
      BY <2>4, FlattenType
    <2>6. /\ Len(Sizes(len) \o FlattenSeq(b)) = Len(Sizes(len)) + Len(FlattenSeq(b))
          /\ Len(Sizes(len) \o FlattenSeq(b)) \in Nat
      <3> DEFINE x == Sizes(len)
                 y == FlattenSeq(b)
      <3>1. x \in Seq(Nat) /\ y \in Seq(Nat)
        BY <1>2, <2>5
      <3> HIDE DEF x, y
      <3>2. Len(x \o y) = Len(x) + Len(y) /\ Len(x \o y) \in Nat
        BY <3>1
      <3>3. QED
        BY <3>2, Zenon DEF x, y
    <2>7. QED
      BY <2>1, <2>3, <2>4, <2>5, <2>6 DEF m, b
  <1> HIDE DEF B
  <1>4. FirstSeq(len, lens, 1) = Len(Sizes(len)) % SeqWrap
    <2>1. 1 \in 1..(Len(lens) + 1)
      BY <1>1
    <2>2. B(1) = <<>>
      BY <1>3, <2>1
    <2>3. FlattenSeq(<<>>) = <<>>
      BY DEF FlattenSeq
    <2>4. Len(FlattenSeq(B(1))) = 0
      BY <2>2, <2>3
    <2>5. T(1) = Len(Sizes(len))
      BY <1>2, <1>3, <2>1, <2>4
    <2>6. QED
      BY <1>3, <2>1, <2>5
  <1>5. ASSUME NEW j \in 1..Len(lens)
        PROVE  /\ FirstSeq(len, lens, j) \in Nat
               /\ FirstSeq(len, lens, j + 1) = (FirstSeq(len, lens, j) + Len(Sizes(lens[j]))) % SeqWrap
    <2>1. j \in 1..(Len(lens) + 1) /\ j + 1 \in 1..(Len(lens) + 1) /\ j \in Nat
      BY <1>1
    <2> DEFINE b == B(j)
               c == B(j + 1)
               z == Sizes(lens[j])
    <2>11. /\ b \in Seq(Seq(Nat)) /\ Len(b) = j - 1
           /\ \A k \in 1..(j - 1) : b[k] = Sizes(lens[k])
      BY <1>3, <2>1
    <2>12. /\ c \in Seq(Seq(Nat)) /\ Len(c) = (j + 1) - 1
           /\ \A k \in 1..((j + 1) - 1) : c[k] = Sizes(lens[k])
      BY <1>3, <2>1
    <2>13. (j + 1) - 1 = j /\ j \in 1..j /\ \A k \in 1..(j - 1) : k \in 1..j
      BY <2>1
    <2> HIDE DEF b, c, z
    <2>2. /\ Len(c) = Len(b) + 1 /\ Len(c) = j /\ c[j] = z
          /\ z \in Seq(Nat) /\ \A k \in 1..Len(b) : c[k] = b[k]
      BY <1>1, <2>1, <2>11, <2>12, <2>13 DEF z
    <2>4. FlattenSeq(c) = FlattenSeq(b) \o z
      <3>1. FlattenSeq(c) = FlattenSeq(b) \o c[Len(c)]
        BY <2>2, <2>11, <2>12, FlattenSnoc
      <3>2. QED
        BY <2>2, <3>1
    <2>5. FlattenSeq(b) \in Seq(Nat)
      BY <2>11, FlattenType
    <2>6. Len(FlattenSeq(c)) = Len(FlattenSeq(b)) + Len(z) /\ Len(z) \in Nat
      <3> DEFINE y == FlattenSeq(b)
      <3>1. y \in Seq(Nat) /\ FlattenSeq(c) = y \o z
        BY <2>4, <2>5
      <3> HIDE DEF y
      <3>2. Len(y \o z) = Len(y) + Len(z) /\ Len(z) \in Nat
        BY <2>2, <3>1
      <3>3. QED
        BY <3>1, <3>2 DEF y
    <2>7. T(j + 1) = T(j) + Len(z) /\ T(j) \in Nat
      <3>1. T(j) = Len(Sizes(len)) + Len(FlattenSeq(b)) /\ T(j) \in Nat
        BY <1>3, <2>1 DEF b
      <3>2. T(j + 1) = Len(Sizes(len)) + Len(FlattenSeq(c))
        BY <1>3, <2>1 DEF c
      <3>3. Len(Sizes(len)) \in Nat /\ Len(FlattenSeq(b)) \in Nat
        BY <1>2, <2>5, LenProperties
      <3> HIDE DEF T
      <3>4. QED
        BY <2>6, <3>1, <3>2, <3>3
    <2>8. FirstSeq(len, lens, j) = T(j) % SeqWrap /\ FirstSeq(len, lens, j + 1) = T(j + 1) % SeqWrap
      BY <1>3, <2>1
    <2> HIDE DEF T
    <2>9. ((T(j) % SeqWrap) + Len(z)) % SeqWrap = (T(j) + Len(z)) % SeqWrap /\ T(j) % SeqWrap \in Nat
      BY <1>2, <2>6, <2>7, ModAdd, DivMod
    <2>10. QED
      BY <2>7, <2>8, <2>9 DEF z
  <1>6. QED
    BY <1>4, <1>5

\* An answer is a sequence of packets.
LEMMA PacketsTypes ==
    ASSUME NEW len \in Nat, NEW lens \in Seq(Nat)
    PROVE  /\ Packets(len, lens) \in Seq(Seq(CellSet))
           /\ Len(Packets(len, lens)) = Len(lens)
           /\ \A j \in 1..Len(lens) : Packets(len, lens)[j] = Cells(j, lens[j], FirstSeq(len, lens, j))
PROOF
  <1> DEFINE n == Len(lens)
             ps == Packets(len, lens)
  <1>1. n \in Nat /\ DOMAIN lens = 1..n
    OBVIOUS
  <1>2. ps = [j \in 1..n |-> ps[j]] /\ \A j \in 1..n : ps[j] = Cells(j, lens[j], FirstSeq(len, lens, j))
    BY <1>1 DEF Packets
  <1>3. ASSUME NEW j \in 1..n PROVE ps[j] \in Seq(CellSet)
    <2>1. FirstSeq(len, lens, j) \in Int /\ lens[j] \in Nat /\ j \in Nat
      BY FirstSeqType
    <2>2. QED
      BY <1>2, <2>1, FramesTypes
  <1> HIDE DEF ps
  <1>4. ps \in Seq(Seq(CellSet)) /\ Len(ps) = n
    BY <1>1, <1>2, <1>3
  <1>5. QED
    BY <1>2, <1>4 DEF ps

\* The first part comes first.
LEMMA FlattenCons ==
    ASSUME NEW S, NEW x \in Seq(S), NEW qs \in Seq(Seq(S))
    PROVE  FlattenSeq(<<x>> \o qs) = x \o FlattenSeq(qs)
PROOF
  <1> DEFINE r == <<x>> \o qs
             n == Len(qs)
  <1>1. /\ n \in Nat /\ r \in Seq(Seq(S)) /\ Len(r) = n + 1
        /\ r[1] = x /\ \A i \in 1..n : r[i + 1] = qs[i]
    OBVIOUS
  <1> HIDE DEF r
  <1>2. PICK f \in [0..Len(r) -> Seq(S)] :
            f[0] = <<>> /\ (\A i \in 1..Len(r) : f[i] = f[i - 1] \o r[i]) /\ FlattenSeq(r) = f[Len(r)]
    BY <1>1, FlattenParts
  <1>3. PICK g \in [0..n -> Seq(S)] :
            g[0] = <<>> /\ (\A i \in 1..n : g[i] = g[i - 1] \o qs[i]) /\ FlattenSeq(qs) = g[n]
    BY FlattenParts
  <1>4. \A i \in 1..n : qs[i] \in Seq(S)
    OBVIOUS
  <1> HIDE DEF n
  <1> DEFINE G == {k \in Nat : k <= n => f[k + 1] = x \o g[k]}
  <1>5. 0 \in G
    <2> HIDE DEF G
    <2>1. f[1] = f[0] \o r[1]
      <3>1. 1 \in 1..Len(r) /\ 1 - 1 = 0
        BY <1>1
      <3>2. QED
        BY <1>2, <3>1
    <2>2. f[1] = x /\ x \o g[0] = x
      BY <1>1, <1>2, <1>3, <2>1, ConcatEmptySeq
    <2>3. f[0 + 1] = x \o g[0]
      BY <2>2
    <2>4. QED
      BY <2>3 DEF G
  <1>6. ASSUME NEW k \in Nat, k \in G PROVE k + 1 \in G
    <2> SUFFICES ASSUME k + 1 <= n PROVE f[(k + 1) + 1] = x \o g[k + 1]
      OBVIOUS
    <2>1. k <= n /\ k + 1 \in 1..n /\ (k + 1) + 1 \in 1..Len(r) /\ (k + 1) - 1 = k /\ ((k + 1) + 1) - 1 = k + 1
          /\ k \in 0..n
      BY <1>1
    <2>2. f[k + 1] = x \o g[k]
      BY <1>6, <2>1
    <2>3. f[(k + 1) + 1] = f[k + 1] \o r[(k + 1) + 1]
      BY <1>2, <2>1
    <2>4. r[(k + 1) + 1] = qs[k + 1]
      BY <1>1, <2>1
    <2>5. g[k + 1] = g[k] \o qs[k + 1]
      BY <1>3, <2>1
    <2>6. g[k] \in Seq(S) /\ qs[k + 1] \in Seq(S)
      BY <1>3, <1>4, <2>1
    <2>7. (x \o g[k]) \o qs[k + 1] = x \o (g[k] \o qs[k + 1])
      <3> DEFINE a == g[k]
                 b == qs[k + 1]
      <3>1. a \in Seq(S) /\ b \in Seq(S)
        BY <2>6
      <3> HIDE DEF a, b
      <3>2. (x \o a) \o b = x \o (a \o b)
        BY <3>1, SMTT(30)
      <3>3. QED
        BY <3>2 DEF a, b
    <2>8. QED
      BY <2>2, <2>3, <2>4, <2>5, <2>7
  <1>7. \A k \in G : k <= n => f[k + 1] = x \o g[k]
    OBVIOUS
  <1> HIDE DEF G
  <1>8. Nat \subseteq G
    BY <1>5, <1>6, Induction
  <1>9. f[n + 1] = x \o g[n]
    <2>1. n \in G /\ n <= n
      BY <1>1, <1>8
    <2>2. QED
      BY <1>7, <2>1
  <1>10. QED
    BY <1>1, <1>2, <1>3, <1>9 DEF r

\* What is left of a sequence of parts from part k on.
Rem(qs, k) == FlattenSeq(SubSeq(qs, k, Len(qs)))

\* What is left, part by part.
LEMMA RemStep ==
    ASSUME NEW S, NEW qs \in Seq(Seq(S))
    PROVE  /\ Rem(qs, 1) = FlattenSeq(qs)
           /\ Rem(qs, Len(qs) + 1) = <<>>
           /\ \A k \in 1..(Len(qs) + 1) : Rem(qs, k) \in Seq(S)
           /\ \A k \in 1..Len(qs) : Rem(qs, k) = qs[k] \o Rem(qs, k + 1)
PROOF
  <1>1. Len(qs) \in Nat
    OBVIOUS
  <1>2. SubSeq(qs, 1, Len(qs)) = qs
    OBVIOUS
  <1>3. SubSeq(qs, Len(qs) + 1, Len(qs)) = <<>>
    BY <1>1
  <1>4. FlattenSeq(<<>>) = <<>>
    BY DEF FlattenSeq
  <1>5. ASSUME NEW k \in 1..(Len(qs) + 1) PROVE SubSeq(qs, k, Len(qs)) \in Seq(Seq(S))
    BY <1>1
  <1>6. ASSUME NEW k \in 1..(Len(qs) + 1) PROVE Rem(qs, k) \in Seq(S)
    BY <1>5, FlattenType DEF Rem
  <1>7. ASSUME NEW k \in 1..Len(qs) PROVE Rem(qs, k) = qs[k] \o Rem(qs, k + 1)
    <2> DEFINE t == SubSeq(qs, k + 1, Len(qs))
    <2>1. qs[k] \in Seq(S) /\ k + 1 \in 1..(Len(qs) + 1) /\ Len(qs) \in k..Len(qs)
      BY <1>1
    <2>2. SubSeq(qs, k, Len(qs)) = <<qs[k]>> \o t
      BY <2>1, SubSeqRecursiveFirst
    <2>3. FlattenSeq(<<qs[k]>> \o t) = qs[k] \o FlattenSeq(t)
      BY <1>5, <2>1, FlattenCons
    <2>4. QED
      BY <2>2, <2>3 DEF Rem
  <1>8. QED
    BY <1>2, <1>3, <1>4, <1>6, <1>7 DEF Rem

\* What is still to come of an answer, from frame f of packet id on.
Rest(len, lens, id, f) ==
    Rem(Frames(id, lens[id], FirstSeq(len, lens, id)), f) \o Rem(Packets(len, lens), id + 1)

\* Frame after frame of a packet: a header, its payload, and the rest.
LEMMA RestSteps ==
    ASSUME NEW len \in Nat, NEW lens \in Seq(Nat), NEW id \in 1..Len(lens)
    PROVE  LET n == Len(Sizes(lens[id])) IN
           /\ \A f \in 1..(n + 1) : Rest(len, lens, id, f) \in Seq(CellSet)
           /\ \A f \in 1..n : Rest(len, lens, id, f) =
                  <<Header(lens[id], FirstSeq(len, lens, id), f)>>
                      \o (Payload(id, lens[id], f) \o Rest(len, lens, id, f + 1))
           /\ Rest(len, lens, id, n + 1) = Rem(Packets(len, lens), id + 1)
PROOF
  <1> DEFINE n == Len(Sizes(lens[id]))
             seq == FirstSeq(len, lens, id)
             fs == Frames(id, lens[id], seq)
             ps == Packets(len, lens)
             more == Rem(ps, id + 1)
  <1>1. id \in Nat /\ lens[id] \in Nat /\ seq \in Int
    BY FirstSeqType
  <1>2. fs \in Seq(Seq(CellSet)) /\ Len(fs) = n
    BY <1>1, FramesTypes
  <1>3. n \in Nat /\ DOMAIN Sizes(lens[id]) = 1..n
    <2>1. Sizes(lens[id]) \in Seq(Nat)
      BY <1>1, SizesStep
    <2>2. QED
      BY <2>1
  <1>4. ASSUME NEW f \in 1..n
        PROVE  /\ fs[f] = <<Header(lens[id], seq, f)>> \o Payload(id, lens[id], f)
               /\ Header(lens[id], seq, f) \in CellSet /\ Payload(id, lens[id], f) \in Seq(CellSet)
    <2>1. fs[f] = <<Header(lens[id], seq, f)>> \o Payload(id, lens[id], f)
      BY <1>3 DEF Frames
    <2>2. Header(lens[id], seq, f) \in CellSet /\ Payload(id, lens[id], f) \in Seq(CellSet)
      BY <1>1, <1>3, FrameTypes
    <2>3. QED
      BY <2>1, <2>2
  <1>5. more \in Seq(CellSet)
    <2>1. ps \in Seq(Seq(CellSet)) /\ Len(ps) = Len(lens)
      BY PacketsTypes
    <2>2. id + 1 \in 1..(Len(ps) + 1)
      BY <2>1
    <2> HIDE DEF ps
    <2>3. QED
      BY <2>1, <2>2, RemStep
  <1>6. \A f : Rest(len, lens, id, f) = Rem(fs, f) \o more
    BY DEF Rest
  <1> HIDE DEF fs, more, n, seq
  <1>7. /\ Rem(fs, n + 1) = <<>>
        /\ \A f \in 1..(n + 1) : Rem(fs, f) \in Seq(CellSet)
        /\ \A f \in 1..n : Rem(fs, f) = fs[f] \o Rem(fs, f + 1)
    BY <1>2, RemStep
  <1>8. \A f \in 1..(n + 1) : Rest(len, lens, id, f) \in Seq(CellSet)
    <2> SUFFICES ASSUME NEW f \in 1..(n + 1) PROVE Rem(fs, f) \o more \in Seq(CellSet)
      BY <1>6
    <2>1. Rem(fs, f) \in Seq(CellSet)
      BY <1>7
    <2>2. QED
      BY <1>5, <2>1
  <1>9. Rest(len, lens, id, n + 1) = more
    BY <1>5, <1>6, <1>7, ConcatEmptySeq
  <1>10. ASSUME NEW f \in 1..n
         PROVE  Rest(len, lens, id, f) =
                    <<Header(lens[id], seq, f)>> \o (Payload(id, lens[id], f) \o Rest(len, lens, id, f + 1))
    <2> DEFINE h == <<Header(lens[id], seq, f)>>
               p == Payload(id, lens[id], f)
               t == Rem(fs, f + 1)
    <2>1. h \in Seq(CellSet) /\ p \in Seq(CellSet) /\ t \in Seq(CellSet) /\ Rem(fs, f) = (h \o p) \o t
      <3>1. f + 1 \in 1..(n + 1)
        BY <1>3
      <3>2. p \in Seq(CellSet) /\ t \in Seq(CellSet) /\ Rem(fs, f) = (h \o p) \o t
        BY <1>4, <1>7, <3>1
      <3>3. h \in Seq(CellSet)
        <4> DEFINE x == Header(lens[id], seq, f)
        <4>1. x \in CellSet
          BY <1>4
        <4> HIDE DEF x
        <4>2. <<x>> \in Seq(CellSet)
          BY <4>1
        <4>3. QED
          BY <4>2 DEF x
      <3>4. QED
        BY <3>2, <3>3
    <2>2. Rest(len, lens, id, f) = Rem(fs, f) \o more /\ Rest(len, lens, id, f + 1) = t \o more
      BY <1>6
    <2> HIDE DEF h, p, t
    <2>3. ((h \o p) \o t) \o more = h \o (p \o (t \o more))
      <3>1. h \in Seq(CellSet) /\ p \in Seq(CellSet) /\ t \in Seq(CellSet)
        BY <2>1
      <3>2. QED
        BY <1>5, <3>1, SMTT(40)
    <2>6. Rest(len, lens, id, f) = h \o (p \o Rest(len, lens, id, f + 1))
      BY <2>1, <2>2, <2>3
    <2>7. QED
      BY <2>6 DEF h, p
  <1>11. QED
    BY <1>8, <1>9, <1>10 DEF n, seq, more

\* Packet after packet.
LEMMA RestPackets ==
    ASSUME NEW len \in Nat, NEW lens \in Seq(Nat)
    PROVE  /\ Len(lens) > 0 => Rest(len, lens, 1, 1) = FlattenSeq(Packets(len, lens))
           /\ Rem(Packets(len, lens), Len(lens) + 1) = <<>>
           /\ \A id \in 1..Len(lens) : id < Len(lens) =>
                  Rem(Packets(len, lens), id + 1) = Rest(len, lens, id + 1, 1)
PROOF
  <1> DEFINE ps == Packets(len, lens)
  <1>1. ps \in Seq(Seq(CellSet)) /\ Len(ps) = Len(lens)
        /\ \A j \in 1..Len(lens) : ps[j] = Cells(j, lens[j], FirstSeq(len, lens, j))
    BY PacketsTypes
  <1>2. /\ Rem(ps, 1) = FlattenSeq(ps)
        /\ Rem(ps, Len(lens) + 1) = <<>>
        /\ \A k \in 1..Len(lens) : Rem(ps, k) = ps[k] \o Rem(ps, k + 1)
    <2> HIDE DEF ps
    <2>1. QED
      BY <1>1, RemStep
  <1>3. ASSUME NEW k \in 1..Len(lens) PROVE Rem(ps, k) = Rest(len, lens, k, 1)
    <2> DEFINE fs == Frames(k, lens[k], FirstSeq(len, lens, k))
    <2>1. k \in Nat /\ lens[k] \in Nat /\ FirstSeq(len, lens, k) \in Int
      BY FirstSeqType
    <2>2. fs \in Seq(Seq(CellSet)) /\ ps[k] = FlattenSeq(fs)
      BY <1>1, <2>1, FramesTypes
    <2>3. Rest(len, lens, k, 1) = Rem(fs, 1) \o Rem(ps, k + 1)
      BY DEF Rest
    <2> HIDE DEF fs
    <2>4. Rem(fs, 1) = FlattenSeq(fs)
      BY <2>2, RemStep
    <2>5. QED
      BY <1>2, <2>2, <2>3, <2>4
  <1> HIDE DEF ps
  <1>4. ASSUME NEW id \in 1..Len(lens), id < Len(lens) PROVE Rem(ps, id + 1) = Rest(len, lens, id + 1, 1)
    <2>1. id + 1 \in 1..Len(lens)
      BY <1>4
    <2>2. QED
      BY <1>3, <2>1
  <1>5. Len(lens) > 0 => Rest(len, lens, 1, 1) = FlattenSeq(ps)
    <2>1. Len(lens) > 0 => 1 \in 1..Len(lens)
      OBVIOUS
    <2>2. QED
      BY <1>2, <1>3, <2>1
  <1>6. QED
    BY <1>2, <1>4, <1>5 DEF ps

-----------------------------------------------------------------------------
(***************************************************************************)
(* Types: in particular what is unread lies within the buffer.             *)
(***************************************************************************)

Filling == {"fillHead", "fillBody"}

TypeInv ==
    /\ TypeOK
    /\ answer \in Seq(Nat)
    /\ asked \in [sizes : Seq(Nat), len : Nat]
    /\ CommandFramed
    /\ conn.pc \in Filling => buf.idx = 0

\* What the caller has not read yet, in the buffer and in the socket.
Unread == Slice(buf.cur, buf.idx, buf.length) \o sock.cells

\* There always is an array that nothing refers to.
LEMMA FreshArray ==
    ASSUME TypeInv
    PROVE  Fresh \in Arrays /\ Fresh \notin Referenced(buf)
PROOF
  <1> DEFINE r == conn.row.arr
             c == buf.cur
             d == buf.dbuf[1]
             e == buf.dbuf[2]
  <1>1. Referenced(buf) = {c, d, e, r}
    BY DEF Referenced
  <1> HIDE DEF r, c, d, e
  <1>2. \E a \in Arrays : a \notin {c, d, e, r}
    <2>1. \/ 1 \notin {c, d, e, r} \/ 2 \notin {c, d, e, r} \/ 3 \notin {c, d, e, r}
          \/ 4 \notin {c, d, e, r} \/ 5 \notin {c, d, e, r}
      OBVIOUS
    <2>2. 1 \in Arrays /\ 2 \in Arrays /\ 3 \in Arrays /\ 4 \in Arrays /\ 5 \in Arrays
      BY DEF Arrays
    <2>3. QED
      BY <2>1, <2>2, Zenon
  <1>3. \E a \in Arrays : a \notin Referenced(buf)
    BY <1>1, <1>2
  <1>4. QED
    BY <1>3 DEF Fresh

\* What is in the buffer and unread, cell by cell.
LEMMA UnreadTypes ==
    ASSUME TypeInv
    PROVE  /\ buf.idx \in Nat /\ buf.length \in Nat /\ buf.cur \in Arrays
           /\ mem[buf.cur] \in Seq(CellSet) /\ buf.idx + buf.length <= Len(mem[buf.cur])
           /\ sock.cells \in Seq(CellSet)
           /\ Slice(buf.cur, buf.idx, buf.length) \in Seq(CellSet)
           /\ Len(Slice(buf.cur, buf.idx, buf.length)) = buf.length
           /\ \A i \in 1..buf.length : Slice(buf.cur, buf.idx, buf.length)[i] = mem[buf.cur][buf.idx + i]
PROOF
  <1> DEFINE m == mem[buf.cur]
             i == buf.idx
             l == buf.length
             s == Slice(buf.cur, buf.idx, buf.length)
  <1>1. i \in Nat /\ l \in Nat /\ buf.cur \in Arrays /\ m \in Seq(CellSet) /\ i + l <= Len(m)
        /\ sock.cells \in Seq(CellSet)
    BY DEF TypeInv, TypeOK, Buffers
  <1>2. s = SubSeq(m, i + 1, i + l)
    BY DEF Slice
  <1> HIDE DEF m, i, l, s
  <1>3. s \in Seq(CellSet) /\ Len(s) = l /\ \A k \in 1..l : s[k] = m[i + k]
    <2>1. s \in Seq(CellSet)
      BY <1>1, <1>2
    <2>2. Len(s) = l
      BY <1>1, <1>2
    <2>3. ASSUME NEW k \in 1..l PROVE s[k] = m[i + k]
      BY <1>1, <1>2
    <2>4. QED
      BY <2>1, <2>2, <2>3
  <1>4. QED
    BY <1>1, <1>3 DEF m, i, l, s

\* The first half of fill moves what is unread to the start of another array, and
\* touches no array that is in use but that one.
LEMMA Prepared ==
    ASSUME TypeInv, NEW need \in Nat, NEW pc, buf.length < need, Prepare(need, pc)
    PROVE  \E dest \in Arrays :
             /\ dest = buf.dbuf[buf.flip + 1] \/ dest \notin Referenced(buf)
             /\ buf' \in Buffers
             /\ buf'.cur = dest /\ buf'.idx = 0 /\ buf'.length = buf.length /\ buf'.flip = buf.flip
             /\ buf'.dbuf = buf.dbuf \/ buf'.dbuf = [buf.dbuf EXCEPT ![buf.flip + 1] = dest]
             /\ mem' \in [Arrays -> Seq(CellSet)]
             /\ need <= Len(mem'[dest])
             /\ SubSeq(mem'[dest], 1, buf.length) = Slice(buf.cur, buf.idx, buf.length)
             /\ conn.row.arr # dest => mem'[conn.row.arr] = mem[conn.row.arr]
             /\ conn' = [conn EXCEPT !.pc = pc, !.need = need]
PROOF
  <1> DEFINE b == buf.flip + 1
             small == buf.dbuf[b] = 0 \/ (buf.dbuf[b] # 0 /\ need > Len(mem[buf.dbuf[b]]))
             size == IF small THEN (need \div BufSize + 1) * BufSize ELSE Len(mem[buf.dbuf[b]])
             dest == IF small THEN Fresh ELSE buf.dbuf[b]
             old == IF small THEN [i \in 1..size |-> Junk] ELSE mem[dest]
             unread == Slice(buf.cur, buf.idx, buf.length)
             cells == unread \o SubSeq(old, buf.length + 1, size)
  <1>1. /\ buf' = [buf EXCEPT !.cur = dest, !.idx = 0, !.dbuf[b] = IF size <= CacheMax THEN dest ELSE @]
        /\ mem' = Collected([mem EXCEPT ![dest] = cells], buf')
        /\ conn' = [conn EXCEPT !.pc = pc, !.need = need]
    BY DEF Prepare
  <1>2. buf \in Buffers /\ mem \in [Arrays -> Seq(CellSet)] /\ conn \in Conns
    BY DEF TypeInv, TypeOK
  <1>3. b \in 1..2 /\ buf.dbuf[b] \in Arrays \cup {0} /\ 0 \notin Arrays
    BY <1>2 DEF Buffers, Arrays
  <1>4. dest \in Arrays /\ (dest = buf.dbuf[b] \/ dest \notin Referenced(buf))
    BY <1>3, FreshArray
  <1>5. size \in Nat /\ need <= size
    <2>1. CASE small
      <3>1. (need \div BufSize + 1) * BufSize \in Nat /\ need < (need \div BufSize + 1) * BufSize
        BY Sized
      <3>2. QED
        BY <2>1, <3>1
    <2>2. CASE ~small
      <3>1. buf.dbuf[b] \in Arrays /\ ~(need > Len(mem[buf.dbuf[b]])) /\ mem[buf.dbuf[b]] \in Seq(CellSet)
        BY <1>2, <1>3, <2>2
      <3>2. QED
        BY <2>2, <3>1
    <2>3. QED
      BY <2>1, <2>2
  <1>6. old \in Seq(CellSet) /\ Len(old) = size
    <2>1. CASE small
      <3> HIDE DEF size
      <3>1. [i \in 1..size |-> Junk] \in Seq(CellSet) /\ Len([i \in 1..size |-> Junk]) = size
        BY <1>5, JunkType
      <3>2. QED
        BY <2>1, <3>1
    <2>2. CASE ~small
      BY <1>2, <1>4, <2>2
    <2>3. QED
      BY <2>1, <2>2
  <1>7. unread \in Seq(CellSet) /\ Len(unread) = buf.length /\ buf.length \in Nat
    BY UnreadTypes
  <1> DEFINE l == buf.length
  <1>8. l \in Nat /\ l < need
    BY <1>7
  <1>9. cells = unread \o SubSeq(old, l + 1, size)
    OBVIOUS
  <1> HIDE DEF b, small, size, dest, old, unread, cells, l
  <1>10. cells \in Seq(CellSet) /\ Len(cells) = size /\ SubSeq(cells, 1, l) = unread
    <2> DEFINE t == SubSeq(old, l + 1, size)
    <2>1. t \in Seq(CellSet) /\ Len(t) = size - l
      BY <1>5, <1>6, <1>8
    <2>2. Len(unread) = l /\ unread \in Seq(CellSet)
      BY <1>7 DEF l
    <2> HIDE DEF t
    <2>3. unread \o t \in Seq(CellSet) /\ Len(unread \o t) = size
      BY <1>5, <1>8, <2>1, <2>2
    <2>4. SubSeq(unread \o t, 1, l) = unread
      <3> DEFINE u == SubSeq(unread \o t, 1, l)
      <3>1. u \in Seq(CellSet) /\ Len(u) = l
        BY <1>5, <1>8, <2>3
      <3>2. \A i \in 1..l : u[i] = unread[i]
        BY <1>5, <1>8, <2>1, <2>2, <2>3
      <3> HIDE DEF u
      <3>3. u = unread
        BY <2>2, <3>1, <3>2, SeqEqual
      <3>4. QED
        BY <3>3 DEF u
    <2>5. QED
      BY <1>9, <2>3, <2>4 DEF t
  <1>11. /\ buf' \in Buffers
         /\ buf'.cur = dest /\ buf'.idx = 0 /\ buf'.length = buf.length /\ buf'.flip = buf.flip
         /\ buf'.dbuf = buf.dbuf \/ buf'.dbuf = [buf.dbuf EXCEPT ![b] = dest]
    <2>1. CASE size <= CacheMax
      BY <1>1, <1>2, <1>3, <1>4, <2>1 DEF Buffers
    <2>2. CASE ~(size <= CacheMax)
      BY <1>1, <1>2, <1>3, <1>4, <2>2 DEF Buffers
    <2>3. QED
      BY <2>1, <2>2
  <1> DEFINE used == {buf'.cur, buf'.dbuf[1], buf'.dbuf[2], conn.row.arr}
             m == [mem EXCEPT ![dest] = cells]
  <1>12. mem' = [a \in Arrays |-> IF a \in used THEN m[a] ELSE <<>>]
    BY <1>1 DEF Collected, Referenced
  <1>13. m \in [Arrays -> Seq(CellSet)] /\ m[dest] = cells /\ \A a \in Arrays : a # dest => m[a] = mem[a]
    BY <1>2, <1>4, <1>10
  <1>14. dest \in used /\ conn.row.arr \in used /\ conn.row.arr \in Arrays
    BY <1>2, <1>11 DEF Conns, Rows
  <1> HIDE DEF used, m
  <1>15. mem' \in [Arrays -> Seq(CellSet)]
    <2>1. <<>> \in Seq(CellSet)
      OBVIOUS
    <2>2. QED
      BY <1>12, <1>13, <2>1
  <1>16. mem'[dest] = cells
    BY <1>4, <1>12, <1>13, <1>14
  <1>17. conn.row.arr # dest => mem'[conn.row.arr] = mem[conn.row.arr]
    BY <1>12, <1>13, <1>14
  <1>18. need <= Len(mem'[dest]) /\ SubSeq(mem'[dest], 1, buf.length) = Slice(buf.cur, buf.idx, buf.length)
    BY <1>5, <1>10, <1>16 DEF l, unread
  <1>19. QED
    BY <1>1, <1>4, <1>11, <1>15, <1>17, <1>18 DEF b

\* Two neighbouring parts of a sequence.
LEMMA Adjacent ==
    ASSUME NEW S, NEW s \in Seq(S), NEW i \in Nat, NEW j \in i..Len(s), NEW k \in j..Len(s)
    PROVE  SubSeq(s, i + 1, j) \o SubSeq(s, j + 1, k) = SubSeq(s, i + 1, k)
PROOF
  <1>1. i + 1 \in 1..(Len(s) + 1) /\ j \in ((i + 1) - 1)..Len(s)
    OBVIOUS
  <1>2. QED
    BY <1>1, ConcatAdjacentSubSeq

\* The end of readNext: the first n of the unread cells are taken.
LEMMA Taken ==
    ASSUME TypeInv, NEW n \in Nat, n <= buf.length, buf' = Take(n), mem' = mem, sock' = sock
    PROVE  /\ buf' \in Buffers
           /\ buf'.idx + buf'.length <= Len(mem'[buf'.cur])
           /\ buf'.cur = buf.cur /\ buf'.dbuf = buf.dbuf /\ buf'.flip = buf.flip
           /\ Slice(buf.cur, buf.idx, n) \in Seq(CellSet) /\ Len(Slice(buf.cur, buf.idx, n)) = n
           /\ Unread' \in Seq(CellSet)
           /\ Unread = Slice(buf.cur, buf.idx, n) \o Unread'
PROOF
  <1> DEFINE m == mem[buf.cur]
             i == buf.idx
             l == buf.length
             c == sock.cells
  <1>1. /\ i \in Nat /\ l \in Nat /\ buf.cur \in Arrays /\ m \in Seq(CellSet) /\ i + l <= Len(m)
        /\ c \in Seq(CellSet) /\ n <= l
    BY UnreadTypes
  <1>2. buf \in Buffers /\ buf' = [buf EXCEPT !.idx = i + n, !.length = l - n]
    BY DEF TypeInv, TypeOK, Take
  <1>3. /\ buf'.cur = buf.cur /\ buf'.dbuf = buf.dbuf /\ buf'.flip = buf.flip
        /\ buf'.idx = i + n /\ buf'.length = l - n
    BY <1>2 DEF Buffers
  <1>4. l - n \in Nat /\ i + n \in Nat
    BY <1>1
  <1>5. buf' \in Buffers
    BY <1>2, <1>4 DEF Buffers
  <1> DEFINE a == SubSeq(m, i + 1, i + n)
             b == SubSeq(m, (i + n) + 1, (i + n) + (l - n))
             d == SubSeq(m, i + 1, i + l)
  <1>6. Slice(buf.cur, buf.idx, n) = a /\ Unread = d \o c /\ Unread' = b \o c
    BY <1>3 DEF Unread, Slice
  <1>7. (i + n) + (l - n) = i + l
    BY <1>1
  <1>8. buf'.idx + buf'.length <= Len(mem'[buf'.cur])
    BY <1>1, <1>3, <1>7
  <1> HIDE DEF m, i, l, c
  <1>9. d = a \o b
    <2>1. i + n \in i..Len(m) /\ i + l \in (i + n)..Len(m)
      BY <1>1
    <2>2. QED
      BY <1>1, <1>7, <2>1, Adjacent
  <1>10. a \in Seq(CellSet) /\ Len(a) = n /\ b \in Seq(CellSet)
    BY <1>1, <1>4, <1>7
  <1> HIDE DEF a, b, d
  <1>11. (a \o b) \o c = a \o (b \o c) /\ b \o c \in Seq(CellSet)
    BY <1>1, <1>10
  <1>12. QED
    BY <1>3, <1>5, <1>6, <1>8, <1>9, <1>10, <1>11

\* A read adds cells of the socket to the buffer: nothing is lost or overwritten.
LEMMA ReadFrom ==
    ASSUME TypeInv, NEW k \in Nat, Read(k)
    PROVE  /\ buf' \in Buffers /\ mem' \in [Arrays -> Seq(CellSet)]
           /\ buf'.idx + buf'.length <= Len(mem'[buf'.cur])
           /\ buf'.cur = buf.cur /\ buf'.dbuf = buf.dbuf /\ buf'.flip = buf.flip /\ buf'.idx = 0
           /\ \A a \in Arrays : a # buf.cur => mem'[a] = mem[a]
           /\ sock' \in [cells : Seq(CellSet), closed : BOOLEAN] /\ sock'.closed = sock.closed
           /\ Unread' = Unread
PROOF
  <1> DEFINE m == mem[buf.cur]
             l == buf.length
             c == sock.cells
             p == SubSeq(m, 1, l)
             q == SubSeq(c, 1, k)
             r == SubSeq(m, l + k + 1, Len(m))
             t == SubSeq(c, k + 1, Len(c))
  <1>1. /\ l \in Nat /\ buf.cur \in Arrays /\ m \in Seq(CellSet) /\ c \in Seq(CellSet)
    BY UnreadTypes
  <1>2. buf.idx = 0
    BY DEF Read, TypeInv, Filling
  <1>3. k <= Len(c) /\ k <= Len(m) - l
    BY DEF Read
  <1>4. /\ mem' = [mem EXCEPT ![buf.cur] = p \o q \o r]
        /\ buf' = [buf EXCEPT !.length = l + k]
        /\ sock' = [sock EXCEPT !.cells = t]
    BY DEF Read
  <1>5. buf \in Buffers /\ mem \in [Arrays -> Seq(CellSet)] /\ sock \in [cells : Seq(CellSet), closed : BOOLEAN]
    BY DEF TypeInv, TypeOK
  <1>6. Unread = SubSeq(m, 0 + 1, 0 + l) \o c
    BY <1>2 DEF Unread, Slice
  <1> HIDE DEF m, l, c
  <1>7. p \in Seq(CellSet) /\ Len(p) = l
    BY <1>1, <1>3
  <1>8. q \in Seq(CellSet) /\ Len(q) = k
    BY <1>1, <1>3
  <1>9. r \in Seq(CellSet) /\ Len(r) = Len(m) - (l + k)
    BY <1>1, <1>3
  <1>10. t \in Seq(CellSet)
    BY <1>1, <1>3
  <1>11. c = q \o t
    <2>1. k \in 0..Len(c) /\ Len(c) \in k..Len(c) /\ 0 \in Nat /\ 0 + 1 = 1
      BY <1>1, <1>3
    <2>2. SubSeq(c, 0 + 1, k) \o SubSeq(c, k + 1, Len(c)) = SubSeq(c, 0 + 1, Len(c))
      BY <1>1, <2>1, Adjacent
    <2>3. SubSeq(c, 1, Len(c)) = c
      BY <1>1
    <2>4. QED
      BY <2>1, <2>2, <2>3
  <1>12. Unread = p \o c
    BY <1>1, <1>6
  <1> HIDE DEF p, q, r, t
  <1>13. p \o q \in Seq(CellSet) /\ Len(p \o q) = l + k
    BY <1>7, <1>8
  <1>14. (p \o q) \o r \in Seq(CellSet) /\ Len((p \o q) \o r) = Len(m)
    <2> DEFINE x == p \o q
               n == Len(m)
    <2>1. x \in Seq(CellSet) /\ Len(x) = l + k /\ n \in Nat /\ l \in Nat /\ Len(r) = n - (l + k)
      BY <1>1, <1>9, <1>13
    <2> HIDE DEF x, n
    <2>2. x \o r \in Seq(CellSet) /\ Len(x \o r) = Len(x) + Len(r)
      BY <1>9, <2>1
    <2>3. QED
      BY <2>1, <2>2 DEF x, n
  <1>15. /\ buf' \in Buffers /\ buf'.cur = buf.cur /\ buf'.dbuf = buf.dbuf /\ buf'.flip = buf.flip
         /\ buf'.idx = 0 /\ buf'.length = l + k
    <2>1. l + k \in Nat
      BY <1>1
    <2>2. QED
      BY <1>2, <1>4, <1>5, <2>1 DEF Buffers
  <1>16. /\ mem' \in [Arrays -> Seq(CellSet)] /\ mem'[buf.cur] = (p \o q) \o r
         /\ \A a \in Arrays : a # buf.cur => mem'[a] = mem[a]
    BY <1>1, <1>4, <1>5, <1>14
  <1>17. sock' \in [cells : Seq(CellSet), closed : BOOLEAN] /\ sock'.closed = sock.closed /\ sock'.cells = t
    BY <1>4, <1>5, <1>10
  <1>18. buf'.idx + buf'.length <= Len(mem'[buf'.cur])
    BY <1>1, <1>3, <1>14, <1>15, <1>16
  <1>19. Unread' = SubSeq((p \o q) \o r, 0 + 1, 0 + (l + k)) \o t
    BY <1>15, <1>16, <1>17 DEF Unread, Slice
  <1>20. SubSeq((p \o q) \o r, 0 + 1, 0 + (l + k)) = p \o q
    <2> DEFINE x == p \o q
               u == SubSeq(x \o r, 0 + 1, 0 + (l + k))
    <2>1. x \in Seq(CellSet) /\ Len(x) = l + k
      BY <1>13
    <2> HIDE DEF x
    <2>2. u \in Seq(CellSet) /\ Len(u) = l + k
      BY <1>1, <1>9, <2>1
    <2>3. \A i \in 1..(l + k) : u[i] = x[i]
      BY <1>1, <1>9, <2>1
    <2> HIDE DEF u
    <2>4. u = x
      BY <2>1, <2>2, <2>3, SeqEqual
    <2>5. QED
      BY <2>4 DEF u, x
  <1>21. (p \o q) \o t = p \o (q \o t)
    BY <1>7, <1>8, <1>10
  <1>22. Unread' = Unread
    BY <1>11, <1>12, <1>19, <1>20, <1>21
  <1>23. QED
    BY <1>15, <1>16, <1>17, <1>18, <1>22

\* A command that finds the buffer free.
Started(len, lens) == WriteCommand(len, lens) /\ TakeBuffer(len) # "busy"

\* What a command leaves behind: an empty buffer, and the answer on its way.
LEMMA StartedTypes ==
    ASSUME TypeInv, NEW len \in CommandLengths, NEW lens \in Seq(Nat), Started(len, lens)
    PROVE  /\ TypeInv'
           /\ buf.length = 0 /\ buf'.length = 0 /\ buf'.dbuf = buf.dbuf
           /\ conn'.pc = "head" /\ conn'.had = 0 /\ conn'.prev = <<>> /\ conn'.row = None /\ ~conn'.close
           /\ conn'.seq = Len(Sizes(len)) % SeqWrap
           /\ asked'.len = len /\ answer' = lens
           /\ sock'.closed = sock.closed
           /\ sock'.cells = IF sock.closed THEN sock.cells ELSE sock.cells \o FlattenSeq(Packets(len, lens))
PROOF
  <1> DEFINE kind == TakeBuffer(len)
             arr == IF kind = "new" THEN Fresh ELSE buf.cur
             command == [i \in 1..(len + 1) |-> Junk]
             m == mem[buf.cur]
  <1>1. len \in Nat /\ len + 1 \in Nat
    BY Sized
  <1>2. /\ buf \in Buffers /\ mem \in [Arrays -> Seq(CellSet)] /\ conn \in Conns
        /\ sock \in [cells : Seq(CellSet), closed : BOOLEAN] /\ count \in 0..MaxCommands
        /\ buf.idx + buf.length <= Len(m) /\ buf.idx \in Nat /\ m \in Seq(CellSet) /\ buf.cur \in Arrays
    BY DEF TypeInv, TypeOK, Buffers
  <1>3. /\ count < MaxCommands /\ count' = count + 1
        /\ conn' = [conn EXCEPT !.pc = "head", !.had = 0, !.close = FALSE, !.prev = <<>>, !.row = None,
                                !.seq = Len(WriteFrames(len)) % SeqWrap]
        /\ asked' = [sizes |-> WriteFrames(len), len |-> len]
        /\ answer' = lens
        /\ buf' = [buf EXCEPT !.cur = arr]
        /\ mem' = CASE kind = "buf" -> [mem EXCEPT ![arr] = command \o SubSeq(@, len + 2, Len(@))]
                    [] kind = "new" -> [mem EXCEPT ![arr] = command]
                    [] OTHER -> mem
        /\ sock' = IF sock.closed THEN sock
                   ELSE [sock EXCEPT !.cells = @ \o FlattenSeq([j \in DOMAIN lens |->
                                           Cells(j, lens[j], FirstSeq(len, lens, j))])]
    BY DEF Started, WriteCommand
  <1>4. buf.length = 0
    BY <1>2 DEF Started, TakeBuffer, Buffers
  <1>5. command \in Seq(CellSet) /\ Len(command) = len + 1
    BY <1>1, JunkType
  <1>6. \/ kind = "buf" /\ len + 1 <= Len(m)
        \/ kind = "new" /\ ~(len + 1 <= Len(m))
        \/ kind = "other"
    BY <1>4 DEF TakeBuffer
  <1>7. arr \in Arrays
    BY <1>2, FreshArray
  <1> HIDE DEF kind, arr, command, m
  <1>8. /\ mem' \in [Arrays -> Seq(CellSet)]
        /\ buf.idx <= Len(mem'[arr])
    <2>1. CASE kind = "buf" /\ len + 1 <= Len(m)
      <3>1. arr = buf.cur /\ mem[arr] = m
        BY <2>1 DEF arr, m
      <3> DEFINE t == SubSeq(m, len + 2, Len(m))
      <3>2. t \in Seq(CellSet) /\ Len(t) = Len(m) - (len + 1)
        BY <1>1, <1>2, <2>1
      <3>3. mem' = [mem EXCEPT ![arr] = command \o t]
        BY <1>3, <2>1, <3>1
      <3> HIDE DEF t
      <3>4. command \o t \in Seq(CellSet) /\ Len(command \o t) = Len(command) + Len(t)
        <4>1. command \in Seq(CellSet) /\ t \in Seq(CellSet)
          BY <1>5, <3>2
        <4> HIDE DEF command
        <4>2. QED
          BY <4>1, ConcatProperties, Zenon
      <3>5. Len(command \o t) = Len(m)
        BY <1>1, <1>2, <1>5, <3>2, <3>4
      <3>6. mem' \in [Arrays -> Seq(CellSet)] /\ mem'[arr] = command \o t
        BY <1>2, <1>7, <3>3, <3>4
      <3>7. buf.idx <= Len(m)
        BY <1>2, <1>4
      <3>8. QED
        BY <3>5, <3>6, <3>7
    <2>2. CASE kind = "new" /\ ~(len + 1 <= Len(m))
      <3>1. mem' = [mem EXCEPT ![arr] = command]
        BY <1>3, <2>2
      <3>2. mem' \in [Arrays -> Seq(CellSet)] /\ mem'[arr] = command
        BY <1>2, <1>5, <1>7, <3>1
      <3>3. buf.idx <= len + 1
        BY <1>1, <1>2, <1>4, <2>2
      <3>4. QED
        BY <1>5, <3>2, <3>3
    <2>3. CASE kind = "other"
      <3>1. mem' = mem
        BY <1>3, <2>3
      <3>2. arr = buf.cur /\ mem[arr] = m
        BY <2>3 DEF arr, m
      <3>3. buf.idx <= Len(m)
        BY <1>2, <1>4
      <3>4. QED
        BY <1>2, <3>1, <3>2, <3>3
    <2>4. QED
      BY <1>6, <2>1, <2>2, <2>3
  <1>9. /\ buf' \in Buffers /\ buf'.cur = arr /\ buf'.idx = buf.idx /\ buf'.length = 0 /\ buf'.dbuf = buf.dbuf
    BY <1>2, <1>3, <1>4, <1>7 DEF Buffers
  <1>10. buf'.idx + buf'.length <= Len(mem'[buf'.cur])
    BY <1>2, <1>8, <1>9
  <1>11. WriteFrames(len) = Sizes(len) /\ Sizes(len) \in Seq(Nat)
    BY <1>1, WriteFramesSizes, SizesStep
  <1>12. Len(Sizes(len)) \in Nat
    BY <1>11
  <1>13. Len(Sizes(len)) % SeqWrap \in 0..(SeqWrap - 1)
    BY <1>12, Sized
  <1>14. None \in Rows
    BY DEF None, Rows, Arrays
  <1>15. /\ conn' \in Conns
         /\ conn'.pc = "head" /\ conn'.had = 0 /\ conn'.prev = <<>> /\ conn'.row = None /\ ~conn'.close
         /\ conn'.seq = Len(Sizes(len)) % SeqWrap
    <2>1. <<>> \in Seq(CellSet)
      OBVIOUS
    <2>2. QED
      BY <1>2, <1>3, <1>11, <1>13, <1>14, <2>1 DEF Conns
  <1>16. asked' \in [sizes : Seq(Nat), len : Nat] /\ asked'.len = len /\ asked'.sizes = Sizes(len)
    BY <1>1, <1>3, <1>11
  <1>17. FlattenSeq(Packets(len, lens)) \in Seq(CellSet)
    BY <1>1, PacketsTypes, FlattenType
  <1>18. sock' = IF sock.closed THEN sock ELSE [sock EXCEPT !.cells = @ \o FlattenSeq(Packets(len, lens))]
    BY <1>3 DEF Packets
  <1>19. /\ sock' \in [cells : Seq(CellSet), closed : BOOLEAN]
         /\ sock'.closed = sock.closed
         /\ sock'.cells = IF sock.closed THEN sock.cells ELSE sock.cells \o FlattenSeq(Packets(len, lens))
    <2> DEFINE x == FlattenSeq(Packets(len, lens))
               c == sock.cells
    <2>1. c \o x \in Seq(CellSet)
      BY <1>2, <1>17
    <2>2. sock' = IF sock.closed THEN sock ELSE [sock EXCEPT !.cells = c \o x]
      BY <1>18
    <2> HIDE DEF x, c
    <2>3. CASE sock.closed
      BY <1>2, <2>2, <2>3
    <2>4. CASE ~sock.closed
      BY <1>2, <2>1, <2>2, <2>4 DEF x, c
    <2>5. QED
      BY <2>3, <2>4
  <1>20. count' \in 0..MaxCommands
    <2>1. count \in 0..MaxCommands /\ count < MaxCommands /\ count' = count + 1 /\ MaxCommands \in Nat
      BY <1>2, <1>3, Sized
    <2>2. QED
      BY <2>1
  <1>21. conn'.pc \notin Filling
    BY <1>15 DEF Filling
  <1>22. TypeInv'
    BY <1>3, <1>8, <1>9, <1>10, <1>15, <1>16, <1>19, <1>20, <1>21 DEF TypeInv, TypeOK, CommandFramed
  <1>23. QED
    BY <1>3, <1>4, <1>9, <1>15, <1>16, <1>19, <1>22

\* What handing out a packet does to the connection.
LEMMA DeliverTypes ==
    ASSUME TypeInv, NEW n \in Nat, NEW data \in Seq(CellSet), NEW split \in BOOLEAN,
           NEW seq \in 0..(SeqWrap - 1), Deliver(n, data, split, seq)
    PROVE  /\ conn' \in Conns
           /\ conn'.pc \in {"idle", "head", "row"}
           /\ conn'.pc = "idle" <=> conn.had + 1 = Len(answer)
           /\ conn'.pc = "head" => conn.close
           /\ conn'.pc = "row" => ~conn.close
           /\ conn'.had = conn.had + 1 /\ conn'.prev = <<>> /\ conn'.close = conn.close
           /\ conn'.row = IF conn.close THEN conn.row
                          ELSE [id |-> conn.had + 1, arr |-> buf.cur, off |-> buf.idx,
                                len |-> IF split THEN 0 ELSE n, copy |-> data]
PROOF
  <1> DEFINE row == [id |-> conn.had + 1, arr |-> buf.cur, off |-> buf.idx,
                     len |-> IF split THEN 0 ELSE n, copy |-> data]
             pc == IF conn.had + 1 = Len(answer) THEN "idle" ELSE IF conn.close THEN "head" ELSE "row"
             r == IF conn.close THEN conn.row ELSE row
             had == conn.had + 1
  <1>1. conn \in Conns /\ buf.cur \in Arrays /\ buf.idx \in Nat
    BY DEF TypeInv, TypeOK, Buffers
  <1>2. conn.had \in Nat /\ had \in Nat /\ conn.row \in Rows /\ conn.close \in BOOLEAN
    BY <1>1 DEF Conns
  <1>3. (IF split THEN 0 ELSE n) \in Nat
    OBVIOUS
  <1>4. row \in Rows
    BY <1>1, <1>2, <1>3 DEF Rows
  <1>5. r \in Rows
    BY <1>2, <1>4
  <1>6. /\ pc \in {"idle", "head", "row"}
        /\ pc = "idle" <=> had = Len(answer)
        /\ pc = "head" => conn.close
        /\ pc = "row" => ~conn.close
    OBVIOUS
  <1>7. conn' = [conn EXCEPT !.had = had, !.prev = <<>>, !.seq = seq, !.pc = pc, !.row = r]
    BY DEF Deliver
  <1>8. <<>> \in Seq(CellSet)
    OBVIOUS
  <1> HIDE DEF row, pc, r, had
  <1>9. /\ conn' \in Conns /\ conn'.pc = pc /\ conn'.had = had /\ conn'.prev = <<>>
        /\ conn'.close = conn.close /\ conn'.row = r
    BY <1>1, <1>2, <1>5, <1>6, <1>7, <1>8 DEF Conns
  <1>10. QED
    BY <1>6, <1>9 DEF had, r, row

\* Where readPacket has enough in the buffer, or not.
LEMMA HeaderCases ==
    ASSUME TypeInv, ReadHeader
    PROVE  /\ conn.pc = "head" /\ sock' = sock /\ asked' = asked /\ answer' = answer /\ count' = count
           /\ \/ buf.length < 1 /\ Prepare(1, "fillHead")
              \/ /\ 1 <= buf.length /\ buf' = Take(1) /\ mem' = mem
                 /\ LET h == Slice(buf.cur, buf.idx, 1)[1]
                        seq == (conn.seq + 1) % SeqWrap
                    IN  /\ h \in CellSet /\ seq \in 0..(SeqWrap - 1)
                        /\ \/ h.seq # conn.seq /\ conn' = [conn EXCEPT !.pc = "idle"]
                           \/ conn' = [conn EXCEPT !.pc = "failed"]
                           \/ h.len = 0 /\ h.seq = conn.seq /\ Deliver(0, conn.prev, TRUE, seq)
                           \/ /\ h.len # 0 /\ h.seq = conn.seq
                              /\ conn' = [conn EXCEPT !.pc = "body", !.need = h.len, !.seq = seq]
PROOF
  <1> DEFINE h == mem[buf.cur][buf.idx + 1]
             seq == (conn.seq + 1) % SeqWrap
  <1>1. conn.pc = "head" /\ sock' = sock /\ asked' = asked /\ answer' = answer /\ count' = count
    BY DEF ReadHeader
  <1>2. CASE buf.length < 1
    <2>1. Prepare(1, "fillHead")
      BY <1>2 DEF ReadHeader
    <2>2. QED
      BY <1>1, <1>2, <2>1
  <1>3. CASE ~(buf.length < 1)
    <2>1. 1 <= buf.length
      BY <1>3, UnreadTypes
    <2>2. Slice(buf.cur, buf.idx, 1)[1] = h /\ h \in CellSet
      <3> DEFINE m == mem[buf.cur]
                 i == buf.idx
      <3>1. m \in Seq(CellSet) /\ i \in Nat /\ i + 1 <= Len(m)
        BY <2>1, UnreadTypes
      <3>2. Slice(buf.cur, buf.idx, 1) = SubSeq(m, i + 1, i + 1)
        BY DEF Slice
      <3> HIDE DEF m, i
      <3>3. SubSeq(m, i + 1, i + 1)[1] = m[i + 1] /\ m[i + 1] \in CellSet
        BY <3>1
      <3>4. QED
        BY <3>2, <3>3 DEF m, i
    <2>3. seq \in 0..(SeqWrap - 1)
      <3>1. conn.seq \in Nat
        BY Sized DEF TypeInv, TypeOK, Conns
      <3>2. QED
        BY <3>1, Sized
    <2>4. /\ buf' = Take(1) /\ mem' = mem
          /\ IF ~InSequence(h) THEN conn' = [conn EXCEPT !.pc = "idle"]
             ELSE IF h.len = 0 /\ conn.prev = <<>> THEN conn' = [conn EXCEPT !.pc = "failed"]
             ELSE IF h.len = 0 THEN Deliver(0, conn.prev, TRUE, seq)
             ELSE conn' = [conn EXCEPT !.pc = "body", !.need = h.len, !.seq = seq]
      BY <1>3 DEF ReadHeader
    <2> HIDE DEF h, seq
    <2>5. \/ h.seq # conn.seq /\ conn' = [conn EXCEPT !.pc = "idle"]
          \/ conn' = [conn EXCEPT !.pc = "failed"]
          \/ h.len = 0 /\ h.seq = conn.seq /\ Deliver(0, conn.prev, TRUE, seq)
          \/ h.len # 0 /\ h.seq = conn.seq /\ conn' = [conn EXCEPT !.pc = "body", !.need = h.len, !.seq = seq]
      BY <2>4, Zenon DEF InSequence
    <2>6. QED
      BY <1>1, <2>1, <2>2, <2>3, <2>4, <2>5 DEF seq
  <1>4. QED
    BY <1>2, <1>3

\* The same for a body.
LEMMA BodyCases ==
    ASSUME TypeInv, ReadBody
    PROVE  /\ conn.pc = "body" /\ sock' = sock /\ asked' = asked /\ answer' = answer /\ count' = count
           /\ conn.need \in Nat /\ conn.prev \in Seq(CellSet) /\ conn.seq \in 0..(SeqWrap - 1)
           /\ \/ buf.length < conn.need /\ Prepare(conn.need, "fillBody")
              \/ /\ conn.need <= buf.length /\ buf' = Take(conn.need) /\ mem' = mem
                 /\ LET data == Slice(buf.cur, buf.idx, conn.need)
                    IN  \/ conn.need >= PacketMax /\ conn' = [conn EXCEPT !.pc = "head", !.prev = @ \o data]
                        \/ /\ ~(conn.need >= PacketMax) /\ conn.prev = <<>>
                           /\ Deliver(conn.need, data, FALSE, conn.seq)
                        \/ /\ ~(conn.need >= PacketMax) /\ conn.prev # <<>>
                           /\ Deliver(conn.need, conn.prev \o data, TRUE, conn.seq)
PROOF
  <1> DEFINE data == Slice(buf.cur, buf.idx, conn.need)
  <1>1. conn.pc = "body" /\ sock' = sock /\ asked' = asked /\ answer' = answer /\ count' = count
    BY DEF ReadBody
  <1>2. conn.need \in Nat /\ conn.prev \in Seq(CellSet) /\ conn.seq \in 0..(SeqWrap - 1)
    BY DEF TypeInv, TypeOK, Conns
  <1>3. CASE buf.length < conn.need
    <2>1. Prepare(conn.need, "fillBody")
      BY <1>3 DEF ReadBody
    <2>2. QED
      BY <1>1, <1>2, <1>3, <2>1
  <1>4. CASE ~(buf.length < conn.need)
    <2>1. conn.need <= buf.length
      BY <1>2, <1>4, UnreadTypes
    <2>2. /\ buf' = Take(conn.need) /\ mem' = mem
          /\ IF conn.need >= PacketMax THEN conn' = [conn EXCEPT !.pc = "head", !.prev = @ \o data]
             ELSE IF conn.prev = <<>> THEN Deliver(conn.need, data, FALSE, conn.seq)
             ELSE Deliver(conn.need, conn.prev \o data, TRUE, conn.seq)
      BY <1>4 DEF ReadBody
    <2> HIDE DEF data
    <2>3. \/ conn.need >= PacketMax /\ conn' = [conn EXCEPT !.pc = "head", !.prev = @ \o data]
          \/ ~(conn.need >= PacketMax) /\ conn.prev = <<>> /\ Deliver(conn.need, data, FALSE, conn.seq)
          \/ ~(conn.need >= PacketMax) /\ conn.prev # <<>> /\ Deliver(conn.need, conn.prev \o data, TRUE, conn.seq)
      BY <2>2, Zenon
    <2>4. QED
      BY <1>1, <1>2, <2>1, <2>2, <2>3 DEF data
  <1>5. QED
    BY <1>3, <1>4

\* The answers a server may choose.
LEMMA AnswerTypes ==
    ASSUME NEW n \in 1..MaxAnswer, NEW lens \in [1..n -> Lengths]
    PROVE  lens \in Seq(Nat) /\ Len(lens) = n /\ n \in Nat \ {0}
PROOF
  <1>1. n \in Nat \ {0} /\ Lengths \subseteq Nat
    BY WireAssumption
  <1>2. \A i \in 1..n : lens[i] \in Nat
    BY <1>1
  <1>3. lens = [i \in 1..n |-> lens[i]]
    OBVIOUS
  <1>4. QED
    BY <1>1, <1>2, <1>3

\* The last words of a server are cells.
LEMMA ByeType == Cells(0, 1, 0) \in Seq(CellSet)
PROOF
  <1>1. 0 \in Nat /\ 1 \in Nat /\ 0 \in Int
    OBVIOUS
  <1>2. QED
    BY <1>1, FramesTypes

\* TypeInv holds at the start.
LEMMA InitTypes == Init => TypeInv
PROOF
  <1> SUFFICES ASSUME Init PROVE TypeInv
    OBVIOUS
  <1>1. <<>> \in Seq(CellSet) /\ <<>> \in Seq(Nat) /\ <<0>> \in Seq(Nat)
    OBVIOUS
  <1> DEFINE zero == [i \in 1..BufSize |-> Junk]
  <1>2. zero \in Seq(CellSet) /\ Len(zero) = BufSize
    BY Sized, JunkType
  <1> HIDE DEF zero
  <1>3. mem = [a \in Arrays |-> IF a = 1 THEN zero ELSE <<>>]
    BY DEF Init, zero
  <1>4. mem \in [Arrays -> Seq(CellSet)] /\ mem[1] = zero
    BY <1>1, <1>2, <1>3 DEF Arrays
  <1>5. buf \in Buffers /\ buf.cur = 1 /\ buf.idx = 0 /\ buf.length = 0
    BY DEF Init, Buffers, Arrays
  <1>6. None \in Rows /\ 0 \in 0..(SeqWrap - 1)
    BY <1>1, Sized DEF None, Rows, Arrays
  <1>7. conn \in Conns /\ conn.pc = "idle"
    BY <1>1, <1>6 DEF Init, Conns
  <1>8. sock \in [cells : Seq(CellSet), closed : BOOLEAN] /\ count \in 0..MaxCommands /\ answer \in Seq(Nat)
    BY <1>1, Sized DEF Init
  <1>9. asked \in [sizes : Seq(Nat), len : Nat] /\ asked.sizes = <<0>> /\ asked.len = 0
    BY <1>1 DEF Init
  <1>10. Sizes(0) = <<0>>
    BY Sized, SizesStep
  <1>11. buf.idx + buf.length <= Len(mem[buf.cur])
    BY <1>2, <1>4, <1>5, Sized
  <1>12. QED
    BY <1>4, <1>5, <1>7, <1>8, <1>9, <1>10, <1>11 DEF TypeInv, TypeOK, CommandFramed, Filling

\* What a step that does not start a command does not touch.
LEMMA KeepsTypes ==
    ASSUME TypeInv, asked' = asked, answer' = answer, count' = count,
           buf' \in Buffers, mem' \in [Arrays -> Seq(CellSet)], conn' \in Conns,
           sock' \in [cells : Seq(CellSet), closed : BOOLEAN],
           buf'.idx + buf'.length <= Len(mem'[buf'.cur]),
           conn'.pc \in Filling => buf'.idx = 0
    PROVE  TypeInv'
PROOF
  BY DEF TypeInv, TypeOK, CommandFramed

\* The first half of fill loses nothing that is unread.
LEMMA PrepareTypes ==
    ASSUME TypeInv, NEW need \in Nat, NEW pc \in Filling, buf.length < need, Prepare(need, pc),
           asked' = asked, answer' = answer, count' = count, sock' = sock
    PROVE  TypeInv' /\ Unread' = Unread
PROOF
  <1>1. PICK dest \in Arrays :
             /\ buf' \in Buffers
             /\ buf'.cur = dest /\ buf'.idx = 0 /\ buf'.length = buf.length
             /\ mem' \in [Arrays -> Seq(CellSet)]
             /\ need <= Len(mem'[dest])
             /\ SubSeq(mem'[dest], 1, buf.length) = Slice(buf.cur, buf.idx, buf.length)
             /\ conn' = [conn EXCEPT !.pc = pc, !.need = need]
    BY Prepared
  <1>2. conn \in Conns /\ sock \in [cells : Seq(CellSet), closed : BOOLEAN]
    BY DEF TypeInv, TypeOK
  <1>3. conn' \in Conns
    BY <1>1, <1>2 DEF Conns, Filling
  <1>4. buf'.idx + buf'.length <= Len(mem'[buf'.cur])
    <2> DEFINE n == Len(mem'[dest])
               l == buf.length
    <2>1. l \in Nat /\ n \in Nat /\ l < need /\ need <= n
      <3>1. mem'[dest] \in Seq(CellSet)
        BY <1>1
      <3>2. QED
        BY <1>1, <3>1, UnreadTypes
    <2>2. l <= n
      <3> HIDE DEF l, n
      <3>1. QED
        BY <2>1
    <2>3. QED
      BY <1>1, <2>1, <2>2
  <1>5. TypeInv'
    BY <1>1, <1>2, <1>3, <1>4, KeepsTypes
  <1>6. Unread' = Unread
    <2>1. 0 + 1 = 1 /\ 0 + buf.length = buf.length
      BY UnreadTypes
    <2>2. Unread' = SubSeq(mem'[dest], 0 + 1, 0 + buf.length) \o sock.cells
      BY <1>1 DEF Unread, Slice
    <2>3. QED
      BY <1>1, <2>1, <2>2 DEF Unread
  <1>7. QED
    BY <1>5, <1>6

\* Reading a header keeps the types.
LEMMA ReadHeaderTypes == ASSUME TypeInv, ReadHeader PROVE TypeInv'
PROOF
  <1> DEFINE h == Slice(buf.cur, buf.idx, 1)[1]
             seq == (conn.seq + 1) % SeqWrap
  <1>1. /\ conn.pc = "head" /\ sock' = sock /\ asked' = asked /\ answer' = answer /\ count' = count
        /\ \/ buf.length < 1 /\ Prepare(1, "fillHead")
           \/ /\ 1 <= buf.length /\ buf' = Take(1) /\ mem' = mem
              /\ h \in CellSet /\ seq \in 0..(SeqWrap - 1)
              /\ \/ h.seq # conn.seq /\ conn' = [conn EXCEPT !.pc = "idle"]
                 \/ conn' = [conn EXCEPT !.pc = "failed"]
                 \/ h.len = 0 /\ h.seq = conn.seq /\ Deliver(0, conn.prev, TRUE, seq)
                 \/ /\ h.len # 0 /\ h.seq = conn.seq
                    /\ conn' = [conn EXCEPT !.pc = "body", !.need = h.len, !.seq = seq]
    BY HeaderCases
  <1> HIDE DEF h, seq
  <1>2. CASE buf.length < 1 /\ Prepare(1, "fillHead")
    BY <1>1, <1>2, PrepareTypes DEF Filling
  <1>3. CASE 1 <= buf.length /\ buf' = Take(1) /\ mem' = mem
    <2>1. buf' \in Buffers /\ buf'.idx + buf'.length <= Len(mem'[buf'.cur])
      BY <1>1, <1>3, Taken
    <2>2. /\ conn \in Conns /\ sock \in [cells : Seq(CellSet), closed : BOOLEAN] /\ conn.prev \in Seq(CellSet)
          /\ mem \in [Arrays -> Seq(CellSet)]
      BY DEF TypeInv, TypeOK, Conns
    <2>3. CASE conn' = [conn EXCEPT !.pc = "failed"] \/ conn' = [conn EXCEPT !.pc = "idle"]
      <3>1. conn' \in Conns /\ conn'.pc \in {"failed", "idle"}
        BY <2>2, <2>3 DEF Conns
      <3>2. QED
        BY <1>1, <1>3, <2>1, <2>2, <3>1, KeepsTypes DEF Filling
    <2>4. CASE seq \in 0..(SeqWrap - 1) /\ Deliver(0, conn.prev, TRUE, seq)
      <3>1. conn' \in Conns /\ conn'.pc \in {"idle", "head", "row"}
        BY <2>2, <2>4, DeliverTypes
      <3>2. QED
        BY <1>1, <1>3, <2>1, <2>2, <3>1, KeepsTypes DEF Filling
    <2>5. CASE h \in CellSet /\ seq \in 0..(SeqWrap - 1)
               /\ conn' = [conn EXCEPT !.pc = "body", !.need = h.len, !.seq = seq]
      <3>1. h.len \in Nat
        BY <2>5 DEF CellSet
      <3>2. conn' \in Conns /\ conn'.pc = "body"
        BY <2>2, <2>5, <3>1 DEF Conns
      <3>3. QED
        BY <1>1, <1>3, <2>1, <2>2, <3>2, KeepsTypes DEF Filling
    <2>6. QED
      <3>1. ~(buf.length < 1)
        BY <1>3, UnreadTypes
      <3>2. QED
        BY <1>1, <2>3, <2>4, <2>5, <3>1
  <1>4. QED
    BY <1>1, <1>2, <1>3

\* Reading a body keeps the types.
LEMMA ReadBodyTypes == ASSUME TypeInv, ReadBody PROVE TypeInv'
PROOF
  <1> DEFINE data == Slice(buf.cur, buf.idx, conn.need)
  <1>1. /\ conn.pc = "body" /\ sock' = sock /\ asked' = asked /\ answer' = answer /\ count' = count
        /\ conn.need \in Nat /\ conn.prev \in Seq(CellSet) /\ conn.seq \in 0..(SeqWrap - 1)
        /\ \/ buf.length < conn.need /\ Prepare(conn.need, "fillBody")
           \/ /\ conn.need <= buf.length /\ buf' = Take(conn.need) /\ mem' = mem
              /\ \/ conn.need >= PacketMax /\ conn' = [conn EXCEPT !.pc = "head", !.prev = @ \o data]
                 \/ ~(conn.need >= PacketMax) /\ conn.prev = <<>> /\ Deliver(conn.need, data, FALSE, conn.seq)
                 \/ /\ ~(conn.need >= PacketMax) /\ conn.prev # <<>>
                    /\ Deliver(conn.need, conn.prev \o data, TRUE, conn.seq)
    BY BodyCases
  <1>2. CASE buf.length < conn.need /\ Prepare(conn.need, "fillBody")
    BY <1>1, <1>2, PrepareTypes DEF Filling
  <1>3. CASE /\ conn.need <= buf.length /\ buf' = Take(conn.need) /\ mem' = mem
             /\ \/ conn' = [conn EXCEPT !.pc = "head", !.prev = @ \o data]
                \/ Deliver(conn.need, data, FALSE, conn.seq)
                \/ Deliver(conn.need, conn.prev \o data, TRUE, conn.seq)
    <2>1. buf' \in Buffers /\ buf'.idx + buf'.length <= Len(mem'[buf'.cur]) /\ data \in Seq(CellSet)
      BY <1>1, <1>3, Taken
    <2>2. /\ conn \in Conns /\ sock \in [cells : Seq(CellSet), closed : BOOLEAN]
          /\ mem \in [Arrays -> Seq(CellSet)]
      BY DEF TypeInv, TypeOK
    <2> HIDE DEF data
    <2>3. conn.prev \o data \in Seq(CellSet)
      BY <1>1, <2>1
    <2>4. conn' \in Conns /\ conn'.pc \notin Filling
      <3>1. CASE conn' = [conn EXCEPT !.pc = "head", !.prev = @ \o data]
        BY <2>2, <2>3, <3>1 DEF Conns, Filling
      <3>2. CASE Deliver(conn.need, data, FALSE, conn.seq)
        BY <1>1, <2>1, <3>2, DeliverTypes DEF Filling
      <3>3. CASE Deliver(conn.need, conn.prev \o data, TRUE, conn.seq)
        <4>1. conn' \in Conns /\ conn'.pc \in {"idle", "head", "row"}
          BY <1>1, <2>3, <3>3, DeliverTypes
        <4>2. QED
          BY <4>1 DEF Filling
      <3>4. QED
        BY <1>3, <3>1, <3>2, <3>3
    <2>5. QED
      BY <1>1, <1>3, <2>1, <2>2, <2>4, KeepsTypes
  <1>4. QED
    BY <1>1, <1>2, <1>3

\* TypeInv is inductive.
LEMMA NextTypes == TypeInv /\ [Next]_vars => TypeInv'
PROOF
  <1> SUFFICES ASSUME TypeInv, [Next]_vars PROVE TypeInv'
    OBVIOUS
  <1>1. /\ buf \in Buffers /\ mem \in [Arrays -> Seq(CellSet)] /\ conn \in Conns
        /\ sock \in [cells : Seq(CellSet), closed : BOOLEAN]
        /\ buf.idx + buf.length <= Len(mem[buf.cur])
        /\ conn.pc \in Filling => buf.idx = 0
    BY DEF TypeInv, TypeOK
  <1>2. CASE UNCHANGED vars
    BY <1>2 DEF vars, TypeInv, TypeOK, CommandFramed
  <1>3. ASSUME NEW len \in CommandLengths, NEW n \in 1..MaxAnswer, NEW lens \in [1..n -> Lengths],
               WriteCommand(len, lens)
        PROVE  TypeInv'
    <2>1. CASE TakeBuffer(len) = "busy"
      <3>1. /\ conn' = conn
            /\ buf' = buf /\ mem' = mem /\ sock' = sock /\ asked' = asked /\ answer' = answer
            /\ count < MaxCommands /\ count' = count + 1
        BY <1>3, <2>1 DEF WriteCommand
      <3>2. conn' \in Conns /\ conn'.pc = conn.pc
        BY <1>1, <3>1
      <3>3. count' \in 0..MaxCommands
        <4>1. count \in 0..MaxCommands /\ MaxCommands \in Nat
          BY Sized DEF TypeInv, TypeOK
        <4>2. QED
          BY <3>1, <4>1
      <3>4. QED
        BY <1>1, <3>1, <3>2, <3>3 DEF TypeInv, TypeOK, CommandFramed, Filling
    <2>2. CASE TakeBuffer(len) # "busy"
      <3>1. lens \in Seq(Nat)
        BY AnswerTypes
      <3>2. QED
        BY <1>3, <2>2, <3>1, StartedTypes DEF Started
    <2>3. QED
      BY <2>1, <2>2
  <1>4. CASE Goodbye
    <2>1. PICK last \in {<<>>, Cells(0, 1, 0)} : sock' = [cells |-> sock.cells \o last, closed |-> TRUE]
      BY <1>4 DEF Goodbye
    <2>2. last \in Seq(CellSet) /\ sock.cells \in Seq(CellSet)
      <3>1. <<>> \in Seq(CellSet)
        OBVIOUS
      <3>2. sock.cells \in Seq(CellSet)
        BY <1>1
      <3>3. QED
        BY <3>1, <3>2, ByeType
    <2>3. sock.cells \o last \in Seq(CellSet)
      BY <2>2
    <2>4. sock' \in [cells : Seq(CellSet), closed : BOOLEAN]
      BY <2>1, <2>3
    <2>5. QED
      BY <1>1, <1>4, <2>4, KeepsTypes DEF Goodbye
  <1>5. CASE RowsNext
    <2>1. None \in Rows
      BY DEF None, Rows, Arrays
    <2>2. conn' \in Conns /\ conn'.pc = "head"
      BY <1>1, <1>5, <2>1 DEF RowsNext, Conns
    <2>3. QED
      BY <1>1, <1>5, <2>2, KeepsTypes DEF RowsNext, Filling
  <1>6. CASE RowsClose
    <2>1. conn' \in Conns /\ conn'.pc = "head"
      BY <1>1, <1>6 DEF RowsClose, Conns
    <2>2. buf' \in Buffers /\ buf'.idx = buf.idx /\ buf'.length = buf.length /\ buf'.cur = buf.cur
      <3>1. buf.flip \in 0..1
        BY <1>1 DEF Buffers
      <3>2. 1 - buf.flip \in 0..1
        BY <3>1
      <3>3. buf' = [buf EXCEPT !.flip = 1 - buf.flip]
        BY <1>6 DEF RowsClose, Flip
      <3>4. QED
        BY <1>1, <3>2, <3>3 DEF Buffers
    <2>3. QED
      BY <1>1, <1>6, <2>1, <2>2, KeepsTypes DEF RowsClose, Filling
  <1>7. CASE ReadFails
    <2>1. conn' \in Conns /\ conn'.pc = "failed"
      BY <1>1, <1>7 DEF ReadFails, Conns
    <2>2. QED
      BY <1>1, <1>7, <2>1, KeepsTypes DEF ReadFails, Filling
  <1>8. ASSUME NEW k \in 1..(PacketMax + BufSize), Read(k) PROVE TypeInv'
    <2>1. k \in Nat
      BY Sized
    <2>2. /\ buf' \in Buffers /\ mem' \in [Arrays -> Seq(CellSet)]
          /\ buf'.idx + buf'.length <= Len(mem'[buf'.cur]) /\ buf'.idx = 0
          /\ sock' \in [cells : Seq(CellSet), closed : BOOLEAN]
      BY <1>8, <2>1, ReadFrom
    <2>3. conn' \in Conns
      <3>1. conn' = conn \/ conn' = [conn EXCEPT !.pc = IF conn.pc = "fillHead" THEN "head" ELSE "body"]
        BY <1>8 DEF Read
      <3>2. QED
        BY <1>1, <3>1 DEF Conns
    <2>4. asked' = asked /\ answer' = answer /\ count' = count
      BY <1>8 DEF Read
    <2>5. QED
      BY <2>2, <2>3, <2>4, KeepsTypes
  <1>9. QED
    BY <1>2, <1>3, <1>4, <1>5, <1>6, <1>7, <1>8, ReadHeaderTypes, ReadBodyTypes DEF Next, Caller

-----------------------------------------------------------------------------
(***************************************************************************)
(* The row the caller holds.                                               *)
(***************************************************************************)

Reading == {"head", "fillHead", "body", "fillBody"}

\* The buffer is the array that the next fill will use, or none of the two.
Loaded == buf.cur = buf.dbuf[buf.flip + 1] \/ buf.cur \notin {buf.dbuf[1], buf.dbuf[2]}

BufInv ==
    /\ buf.dbuf[1] # buf.dbuf[2]
    /\ conn.pc = "row" => ~conn.close
    /\ ~conn.close =>
        /\ conn.pc \in {"fillHead", "body", "fillBody", "row"} => Loaded
        /\ conn.pc = "head" => buf.length = 0 \/ Loaded

\* A row in the buffer is as it was, and no fill will write to its array.
RowInv ==
    conn.row.len # 0 =>
        /\ Slice(conn.row.arr, conn.row.off, conn.row.len) = conn.row.copy
        /\ conn.pc = "row" => conn.row.arr = buf.cur
        /\ conn.pc \in Reading =>
            /\ conn.close
            /\ conn.row.arr # buf.dbuf[buf.flip + 1]
            /\ conn.pc \in Filling => conn.row.arr # buf.cur

HoldInv == TypeInv /\ BufInv /\ RowInv

\* fill of the array that flip left.
LEMMA PrepareHolds ==
    ASSUME HoldInv, NEW need \in Nat, NEW pc \in Filling, buf.length < need, Prepare(need, pc),
           conn.pc \in {"head", "body"}
    PROVE  BufInv' /\ RowInv'
PROOF
  <1>1. PICK dest \in Arrays :
             /\ dest = buf.dbuf[buf.flip + 1] \/ dest \notin Referenced(buf)
             /\ buf'.cur = dest /\ buf'.flip = buf.flip
             /\ buf'.dbuf = buf.dbuf \/ buf'.dbuf = [buf.dbuf EXCEPT ![buf.flip + 1] = dest]
             /\ conn.row.arr # dest => mem'[conn.row.arr] = mem[conn.row.arr]
             /\ conn' = [conn EXCEPT !.pc = pc, !.need = need]
    BY Prepared DEF HoldInv
  <1>2. buf \in Buffers /\ conn \in Conns
    BY DEF HoldInv, TypeInv, TypeOK
  <1>3. conn'.pc = pc /\ conn'.row = conn.row /\ conn'.close = conn.close
    BY <1>1, <1>2 DEF Conns
  <1> DEFINE b == buf.flip + 1
             d == buf.dbuf
  <1>4. b \in {1, 2} /\ d \in [1..2 -> Arrays \cup {0}] /\ d[1] # d[2]
    BY <1>2 DEF HoldInv, BufInv, Buffers
  <1>5. dest = d[b] \/ (dest # d[1] /\ dest # d[2] /\ dest # conn.row.arr)
    BY <1>1 DEF Referenced
  <1> HIDE DEF b, d
  <1>6. /\ buf'.dbuf[1] # buf'.dbuf[2]
        /\ dest = buf'.dbuf[b] \/ dest \notin {buf'.dbuf[1], buf'.dbuf[2]}
        /\ \A x : x # d[b] /\ x # dest => x # buf'.dbuf[b]
    <2>1. CASE buf'.dbuf = d
      BY <1>4, <1>5, <2>1
    <2>2. CASE buf'.dbuf = [d EXCEPT ![b] = dest]
      <3>1. CASE b = 1
        BY <1>4, <1>5, <2>2, <3>1
      <3>2. CASE b = 2
        BY <1>4, <1>5, <2>2, <3>2
      <3>3. QED
        BY <1>4, <3>1, <3>2
    <2>3. QED
      BY <1>1, <2>1, <2>2 DEF b, d
  <1>7. Loaded'
    BY <1>1, <1>6 DEF Loaded, b
  <1>8. BufInv'
    BY <1>3, <1>6, <1>7 DEF BufInv, Filling
  <1>9. RowInv'
    <2> SUFFICES ASSUME conn.row.len # 0
                 PROVE  /\ SubSeq(mem'[conn.row.arr], conn.row.off + 1, conn.row.off + conn.row.len) = conn.row.copy
                        /\ conn.close /\ conn.row.arr # buf'.dbuf[b] /\ conn.row.arr # dest
      BY <1>1, <1>3 DEF RowInv, Slice, b, Filling
    <2>1. /\ SubSeq(mem[conn.row.arr], conn.row.off + 1, conn.row.off + conn.row.len) = conn.row.copy
          /\ conn.close /\ conn.row.arr # d[b]
      BY DEF HoldInv, RowInv, Slice, Reading, b, d
    <2>2. conn.row.arr # dest
      BY <1>5, <2>1
    <2>3. QED
      BY <1>1, <1>6, <2>1, <2>2
  <1>10. QED
    BY <1>8, <1>9

\* A packet is handed out.
LEMMA DeliverHolds ==
    ASSUME HoldInv, NEW n \in Nat, n <= buf.length, NEW data \in Seq(CellSet), NEW split \in BOOLEAN,
           NEW seq \in 0..(SeqWrap - 1), Deliver(n, data, split, seq), buf' = Take(n), mem' = mem, sock' = sock,
           conn.pc \in {"head", "body"}, conn.close \/ Loaded,
           split \/ data = Slice(buf.cur, buf.idx, n)
    PROVE  BufInv' /\ RowInv'
PROOF
  <1>1. buf'.cur = buf.cur /\ buf'.dbuf = buf.dbuf /\ buf'.flip = buf.flip
    BY Taken DEF HoldInv
  <1>2. /\ conn'.pc \in {"idle", "head", "row"}
        /\ conn'.pc = "head" => conn.close
        /\ conn'.pc = "row" => ~conn.close
        /\ conn'.close = conn.close
        /\ conn'.row = IF conn.close THEN conn.row
                       ELSE [id |-> conn.had + 1, arr |-> buf.cur, off |-> buf.idx,
                             len |-> IF split THEN 0 ELSE n, copy |-> data]
    BY DeliverTypes DEF HoldInv
  <1>3. Loaded' <=> Loaded
    BY <1>1 DEF Loaded
  <1>4. BufInv'
    BY <1>1, <1>2, <1>3 DEF HoldInv, BufInv
  <1>5. CASE conn.close
    <2>1. conn'.row = conn.row /\ conn'.pc # "row" /\ conn'.pc \notin Filling
      BY <1>2, <1>5 DEF Filling
    <2>2. conn.row.len # 0 =>
            /\ Slice(conn.row.arr, conn.row.off, conn.row.len) = conn.row.copy
            /\ conn.row.arr # buf.dbuf[buf.flip + 1]
      BY DEF HoldInv, RowInv, Reading
    <2>3. RowInv'
      BY <1>1, <1>2, <1>5, <2>1, <2>2 DEF RowInv, Slice
    <2>4. QED
      BY <1>4, <2>3
  <1>6. CASE ~conn.close
    <2>1. conn'.row.arr = buf.cur /\ conn'.row.off = buf.idx /\ conn'.row.copy = data
          /\ conn'.row.len = IF split THEN 0 ELSE n
      BY <1>2, <1>6
    <2>2. conn'.row.len # 0 => conn'.row.len = n /\ data = Slice(buf.cur, buf.idx, n)
      BY <2>1
    <2>3. conn'.pc \notin Reading
      BY <1>2, <1>6 DEF Reading
    <2>4. QED
      BY <1>1, <1>4, <2>1, <2>2, <2>3 DEF RowInv, Slice
  <1>7. QED
    BY <1>4, <1>5, <1>6

\* A step that leaves buffer, memory, row and rows' mode alone.
LEMMA StaysHeld ==
    ASSUME HoldInv, mem' = mem, buf'.cur = buf.cur, buf'.dbuf = buf.dbuf, buf'.flip = buf.flip,
           conn'.row = conn.row, conn'.close = conn.close,
           conn'.pc \in {"failed", "idle", conn.pc} \/ (conn.pc \in Reading /\ conn'.pc \in {"head", "body"}),
           conn'.pc = "head" /\ ~conn.close => buf'.length = 0 \/ Loaded,
           conn'.pc = "body" /\ ~conn.close => Loaded
    PROVE  BufInv' /\ RowInv'
PROOF
  <1>1. Loaded' <=> Loaded
    BY DEF Loaded
  <1>2. BufInv'
    BY <1>1 DEF HoldInv, BufInv, Reading
  <1>3. RowInv'
    BY DEF HoldInv, RowInv, Slice, Reading, Filling
  <1>4. QED
    BY <1>2, <1>3

\* Reading a header leaves the row alone.
LEMMA ReadHeaderHolds == ASSUME HoldInv, ReadHeader PROVE BufInv' /\ RowInv'
PROOF
  <1> DEFINE h == Slice(buf.cur, buf.idx, 1)[1]
             seq == (conn.seq + 1) % SeqWrap
  <1>1. /\ conn.pc = "head" /\ sock' = sock
        /\ \/ buf.length < 1 /\ Prepare(1, "fillHead")
           \/ /\ 1 <= buf.length /\ buf' = Take(1) /\ mem' = mem
              /\ seq \in 0..(SeqWrap - 1)
              /\ \/ conn' = [conn EXCEPT !.pc = "idle"]
                 \/ conn' = [conn EXCEPT !.pc = "failed"]
                 \/ Deliver(0, conn.prev, TRUE, seq)
                 \/ conn' = [conn EXCEPT !.pc = "body", !.need = h.len, !.seq = seq]
    BY HeaderCases DEF HoldInv
  <1> HIDE DEF h, seq
  <1>2. CASE buf.length < 1 /\ Prepare(1, "fillHead")
    BY <1>1, <1>2, PrepareHolds DEF Filling
  <1>3. CASE /\ 1 <= buf.length /\ buf' = Take(1) /\ mem' = mem
             /\ seq \in 0..(SeqWrap - 1)
             /\ \/ conn' = [conn EXCEPT !.pc = "idle"]
                \/ conn' = [conn EXCEPT !.pc = "failed"]
                \/ Deliver(0, conn.prev, TRUE, seq)
                \/ conn' = [conn EXCEPT !.pc = "body", !.need = h.len, !.seq = seq]
    <2>1. buf'.cur = buf.cur /\ buf'.dbuf = buf.dbuf /\ buf'.flip = buf.flip
      BY <1>1, <1>3, Taken DEF HoldInv
    <2>2. conn \in Conns /\ conn.prev \in Seq(CellSet) /\ buf.length \in Nat
      BY DEF HoldInv, TypeInv, TypeOK, Conns, Buffers
    <2>3. conn.close \/ Loaded
      BY <1>1, <1>3, <2>2 DEF HoldInv, BufInv
    <2>4. CASE conn' = [conn EXCEPT !.pc = "failed"] \/ conn' = [conn EXCEPT !.pc = "idle"]
      <3>1. conn'.pc \in {"failed", "idle"} /\ conn'.row = conn.row /\ conn'.close = conn.close
        BY <2>2, <2>4 DEF Conns
      <3>2. QED
        BY <1>3, <2>1, <3>1, StaysHeld
    <2>5. CASE conn' = [conn EXCEPT !.pc = "body", !.need = h.len, !.seq = seq]
      <3>1. conn'.pc = "body" /\ conn'.row = conn.row /\ conn'.close = conn.close
        BY <2>2, <2>5 DEF Conns
      <3>2. QED
        BY <1>1, <1>3, <2>1, <2>3, <3>1, StaysHeld DEF Reading
    <2>6. CASE Deliver(0, conn.prev, TRUE, seq)
      \* What readPacket takes here is the header; the row is a copy.
      <3>1. /\ conn'.pc \in {"idle", "head", "row"}
            /\ conn'.pc = "head" => conn.close
            /\ conn'.pc = "row" => ~conn.close
            /\ conn'.close = conn.close
            /\ conn'.row = IF conn.close THEN conn.row
                           ELSE [id |-> conn.had + 1, arr |-> buf.cur, off |-> buf.idx, len |-> 0, copy |-> conn.prev]
        BY <1>3, <2>2, <2>6, DeliverTypes DEF HoldInv
      <3>2. Loaded' <=> Loaded
        BY <2>1 DEF Loaded
      <3>3. BufInv'
        BY <2>1, <2>3, <3>1, <3>2 DEF HoldInv, BufInv
      <3>4. CASE conn.close
        <4>1. conn'.row = conn.row /\ conn'.pc # "row" /\ conn'.pc \notin Filling
          BY <3>1, <3>4 DEF Filling
        <4>2. conn.row.len # 0 =>
                /\ Slice(conn.row.arr, conn.row.off, conn.row.len) = conn.row.copy
                /\ conn.row.arr # buf.dbuf[buf.flip + 1]
          BY <1>1 DEF HoldInv, RowInv, Reading
        <4>3. RowInv'
          BY <1>3, <2>1, <3>1, <3>4, <4>1, <4>2 DEF RowInv, Slice
        <4>4. QED
          BY <3>3, <4>3
      <3>5. CASE ~conn.close
        <4>1. conn'.row.len = 0
          BY <3>1, <3>5
        <4>2. QED
          BY <3>3, <4>1 DEF RowInv
      <3>6. QED
        BY <3>4, <3>5
    <2>7. QED
      BY <1>3, <2>4, <2>5, <2>6
  <1>4. QED
    BY <1>1, <1>2, <1>3

\* Reading a body leaves the row alone.
LEMMA ReadBodyHolds == ASSUME HoldInv, ReadBody PROVE BufInv' /\ RowInv'
PROOF
  <1> DEFINE data == Slice(buf.cur, buf.idx, conn.need)
  <1>1. /\ conn.pc = "body" /\ sock' = sock
        /\ conn.need \in Nat /\ conn.prev \in Seq(CellSet) /\ conn.seq \in 0..(SeqWrap - 1)
        /\ \/ buf.length < conn.need /\ Prepare(conn.need, "fillBody")
           \/ /\ conn.need <= buf.length /\ buf' = Take(conn.need) /\ mem' = mem
              /\ \/ conn' = [conn EXCEPT !.pc = "head", !.prev = @ \o data]
                 \/ Deliver(conn.need, data, FALSE, conn.seq)
                 \/ Deliver(conn.need, conn.prev \o data, TRUE, conn.seq)
    BY BodyCases DEF HoldInv
  <1>2. CASE buf.length < conn.need /\ Prepare(conn.need, "fillBody")
    BY <1>1, <1>2, PrepareHolds DEF Filling
  <1>3. CASE /\ conn.need <= buf.length /\ buf' = Take(conn.need) /\ mem' = mem
             /\ \/ conn' = [conn EXCEPT !.pc = "head", !.prev = @ \o data]
                \/ Deliver(conn.need, data, FALSE, conn.seq)
                \/ Deliver(conn.need, conn.prev \o data, TRUE, conn.seq)
    <2>1. buf'.cur = buf.cur /\ buf'.dbuf = buf.dbuf /\ buf'.flip = buf.flip /\ data \in Seq(CellSet)
      BY <1>1, <1>3, Taken DEF HoldInv
    <2>2. conn \in Conns
      BY DEF HoldInv, TypeInv, TypeOK
    <2>3. conn.close \/ Loaded
      BY <1>1 DEF HoldInv, BufInv
    <2>4. conn.prev \o data \in Seq(CellSet)
      <3> HIDE DEF data
      <3>1. QED
        BY <1>1, <2>1
    <2>5. CASE conn' = [conn EXCEPT !.pc = "head", !.prev = @ \o data]
      <3>1. conn'.pc = "head" /\ conn'.row = conn.row /\ conn'.close = conn.close
        BY <2>2, <2>5 DEF Conns
      <3>2. QED
        BY <1>1, <1>3, <2>1, <2>3, <3>1, StaysHeld DEF Reading
    <2>6. CASE Deliver(conn.need, data, FALSE, conn.seq)
      BY <1>1, <1>3, <2>1, <2>3, <2>6, DeliverHolds
    <2>7. CASE Deliver(conn.need, conn.prev \o data, TRUE, conn.seq)
      BY <1>1, <1>3, <2>3, <2>4, <2>7, DeliverHolds
    <2>8. QED
      BY <1>3, <2>5, <2>6, <2>7
  <1>4. QED
    BY <1>1, <1>2, <1>3

\* HoldInv is inductive.
LEMMA NextHolds == HoldInv /\ [Next]_vars => HoldInv'
PROOF
  <1> SUFFICES ASSUME HoldInv, [Next]_vars PROVE BufInv' /\ RowInv'
    BY NextTypes DEF HoldInv
  <1>1. buf \in Buffers /\ conn \in Conns
    BY DEF HoldInv, TypeInv, TypeOK
  <1>2. CASE UNCHANGED vars
    BY <1>2 DEF vars, HoldInv, BufInv, RowInv, Loaded, Slice
  <1>3. ASSUME NEW len \in CommandLengths, NEW n \in 1..MaxAnswer, NEW lens \in [1..n -> Lengths],
               WriteCommand(len, lens)
        PROVE  BufInv' /\ RowInv'
    <2>1. CASE TakeBuffer(len) = "busy"
      <3>1. conn' = conn /\ conn.pc = "idle" /\ buf' = buf /\ mem' = mem
        BY <1>3, <2>1 DEF WriteCommand
      <3>2. conn'.pc = "idle" /\ conn'.row = conn.row /\ conn'.close = conn.close
        BY <1>1, <3>1 DEF Conns
      <3>3. QED
        BY <3>1, <3>2, StaysHeld
    <2>2. CASE TakeBuffer(len) # "busy"
      <3>1. lens \in Seq(Nat)
        BY AnswerTypes
      <3>2. buf'.length = 0 /\ buf'.dbuf = buf.dbuf /\ conn'.pc = "head" /\ conn'.row = None
        BY <1>3, <2>2, <3>1, StartedTypes DEF Started, HoldInv
      <3>3. QED
        BY <3>2 DEF HoldInv, BufInv, RowInv, None
    <2>3. QED
      BY <2>1, <2>2
  <1>4. CASE Goodbye
    BY <1>4 DEF Goodbye, HoldInv, BufInv, RowInv, Loaded, Slice
  <1>5. CASE RowsNext
    <2>1. conn'.pc = "head" /\ conn'.row = None /\ conn'.close = conn.close /\ buf' = buf /\ conn.pc = "row"
      BY <1>1, <1>5 DEF RowsNext, Conns
    <2>2. QED
      BY <2>1 DEF HoldInv, BufInv, RowInv, None, Loaded
  <1>6. CASE RowsClose
    <2>1. conn'.pc = "head" /\ conn'.row = conn.row /\ conn'.close /\ conn.pc = "row" /\ mem' = mem
      BY <1>1, <1>6 DEF RowsClose, Conns
    <2>2. buf'.cur = buf.cur /\ buf'.dbuf = buf.dbuf /\ buf'.flip = 1 - buf.flip
      BY <1>1, <1>6 DEF RowsClose, Flip, Buffers
    <2>3. BufInv'
      BY <2>1, <2>2 DEF HoldInv, BufInv
    <2>4. buf.flip \in {0, 1} /\ Loaded /\ buf.dbuf[1] # buf.dbuf[2]
      BY <1>1, <2>1 DEF HoldInv, BufInv, Buffers
    <2>5. buf.cur # buf'.dbuf[buf'.flip + 1]
      <3>1. CASE buf.flip = 0
        BY <2>2, <2>4, <3>1 DEF Loaded
      <3>2. CASE buf.flip = 1
        BY <2>2, <2>4, <3>2 DEF Loaded
      <3>3. QED
        BY <2>4, <3>1, <3>2
    <2>6. RowInv'
      BY <2>1, <2>2, <2>5 DEF HoldInv, RowInv, Slice, Reading, Filling
    <2>7. QED
      BY <2>3, <2>6
  <1>7. CASE ReadFails
    <2>1. conn'.pc = "failed" /\ conn'.row = conn.row /\ conn'.close = conn.close /\ buf' = buf /\ mem' = mem
      BY <1>1, <1>7 DEF ReadFails, Conns
    <2>2. QED
      BY <2>1, StaysHeld
  <1>8. ASSUME NEW k \in 1..(PacketMax + BufSize), Read(k) PROVE BufInv' /\ RowInv'
    <2>1. k \in Nat
      BY Sized
    <2>2. /\ buf'.cur = buf.cur /\ buf'.dbuf = buf.dbuf /\ buf'.flip = buf.flip
          /\ \A a \in Arrays : a # buf.cur => mem'[a] = mem[a]
      BY <1>8, <2>1, ReadFrom DEF HoldInv
    <2>3. conn.pc \in Filling
      BY <1>8 DEF Read, Filling
    <2>4. conn' = conn \/ conn' = [conn EXCEPT !.pc = IF conn.pc = "fillHead" THEN "head" ELSE "body"]
      BY <1>8 DEF Read
    <2>5. /\ conn'.row = conn.row /\ conn'.close = conn.close
          /\ conn'.pc \in Filling \cup {"head", "body"}
      BY <1>1, <2>3, <2>4 DEF Conns
    <2>6. Loaded' <=> Loaded
      BY <2>2 DEF Loaded
    <2>7. ~conn.close => Loaded
      BY <2>3 DEF HoldInv, BufInv, Filling
    <2>8. BufInv'
      BY <2>2, <2>5, <2>6, <2>7 DEF HoldInv, BufInv, Filling
    <2>9. conn.row.len # 0 => /\ Slice(conn.row.arr, conn.row.off, conn.row.len) = conn.row.copy
                              /\ conn.close /\ conn.row.arr # buf.dbuf[buf.flip + 1] /\ conn.row.arr # buf.cur
                              /\ conn.row.arr \in Arrays
      BY <1>1, <2>3 DEF HoldInv, RowInv, Reading, Filling, Conns, Rows
    <2>10. RowInv'
      BY <2>2, <2>5, <2>9 DEF RowInv, Slice, Filling
    <2>11. QED
      BY <2>8, <2>10
  <1>9. QED
    BY <1>2, <1>3, <1>4, <1>5, <1>6, <1>7, <1>8, ReadHeaderHolds, ReadBodyHolds DEF Next, Caller

\* HoldInv holds at the start.
LEMMA InitHolds == Init => HoldInv
PROOF
  BY InitTypes DEF Init, HoldInv, BufInv, RowInv, None, Loaded, Reading, Filling

\* What is read lies within the buffer, and the state of the connection is well
\* formed, whatever the packets' sizes and however the socket cuts them.
THEOREM WireTypes == Spec => []TypeOK
PROOF
  <1>1. Init => TypeInv
    BY InitTypes
  <1>2. TypeInv /\ [Next]_vars => TypeInv'
    BY NextTypes
  <1>3. TypeInv => TypeOK
    BY DEF TypeInv
  <1>4. QED
    BY <1>1, <1>2, <1>3, PTL DEF Spec

\* writePacket splits a command of any length as the protocol says, also one of
\* a multiple of maxPacketSize.
THEOREM WireCommandFramed == Spec => []CommandFramed
PROOF
  <1>1. Init => TypeInv
    BY InitTypes
  <1>2. TypeInv /\ [Next]_vars => TypeInv'
    BY NextTypes
  <1>3. TypeInv => CommandFramed
    BY DEF TypeInv
  <1>4. QED
    BY <1>1, <1>2, <1>3, PTL DEF Spec

\* The slice a caller holds shows its row until the caller asks for the next one,
\* also while Rows.Close reads the rest: fill grows, replaces and swaps arrays, but
\* never writes to the one the row is in.
THEOREM WireRowIntact == Spec => []RowIntact
PROOF
  <1>1. Init => HoldInv
    BY InitHolds
  <1>2. HoldInv /\ [Next]_vars => HoldInv'
    BY NextHolds
  <1>3. HoldInv => RowIntact
    BY DEF HoldInv, RowInv, RowIntact
  <1>4. QED
    BY <1>1, <1>2, <1>3, PTL DEF Spec

-----------------------------------------------------------------------------
(***************************************************************************)
(* The packets the caller reads.                                           *)
(***************************************************************************)

\* Commands have fewer frames than there are sequence numbers: below 255 times
\* 16 MB, which is more than max_allowed_packet can be.
ShortCommands == \A len \in CommandLengths : Len(Sizes(len)) < SeqWrap

Bye == Cells(0, 1, 0)

\* What may follow an answer: the server's last words, or what ErrPktSync left of
\* them.  No cell of them has the sequence number of an answer.
Follows(after) ==
    /\ after \in Seq(CellSet)
    /\ \A i \in DOMAIN after : after[i].seq = 0
    /\ after # <<>> => sock.closed

\* The sequence number of frame f of packet id.
Num(id, f) == (FirstSeq(asked.len, answer, id) + f - 1) % SeqWrap

\* The caller waits for frame f of packet id, or for the rest of it: what is
\* unread is the answer from there on.
Await(id, f, after) ==
    /\ id = conn.had + 1 /\ id \in 1..Len(answer)
    /\ f \in 1..Len(Sizes(answer[id]))
    /\ Follows(after)
    /\ conn.prev = Body(id, (f - 1) * PacketMax)
    /\ conn.seq = IF conn.pc \in {"body", "fillBody"} THEN Num(id, f + 1) ELSE Num(id, f)
    /\ conn.pc = "row" => f = 1
    /\ conn.pc \in {"head", "fillHead", "row"} => Unread = Rest(asked.len, answer, id, f) \o after
    /\ conn.pc \in {"body", "fillBody"} =>
        /\ conn.need = Sizes(answer[id])[f]
        /\ Unread = Payload(id, answer[id], f) \o (Rest(asked.len, answer, id, f + 1) \o after)

\* The connection was closed before the command: there is no answer, and what
\* the server said then is out of sequence.
Dead == conn.pc \in {"head", "fillHead"} /\ conn.seq # 0 /\ Follows(Unread) /\ sock.closed

StreamInv ==
    /\ conn.pc = "idle" => Follows(Unread)
    /\ conn.pc \in Reading \cup {"row"} => Dead \/ \E id, f, after : Await(id, f, after)
    /\ RightPacket

\* Two ways to cut a sequence at the same place are one.
LEMMA Cancel ==
    ASSUME NEW s \in Seq(CellSet), NEW u \in Seq(CellSet), NEW t \in Seq(CellSet), NEW v \in Seq(CellSet),
           Len(s) = Len(t), s \o u = t \o v
    PROVE  s = t /\ u = v
PROOF
  <1> DEFINE a == s \o u
             b == t \o v
  <1>1. a = b /\ Len(s) \in Nat /\ Len(u) \in Nat /\ Len(v) \in Nat
    OBVIOUS
  <1>2. Len(a) = Len(s) + Len(u) /\ Len(b) = Len(t) + Len(v)
    BY ConcatProperties
  <1>3. Len(u) = Len(v)
    <2> HIDE DEF a, b
    <2>1. QED
      BY <1>1, <1>2
  <1>4. ASSUME NEW i \in 1..Len(s) PROVE s[i] = t[i]
    <2>1. s[i] = a[i] /\ t[i] = b[i]
      OBVIOUS
    <2>2. QED
      BY <1>1, <2>1
  <1>5. ASSUME NEW i \in 1..Len(u) PROVE u[i] = v[i]
    <2>1. u[i] = a[Len(s) + i]
      <3>1. Len(s) + i \in 1..(Len(s) + Len(u)) /\ ~(Len(s) + i <= Len(s)) /\ (Len(s) + i) - Len(s) = i
        BY <1>1
      <3>2. QED
        BY <3>1, ConcatProperties
    <2>2. v[i] = b[Len(t) + i]
      <3>1. Len(t) + i \in 1..(Len(t) + Len(v)) /\ ~(Len(t) + i <= Len(t)) /\ (Len(t) + i) - Len(t) = i
        BY <1>1, <1>3
      <3>2. QED
        BY <3>1, ConcatProperties
    <2>3. QED
      BY <1>1, <2>1, <2>2
  <1>6. s = t
    BY <1>4, SeqEqual
  <1>7. u = v
    BY <1>3, <1>5, SeqEqual
  <1>8. QED
    BY <1>6, <1>7

\* A body, cell by cell.
LEMMA BodyTypes ==
    ASSUME NEW id \in Nat, NEW n \in Nat
    PROVE  Body(id, n) \in Seq(CellSet) /\ Len(Body(id, n)) = n /\ \A i \in 1..n : Body(id, n)[i] = Piece(id, i)
PROOF
  <1> DEFINE s == Body(id, n)
  <1>1. s = [i \in 1..n |-> Piece(id, i)]
    BY DEF Body
  <1>2. ASSUME NEW i \in 1..n PROVE Piece(id, i) \in CellSet
    <2>1. i \in Int
      OBVIOUS
    <2>2. QED
      BY <2>1, JunkType DEF Piece, CellSet
  <1> HIDE DEF s
  <1>3. s \in Seq(CellSet) /\ Len(s) = n /\ \A i \in 1..n : s[i] = Piece(id, i)
    BY <1>1, <1>2
  <1>4. QED
    BY <1>3 DEF s

\* A body and the frame that goes on with it.
LEMMA BodyConcat ==
    ASSUME NEW id \in Nat, NEW n \in Nat, NEW p \in Seq(CellSet), p = [i \in 1..Len(p) |-> Piece(id, n + i)]
    PROVE  Body(id, n) \o p = Body(id, n + Len(p))
PROOF
  <1> DEFINE k == Len(p)
             s == Body(id, n)
             t == Body(id, n + k)
  <1>1. k \in Nat /\ Len(p) = k /\ \A i \in 1..k : p[i] = Piece(id, n + i)
    OBVIOUS
  <1> HIDE DEF k
  <1>2. s \in Seq(CellSet) /\ Len(s) = n /\ \A i \in 1..n : s[i] = Piece(id, i)
    BY BodyTypes
  <1>3. t \in Seq(CellSet) /\ Len(t) = n + k /\ \A i \in 1..(n + k) : t[i] = Piece(id, i)
    <2>1. n + k \in Nat
      BY <1>1
    <2>2. QED
      BY <2>1, BodyTypes
  <1> HIDE DEF s, t
  <1>4. s \o p \in Seq(CellSet) /\ Len(s \o p) = n + k
    <2>1. s \o p \in Seq(CellSet) /\ Len(s \o p) = Len(s) + Len(p)
      BY <1>2, ConcatProperties, Zenon
    <2>2. QED
      BY <1>1, <1>2, <2>1
  <1>5. ASSUME NEW i \in 1..(n + k) PROVE (s \o p)[i] = t[i]
    <2>1. CASE i <= n
      <3>1. i \in 1..n
        BY <2>1
      <3>2. (s \o p)[i] = s[i]
        BY <1>2, <3>1
      <3>3. QED
        BY <1>2, <1>3, <3>1, <3>2
    <2>2. CASE ~(i <= n)
      <3>1. i - n \in 1..k /\ n + (i - n) = i
        BY <1>1, <2>2
      <3>2. (s \o p)[i] = p[i - n]
        <4>1. i \in 1..(Len(s) + Len(p)) /\ ~(i <= Len(s))
          BY <1>1, <1>2, <2>2
        <4>2. QED
          BY <1>2, <4>1, ConcatProperties
      <3>3. p[i - n] = Piece(id, i)
        BY <1>1, <3>1
      <3>4. QED
        BY <1>3, <3>2, <3>3
    <2>3. QED
      BY <2>1, <2>2
  <1>6. s \o p = t
    BY <1>3, <1>4, <1>5, SeqEqual
  <1>7. QED
    BY <1>6 DEF s, t, k

\* Full frames come before the last, which is not full.
LEMMA FrameEnds ==
    ASSUME NEW id \in Nat, NEW len \in Nat, NEW f \in 1..Len(Sizes(len))
    PROVE  /\ f \in Nat /\ (f - 1) * PacketMax \in Nat
           /\ Sizes(len)[f] >= PacketMax =>
               /\ f + 1 \in 1..Len(Sizes(len))
               /\ Body(id, (f - 1) * PacketMax) \o Payload(id, len, f) = Body(id, ((f + 1) - 1) * PacketMax)
           /\ ~(Sizes(len)[f] >= PacketMax) =>
               /\ f = Len(Sizes(len))
               /\ Body(id, (f - 1) * PacketMax) \o Payload(id, len, f) = Body(id, len)
PROOF
  <1> DEFINE q == len \div PacketMax
             r == len % PacketMax
             size == Sizes(len)[f]
             n == (f - 1) * PacketMax
             p == Payload(id, len, f)
             N == Len(Sizes(len))
  <1>1. PacketMax \in Nat \ {0} /\ Sizes(len) \in Seq(Nat)
    BY Sized, SizesStep
  <1>2. q \in Nat /\ r \in Nat /\ r < PacketMax
    BY <1>1, DivMod
  <1>3. len = q * PacketMax + r
    BY <1>1
  <1>4. Sizes(len) = [j \in 1..(q + 1) |-> IF j <= q THEN PacketMax ELSE r]
    BY DEF Sizes
  <1>5. N \in Nat /\ f \in 1..N /\ DOMAIN Sizes(len) = 1..N
    BY <1>1
  <1> HIDE DEF q, r
  <1>6. N = q + 1
    <2>1. 1..N = 1..(q + 1)
      BY <1>4, <1>5
    <2>2. N \in 1..N /\ q + 1 \in 1..(q + 1)
      BY <1>2, <1>5
    <2>3. N <= q + 1 /\ q + 1 <= N
      BY <2>1, <2>2
    <2>4. N \in Nat /\ q \in Nat
      BY <1>2, <1>5
    <2> HIDE DEF N
    <2>5. QED
      BY <2>3, <2>4
  <1>7. f \in Nat /\ f >= 1 /\ f <= q + 1 /\ size = IF f <= q THEN PacketMax ELSE r
    BY <1>2, <1>4, <1>5, <1>6
  <1>8. n \in Nat
    <2>1. f - 1 \in Nat
      BY <1>7
    <2>2. QED
      BY <1>1, <2>1
  <1>9. p \in Seq(CellSet) /\ Len(p) = size /\ size \in Nat
    <2>1. 0 \in Int /\ f \in DOMAIN Sizes(len)
      BY <1>5
    <2>2. QED
      BY <2>1, FrameTypes
  <1>10. p = [i \in 1..Len(p) |-> Piece(id, n + i)]
    BY <1>9 DEF Payload
  <1> HIDE DEF size, n, p, N
  <1>11. Body(id, n) \o p = Body(id, n + size)
    <2>1. Body(id, n) \o p = Body(id, n + Len(p))
      BY <1>8, <1>9, <1>10, BodyConcat
    <2>2. QED
      BY <1>9, <2>1
  <1>12. ASSUME size >= PacketMax
         PROVE  f + 1 \in 1..N /\ n + size = ((f + 1) - 1) * PacketMax
    <2>1. f <= q /\ size = PacketMax
      BY <1>1, <1>2, <1>7, <1>12
    <2>2. f + 1 \in 1..N
      BY <1>2, <1>6, <1>7, <2>1
    <2>3. n + PacketMax = ((f + 1) - 1) * PacketMax
      BY <1>1, <1>7 DEF n
    <2>4. QED
      BY <2>1, <2>2, <2>3
  <1>13. ASSUME ~(size >= PacketMax)
         PROVE  f = N /\ n + size = len
    <2>1. f = q + 1 /\ size = r
      BY <1>1, <1>2, <1>7, <1>13
    <2>2. n = q * PacketMax
      BY <1>1, <1>2, <2>1 DEF n
    <2>3. QED
      BY <1>3, <1>6, <2>1, <2>2
  <1>14. QED
    BY <1>7, <1>8, <1>11, <1>12, <1>13 DEF size, n, p, N

\* A packet has a first frame.
LEMMA SizesFirst ==
    ASSUME NEW len \in Nat
    PROVE  Sizes(len) \in Seq(Nat) /\ Len(Sizes(len)) \in Nat /\ 1 \in 1..Len(Sizes(len)) /\ 1 \in DOMAIN Sizes(len)
PROOF
  <1>1. /\ Sizes(len) \in Seq(Nat)
        /\ len < PacketMax => Sizes(len) = <<len>>
        /\ len >= PacketMax => len - PacketMax \in Nat /\ Sizes(len) = <<PacketMax>> \o Sizes(len - PacketMax)
    BY SizesStep
  <1>2. CASE len < PacketMax
    BY <1>1, <1>2
  <1>3. CASE ~(len < PacketMax)
    <2>1. len >= PacketMax
      BY <1>3, Sized
    <2>2. Sizes(len - PacketMax) \in Seq(Nat) /\ Sizes(len) = <<PacketMax>> \o Sizes(len - PacketMax)
      BY <1>1, <2>1, SizesStep
    <2> DEFINE t == Sizes(len - PacketMax)
    <2> HIDE DEF t
    <2>3. Len(<<PacketMax>> \o t) >= 1
      BY <2>2, Sized DEF t
    <2>4. QED
      BY <1>1, <2>2, <2>3 DEF t
  <1>4. QED
    BY <1>2, <1>3

\* The last words of a server have sequence number 0.
LEMMA ByeCells == Bye \in Seq(CellSet) /\ \A i \in DOMAIN Bye : Bye[i].seq = 0
PROOF
  <1> DEFINE fs == Frames(0, 1, 0)
  <1>1. 0 \in Nat /\ 1 \in Nat /\ 0 \in Int
    OBVIOUS
  <1>2. Sizes(1) = <<1>> /\ 1 \in DOMAIN Sizes(1) /\ Len(Sizes(1)) = 1 /\ Sizes(1)[1] = 1
    <2>1. Sizes(1) = <<1>>
      BY <1>1, SizesStep, Sized
    <2>2. QED
      BY <2>1
  <1>3. fs \in Seq(Seq(CellSet)) /\ Len(fs) = 1 /\ Bye = FlattenSeq(fs) /\ Bye \in Seq(CellSet)
    BY <1>1, <1>2, FramesTypes DEF Bye
  <1> DEFINE h == Header(1, 0, 1)
             p == Payload(0, 1, 1)
  <1>4. fs[1] = <<h>> \o p /\ h \in CellSet /\ p \in Seq(CellSet)
    <2>1. fs[1] = <<h>> \o p
      BY <1>2 DEF Frames
    <2>2. h \in CellSet /\ p \in Seq(CellSet)
      BY <1>1, <1>2, FrameTypes
    <2>3. QED
      BY <2>1, <2>2
  <1>5. h.seq = 0
    <2>1. (0 + 1 - 1) % SeqWrap = 0
      BY Sized
    <2>2. QED
      BY <2>1 DEF Header, Junk
  <1>6. \A i \in DOMAIN p : p[i].seq = 0
    BY DEF Payload, Piece, Junk
  <1> HIDE DEF fs, h, p
  <1>7. Bye = fs[1]
    <2>1. Rem(fs, 1) = FlattenSeq(fs) /\ Rem(fs, 1) = fs[1] \o Rem(fs, 1 + 1) /\ Rem(fs, 1 + 1) = <<>>
      <3>1. 1 \in 1..Len(fs) /\ 1 + 1 = Len(fs) + 1
        BY <1>3
      <3>2. QED
        BY <1>3, <3>1, RemStep
    <2>2. fs[1] \in Seq(CellSet)
      BY <1>4
    <2>3. fs[1] \o <<>> = fs[1]
      BY <2>2, ConcatEmptySeq
    <2>4. QED
      BY <1>3, <2>1, <2>3
  <1>8. \A i \in DOMAIN (<<h>> \o p) : (<<h>> \o p)[i].seq = 0
    <2> DEFINE x == <<h>> \o p
    <2>1. x \in Seq(CellSet) /\ Len(x) = Len(p) + 1 /\ x[1] = h /\ \A i \in 1..Len(p) : x[i + 1] = p[i]
      BY <1>4
    <2> HIDE DEF x
    <2>2. ASSUME NEW i \in DOMAIN x PROVE x[i].seq = 0
      <3>1. Len(p) \in Nat /\ DOMAIN p = 1..Len(p)
        BY <1>4
      <3>2. i = 1 \/ (i - 1 \in 1..Len(p) /\ (i - 1) + 1 = i)
        BY <2>1, <3>1
      <3>3. CASE i = 1
        BY <1>5, <2>1, <3>3
      <3>4. CASE i - 1 \in 1..Len(p) /\ (i - 1) + 1 = i
        BY <1>6, <2>1, <3>1, <3>4
      <3>5. QED
        BY <3>2, <3>3, <3>4
    <2>3. QED
      BY <2>2 DEF x
  <1>9. QED
    BY <1>3, <1>4, <1>7, <1>8

\* What follows an answer are cells.
LEMMA FollowsType == ASSUME NEW after, Follows(after) PROVE after \in Seq(CellSet)
PROOF
  BY DEF Follows

\* The rest of what may follow an answer may, too, and does not continue one.
LEMMA FollowsTail ==
    ASSUME NEW h \in CellSet, NEW u \in Seq(CellSet), Follows(<<h>> \o u)
    PROVE  Follows(u) /\ h.seq = 0
PROOF
  <1> DEFINE x == <<h>> \o u
  <1>1. x \in Seq(CellSet) /\ Len(x) = Len(u) + 1 /\ x[1] = h /\ \A i \in 1..Len(u) : x[i + 1] = u[i]
    OBVIOUS
  <1>2. Len(u) \in Nat /\ DOMAIN u = 1..Len(u) /\ DOMAIN x = 1..(Len(u) + 1)
    BY <1>1
  <1>3. (\A i \in DOMAIN x : x[i].seq = 0) /\ (x # <<>> => sock.closed)
    BY DEF Follows
  <1> HIDE DEF x
  <1>4. x # <<>> /\ h.seq = 0
    BY <1>1, <1>2, <1>3
  <1>5. ASSUME NEW i \in DOMAIN u PROVE u[i].seq = 0
    <2>1. i \in 1..Len(u) /\ i + 1 \in DOMAIN x
      BY <1>2
    <2>2. QED
      BY <1>1, <1>3, <2>1
  <1>6. QED
    BY <1>3, <1>4, <1>5 DEF Follows

\* Frame after frame, the sequence numbers go on.
LEMMA NumFacts ==
    ASSUME TypeInv, NEW id \in 1..Len(answer), NEW f \in Nat \ {0}
    PROVE  /\ Num(id, f) \in Nat
           /\ (Num(id, f) + 1) % SeqWrap = Num(id, f + 1)
           /\ Header(answer[id], FirstSeq(asked.len, answer, id), f).seq = Num(id, f)
           /\ f = Len(Sizes(answer[id])) => Num(id, f + 1) = Num(id + 1, 1)
PROOF
  <1>1. asked.len \in Nat /\ answer \in Seq(Nat)
    BY DEF TypeInv
  <1> DEFINE a == FirstSeq(asked.len, answer, id)
             b == FirstSeq(asked.len, answer, id + 1)
             n == Len(Sizes(answer[id]))
  <1>2. a \in Nat /\ b = (a + n) % SeqWrap
    BY <1>1, FirstSeqStep
  <1>3. SeqWrap \in Nat \ {0}
    BY Sized
  <1>4. Num(id, f) = (a + f - 1) % SeqWrap /\ Num(id, f + 1) = (a + (f + 1) - 1) % SeqWrap
        /\ Num(id + 1, 1) = (b + 1 - 1) % SeqWrap
    BY DEF Num
  <1>5. Header(answer[id], a, f).seq = (a + f - 1) % SeqWrap
    BY DEF Header, Junk
  <1> HIDE DEF a, b, n
  <1> DEFINE c == a + f - 1
  <1>6. c \in Nat /\ a + (f + 1) - 1 = c + 1 /\ 1 \in Nat
    BY <1>2
  <1>7. Num(id, f) = c % SeqWrap /\ Num(id, f + 1) = (c + 1) % SeqWrap
    BY <1>4, <1>6
  <1>10. ASSUME f = n PROVE Num(id, f + 1) = Num(id + 1, 1)
    <2>1. a + f \in Nat /\ c + 1 = a + f /\ 0 \in Nat
      BY <1>2
    <2>2. b = (a + f) % SeqWrap
      BY <1>2, <1>10
    <2>3. b \in Nat
      BY <1>3, <2>1, <2>2, DivMod
    <2>4. b + 1 - 1 = b
      BY <2>3
    <2>5. b < SeqWrap
      BY <1>3, <2>1, <2>2, DivMod
    <2>6. b % SeqWrap = b
      BY <1>3, <2>3, <2>5, SmallMod
    <2>7. QED
      BY <1>4, <1>7, <2>1, <2>2, <2>4, <2>6
  <1> HIDE DEF c
  <1>8. ((c % SeqWrap) + 1) % SeqWrap = (c + 1) % SeqWrap
    BY <1>3, <1>6, ModAdd
  <1>9. c % SeqWrap \in Nat
    BY <1>3, <1>6, DivMod
  <1>11. QED
    BY <1>4, <1>5, <1>7, <1>8, <1>9, <1>10 DEF a, n

\* The frame that is read next, and what comes behind it.
LEMMA Ahead ==
    ASSUME TypeInv, NEW id, NEW f, NEW after, Await(id, f, after)
    PROVE  LET len == answer[id]
               h == Header(len, FirstSeq(asked.len, answer, id), f)
               p == Payload(id, len, f)
               r == Rest(asked.len, answer, id, f + 1)
           IN  /\ id \in Nat /\ len \in Nat /\ f \in Nat
               /\ Sizes(len)[f] \in Nat /\ h \in CellSet /\ h.len = Sizes(len)[f]
               /\ p \in Seq(CellSet) /\ Len(p) = Sizes(len)[f]
               /\ r \in Seq(CellSet) /\ after \in Seq(CellSet) /\ r \o after \in Seq(CellSet)
               /\ Rest(asked.len, answer, id, f) \o after = <<h>> \o (p \o (r \o after))
               /\ f = Len(Sizes(len)) => r = Rem(Packets(asked.len, answer), id + 1)
PROOF
  <1> DEFINE len == answer[id]
             seq == FirstSeq(asked.len, answer, id)
             n == Len(Sizes(len))
             h == Header(len, seq, f)
             p == Payload(id, len, f)
             r == Rest(asked.len, answer, id, f + 1)
  <1>1. asked.len \in Nat /\ answer \in Seq(Nat) /\ id \in 1..Len(answer) /\ f \in 1..n
    BY DEF TypeInv, Await
  <1>2. id \in Nat /\ len \in Nat /\ seq \in Int
    <2>1. id \in Nat /\ answer[id] \in Nat
      BY <1>1
    <2>2. FirstSeq(asked.len, answer, id) \in Int
      BY <1>1, FirstSeqType
    <2>3. QED
      BY <2>1, <2>2
  <1>3. n \in Nat /\ DOMAIN Sizes(len) = 1..n
    <2>1. Sizes(len) \in Seq(Nat)
      BY <1>2, SizesStep
    <2>2. QED
      BY <2>1
  <1>4. /\ Sizes(len)[f] \in Nat /\ h \in CellSet /\ h.len = Sizes(len)[f]
        /\ p \in Seq(CellSet) /\ Len(p) = Sizes(len)[f]
    <2>1. f \in DOMAIN Sizes(len)
      BY <1>1, <1>3
    <2> HIDE DEF len, seq
    <2>2. QED
      BY <1>2, <2>1, FrameTypes
  <1>5. f \in Nat /\ f + 1 \in 1..(n + 1)
    BY <1>1, <1>3
  <1>6. /\ r \in Seq(CellSet)
        /\ Rest(asked.len, answer, id, f) = <<h>> \o (p \o r)
        /\ Rest(asked.len, answer, id, n + 1) = Rem(Packets(asked.len, answer), id + 1)
    BY <1>1, <1>5, RestSteps
  <1>7. after \in Seq(CellSet)
    BY FollowsType DEF Await
  <1>8. f = n => r = Rem(Packets(asked.len, answer), id + 1)
    BY <1>6
  <1> DEFINE R == Rest(asked.len, answer, id, f)
             g == <<h>>
  <1>9. g \in Seq(CellSet)
    <2> HIDE DEF h
    <2>1. QED
      BY <1>4
  <1>10. p \in Seq(CellSet) /\ r \in Seq(CellSet) /\ R = g \o (p \o r)
    BY <1>4, <1>6
  <1> HIDE DEF len, seq, n, h, p, r, R, g
  <1>11. r \o after \in Seq(CellSet) /\ (g \o (p \o r)) \o after = g \o (p \o (r \o after))
    <2>1. r \o after \in Seq(CellSet)
      BY <1>7, <1>10
    <2>2. (p \o r) \o after = p \o (r \o after) /\ p \o r \in Seq(CellSet)
      BY <1>7, <1>10, ConcatAssociative, ConcatProperties
    <2> DEFINE x == p \o r
    <2>3. (g \o x) \o after = g \o (x \o after)
      <3>1. x \in Seq(CellSet)
        BY <2>2
      <3> HIDE DEF x
      <3>2. QED
        BY <1>7, <1>9, <3>1
    <2>4. QED
      BY <2>1, <2>2, <2>3
  <1>12. R \o after = g \o (p \o (r \o after))
    BY <1>10, <1>11
  <1>13. QED
    BY <1>2, <1>4, <1>5, <1>7, <1>8, <1>10, <1>11, <1>12 DEF len, seq, n, h, p, r, R, g

\* A step that leaves row and answer alone.
LEMMA KeepsPacket ==
    ASSUME RightPacket, conn'.row = conn.row, answer' = answer
    PROVE  RightPacket'
PROOF
  BY DEF RightPacket

\* The caller waits for a frame.
LEMMA GoesOn ==
    ASSUME RightPacket', conn'.pc \in Reading \cup {"row"},
           NEW id, NEW f, NEW after, Await(id, f, after)'
    PROVE  StreamInv'
PROOF
  <1>1. conn'.pc # "idle"
    BY DEF Reading
  <1>2. (Dead \/ \E i, g, a : Await(i, g, a))'
    OBVIOUS
  <1>3. QED
    BY <1>1, <1>2 DEF StreamInv

\* The caller gives up.
LEMMA GivesUp ==
    ASSUME RightPacket', conn'.pc = "failed"
    PROVE  StreamInv'
PROOF
  <1>1. conn'.pc # "idle" /\ conn'.pc \notin Reading \cup {"row"}
    BY DEF Reading
  <1>2. QED
    BY <1>1 DEF StreamInv

\* A packet that was read to its end goes to the caller.
LEMMA Delivered ==
    ASSUME TypeInv, RightPacket, NEW id, NEW f, NEW after, Await(id, f, after), f = Len(Sizes(answer[id])),
           NEW n \in Nat, NEW data \in Seq(CellSet), NEW split \in BOOLEAN, NEW seq \in 0..(SeqWrap - 1),
           Deliver(n, data, split, seq), data = Body(id, answer[id]), seq = Num(id, f + 1),
           asked' = asked, answer' = answer, sock' = sock,
           Unread' = Rest(asked.len, answer, id, f + 1) \o after
    PROVE  StreamInv'
PROOF
  <1>1. /\ conn'.pc \in {"idle", "head", "row"}
        /\ conn'.pc = "idle" <=> conn.had + 1 = Len(answer)
        /\ conn'.had = conn.had + 1 /\ conn'.prev = <<>>
        /\ conn'.row = IF conn.close THEN conn.row
                       ELSE [id |-> conn.had + 1, arr |-> buf.cur, off |-> buf.idx,
                             len |-> IF split THEN 0 ELSE n, copy |-> data]
    BY DeliverTypes
  <1>10. conn'.seq = seq
    BY DEF Deliver, TypeInv, TypeOK, Conns
  <1>2. /\ asked.len \in Nat /\ answer \in Seq(Nat) /\ id \in 1..Len(answer) /\ id = conn.had + 1
        /\ Follows(after)
    BY DEF TypeInv, Await
  <1>3. Len(answer) \in Nat /\ id \in Nat /\ after \in Seq(CellSet)
    BY <1>2, FollowsType
  <1>4. RightPacket'
    <2>1. CASE conn.close
      BY <1>1, <2>1, KeepsPacket
    <2>2. CASE ~conn.close
      <3>1. conn'.row.id = id /\ conn'.row.copy = Body(id, answer[id])
        BY <1>1, <1>2, <2>2
      <3>2. QED
        BY <3>1 DEF RightPacket
    <2>3. QED
      BY <2>1, <2>2
  <1>5. Unread' = Rem(Packets(asked.len, answer), id + 1) \o after
    BY Ahead
  <1>6. Follows(after)'
    BY <1>2 DEF Follows
  <1>7. CASE id = Len(answer)
    <2>1. conn'.pc = "idle" /\ conn'.pc \notin Reading \cup {"row"}
      BY <1>1, <1>2, <1>7 DEF Reading
    <2>2. Rem(Packets(asked.len, answer), id + 1) = <<>>
      BY <1>2, <1>7, RestPackets
    <2>3. Unread' = after
      BY <1>3, <1>5, <2>2, ConcatEmptySeq
    <2>4. Follows(Unread)'
      BY <1>6, <2>3 DEF Follows
    <2>5. QED
      BY <1>4, <2>1, <2>4 DEF StreamInv
  <1>8. CASE id # Len(answer)
    <2>1. id < Len(answer) /\ id + 1 \in 1..Len(answer) /\ id + 1 \in Nat
      <3> DEFINE N == Len(answer)
      <3>1. N \in Nat /\ id \in Nat /\ id \in 1..N /\ id # N
        BY <1>2, <1>3, <1>8
      <3> HIDE DEF N
      <3>2. id < N /\ id + 1 \in 1..N /\ id + 1 \in Nat
        BY <3>1
      <3>3. QED
        BY <3>2 DEF N
    <2>2. conn'.pc \in {"head", "row"}
      BY <1>1, <1>2, <1>8
    <2>3. Unread' = Rest(asked.len, answer, id + 1, 1) \o after
      BY <1>2, <1>5, <2>1, RestPackets
    <2>4. conn'.prev = Body(id + 1, (1 - 1) * PacketMax)
      <3>1. (1 - 1) * PacketMax = 0 /\ 0 \in Nat
        BY Sized
      <3>2. Body(id + 1, 0) \in Seq(CellSet) /\ Len(Body(id + 1, 0)) = 0
        BY <2>1, <3>1, BodyTypes
      <3> DEFINE b == Body(id + 1, 0)
      <3>3. b = <<>>
        <4> HIDE DEF b
        <4>1. QED
          BY <3>2 DEF b
      <3>4. QED
        BY <1>1, <3>1, <3>3
    <2>5. 1 \in 1..Len(Sizes(answer[id + 1]))
      <3>1. answer[id + 1] \in Nat
        <4> DEFINE j == id + 1
        <4>1. j \in 1..Len(answer) /\ answer \in Seq(Nat)
          BY <1>2, <2>1
        <4> HIDE DEF j
        <4>2. answer[j] \in Nat
          BY <4>1
        <4>3. QED
          BY <4>2 DEF j
      <3>2. QED
        BY <3>1, SizesFirst
    <2>8. conn'.seq = Num(id + 1, 1)'
      <3>1. f \in Nat \ {0}
        <4>1. f \in 1..Len(Sizes(answer[id])) /\ Len(Sizes(answer[id])) \in Nat
          BY <1>2, SizesFirst DEF Await
        <4>2. QED
          BY <4>1
      <3>2. Num(id, f + 1) = Num(id + 1, 1)
        BY <1>2, <3>1, NumFacts
      <3>3. Num(id + 1, 1)' = Num(id + 1, 1)
        BY DEF Num
      <3>4. QED
        BY <1>10, <3>2, <3>3
    <2>6. Await(id + 1, 1, after)'
      BY <1>1, <1>2, <1>6, <2>1, <2>2, <2>3, <2>4, <2>5, <2>8 DEF Await
    <2>7. QED
      BY <1>4, <2>2, <2>6, GoesOn DEF Reading
  <1>9. QED
    BY <1>7, <1>8

\* A step that reads nothing of the answer.
LEMMA Waits ==
    ASSUME StreamInv, RightPacket', Unread' = Unread, asked' = asked, answer' = answer, sock'.closed = sock.closed,
           conn'.had = conn.had, conn'.prev = conn.prev, conn'.seq = conn.seq,
           \/ conn.pc \in {"head", "fillHead"} /\ conn'.pc \in {"head", "fillHead"}
           \/ conn.pc \in {"body", "fillBody"} /\ conn'.pc \in {"body", "fillBody"} /\ conn'.need = conn.need
           \/ conn.pc = "row" /\ conn'.pc = "head"
    PROVE  StreamInv'
PROOF
  <1>1. /\ conn.pc \in Reading \cup {"row"} /\ conn'.pc \in Reading \cup {"row"} /\ conn'.pc # "idle"
        /\ Dead \/ \E id, f, after : Await(id, f, after)
    BY DEF StreamInv, Reading
  <1>2. CASE Dead
    <2>1. Dead'
      BY <1>2 DEF Dead, Follows
    <2>2. QED
      BY <1>1, <2>1 DEF StreamInv
  <1>3. CASE \E id, f, after : Await(id, f, after)
    <2>1. PICK id, f, after : Await(id, f, after)
      BY <1>3
    <2>2. Follows(after)' /\ Num(id, f)' = Num(id, f) /\ Num(id, f + 1)' = Num(id, f + 1)
      BY <2>1 DEF Await, Follows, Num
    <2>3. Await(id, f, after)'
      BY <2>1, <2>2 DEF Await
    <2>4. QED
      BY <1>1, <2>3, GoesOn
  <1>4. QED
    BY <1>1, <1>2, <1>3

\* A header that is accepted is the one of the frame that is awaited.
LEMMA ReadHeaderStreams == ASSUME TypeInv, StreamInv, ReadHeader PROVE StreamInv'
PROOF
  <1> DEFINE s == Slice(buf.cur, buf.idx, 1)
             h == s[1]
             seq == (conn.seq + 1) % SeqWrap
  <1>1. /\ conn.pc = "head" /\ sock' = sock /\ asked' = asked /\ answer' = answer /\ count' = count
        /\ \/ buf.length < 1 /\ Prepare(1, "fillHead")
           \/ /\ 1 <= buf.length /\ buf' = Take(1) /\ mem' = mem
              /\ h \in CellSet /\ seq \in 0..(SeqWrap - 1)
              /\ \/ h.seq # conn.seq /\ conn' = [conn EXCEPT !.pc = "idle"]
                 \/ conn' = [conn EXCEPT !.pc = "failed"]
                 \/ h.len = 0 /\ h.seq = conn.seq /\ Deliver(0, conn.prev, TRUE, seq)
                 \/ /\ h.len # 0 /\ h.seq = conn.seq
                    /\ conn' = [conn EXCEPT !.pc = "body", !.need = h.len, !.seq = seq]
    BY HeaderCases
  <1>2. conn \in Conns /\ conn.prev \in Seq(CellSet) /\ RightPacket
    BY DEF TypeInv, TypeOK, Conns, StreamInv
  <1>3. CASE buf.length < 1 /\ Prepare(1, "fillHead")
    <2>1. conn' = [conn EXCEPT !.pc = "fillHead", !.need = 1]
      BY <1>3 DEF Prepare
    <2>2. /\ conn'.pc = "fillHead" /\ conn'.row = conn.row /\ conn'.had = conn.had
          /\ conn'.prev = conn.prev /\ conn'.seq = conn.seq
      BY <1>2, <2>1 DEF Conns
    <2>3. Unread' = Unread
      BY <1>1, <1>3, PrepareTypes DEF Filling
    <2>4. RightPacket'
      BY <1>1, <1>2, <2>2, KeepsPacket
    <2>5. QED
      BY <1>1, <2>2, <2>3, <2>4, Waits
  <1>4. CASE 1 <= buf.length /\ buf' = Take(1) /\ mem' = mem
    <2>1. s \in Seq(CellSet) /\ Len(s) = 1 /\ Unread' \in Seq(CellSet) /\ Unread = s \o Unread'
      BY <1>1, <1>4, Taken
    <2> HIDE DEF s
    <2>2. s = <<h>>
      BY <2>1
    <2>3. CASE conn' = [conn EXCEPT !.pc = "failed"]
      <3>1. conn'.row = conn.row /\ conn'.pc = "failed"
        BY <1>2, <2>3 DEF Conns
      <3>2. QED
        BY <1>1, <1>2, <3>1, KeepsPacket, GivesUp
    \* The server's last words are out of sequence, and what is left of them stays.
    <2>6. CASE Dead
      <3>1. Unread = <<h>> \o Unread' /\ h \in CellSet /\ Follows(Unread) /\ conn.seq # 0
        <4>1. ~(buf.length < 1)
          BY <1>4, UnreadTypes
        <4>2. h \in CellSet
          <5> HIDE DEF h, seq
          <5>1. QED
            BY <1>1, <4>1
        <4> HIDE DEF h, seq
        <4>3. QED
          BY <2>1, <2>2, <2>6, <4>2 DEF Dead
      <3>2. Follows(Unread') /\ h.seq = 0
        <4> DEFINE u == Unread'
        <4>1. Follows(<<h>> \o u) /\ u \in Seq(CellSet)
          BY <2>1, <3>1
        <4> HIDE DEF u, h
        <4>2. Follows(u) /\ h.seq = 0
          BY <3>1, <4>1, FollowsTail
        <4>3. QED
          BY <4>2 DEF u
      <3>3. Follows(Unread)'
        BY <1>1, <3>2 DEF Follows
      <3>4. conn' = [conn EXCEPT !.pc = "idle"] \/ conn' = [conn EXCEPT !.pc = "failed"]
        <4>1. ~(buf.length < 1)
          BY <1>4, UnreadTypes
        <4> HIDE DEF h, seq
        <4>2. QED
          BY <1>1, <3>1, <3>2, <4>1
      <3>5. CASE conn' = [conn EXCEPT !.pc = "idle"]
        <4>1. conn'.row = conn.row /\ conn'.pc = "idle"
          BY <1>2, <3>5 DEF Conns
        <4>2. RightPacket'
          BY <1>1, <1>2, <4>1, KeepsPacket
        <4>3. QED
          BY <3>3, <4>1, <4>2 DEF StreamInv, Reading
      <3>6. QED
        BY <2>3, <3>4, <3>5
    <2>4. CASE conn' # [conn EXCEPT !.pc = "failed"] /\ ~Dead
      <3>1. /\ h \in CellSet /\ seq \in 0..(SeqWrap - 1)
            /\ \/ h.seq # conn.seq
               \/ h.len = 0 /\ Deliver(0, conn.prev, TRUE, seq)
               \/ h.len # 0 /\ conn' = [conn EXCEPT !.pc = "body", !.need = h.len, !.seq = seq]
        <4>1. ~(buf.length < 1)
          BY <1>4, UnreadTypes
        <4> HIDE DEF h, seq
        <4>2. QED
          BY <1>1, <2>4, <4>1
      <3> HIDE DEF h
      <3>2. seq = (conn.seq + 1) % SeqWrap
        OBVIOUS
      <3> HIDE DEF seq
      <3>3. PICK id, f, after : Await(id, f, after)
        BY <1>1, <2>4 DEF StreamInv, Reading
      <3> DEFINE len == answer[id]
                 H == Header(len, FirstSeq(asked.len, answer, id), f)
                 p == Payload(id, len, f)
                 r == Rest(asked.len, answer, id, f + 1)
                 v == p \o (r \o after)
                 u == Unread'
      <3>4. /\ id \in Nat /\ len \in Nat /\ f \in Nat
            /\ Sizes(len)[f] \in Nat /\ H \in CellSet /\ H.len = Sizes(len)[f]
            /\ p \in Seq(CellSet) /\ Len(p) = Sizes(len)[f]
            /\ r \in Seq(CellSet) /\ after \in Seq(CellSet) /\ r \o after \in Seq(CellSet)
            /\ Rest(asked.len, answer, id, f) \o after = <<H>> \o v
            /\ f = Len(Sizes(len)) => r = Rem(Packets(asked.len, answer), id + 1)
        BY <3>3, Ahead, Zenon
      <3>5. Unread = <<H>> \o v /\ f \in 1..Len(Sizes(len)) /\ conn.prev = Body(id, (f - 1) * PacketMax)
            /\ id = conn.had + 1 /\ id \in 1..Len(answer) /\ Follows(after)
        BY <1>1, <3>3, <3>4 DEF Await
      <3>6. h = H /\ u = v
        <4>1. p \in Seq(CellSet) /\ r \o after \in Seq(CellSet) /\ H \in CellSet
          BY <3>4
        <4> DEFINE g == <<H>>
        <4>2. s \o u = g \o v /\ u \in Seq(CellSet)
          BY <2>1, <3>5
        <4> HIDE DEF H, u, p, r
        <4>3. v \in Seq(CellSet)
          <5> DEFINE w == r \o after
          <5>1. w \in Seq(CellSet)
            BY <4>1
          <5> HIDE DEF w
          <5>2. p \o w \in Seq(CellSet)
            BY <4>1, <5>1
          <5>3. QED
            BY <5>2 DEF w
        <4>4. g \in Seq(CellSet) /\ Len(g) = 1 /\ g[1] = H
          BY <4>1
        <4> HIDE DEF v, g
        <4>5. s = g /\ u = v
          BY <2>1, <4>2, <4>3, <4>4, Cancel
        <4>6. QED
          BY <4>4, <4>5 DEF h
      <3>7. h.len = Sizes(len)[f]
        BY <3>4, <3>6
      <3>11. h.seq = conn.seq /\ seq = Num(id, f + 1)
        <4>1. f \in Nat \ {0} /\ conn.seq = Num(id, f)
          <5>1. f \in 1..Len(Sizes(len)) /\ Len(Sizes(len)) \in Nat
            BY <3>4, <3>5, SizesFirst
          <5>2. conn.seq = Num(id, f)
            BY <1>1, <3>3 DEF Await
          <5>3. QED
            BY <5>1, <5>2
        <4>2. H.seq = Num(id, f) /\ (Num(id, f) + 1) % SeqWrap = Num(id, f + 1)
          BY <3>5, <4>1, NumFacts
        <4> HIDE DEF H
        <4>3. QED
          BY <3>2, <3>6, <4>1, <4>2
      <3>8. CASE h.len = 0 /\ Deliver(0, conn.prev, TRUE, seq)
        <4>1. p = <<>> /\ Sizes(len)[f] = 0
          <5>1. Len(p) = 0 /\ p \in Seq(CellSet)
            BY <3>4, <3>7, <3>8
          <5> HIDE DEF p
          <5>2. p = <<>>
            BY <5>1
          <5>3. QED
            BY <3>7, <3>8, <5>2
        <4>2. ~(Sizes(len)[f] >= PacketMax)
          BY <4>1, Sized
        <4>3. f = Len(Sizes(len)) /\ Body(id, (f - 1) * PacketMax) \o p = Body(id, len)
          BY <3>4, <3>5, <4>2, FrameEnds
        <4>4. conn.prev = Body(id, len)
          <5> DEFINE b == Body(id, (f - 1) * PacketMax)
          <5>1. b = conn.prev /\ b \o p = Body(id, len)
            BY <3>5, <4>3
          <5> HIDE DEF b, p
          <5>2. b \o <<>> = b
            BY <1>2, <5>1, ConcatEmptySeq
          <5>3. QED
            BY <4>1, <5>1, <5>2
        <4>5. Unread' = r \o after
          <5> DEFINE w == r \o after
          <5>1. w \in Seq(CellSet) /\ Unread' = p \o w
            BY <3>4, <3>6
          <5> HIDE DEF w, p
          <5>2. <<>> \o w = w
            BY <5>1, ConcatEmptySeq
          <5>3. QED
            BY <4>1, <5>1, <5>2 DEF w
        <4>6. 0 \in Nat /\ TRUE \in BOOLEAN
          OBVIOUS
        <4>7. QED
          BY <1>1, <1>2, <3>1, <3>3, <3>8, <3>11, <4>3, <4>4, <4>5, <4>6, Delivered
      <3>9. CASE h.len # 0 /\ conn' = [conn EXCEPT !.pc = "body", !.need = h.len, !.seq = seq]
        <4>1. /\ conn'.pc = "body" /\ conn'.need = h.len /\ conn'.had = conn.had
              /\ conn'.prev = conn.prev /\ conn'.row = conn.row /\ conn'.seq = seq
          BY <1>2, <3>1, <3>9 DEF Conns
        <4>7. conn'.seq = Num(id, f + 1)'
          BY <1>1, <3>11, <4>1 DEF Num
        <4>2. Unread' = p \o (r \o after)
          BY <3>6
        <4>3. Follows(after)'
          BY <1>1, <3>5 DEF Follows
        <4>4. Await(id, f, after)'
          <5> HIDE DEF p, r
          <5>1. QED
            BY <1>1, <3>5, <3>7, <4>1, <4>2, <4>3, <4>7 DEF Await, p, r
        <4>5. RightPacket'
          BY <1>1, <1>2, <4>1, KeepsPacket
        <4>6. QED
          BY <4>1, <4>4, <4>5, GoesOn DEF Reading
      <3>10. QED
        BY <3>1, <3>8, <3>9, <3>11
    <2>5. QED
      BY <2>3, <2>4, <2>6
  <1>5. QED
    BY <1>1, <1>3, <1>4

\* A body is the payload of the frame that is awaited.
LEMMA ReadBodyStreams == ASSUME TypeInv, StreamInv, ReadBody PROVE StreamInv'
PROOF
  <1> DEFINE s == Slice(buf.cur, buf.idx, conn.need)
  <1>1. /\ conn.pc = "body" /\ sock' = sock /\ asked' = asked /\ answer' = answer /\ count' = count
        /\ conn.need \in Nat /\ conn.prev \in Seq(CellSet) /\ conn.seq \in 0..(SeqWrap - 1)
        /\ \/ buf.length < conn.need /\ Prepare(conn.need, "fillBody")
           \/ /\ conn.need <= buf.length /\ buf' = Take(conn.need) /\ mem' = mem
              /\ \/ conn.need >= PacketMax /\ conn' = [conn EXCEPT !.pc = "head", !.prev = @ \o s]
                 \/ ~(conn.need >= PacketMax) /\ conn.prev = <<>> /\ Deliver(conn.need, s, FALSE, conn.seq)
                 \/ /\ ~(conn.need >= PacketMax) /\ conn.prev # <<>>
                    /\ Deliver(conn.need, conn.prev \o s, TRUE, conn.seq)
    BY BodyCases
  <1>2. conn \in Conns /\ RightPacket
    BY DEF TypeInv, TypeOK, StreamInv
  <1>3. CASE buf.length < conn.need /\ Prepare(conn.need, "fillBody")
    <2>1. conn' = [conn EXCEPT !.pc = "fillBody", !.need = conn.need]
      BY <1>3 DEF Prepare
    <2>2. /\ conn'.pc = "fillBody" /\ conn'.row = conn.row /\ conn'.had = conn.had
          /\ conn'.prev = conn.prev /\ conn'.seq = conn.seq /\ conn'.need = conn.need
      BY <1>2, <2>1 DEF Conns
    <2>3. Unread' = Unread
      BY <1>1, <1>3, PrepareTypes DEF Filling
    <2>4. RightPacket'
      BY <1>1, <1>2, <2>2, KeepsPacket
    <2>5. QED
      BY <1>1, <2>2, <2>3, <2>4, Waits
  <1>4. CASE ~(buf.length < conn.need)
    <2>1. /\ conn.need <= buf.length /\ buf' = Take(conn.need) /\ mem' = mem
          /\ \/ conn.need >= PacketMax /\ conn' = [conn EXCEPT !.pc = "head", !.prev = @ \o s]
             \/ ~(conn.need >= PacketMax) /\ conn.prev = <<>> /\ Deliver(conn.need, s, FALSE, conn.seq)
             \/ /\ ~(conn.need >= PacketMax) /\ conn.prev # <<>>
                /\ Deliver(conn.need, conn.prev \o s, TRUE, conn.seq)
      <3> HIDE DEF s
      <3>1. QED
        BY <1>1, <1>4
    <2>2. s \in Seq(CellSet) /\ Len(s) = conn.need /\ Unread' \in Seq(CellSet) /\ Unread = s \o Unread'
      BY <1>1, <2>1, Taken
    <2> HIDE DEF s
    <2>3. PICK id, f, after : Await(id, f, after)
      BY <1>1 DEF StreamInv, Reading, Dead
    <2> DEFINE len == answer[id]
               H == Header(len, FirstSeq(asked.len, answer, id), f)
               p == Payload(id, len, f)
               r == Rest(asked.len, answer, id, f + 1)
               w == r \o after
               u == Unread'
    <2>4. /\ id \in Nat /\ len \in Nat /\ f \in Nat
          /\ Sizes(len)[f] \in Nat /\ H \in CellSet /\ H.len = Sizes(len)[f]
          /\ p \in Seq(CellSet) /\ Len(p) = Sizes(len)[f]
          /\ r \in Seq(CellSet) /\ after \in Seq(CellSet) /\ w \in Seq(CellSet)
          /\ Rest(asked.len, answer, id, f) \o after = <<H>> \o (p \o w)
          /\ f = Len(Sizes(len)) => r = Rem(Packets(asked.len, answer), id + 1)
      BY <2>3, Ahead, Zenon
    <2>5. /\ f \in 1..Len(Sizes(len)) /\ conn.prev = Body(id, (f - 1) * PacketMax)
          /\ id = conn.had + 1 /\ id \in 1..Len(answer) /\ Follows(after)
          /\ conn.need = Sizes(len)[f] /\ Unread = p \o w
          /\ conn.seq = Num(id, f + 1)
      BY <1>1, <2>3 DEF Await
    <2>6. s = p /\ Unread' = w
      <3>1. s \o u = p \o w /\ u \in Seq(CellSet) /\ p \in Seq(CellSet) /\ w \in Seq(CellSet) /\ Len(s) = Len(p)
        BY <2>2, <2>4, <2>5
      <3> HIDE DEF u, p, w
      <3>2. s = p /\ u = w
        BY <2>2, <3>1, Cancel
      <3>3. QED
        BY <3>2 DEF u
    <2> DEFINE b == Body(id, (f - 1) * PacketMax)
    <2>7. /\ conn.need >= PacketMax => f + 1 \in 1..Len(Sizes(len)) /\ b \o p = Body(id, ((f + 1) - 1) * PacketMax)
          /\ ~(conn.need >= PacketMax) => f = Len(Sizes(len)) /\ b \o p = Body(id, len)
      <3>1. id \in Nat /\ len \in Nat /\ f \in 1..Len(Sizes(len)) /\ conn.need = Sizes(len)[f]
        BY <2>4, <2>5
      <3> HIDE DEF len
      <3>2. /\ Sizes(len)[f] >= PacketMax =>
                  f + 1 \in 1..Len(Sizes(len)) /\ b \o p = Body(id, ((f + 1) - 1) * PacketMax)
            /\ ~(Sizes(len)[f] >= PacketMax) => f = Len(Sizes(len)) /\ b \o p = Body(id, len)
        BY <3>1, FrameEnds, Zenon
      <3>3. QED
        BY <3>1, <3>2, Zenon
    <2>8. conn.prev \o s = b \o p
      BY <2>5, <2>6
    <2>9. conn.prev \o s \in Seq(CellSet)
      BY <1>1, <2>2
    <2> HIDE DEF H, p, b, len, w, r, u
    <2>10. CASE conn.need >= PacketMax /\ conn' = [conn EXCEPT !.pc = "head", !.prev = @ \o s]
      <3>1. /\ conn'.pc = "head" /\ conn'.had = conn.had /\ conn'.row = conn.row
            /\ conn'.prev = conn.prev \o s /\ conn'.seq = conn.seq
        BY <1>2, <2>10 DEF Conns
      <3>8. conn'.seq = Num(id, f + 1)'
        BY <1>1, <2>5, <3>1 DEF Num
      <3>2. conn'.prev = Body(id, ((f + 1) - 1) * PacketMax) /\ f + 1 \in 1..Len(Sizes(len))
        BY <2>7, <2>8, <2>10, <3>1
      <3>3. Follows(after)'
        BY <1>1, <2>5 DEF Follows
      <3>4. Unread' = Rest(asked.len, answer, id, f + 1) \o after
        BY <2>6 DEF w, r
      <3>5. Await(id, f + 1, after)'
        BY <1>1, <2>5, <3>1, <3>2, <3>3, <3>4, <3>8 DEF Await, len
      <3>6. RightPacket'
        BY <1>1, <1>2, <3>1, KeepsPacket
      <3>7. QED
        BY <3>1, <3>5, <3>6, GoesOn DEF Reading
    <2>11. CASE ~(conn.need >= PacketMax)
      <3>1. f = Len(Sizes(answer[id])) /\ conn.prev \o s = Body(id, answer[id])
        BY <2>7, <2>8, <2>11 DEF len
      <3>2. Unread' = Rest(asked.len, answer, id, f + 1) \o after
        BY <2>6 DEF w, r
      <3>3. CASE conn.prev = <<>> /\ Deliver(conn.need, s, FALSE, conn.seq)
        <4>1. <<>> \o s = s
          BY <2>2, ConcatEmptySeq
        <4>2. s = Body(id, answer[id]) /\ FALSE \in BOOLEAN
          BY <3>1, <3>3, <4>1
        <4>3. QED
          BY <1>1, <1>2, <2>2, <2>3, <2>5, <3>1, <3>2, <3>3, <4>2, Delivered
      <3>4. CASE Deliver(conn.need, conn.prev \o s, TRUE, conn.seq)
        <4>1. TRUE \in BOOLEAN
          OBVIOUS
        <4> DEFINE d == conn.prev \o s
        <4>2. d \in Seq(CellSet) /\ d = Body(id, answer[id]) /\ Deliver(conn.need, d, TRUE, conn.seq)
          BY <2>9, <3>1, <3>4
        <4> HIDE DEF d
        <4>3. QED
          BY <1>1, <1>2, <2>3, <2>5, <3>1, <3>2, <4>1, <4>2, Delivered
      <3>5. QED
        BY <2>1, <2>11, <3>3, <3>4
    <2>12. QED
      BY <2>1, <2>10, <2>11
  <1>5. QED
    <2>1. buf.length \in Nat /\ (conn.need <= buf.length => ~(buf.length < conn.need))
      BY <1>1, UnreadTypes
    <2> HIDE DEF s
    <2>2. QED
      BY <1>1, <1>3, <1>4, <2>1

\* A command starts the answer, or the connection is dead already.
LEMMA StartedStreams ==
    ASSUME ShortCommands, TypeInv, StreamInv, NEW len \in CommandLengths, NEW lens \in Seq(Nat), Len(lens) > 0,
           Started(len, lens)
    PROVE  StreamInv'
PROOF
  <1>1. /\ TypeInv'
        /\ buf.length = 0 /\ buf'.length = 0
        /\ conn'.pc = "head" /\ conn'.had = 0 /\ conn'.prev = <<>> /\ conn'.row = None
        /\ conn'.seq = Len(Sizes(len)) % SeqWrap
        /\ asked'.len = len /\ answer' = lens
        /\ sock'.closed = sock.closed
        /\ sock'.cells = IF sock.closed THEN sock.cells ELSE sock.cells \o FlattenSeq(Packets(len, lens))
    BY StartedTypes
  <1>2. conn.pc = "idle" /\ Follows(Unread)
    BY DEF Started, WriteCommand, StreamInv
  <1>3. len \in Nat /\ Len(lens) \in Nat
    BY Sized
  <1>4. Unread = sock.cells /\ sock.cells \in Seq(CellSet) /\ Unread' = sock'.cells /\ sock'.cells \in Seq(CellSet)
    <2> DEFINE s == Slice(buf.cur, buf.idx, buf.length)
               c == sock.cells
               t == s'
               d == sock'.cells
    <2>1. s \in Seq(CellSet) /\ Len(s) = 0 /\ c \in Seq(CellSet) /\ Unread = s \o c
      BY <1>1, UnreadTypes DEF Unread
    <2>2. t \in Seq(CellSet) /\ Len(t) = 0 /\ d \in Seq(CellSet) /\ Unread' = t \o d
      <3>1. (s \in Seq(CellSet) /\ Len(s) = buf.length /\ c \in Seq(CellSet))'
        BY <1>1, UnreadTypes, PTL
      <3>2. QED
        BY <1>1, <3>1 DEF Unread
    <2> HIDE DEF s, c, t, d
    <2>3. s = <<>> /\ t = <<>>
      BY <2>1, <2>2
    <2>4. <<>> \o c = c /\ <<>> \o d = d
      BY <2>1, <2>2, ConcatEmptySeq
    <2>5. QED
      BY <2>1, <2>2, <2>3, <2>4 DEF c, d
  <1>5. RightPacket'
    BY <1>1 DEF RightPacket, None
  <1>6. CASE sock.closed
    <2>1. Follows(Unread)'
      BY <1>1, <1>2, <1>4, <1>6 DEF Follows
    <2>2. conn'.seq # 0
      <3> DEFINE n == Len(Sizes(len))
      <3>1. n \in Nat /\ 1 \in 1..n /\ n < SeqWrap
        BY <1>3, SizesFirst DEF ShortCommands
      <3>2. conn'.seq = n % SeqWrap
        BY <1>1
      <3> HIDE DEF n
      <3>3. n % SeqWrap = n /\ n # 0
        <4>1. SeqWrap \in Nat \ {0}
          BY Sized
        <4>2. n % SeqWrap = n
          BY <3>1, <4>1, SmallMod, Zenon
        <4>3. n # 0
          BY <3>1
        <4>4. QED
          BY <4>2, <4>3
      <3>4. QED
        BY <3>2, <3>3
    <2>3. Dead'
      BY <1>1, <1>6, <2>1, <2>2 DEF Dead
    <2>4. conn'.pc # "idle"
      BY <1>1
    <2>5. QED
      BY <1>5, <2>3, <2>4 DEF StreamInv
  <1>7. CASE ~sock.closed
    <2> DEFINE a == FlattenSeq(Packets(len, lens))
    <2>1. Unread = <<>>
      BY <1>2, <1>7 DEF Follows
    <2>2. a = Rest(len, lens, 1, 1) /\ a \in Seq(CellSet)
      <3>1. a = Rest(len, lens, 1, 1)
        BY <1>3, RestPackets
      <3>2. Packets(len, lens) \in Seq(Seq(CellSet))
        BY <1>3, PacketsTypes
      <3>3. QED
        BY <3>1, <3>2, FlattenType
    <2>3. Unread' = a
      <3>1. Unread' = <<>> \o a
        BY <1>1, <1>4, <1>7, <2>1
      <3> HIDE DEF a
      <3>2. <<>> \o a = a
        BY <2>2, ConcatEmptySeq
      <3>3. QED
        BY <3>1, <3>2
    <2>4. Unread' = Rest(len, lens, 1, 1) \o <<>>
      <3> HIDE DEF a
      <3>1. a \o <<>> = a
        BY <2>2, ConcatEmptySeq
      <3>2. QED
        BY <2>2, <2>3, <3>1
    <2>5. 1 \in 1..Len(lens) /\ lens[1] \in Nat
      BY <1>3
    <2>6. 1 \in 1..Len(Sizes(lens[1]))
      BY <2>5, SizesFirst
    <2>7. Body(1, (1 - 1) * PacketMax) = <<>>
      <3>1. (1 - 1) * PacketMax = 0 /\ 0 \in Nat /\ 1 \in Nat
        BY Sized
      <3>2. Body(1, 0) \in Seq(CellSet) /\ Len(Body(1, 0)) = 0
        BY <3>1, BodyTypes
      <3> DEFINE b == Body(1, 0)
      <3>3. b = <<>>
        <4> HIDE DEF b
        <4>1. QED
          BY <3>2 DEF b
      <3>4. QED
        BY <3>1, <3>3
    <2>10. conn'.seq = Num(1, 1)'
      <3> DEFINE n == Len(Sizes(len))
                 c == n % SeqWrap
      <3>1. FirstSeq(len, lens, 1) = c
        BY <1>3, FirstSeqStep
      <3>2. n \in Nat /\ SeqWrap \in Nat \ {0}
        BY <1>3, SizesFirst, Sized
      <3>3. Num(1, 1)' = (c + 1 - 1) % SeqWrap
        BY <1>1, <3>1 DEF Num
      <3>4. c \in Nat /\ c < SeqWrap
        <4> HIDE DEF n
        <4>1. QED
          BY <3>2, DivMod
      <3>5. conn'.seq = c
        BY <1>1
      <3> HIDE DEF c, n
      <3>6. c + 1 - 1 = c
        BY <3>4
      <3>7. c % SeqWrap = c
        BY <3>2, <3>4, SmallMod
      <3>8. QED
        BY <3>3, <3>5, <3>6, <3>7
    <2>11. Follows(<<>>)'
      BY DEF Follows
    <2>8. Await(1, 1, <<>>)'
      BY <1>1, <2>4, <2>5, <2>6, <2>7, <2>10, <2>11 DEF Await
    <2>9. QED
      BY <1>1, <1>5, <2>8, GoesOn DEF Reading
  <1>8. QED
    BY <1>6, <1>7

\* Concatenation is associative, and the empty sequence is neutral.
LEMMA Appended ==
    ASSUME NEW S, NEW a \in Seq(S), NEW b \in Seq(S), NEW c \in Seq(S)
    PROVE  (a \o b) \o c = a \o (b \o c) /\ a \o <<>> = a /\ <<>> \o a = a
PROOF
  <1>1. a \o <<>> = a /\ <<>> \o a = a
    BY ConcatEmptySeq
  <1>2. (a \o b) \o c = a \o (b \o c)
    OBVIOUS
  <1>3. QED
    BY <1>1, <1>2

\* What the server says last comes behind the answer.
LEMMA GoodbyeStreams == ASSUME TypeInv, StreamInv, Goodbye PROVE StreamInv'
PROOF
  <1>1. PICK last \in {<<>>, Cells(0, 1, 0)} : sock' = [cells |-> sock.cells \o last, closed |-> TRUE]
    BY DEF Goodbye
  <1>2. ~sock.closed /\ buf' = buf /\ mem' = mem /\ conn' = conn /\ asked' = asked /\ answer' = answer
    BY DEF Goodbye
  <1>3. last \in Seq(CellSet) /\ Follows(last)'
    <2>1. <<>> \in Seq(CellSet) /\ DOMAIN <<>> = {} /\ sock'.closed
      BY <1>1
    <2>2. \A b \in {<<>>, Bye} : b \in Seq(CellSet) /\ \A i \in DOMAIN b : b[i].seq = 0
      BY <2>1, ByeCells
    <2>3. last \in {<<>>, Bye}
      BY DEF Bye
    <2>4. QED
      BY <2>1, <2>2, <2>3 DEF Follows
  <1>4. Unread' = Unread \o last
    <2> DEFINE s == Slice(buf.cur, buf.idx, buf.length)
               c == sock.cells
    <2>1. s \in Seq(CellSet) /\ c \in Seq(CellSet) /\ Unread = s \o c
      BY UnreadTypes DEF Unread
    <2>2. Unread' = s \o (c \o last)
      BY <1>1, <1>2 DEF Unread, Slice
    <2> HIDE DEF s, c
    <2>3. (s \o c) \o last = s \o (c \o last)
      BY <1>3, <2>1, SMTT(30)
    <2>4. QED
      BY <2>1, <2>2, <2>3, Zenon
  <1>5. RightPacket'
    BY <1>2 DEF StreamInv, RightPacket
  <1>6. CASE conn.pc = "idle"
    <2>1. Unread = <<>>
      BY <1>2, <1>6 DEF StreamInv, Follows
    <2>2. Unread' = last
      BY <1>3, <1>4, <2>1, Appended
    <2>3. Follows(Unread)'
      BY <1>3, <2>2 DEF Follows
    <2>4. QED
      BY <1>2, <1>5, <1>6, <2>3 DEF StreamInv, Reading
  <1>7. CASE conn.pc \in Reading \cup {"row"}
    <2>1. PICK id, f, after : Await(id, f, after)
      BY <1>2, <1>7 DEF StreamInv, Dead
    <2>2. after = <<>>
      BY <1>2, <2>1 DEF Await, Follows
    <2> DEFINE p == Payload(id, answer[id], f)
               r == Rest(asked.len, answer, id, f + 1)
               q == Rest(asked.len, answer, id, f)
    <2>3. p \in Seq(CellSet) /\ r \in Seq(CellSet) /\ q \in Seq(CellSet)
      <3>1. p \in Seq(CellSet) /\ r \in Seq(CellSet)
        BY <2>1, Ahead
      <3>2. /\ asked.len \in Nat /\ answer \in Seq(Nat) /\ id \in 1..Len(answer)
            /\ f \in 1..Len(Sizes(answer[id]))
        BY <2>1 DEF TypeInv, Await
      <3> DEFINE n == Len(Sizes(answer[id]))
      <3>3. f \in 1..(n + 1)
        <4>1. answer[id] \in Nat
          BY <3>2
        <4>2. n \in Nat /\ f \in 1..n
          BY <3>2, <4>1, SizesFirst
        <4> HIDE DEF n
        <4>3. QED
          BY <4>2
      <3>4. q \in Seq(CellSet)
        BY <3>2, <3>3, RestSteps
      <3>5. QED
        BY <3>1, <3>4
    <2>4. conn.pc \in {"head", "fillHead", "row"} => Unread' = q \o last
      <3>1. SUFFICES ASSUME conn.pc \in {"head", "fillHead", "row"} PROVE Unread' = q \o last
        OBVIOUS
      <3>2. Unread = q \o <<>>
        BY <2>1, <2>2, <3>1 DEF Await
      <3> HIDE DEF q
      <3>3. q \o <<>> = q
        BY <2>3, ConcatEmptySeq
      <3>4. QED
        BY <1>4, <3>2, <3>3
    <2>5. conn.pc \in {"body", "fillBody"} => Unread' = p \o (r \o last)
      <3>1. SUFFICES ASSUME conn.pc \in {"body", "fillBody"} PROVE Unread' = p \o (r \o last)
        OBVIOUS
      <3>2. Unread = p \o (r \o <<>>)
        BY <2>1, <2>2, <3>1 DEF Await
      <3> HIDE DEF p, r
      <3>3. r \o <<>> = r
        BY <2>3, ConcatEmptySeq
      <3>4. (p \o r) \o last = p \o (r \o last)
        BY <1>3, <2>3, Appended
      <3>5. QED
        BY <1>4, <3>2, <3>3, <3>4
    <2>6. Await(id, f, last)'
      <3>2. Num(id, f)' = Num(id, f) /\ Num(id, f + 1)' = Num(id, f + 1)
        BY <1>2 DEF Num
      <3> HIDE DEF p, q, r
      <3>1. QED
        BY <1>2, <1>3, <2>1, <2>4, <2>5, <3>2 DEF Await, p, q, r
    <2>7. QED
      BY <1>2, <1>5, <1>7, <2>6, GoesOn
  <1>8. CASE conn.pc = "failed"
    BY <1>2, <1>5, <1>8, GivesUp
  <1>9. QED
    BY <1>6, <1>7, <1>8 DEF TypeInv, TypeOK, Conns, Reading

\* StreamInv holds at the start.
LEMMA InitStreams == Init => StreamInv
PROOF
  <1> SUFFICES ASSUME Init PROVE StreamInv
    OBVIOUS
  <1>1. /\ conn.pc = "idle" /\ conn.row = None /\ buf.length = 0 /\ sock.cells = <<>>
    BY DEF Init
  <1>2. RightPacket
    BY <1>1 DEF RightPacket, None
  <1>3. Unread = <<>>
    <2>1. TypeInv
      BY InitTypes
    <2> DEFINE s == Slice(buf.cur, buf.idx, buf.length)
    <2>2. s \in Seq(CellSet) /\ Len(s) = 0 /\ Unread = s \o <<>>
      BY <1>1, <2>1, UnreadTypes DEF Unread
    <2> HIDE DEF s
    <2>3. s = <<>>
      BY <2>2
    <2>4. <<>> \o <<>> = <<>>
      OBVIOUS
    <2>5. QED
      BY <2>2, <2>3, <2>4
  <1>4. QED
    BY <1>1, <1>2, <1>3 DEF StreamInv, Follows, Reading

\* StreamInv is inductive.
LEMMA NextStreams ==
    ASSUME ShortCommands, TypeInv, StreamInv, [Next]_vars
    PROVE  StreamInv'
PROOF
  <1>1. conn \in Conns /\ RightPacket
    BY DEF TypeInv, TypeOK, StreamInv
  <1>2. CASE UNCHANGED vars
    <2>1. Unread' = Unread
      BY <1>2 DEF vars, Unread, Slice
    <2>2. conn' = conn /\ sock' = sock /\ asked' = asked /\ answer' = answer
      BY <1>2 DEF vars
    <2>3. RightPacket' /\ (Follows(Unread) => Follows(Unread)')
      BY <1>1, <2>1, <2>2, KeepsPacket DEF Follows
    <2>4. Dead => Dead'
      BY <2>2, <2>3 DEF Dead
    <2>5. ASSUME NEW id, NEW f, NEW after, Await(id, f, after) PROVE Await(id, f, after)'
      BY <2>1, <2>2, <2>5 DEF Await, Follows, Num
    <2>6. (\E id, f, after : Await(id, f, after)) => \E id, f, after : Await(id, f, after)'
      BY <2>5
    <2>7. QED
      BY <2>2, <2>3, <2>4, <2>6 DEF StreamInv
  <1>3. ASSUME NEW len \in CommandLengths, NEW n \in 1..MaxAnswer, NEW lens \in [1..n -> Lengths],
               WriteCommand(len, lens)
        PROVE  StreamInv'
    <2>1. CASE TakeBuffer(len) = "busy"
      <3>1. /\ conn' = conn /\ conn.pc = "idle" /\ answer' = answer
            /\ buf' = buf /\ mem' = mem /\ sock' = sock
        BY <1>3, <2>1 DEF WriteCommand
      <3>2. Unread' = Unread
        BY <3>1 DEF Unread, Slice
      <3>3. RightPacket' /\ (Follows(Unread) => Follows(Unread)')
        BY <1>1, <3>1, <3>2, KeepsPacket DEF Follows
      <3>4. QED
        BY <3>1, <3>3 DEF StreamInv, Reading
    <2>2. CASE TakeBuffer(len) # "busy"
      <3>1. lens \in Seq(Nat) /\ Len(lens) > 0
        BY AnswerTypes
      <3>2. QED
        BY <1>3, <2>2, <3>1, StartedStreams DEF Started
    <2>3. QED
      BY <2>1, <2>2
  <1>4. CASE RowsNext
    <2>1. /\ conn.pc = "row" /\ conn'.pc = "head" /\ conn'.row = None /\ conn'.had = conn.had
          /\ conn'.prev = conn.prev /\ conn'.seq = conn.seq
      BY <1>1, <1>4 DEF RowsNext, Conns
    <2>2. buf' = buf /\ mem' = mem /\ sock' = sock /\ asked' = asked /\ answer' = answer
      BY <1>4 DEF RowsNext
    <2>3. Unread' = Unread
      BY <2>2 DEF Unread, Slice
    <2>4. RightPacket'
      BY <2>1 DEF RightPacket, None
    <2>5. QED
      BY <2>1, <2>2, <2>3, <2>4, Waits
  <1>5. CASE RowsClose
    <2>1. /\ conn.pc = "row" /\ conn'.pc = "head" /\ conn'.row = conn.row /\ conn'.had = conn.had
          /\ conn'.prev = conn.prev /\ conn'.seq = conn.seq
      BY <1>1, <1>5 DEF RowsClose, Conns
    <2>2. mem' = mem /\ sock' = sock /\ asked' = asked /\ answer' = answer
      BY <1>5 DEF RowsClose
    <2>3. buf'.cur = buf.cur /\ buf'.idx = buf.idx /\ buf'.length = buf.length
      BY <1>5 DEF RowsClose, Flip, TypeInv, TypeOK, Buffers
    <2>4. Unread' = Unread
      BY <2>2, <2>3 DEF Unread, Slice
    <2>5. RightPacket'
      BY <1>1, <2>1, <2>2, KeepsPacket
    <2>6. QED
      BY <2>1, <2>2, <2>4, <2>5, Waits
  <1>6. CASE ReadFails
    <2>1. conn'.pc = "failed" /\ conn'.row = conn.row /\ answer' = answer
      BY <1>1, <1>6 DEF ReadFails, Conns
    <2>2. QED
      BY <1>1, <2>1, KeepsPacket, GivesUp
  <1>7. ASSUME NEW k \in 1..(PacketMax + BufSize), Read(k) PROVE StreamInv'
    <2>1. k \in Nat
      BY Sized
    <2>2. Unread' = Unread /\ sock'.closed = sock.closed
      BY <1>7, <2>1, ReadFrom
    <2>3. conn' = conn \/ conn' = [conn EXCEPT !.pc = IF conn.pc = "fillHead" THEN "head" ELSE "body"]
      BY <1>7 DEF Read
    <2>4. conn.pc \in {"fillHead", "fillBody"} /\ asked' = asked /\ answer' = answer
      BY <1>7 DEF Read
    <2>5. /\ conn'.row = conn.row /\ conn'.had = conn.had /\ conn'.prev = conn.prev /\ conn'.seq = conn.seq
          /\ conn'.need = conn.need
          /\ conn.pc = "fillHead" => conn'.pc \in {"head", "fillHead"}
          /\ conn.pc = "fillBody" => conn'.pc \in {"body", "fillBody"}
      BY <1>1, <2>3, <2>4 DEF Conns
    <2>6. RightPacket'
      BY <1>1, <2>4, <2>5, KeepsPacket
    <2>7. QED
      BY <2>2, <2>4, <2>5, <2>6, Waits
  <1>8. QED
    BY <1>2, <1>3, <1>4, <1>5, <1>6, <1>7, ReadHeaderStreams, ReadBodyStreams, GoodbyeStreams DEF Next, Caller

\* Every packet that is handed out is the next one the server sent in answer to
\* this command, whole and in order, for all packet, buffer and cache sizes and
\* however the socket cuts the bytes.
THEOREM WireRightPacket == ASSUME ShortCommands PROVE Spec => []RightPacket
PROOF
  <1>1. Init => TypeInv /\ StreamInv
    BY InitTypes, InitStreams
  <1>2. TypeInv /\ StreamInv /\ [Next]_vars => TypeInv' /\ StreamInv'
    BY NextTypes, NextStreams
  <1>3. StreamInv => RightPacket
    BY DEF StreamInv
  <1>4. QED
    BY <1>1, <1>2, <1>3, PTL DEF Spec

=============================================================================
