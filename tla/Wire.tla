-------------------------------- MODULE Wire --------------------------------
(***************************************************************************)
(* mysql/buffer.go and readPacket, writePacket of mysql/packets.go: how    *)
(* packets become bytes of a socket, and slices of a buffer that is used   *)
(* again.                                                                  *)
(*                                                                         *)
(* Memory is modelled: an array is a sequence of cells, a packet that was  *)
(* not split is handed out as a slice of the array it was read into, and   *)
(* it is what the cells of that slice are later.  A cell is a packet       *)
(* header (4 bytes in the code) or one piece of a body.  Sizes are scaled  *)
(* down: PacketMax for maxPacketSize, BufSize for defaultBufSize, CacheMax *)
(* for maxCachedBufSize, SeqWrap for the 256 sequence numbers.             *)
(***************************************************************************)
EXTENDS Integers, Sequences, SequencesExt

CONSTANTS
    PacketMax, BufSize, CacheMax, SeqWrap,     \* the sizes, scaled
    Lengths,        \* lengths of packets before they are split
    CommandLengths, \* lengths of commands
    MaxAnswer,      \* bound: packets of an answer
    MaxCommands     \* bound: commands

ASSUME WireAssumption ==
    /\ {PacketMax, BufSize, CacheMax, SeqWrap, MaxAnswer, MaxCommands} \cup Lengths \cup CommandLengths
           \subseteq Nat \ {0}
    /\ BufSize <= CacheMax /\ SeqWrap > 1 /\ PacketMax > 1

VARIABLES
    buf,        \* the buffer: cur (b.buf), dbuf, flip, idx, length
    mem,        \* the arrays
    conn,       \* what the caller does: pc, sequence, the body it reads, prevData,
                \* the packets it had of the answer, and the row it holds
    sock,       \* cells on their way to the client, and whether more can come
    asked,      \* sizes of the frames of the last command, and its length
    answer,     \* lengths of the packets the server answers the last command with
    count       \* commands

vars == <<buf, mem, conn, sock, asked, answer, count>>

Arrays == 1..5

Junk == [id |-> 0, at |-> 0, len |-> 0, seq |-> 0]

None == [id |-> 0, arr |-> 1, off |-> 0, len |-> 0, copy |-> <<>>]

Piece(id, at) == [Junk EXCEPT !.id = id, !.at = at]

\* The sequence numbers and sizes of the frames of a packet, as the protocol has
\* them: every frame but the last is full, and the last is not.
Sizes(len) == [j \in 1..(len \div PacketMax + 1) |-> IF j <= len \div PacketMax THEN PacketMax ELSE len % PacketMax]

\* The cells of packet id of an answer.
Cells(id, len, seq) ==
    FlattenSeq([j \in DOMAIN Sizes(len) |->
        <<[Junk EXCEPT !.len = Sizes(len)[j], !.seq = (seq + j - 1) % SeqWrap]>>
            \o [i \in 1..Sizes(len)[j] |-> Piece(id, (j - 1) * PacketMax + i)]])

\* The first sequence number of packet j of the answer to a command.
FirstSeq(len, lens, j) ==
    Len(Sizes(len) \o FlattenSeq([k \in 1..(j - 1) |-> Sizes(lens[k])])) % SeqWrap

Body(id, len) == [i \in 1..len |-> Piece(id, i)]

CellSet == [id : Nat, at : Int, len : Nat, seq : Int]

Buffers == [cur : Arrays, dbuf : [1..2 -> Arrays \cup {0}], flip : 0..1, idx : Nat, length : Nat]

Rows == [id : Nat, arr : Arrays, off : Nat, len : Nat, copy : Seq(CellSet)]

Conns == [pc : {"idle", "head", "fillHead", "body", "fillBody", "row", "failed"},
          seq : 0..(SeqWrap - 1), need : Nat, prev : Seq(CellSet), had : Nat,
          close : BOOLEAN, row : Rows]

TypeOK ==
    /\ buf \in Buffers
    /\ mem \in [Arrays -> Seq(CellSet)]
    /\ conn \in Conns
    /\ sock \in [cells : Seq(CellSet), closed : BOOLEAN]
    /\ count \in 0..MaxCommands
    /\ buf.idx + buf.length <= Len(mem[buf.cur])

Init ==
    /\ mem = [a \in Arrays |-> IF a = 1 THEN [i \in 1..BufSize |-> Junk] ELSE <<>>]
    /\ buf = [cur |-> 1, dbuf |-> <<1, 0>>, flip |-> 0, idx |-> 0, length |-> 0]
    /\ conn = [pc |-> "idle", seq |-> 0, need |-> 0, prev |-> <<>>, had |-> 0, close |-> FALSE, row |-> None]
    /\ sock = [cells |-> <<>>, closed |-> FALSE]
    /\ asked = [sizes |-> <<0>>, len |-> 0]
    /\ answer = <<>>
    /\ count = 0

Referenced(b) == {b.cur, b.dbuf[1], b.dbuf[2], conn.row.arr}

\* An array that nothing refers to; its old contents are gone.
Fresh == CHOOSE a \in Arrays : a \notin Referenced(buf)

Collected(m, b) == [a \in Arrays |-> IF a \in Referenced(b) THEN m[a] ELSE <<>>]

Slice(arr, off, len) == SubSeq(mem[arr], off + 1, off + len)

-----------------------------------------------------------------------------
(***************************************************************************)
(* Commands.                                                               *)
(***************************************************************************)

\* Mutant: a packet whose last frame is full ends with it.
WriteFramesShort(len) == IF len # 0 /\ len % PacketMax = 0 THEN Front(Sizes(len)) ELSE Sizes(len)

\* The loop of writePacket: a full frame goes on to the next, so that a packet
\* of a multiple of maxPacketSize ends with an empty frame.
WriteFrames(len) ==
    LET frames[rest \in 0..len] == IF rest >= PacketMax THEN <<PacketMax>> \o frames[rest - PacketMax] ELSE <<rest>>
    IN  frames[len]

\* takeBuffer: busy while bytes are unread, else the buffer, a new one in its
\* place, or one that is not kept.
TakeBuffer(len) ==
    IF buf.length > 0 THEN "busy"
    ELSE IF len + 1 <= Len(mem[buf.cur]) THEN "buf"
    ELSE IF len + 1 < PacketMax THEN "new" ELSE "other"

\* A command of len bytes is put together in the buffer and written; the server
\* has its answer ready.  ErrBusyBuffer leaves everything as it is.
WriteCommand(len, lens) ==
    /\ conn.pc = "idle" /\ count < MaxCommands
    /\ count' = count + 1
    /\ IF TakeBuffer(len) = "busy"
       THEN UNCHANGED <<buf, mem, conn, sock, asked, answer>>
       ELSE /\ conn' = [conn EXCEPT !.pc = "head", !.had = 0, !.close = FALSE, !.prev = <<>>, !.row = None,
                                    !.seq = Len(WriteFrames(len)) % SeqWrap]
            /\ asked' = [sizes |-> WriteFrames(len), len |-> len]
            /\ answer' = lens
            /\ LET arr == IF TakeBuffer(len) = "new" THEN Fresh ELSE buf.cur
                   command == [i \in 1..(len + 1) |-> Junk]
               IN  /\ buf' = [buf EXCEPT !.cur = arr]
                   /\ mem' = CASE TakeBuffer(len) = "buf" ->
                                      [mem EXCEPT ![arr] = command \o SubSeq(@, len + 2, Len(@))]
                               [] TakeBuffer(len) = "new" -> [mem EXCEPT ![arr] = command]
                               [] OTHER -> mem
            /\ sock' = IF sock.closed THEN sock
                       ELSE [sock EXCEPT !.cells = @ \o FlattenSeq([j \in DOMAIN lens |->
                                               Cells(j, lens[j], FirstSeq(len, lens, j))])]

\* The server closes the connection, and may say so: an error with sequence
\* number 0, which nobody reads.
Goodbye ==
    /\ ~sock.closed
    /\ \E last \in {<<>>, Cells(0, 1, 0)} : sock' = [cells |-> sock.cells \o last, closed |-> TRUE]
    /\ UNCHANGED <<buf, mem, conn, asked, answer, count>>

-----------------------------------------------------------------------------
(***************************************************************************)
(* fill and readNext.                                                      *)
(***************************************************************************)

\* The first half of fill: the array to fill, grown if it is too small, gets
\* what was not read yet.
Prepare(need, pc) ==
    LET b == buf.flip + 1
        small == buf.dbuf[b] = 0 \/ (buf.dbuf[b] # 0 /\ need > Len(mem[buf.dbuf[b]]))
        size == IF small THEN (need \div BufSize + 1) * BufSize ELSE Len(mem[buf.dbuf[b]])
        dest == IF small THEN Fresh ELSE buf.dbuf[b]
        old == IF small THEN [i \in 1..size |-> Junk] ELSE mem[dest]
        unread == Slice(buf.cur, buf.idx, buf.length)
    IN  /\ buf' = [buf EXCEPT !.cur = dest, !.idx = 0,
                              !.dbuf[b] = IF size <= CacheMax THEN dest ELSE @]
        /\ mem' = Collected([mem EXCEPT ![dest] = unread \o SubSeq(old, buf.length + 1, size)], buf')
        /\ conn' = [conn EXCEPT !.pc = pc, !.need = need]

\* Mutant: one byte more than is needed is waited for.
EnoughMore(n) == n > conn.need

Enough(n) == n >= conn.need

\* nc.Read returns k cells.
Read(k) ==
    /\ conn.pc \in {"fillHead", "fillBody"}
    /\ k <= Len(sock.cells) /\ k <= Len(mem[buf.cur]) - buf.length
    /\ mem' = [mem EXCEPT ![buf.cur] = SubSeq(@, 1, buf.length) \o SubSeq(sock.cells, 1, k)
                                           \o SubSeq(@, buf.length + k + 1, Len(@))]
    /\ buf' = [buf EXCEPT !.length = @ + k]
    /\ sock' = [sock EXCEPT !.cells = SubSeq(@, k + 1, Len(@))]
    /\ conn' = IF ~Enough(buf.length + k) THEN conn
               ELSE [conn EXCEPT !.pc = IF conn.pc = "fillHead" THEN "head" ELSE "body"]
    /\ UNCHANGED <<asked, answer, count>>

\* The socket is closed, or was closed by the server, before enough was read.
ReadFails ==
    /\ conn.pc \in {"fillHead", "fillBody"}
    /\ sock.cells = <<>> /\ sock.closed
    /\ conn' = [conn EXCEPT !.pc = "failed"]
    /\ UNCHANGED <<buf, mem, sock, asked, answer, count>>

-----------------------------------------------------------------------------
(***************************************************************************)
(* readPacket.                                                             *)
(***************************************************************************)

\* Mutant: the sequence number is not checked.
InSequenceAlways(header) == TRUE

InSequence(header) == header.seq = conn.seq

\* The end of readNext.
Take(n) == [buf EXCEPT !.idx = @ + n, !.length = @ - n]

\* A whole packet: a row goes to the caller, as a slice or, if it was split, as
\* a copy; the last packet ends the answer, and Close reads on without a look.
Deliver(n, data, split, seq) ==
    LET row == [id |-> conn.had + 1, arr |-> buf.cur, off |-> buf.idx,
                len |-> IF split THEN 0 ELSE n, copy |-> data]
        last == conn.had + 1 = Len(answer)
    IN  conn' = [conn EXCEPT !.had = @ + 1, !.prev = <<>>, !.seq = seq,
                             !.pc = IF last THEN "idle" ELSE IF conn.close THEN "head" ELSE "row",
                             !.row = IF conn.close THEN @ ELSE row]

\* The header: a length and a sequence number.  ErrPktSync leaves the connection
\* open and the rest of the packet unread; a packet without a body closes it.
ReadHeader ==
    /\ conn.pc = "head"
    /\ IF buf.length < 1 THEN Prepare(1, "fillHead")
       ELSE LET h == mem[buf.cur][buf.idx + 1]
                seq == (conn.seq + 1) % SeqWrap IN
            /\ buf' = Take(1)
            /\ UNCHANGED mem
            /\ IF ~InSequence(h) THEN conn' = [conn EXCEPT !.pc = "idle"]
               ELSE IF h.len = 0 /\ conn.prev = <<>> THEN conn' = [conn EXCEPT !.pc = "failed"]
               ELSE IF h.len = 0 THEN Deliver(0, conn.prev, TRUE, seq)
               ELSE conn' = [conn EXCEPT !.pc = "body", !.need = h.len, !.seq = seq]
    /\ UNCHANGED <<sock, asked, answer, count>>

\* The body; a full one is kept, and the next frame goes on.
ReadBody ==
    /\ conn.pc = "body"
    /\ IF buf.length < conn.need THEN Prepare(conn.need, "fillBody")
       ELSE LET data == Slice(buf.cur, buf.idx, conn.need) IN
            /\ buf' = Take(conn.need)
            /\ UNCHANGED mem
            /\ IF conn.need >= PacketMax THEN conn' = [conn EXCEPT !.pc = "head", !.prev = @ \o data]
               ELSE IF conn.prev = <<>> THEN Deliver(conn.need, data, FALSE, conn.seq)
               ELSE Deliver(conn.need, conn.prev \o data, TRUE, conn.seq)
    /\ UNCHANGED <<sock, asked, answer, count>>

-----------------------------------------------------------------------------
(***************************************************************************)
(* The caller's Rows.                                                      *)
(***************************************************************************)

RowsNext ==
    /\ conn.pc = "row"
    /\ conn' = [conn EXCEPT !.pc = "head", !.row = None]
    /\ UNCHANGED <<buf, mem, sock, asked, answer, count>>

\* Mutant: the rest of the rows is read into the buffer that holds the row.
FlipNot(b) == b

\* flip: the next fill uses the other array.
Flip(b) == [b EXCEPT !.flip = 1 - @]

\* Rows.Close while the caller still looks at its row (sql.RawBytes).
RowsClose ==
    /\ conn.pc = "row"
    /\ conn' = [conn EXCEPT !.pc = "head", !.close = TRUE]
    /\ buf' = Flip(buf)
    /\ UNCHANGED <<mem, sock, asked, answer, count>>

-----------------------------------------------------------------------------

Caller == RowsNext \/ RowsClose \/ ReadHeader \/ ReadBody \/ ReadFails
              \/ \E k \in 1..(PacketMax + BufSize) : Read(k)

Next ==
    \/ \E len \in CommandLengths, n \in 1..MaxAnswer : \E lens \in [1..n -> Lengths] :
           WriteCommand(len, lens)
    \/ Goodbye
    \/ Caller

Spec == Init /\ [][Next]_vars

\* The caller reads its answer to the end.
FairSpec == Spec /\ WF_vars(Caller)

-----------------------------------------------------------------------------
(***************************************************************************)
(* Properties.                                                             *)
(***************************************************************************)

\* A packet that is handed out is the one the server sent next for this command,
\* however the socket cut the bytes, the packet was split and the buffer grown:
\* no byte is lost, read twice or overwritten before it was read.
RightPacket ==
    conn.row.id # 0 => conn.row.copy = Body(conn.row.id, answer[conn.row.id])

\* The slice a caller holds still shows its row, also while Rows.Close reads the
\* rest of the rows into the other buffer (flip).
RowIntact ==
    conn.pc # "idle" /\ conn.row.len # 0 =>
        Slice(conn.row.arr, conn.row.off, conn.row.len) = conn.row.copy

\* The frames of a command say where it ends: a receiver that goes on after every
\* full frame, and after no other, has the whole command (writePacket).
CommandFramed == asked.sizes = Sizes(asked.len)

\* An answer that has arrived in full is read to its end and no further: the
\* caller is never left waiting in a read.
ReadReturns == conn.pc = "head" ~> conn.pc \in {"idle", "row", "failed"}

=============================================================================
