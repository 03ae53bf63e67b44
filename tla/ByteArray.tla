----------------------------- MODULE ByteArray -----------------------------
(***************************************************************************)
(* ByteArray in src/mumu/bytearray.cc: a chain of Nodes of m_baseSize      *)
(* bytes, with m_position, m_size, m_capacity and m_cur, the Node the      *)
(* next read or write starts in.                                           *)
(*                                                                         *)
(* Every Node has BaseSize bytes and Nodes are only appended (addCapacity) *)
(* or cut back to the root (clear), so the chain is the byte string mem,   *)
(* Node k holding offsets k * BaseSize .. (k + 1) * BaseSize - 1, and      *)
(* m_cur is a Node index, nodes meaning nullptr.  new char[] leaves bytes  *)
(* uninitialised: Junk.  Callers are single-threaded; each public call is  *)
(* one step.  A step that dereferences m_cur past the chain crashes.       *)
(*                                                                         *)
(* bytearray.h is not in the repository; getCapacity() and getReadSize()   *)
(* are taken as m_capacity - m_position and m_size - m_position in size_t, *)
(* as the @post and @exception comments of addCapacity and read state.     *)
(***************************************************************************)
EXTENDS Integers, Sequences

CONSTANTS
    BaseSize,   \* m_baseSize
    Bytes,      \* byte values callers write
    Junk,       \* an uninitialised byte
    Bufs,       \* byte strings passed to write
    ReadLens,   \* sizes passed to read
    SendLens,   \* lengths passed to SocketStream::write
    EchoBufs,   \* what one recv of the echo server may return
    EchoLen,    \* the length the echo server asks getWriteBuffers for
    MaxCap      \* bound on positions and capacity

ASSUME BaseSize \in Nat \ {0} /\ Junk \notin Bytes

\* A size_t subtraction that wraps: larger than any length here.
SizeMax == 2^30

VARIABLES
    nodes,      \* Nodes in the chain
    mem,        \* their bytes
    position,   \* m_position
    size,       \* m_size
    capacity,   \* m_capacity
    cur,        \* m_cur as a Node index
    out,        \* the bytes the last read, toString or send returned
    input,      \* the bytes last passed to write, or received by recv
    crashed     \* a null m_cur was dereferenced

vars == <<nodes, mem, position, size, capacity, cur, out, input, crashed>>

Init ==
    /\ nodes = 1
    /\ mem = [i \in 1..BaseSize |-> Junk]
    /\ position = 0 /\ size = 0 /\ capacity = BaseSize /\ cur = 0
    /\ out = <<>> /\ input = <<>> /\ crashed = FALSE

GetCapacity == IF capacity >= position THEN capacity - position ELSE SizeMax
GetReadSize == IF size >= position THEN size - position ELSE SizeMax

\* addCapacity(n): the Nodes it appends, and m_cur after it (set to the
\* first new Node when the old capacity was exhausted).
NewNodes(n) ==
    IF n = 0 \/ GetCapacity >= n THEN 0
    ELSE ((n - GetCapacity) + BaseSize - 1) \div BaseSize
GrownMem(n) == mem \o [i \in 1..(NewNodes(n) * BaseSize) |-> Junk]
GrownCur(n) == IF NewNodes(n) > 0 /\ GetCapacity = 0 THEN nodes ELSE cur

\* The memcpy loop of write: buf lands at offsets start .. start + n - 1.
PlacedFromChunkStart(m, start, buf) ==
    LET first == BaseSize - (start % BaseSize)
        src(j) == IF j <= first THEN j ELSE ((j - first - 1) % BaseSize) + 1
    IN  [i \in 1..Len(m) |->
           IF start < i /\ i <= start + Len(buf) THEN buf[src(i - start)] ELSE m[i]]
Placed(m, start, buf) ==
    [i \in 1..Len(m) |->
       IF start < i /\ i <= start + Len(buf) THEN buf[i - start] ELSE m[i]]

\* setPosition's walk from m_root: past whole Nodes, and past the last one
\* when v ends exactly on its boundary.
CurForNoBoundary(v) ==
    IF v % BaseSize = 0 /\ v > 0 THEN v \div BaseSize - 1 ELSE v \div BaseSize
CurFor(v) == v \div BaseSize
SizeAfterKept(s, v) == s
SizeAfter(s, v) == IF v > s THEN v ELSE s

-----------------------------------------------------------------------------
\* write(buf, size): addCapacity, then copy from m_cur at m_position %
\* m_baseSize, stepping m_cur on each time a Node fills.
Write(buf) ==
    LET n == Len(buf)  m1 == GrownMem(n)  c1 == GrownCur(n)
        start == c1 * BaseSize + (position % BaseSize)
    IN  /\ position + n <= MaxCap
        /\ IF start + n > Len(m1)
             THEN crashed' = TRUE /\ UNCHANGED <<nodes, mem, position, size, capacity, cur, input>>
             ELSE /\ nodes' = nodes + NewNodes(n)
                  /\ capacity' = capacity + NewNodes(n) * BaseSize
                  /\ mem' = Placed(m1, start, buf)
                  /\ cur' = (start + n) \div BaseSize
                  /\ position' = position + n
                  /\ size' = IF position + n > size THEN position + n ELSE size
                  /\ input' = buf
                  /\ UNCHANGED crashed
        /\ UNCHANGED out

\* read(buf, size): out_of_range when size > getReadSize(); else copy from
\* m_cur.  The else-arm of the loop adds npos to m_position once more.
Read(n) ==
    LET npos == position % BaseSize
        start == cur * BaseSize + npos
    IN  /\ IF n > GetReadSize THEN UNCHANGED vars
           ELSE IF start + n > Len(mem)
             THEN crashed' = TRUE /\ UNCHANGED <<nodes, mem, position, size, capacity, cur, out, input>>
             ELSE /\ out' = SubSeq(mem, start + 1, start + n)
                  /\ position' = position + n + (IF n > BaseSize - npos THEN npos ELSE 0)
                  /\ cur' = (start + n) \div BaseSize
                  /\ UNCHANGED <<nodes, mem, size, capacity, input, crashed>>

\* setPosition(v): out_of_range past m_capacity; else move, grow m_size,
\* and walk m_cur from m_root.
SetPosition(v) ==
    IF v > capacity THEN UNCHANGED vars
    ELSE /\ position' = v
         /\ size' = SizeAfter(size, v)
         /\ cur' = CurFor(v)
         /\ UNCHANGED <<nodes, mem, capacity, out, input, crashed>>

\* toString(): getReadSize() bytes through the const read at m_position,
\* which starts from m_cur.
ToStringCall ==
    LET rs == GetReadSize
        start == cur * BaseSize + (position % BaseSize)
    IN  IF rs = 0 THEN out' = <<>> /\ UNCHANGED <<nodes, mem, position, size, capacity, cur, input, crashed>>
        ELSE IF start + rs > Len(mem)
          THEN crashed' = TRUE /\ UNCHANGED <<nodes, mem, position, size, capacity, cur, out, input>>
          ELSE out' = SubSeq(mem, start + 1, start + rs)
               /\ UNCHANGED <<nodes, mem, position, size, capacity, cur, input, crashed>>

\* clear(): back to the root Node, whose bytes stay as they were.
Clear ==
    /\ position' = 0 /\ size' = 0 /\ capacity' = BaseSize
    /\ nodes' = 1 /\ cur' = 0
    /\ mem' = SubSeq(mem, 1, BaseSize)
    /\ UNCHANGED <<out, input, crashed>>

\* SocketStream::write(ba, len): getReadBuffers gives one iovec, from
\* m_cur, of at most the rest of that Node; send takes k bytes of it;
\* then setPosition(getPosition() + k).
SendFrom(len, k) ==
    LET l == IF len > GetReadSize THEN GetReadSize ELSE len
        npos == position % BaseSize
        start == cur * BaseSize + npos
        iov == IF l > BaseSize - npos THEN BaseSize - npos ELSE l
    IN  /\ l > 0 /\ k <= iov
        /\ IF start + k > Len(mem)
             THEN crashed' = TRUE /\ UNCHANGED <<nodes, mem, position, size, capacity, cur, out, input>>
             ELSE /\ out' = SubSeq(mem, start + 1, start + k)
                  /\ position' = position + k
                  /\ size' = SizeAfter(size, position + k)
                  /\ cur' = CurFor(position + k)
                  /\ UNCHANGED <<nodes, mem, capacity, input, crashed>>

\* getWriteBuffers(len) at m_cur with offset npos: the first iovec runs to
\* the end of that Node; every later one starts at m_cur->ptr again.  The
\* offset in Node m_cur where byte j of the received data lands.
IovOffset(npos, j) ==
    IF j <= BaseSize - npos THEN npos + j - 1
    ELSE (j - (BaseSize - npos) - 1) % BaseSize

\* One loop iteration of EchoServer::handleClient in
\* src/examples/echo_tcp_server.cc: clear(); getWriteBuffers(iov, len);
\* recv into the iovecs; setPosition(getPosition() + rt); setPosition(0);
\* toString().  recv returns buf; rt <= 0 ends the loop instead.
EchoRound(buf) ==
    LET m0 == SubSeq(mem, 1, BaseSize)
        grow == IF BaseSize >= EchoLen THEN 0
                ELSE ((EchoLen - BaseSize) + BaseSize - 1) \div BaseSize
        landed(i) == {j \in 1..Len(buf) : IovOffset(0, j) = i - 1}
        lastAt(i) == CHOOSE j \in landed(i) : \A x \in landed(i) : x <= j
        m1 == [i \in 1..BaseSize |-> IF landed(i) = {} THEN m0[i] ELSE buf[lastAt(i)]]
              \o [i \in 1..(grow * BaseSize) |-> Junk]
        rt == Len(buf)
        sz == SizeAfter(0, rt)
    IN  /\ nodes' = 1 + grow
        /\ capacity' = BaseSize * (1 + grow)
        /\ mem' = m1
        /\ size' = sz
        /\ position' = 0 /\ cur' = CurFor(0)
        /\ out' = SubSeq(m1, 1, sz)
        /\ input' = buf
        /\ UNCHANGED crashed

-----------------------------------------------------------------------------
\* The calls a single-threaded user of the API makes.
Next ==
    /\ ~crashed
    /\ \/ \E buf \in Bufs : Write(buf)
       \/ \E n \in ReadLens : Read(n)
       \/ \E v \in 0..MaxCap : SetPosition(v)
       \/ ToStringCall
       \/ Clear
       \/ \E len \in SendLens, k \in 1..BaseSize : SendFrom(len, k)

Spec == Init /\ [][Next]_vars

\* The echo server's loop.
EchoNext == \E buf \in EchoBufs : EchoRound(buf)
EchoSpec == Init /\ [][EchoNext]_vars

\* The byte string the chain holds: offsets below m_size.
Contents == [i \in 1..size |-> IF i <= Len(mem) THEN mem[i] ELSE Junk]

Buffer == INSTANCE ByteBuffer
    WITH data <- Contents, pos <- position, out <- out, in <- input,
         AnyBytes <- Bytes \cup {Junk}, MaxLen <- MaxCap

-----------------------------------------------------------------------------
\* ByteArray implements the byte string with a cursor its comments
\* describe: every write, read, setPosition, toString, clear and
\* SocketStream::write is a step of ByteBuffer under the mapping of the
\* chain's first m_size bytes to the string, m_position to the cursor,
\* and the bytes passed to and returned from the calls to themselves.
BufferRefinement == Buffer!Spec

\* m_cur is the Node that holds offset m_position (nullptr at the end of
\* the chain): write, read and toString start from m_cur, at offset
\* m_position % m_baseSize, without looking at m_position's Node.
CurAtPosition == cur = position \div BaseSize

\* The echo server prints exactly the bytes recv received.
EchoedAsReceived == out = input
=============================================================================
