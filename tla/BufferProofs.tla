---------------------------- MODULE BufferProofs ----------------------------
(***************************************************************************)
(* Proofs about the two kinds of buffers: Buffer's indices stay inside its *)
(* block and the bytes between them are a ByteQueue, for blocks and chunks *)
(* of any size; the log's lines all go through one buffer, never full, for *)
(* any number of threads, lines and buffers.                               *)
(***************************************************************************)
EXTENDS Buffer, AsyncLog, SequenceTheorems, TLAPS

LOCAL INSTANCE SequencesExt

-----------------------------------------------------------------------------
(* A block of memory and what it holds *)

\* A block whose indices are in order and whose bytes between them were written.
BlockOK(mem, size, read, write) ==
    /\ size \in Nat /\ read \in Nat /\ write \in Nat
    /\ read <= write /\ write <= size
    /\ mem \in [0 .. size - 1 -> Bytes \cup {Junk}]
    /\ \A i \in read .. write - 1 : mem[i] \in Bytes

\* The bytes between two indices.
Span(mem, read, write) == [k \in 1 .. write - read |-> mem[read + k - 1]]

\* They are a sequence, as long as the indices are apart.
LEMMA SpanIsSeq ==
    ASSUME NEW mem, NEW size, NEW read, NEW write, BlockOK(mem, size, read, write)
    PROVE  /\ Span(mem, read, write) \in Seq(Bytes)
           /\ Len(Span(mem, read, write)) = write - read
           /\ \A k \in 1 .. write - read : Span(mem, read, write)[k] = mem[read + k - 1]
<1>1. write - read \in Nat
  BY DEF BlockOK
<1>2. \A k \in 1 .. write - read : mem[read + k - 1] \in Bytes
  BY DEF BlockOK
<1>3. Span(mem, read, write) \in [1 .. write - read -> Bytes]
  BY <1>2 DEF Span
<1>4. Span(mem, read, write) \in Seq(Bytes)
  BY <1>1, <1>3
<1>5. Len(Span(mem, read, write)) = write - read
  BY <1>1, <1>3, <1>4, LenProperties
<1> QED
  BY <1>4, <1>5 DEF Span

\* A sequence is the span of a block when it has its length and its bytes.
LEMMA SpanEqual ==
    ASSUME NEW mem, NEW size, NEW read, NEW write, BlockOK(mem, size, read, write),
           NEW s \in Seq(Bytes), Len(s) = write - read,
           \A k \in 1 .. write - read : s[k] = mem[read + k - 1]
    PROVE  Span(mem, read, write) = s
<1>1. /\ Span(mem, read, write) \in Seq(Bytes)
      /\ Len(Span(mem, read, write)) = Len(s)
      /\ \A k \in 1 .. Len(s) : Span(mem, read, write)[k] = s[k]
  BY SpanIsSeq
<1> QED
  BY <1>1, SeqEqual

-----------------------------------------------------------------------------
(* What each operation on memory does to the bytes between the indices *)

\* A copy puts as many bytes behind the span as the block has room for.
LEMMA CopiedAppends ==
    ASSUME NEW mem, NEW size, NEW read, NEW write, BlockOK(mem, size, read, write),
           NEW d \in Seq(Bytes),
           NEW w \in write .. size, NEW n, n = w - write, n <= Len(d)
    PROVE  /\ BlockOK(Copied(mem, write, d), size, read, w)
           /\ Span(Copied(mem, write, d), read, w)
                 = Span(mem, read, write) \o SubSeq(d, 1, n)
<1> DEFINE new == Copied(mem, write, d)
           head == SubSeq(d, 1, n)
           old == Span(mem, read, write)
<1>1. /\ Len(d) \in Nat
      /\ \A k \in 1 .. Len(d) : d[k] \in Bytes
  BY LenProperties, ElementOfSeq
<1>2. /\ DOMAIN mem = 0 .. size - 1
      /\ {size, read, write, w} \subseteq Nat
      /\ read <= write /\ write <= w /\ w <= size
      /\ n \in Nat /\ write + n = w
  BY DEF BlockOK
<1>3. \A i \in 0 .. size - 1 :
         new[i] = IF i - write \in 0 .. Len(d) - 1 THEN d[i - write + 1] ELSE mem[i]
  BY <1>2 DEF Copied
<1>4. new \in [0 .. size - 1 -> Bytes \cup {Junk}]
  <2>1. ASSUME NEW i \in 0 .. size - 1 PROVE new[i] \in Bytes \cup {Junk}
    <3>1. CASE i - write \in 0 .. Len(d) - 1
      <4>1. i - write + 1 \in 1 .. Len(d)
        BY <1>1, <1>2, <3>1
      <4> QED
        BY <1>1, <1>3, <3>1, <4>1
    <3>2. CASE i - write \notin 0 .. Len(d) - 1
      BY <1>3, <3>2 DEF BlockOK
    <3> QED
      BY <3>1, <3>2
  <2>2. new = [i \in 0 .. size - 1 |-> new[i]]
    BY <1>2 DEF Copied
  <2> HIDE DEF new
  <2> QED
    BY <2>1, <2>2
<1> HIDE DEF new
<1>5. \A i \in read .. write - 1 : new[i] = mem[i]
  BY <1>1, <1>2, <1>3
<1>6. \A k \in 1 .. n : new[write + k - 1] = d[k]
  <2> TAKE k \in 1 .. n
  <2> DEFINE i == write + k - 1
  <2>1. i \in 0 .. size - 1 /\ i - write \in 0 .. Len(d) - 1 /\ i - write + 1 = k
    BY <1>1, <1>2
  <2> HIDE DEF i
  <2>2. new[i] = d[i - write + 1]
    BY <1>3, <2>1
  <2> QED
    BY <2>1, <2>2 DEF i
<1>7. \A i \in read .. w - 1 : new[i] \in Bytes
  <2> TAKE i \in read .. w - 1
  <2>1. CASE i < write
    BY <1>2, <1>5, <2>1 DEF BlockOK
  <2>2. CASE ~(i < write)
    <3> DEFINE k == i - write + 1
    <3>1. k \in 1 .. n /\ k \in 1 .. Len(d) /\ write + k - 1 = i
      BY <1>1, <1>2, <2>2
    <3> HIDE DEF k
    <3>2. new[write + k - 1] \in Bytes
      BY <1>1, <1>6, <3>1
    <3> QED
      BY <3>1, <3>2
  <2> QED
    BY <2>1, <2>2
<1>8. BlockOK(new, size, read, w)
  BY <1>2, <1>4, <1>7 DEF BlockOK
<1>9. /\ head \in Seq(Bytes) /\ Len(head) = n
      /\ \A k \in 1 .. n : head[k] = d[k]
  <2>1. n \in Nat /\ \A k \in 1 .. n : d[k] \in Bytes
    BY <1>1, <1>2
  <2> QED
    BY <2>1, SubSeqProperties
<1>10. /\ old \in Seq(Bytes) /\ Len(old) = write - read
       /\ \A k \in 1 .. write - read : old[k] = mem[read + k - 1]
  BY SpanIsSeq
<1> HIDE DEF head, old
<1>11. /\ old \o head \in Seq(Bytes)
       /\ Len(old \o head) = w - read
       /\ \A k \in 1 .. w - read :
             (old \o head)[k] = IF k <= write - read THEN old[k] ELSE head[k - (write - read)]
  <2>1. /\ old \o head \in Seq(Bytes)
        /\ Len(old \o head) = Len(old) + Len(head)
        /\ \A k \in 1 .. Len(old) + Len(head) :
              (old \o head)[k] = IF k <= Len(old) THEN old[k] ELSE head[k - Len(old)]
    BY <1>9, <1>10, ConcatProperties
  <2>2. Len(old) + Len(head) = w - read
    BY <1>2, <1>9, <1>10
  <2> QED
    BY <1>10, <2>1, <2>2
<1>12. \A k \in 1 .. w - read : (old \o head)[k] = new[read + k - 1]
  <2> TAKE k \in 1 .. w - read
  <2>1. CASE k <= write - read
    <3>1. read + k - 1 \in read .. write - 1 /\ k \in 1 .. write - read
      BY <1>2, <2>1
    <3> QED
      BY <1>5, <1>10, <1>11, <2>1, <3>1
  <2>2. CASE ~(k <= write - read)
    <3> DEFINE j == k - (write - read)
    <3>1. j \in 1 .. n /\ write + j - 1 = read + k - 1
      BY <1>2, <2>2, SMTT(60)
    <3>2. (old \o head)[k] = head[j]
      BY <1>11, <2>2
    <3> HIDE DEF j
    <3>3. head[j] = d[j] /\ new[write + j - 1] = d[j]
      BY <1>6, <1>9, <3>1
    <3> QED
      BY <3>1, <3>2, <3>3
  <2> QED
    BY <2>1, <2>2
<1>13. Span(new, read, w) = old \o head
  <2> DEFINE all == old \o head
  <2>1. all \in Seq(Bytes) /\ Len(all) = w - read
    BY <1>11
  <2>2. \A k \in 1 .. w - read : all[k] = new[read + k - 1]
    BY <1>12
  <2> HIDE DEF all
  <2>3. Span(new, read, w) = all
    BY <1>8, <2>1, <2>2, SpanEqual
  <2> QED
    BY <2>3 DEF all
<1> QED
  BY <1>8, <1>13 DEF new, old, head

\* realloc to more memory keeps the span.
LEMMA GrownKeeps ==
    ASSUME NEW mem, NEW size, NEW read, NEW write, BlockOK(mem, size, read, write),
           NEW n \in Nat, size <= n
    PROVE  /\ BlockOK(Grown(mem, n), n, read, write)
           /\ Span(Grown(mem, n), read, write) = Span(mem, read, write)
<1> DEFINE new == Grown(mem, n)
           old == Span(mem, read, write)
<1>1. /\ DOMAIN mem = 0 .. size - 1
      /\ {size, read, write} \subseteq Nat
      /\ read <= write /\ write <= size
  BY DEF BlockOK
<1>2. \A i \in 0 .. size - 1 : new[i] = mem[i]
  BY <1>1 DEF Grown
<1>3. new \in [0 .. n - 1 -> Bytes \cup {Junk}]
  BY <1>1 DEF Grown, BlockOK
<1> HIDE DEF new
<1>4. BlockOK(new, n, read, write)
  BY <1>1, <1>2, <1>3 DEF BlockOK
<1>5. /\ old \in Seq(Bytes) /\ Len(old) = write - read
      /\ \A k \in 1 .. write - read : old[k] = mem[read + k - 1]
  BY SpanIsSeq
<1> HIDE DEF old
<1>6. \A k \in 1 .. write - read : old[k] = new[read + k - 1]
  <2> TAKE k \in 1 .. write - read
  <2>1. read + k - 1 \in 0 .. size - 1
    BY <1>1
  <2> QED
    BY <1>2, <1>5, <2>1
<1>7. Span(new, read, write) = old
  BY <1>4, <1>5, <1>6, SpanEqual
<1> QED
  BY <1>4, <1>7 DEF new, old

\* Moving the bytes to the front of the block keeps the span.
LEMMA MovedKeeps ==
    ASSUME NEW mem, NEW size, NEW read, NEW write, BlockOK(mem, size, read, write)
    PROVE  /\ BlockOK(MovedToFront(mem, read, write), size, 0, write - read)
           /\ Span(MovedToFront(mem, read, write), 0, write - read) = Span(mem, read, write)
<1> DEFINE new == MovedToFront(mem, read, write)
           old == Span(mem, read, write)
           len == write - read
<1>1. /\ DOMAIN mem = 0 .. size - 1
      /\ {size, read, write} \subseteq Nat
      /\ read <= write /\ write <= size
      /\ len \in Nat /\ len <= size /\ read + len = write
  BY DEF BlockOK
<1>2. \A i \in 0 .. len - 1 : new[i] = mem[read + i]
  BY <1>1 DEF MovedToFront
<1>3. new \in [0 .. size - 1 -> Bytes \cup {Junk}]
  BY <1>1 DEF MovedToFront, BlockOK
<1>4. /\ old \in Seq(Bytes) /\ Len(old) = len
      /\ \A k \in 1 .. len : old[k] = mem[read + k - 1]
  BY SpanIsSeq
<1> HIDE DEF new, old, len
<1>5. BlockOK(new, size, 0, len)
  <2>1. ASSUME NEW i \in 0 .. len - 1 PROVE new[i] \in Bytes
    <3>1. read + i \in read .. write - 1
      BY <1>1
    <3> QED
      BY <1>2, <3>1 DEF BlockOK
  <2> QED
    BY <1>1, <1>3, <2>1 DEF BlockOK
<1>6. \A k \in 1 .. len - 0 : old[k] = new[0 + k - 1]
  <2> TAKE k \in 1 .. len - 0
  <2> DEFINE i == k - 1
  <2>1. i \in 0 .. len - 1 /\ k \in 1 .. len /\ 0 + k - 1 = i /\ read + k - 1 = read + i
    BY <1>1
  <2> HIDE DEF i
  <2> QED
    BY <1>2, <1>4, <2>1
<1>7. Len(old) = len - 0
  BY <1>1, <1>4
<1>8. Span(new, 0, len) = old
  BY <1>4, <1>5, <1>6, <1>7, SpanEqual
<1> QED
  BY <1>5, <1>8 DEF new, old, len

\* After EnsureWritableBytes there is room, and the same span.
LEMMA EnsureMakesRoom ==
    ASSUME NEW mem, NEW size, NEW read, NEW write, BlockOK(mem, size, read, write),
           NEW len \in Nat,
           NEW block, block = EnsureWritableBytes(mem, size, read, write, len)
    PROVE  /\ BlockOK(block.mem, block.size, block.read, block.write)
           /\ Span(block.mem, block.read, block.write) = Span(mem, read, write)
           /\ block.write + len <= block.size
<1>1. /\ {size, read, write} \subseteq Nat
      /\ read <= write /\ write <= size
  BY DEF BlockOK
<1>2. CASE ~(size - write < len)
  BY <1>1, <1>2 DEF EnsureWritableBytes
<1>3. CASE size - write < len /\ size - write + read < len
  <2>1. /\ block.mem = Grown(mem, write + len) /\ block.size = write + len
        /\ block.read = read /\ block.write = write
    BY <1>3 DEF EnsureWritableBytes, MakeSpace
  <2>2. write + len \in Nat /\ size <= write + len
    BY <1>1, <1>3
  <2> QED
    BY <2>1, <2>2, GrownKeeps
<1>4. CASE size - write < len /\ ~(size - write + read < len)
  <2>1. /\ block.mem = MovedToFront(mem, read, write) /\ block.size = size
        /\ block.read = 0 /\ block.write = write - read
    BY <1>4 DEF EnsureWritableBytes, MakeSpace
  <2>2. (write - read) + len <= size
    BY <1>1, <1>4
  <2> QED
    BY <2>1, <2>2, MovedKeeps
<1> QED
  BY <1>2, <1>3, <1>4

-----------------------------------------------------------------------------
(* The invariant, and the byte queue *)

BufferInv ==
    /\ BlockOK(m_buffer_, m_buffer_size_, m_read_index_, m_write_index_)
    /\ TypeOK

LEMMA ReadableIsSpan == Readable = Span(m_buffer_, m_read_index_, m_write_index_)
  BY DEF Readable, ReadableBytes, Span

\* Buffer::Append, on whatever block it finds.
LEMMA AppendToAppends ==
    ASSUME NEW mem, NEW size, NEW read, NEW write, BlockOK(mem, size, read, write),
           NEW d \in Seq(Bytes), AppendTo(mem, size, read, write, d)
    PROVE  /\ BlockOK(m_buffer_, m_buffer_size_, m_read_index_, m_write_index_)'
           /\ Readable' = Span(mem, read, write) \o d
<1>1. Len(d) \in Nat
  BY LenProperties
<1> DEFINE block == EnsureWritableBytes(mem, size, read, write, Len(d))
           bmem == block.mem
           bsize == block.size
           bread == block.read
           bwrite == block.write
           w == bwrite + Len(d)
<1>2. /\ m_buffer_size_' = bsize
      /\ m_buffer_' = Copied(bmem, bwrite, d)
      /\ m_read_index_' = bread
      /\ m_write_index_' = w
  BY DEF AppendTo
<1> HIDE DEF block
<1>3. /\ BlockOK(bmem, bsize, bread, bwrite)
      /\ Span(bmem, bread, bwrite) = Span(mem, read, write)
      /\ w <= bsize
  BY <1>1, EnsureMakesRoom DEF block
<1> HIDE DEF bmem, bsize, bread, bwrite
<1>4. w \in bwrite .. bsize /\ Len(d) = w - bwrite
  BY <1>1, <1>3 DEF BlockOK
<1> HIDE DEF w
<1>5. /\ BlockOK(Copied(bmem, bwrite, d), bsize, bread, w)
      /\ Span(Copied(bmem, bwrite, d), bread, w)
            = Span(bmem, bread, bwrite) \o SubSeq(d, 1, Len(d))
  BY <1>1, <1>3, <1>4, CopiedAppends
<1>6. SubSeq(d, 1, Len(d)) = d
  BY SubSeqFull
<1>7. Readable' = Span(m_buffer_', m_read_index_', m_write_index_')
  BY DEF Readable, ReadableBytes, Span
<1> QED
  BY <1>2, <1>3, <1>4, <1>5, <1>6, <1>7

LEMMA ChunksAreSeqs == Chunks \subseteq Seq(Bytes)
  BY BufferAssumption DEF Chunks

\* What the invariant says of the bytes that wait.
LEMMA ReadableFacts ==
    ASSUME BufferInv
    PROVE  /\ Readable = Span(m_buffer_, m_read_index_, m_write_index_)
           /\ Readable \in Seq(Bytes)
           /\ Len(Readable) = ReadableBytes
           /\ ReadableBytes \in Nat
<1>1. Readable = Span(m_buffer_, m_read_index_, m_write_index_)
  BY ReadableIsSpan
<1>2. ReadableBytes \in Nat
  BY DEF BufferInv, BlockOK, ReadableBytes
<1> QED
  BY <1>1, <1>2, SpanIsSeq DEF BufferInv, ReadableBytes

\* An operation that leaves the block as BlockOK says leaves the invariant.
LEMMA BlockKeepsInv ==
    ASSUME BlockOK(m_buffer_, m_buffer_size_, m_read_index_, m_write_index_)',
           call'.op \in {"Buffer", "Add", "Drop", "TakeBack", "Clear"}
    PROVE  BufferInv'
  BY DEF BlockOK, BufferInv, TypeOK

LEMMA BufferAppendAdds ==
    ASSUME BufferInv, NEW d \in Chunks, BufferAppend(d)
    PROVE  BufferInv' /\ Queue!Add
<1>1. d \in Seq(Bytes)
  BY ChunksAreSeqs
<1>2. /\ BlockOK(m_buffer_, m_buffer_size_, m_read_index_, m_write_index_)'
      /\ Readable' = Readable \o d
  BY <1>1, AppendToAppends, ReadableIsSpan DEF BufferInv, BufferAppend
<1>3. call'.op = "Add" /\ call'.data = d
  BY DEF BufferAppend, Added
<1> QED
  BY <1>1, <1>2, <1>3, BlockKeepsInv DEF Queue!Add

\* The piece that fills the block and the piece in extrabuf end up in a row.
LEMMA ReadAdds ==
    ASSUME BufferInv, NEW d \in Chunks, Read(d)
    PROVE  BufferInv' /\ Queue!Add
<1> DEFINE filled == Copied(m_buffer_, m_write_index_, d)
           room == WritableBytes
<1>1. d \in Seq(Bytes) /\ Len(d) \in Nat
  BY ChunksAreSeqs, LenProperties
<1>2. call'.op = "Add" /\ call'.data = d
  BY DEF Read, Added
<1>3. BlockOK(m_buffer_, m_buffer_size_, m_read_index_, m_write_index_)
  BY DEF BufferInv
<1>4. /\ {m_read_index_, m_write_index_, m_buffer_size_, room} \subseteq Nat
      /\ m_write_index_ + room = m_buffer_size_
      /\ room = m_buffer_size_ - m_write_index_
  BY <1>3 DEF BlockOK, WritableBytes
<1>5. CASE Len(d) < room
  <2> DEFINE w == m_write_index_ + Len(d)
  <2>1. /\ m_buffer_' = filled /\ m_write_index_' = w
        /\ UNCHANGED <<m_buffer_size_, m_read_index_>>
    BY <1>5 DEF Read
  <2> DEFINE n == Len(d)
  <2>2. /\ w \in m_write_index_ .. m_buffer_size_
        /\ n = w - m_write_index_ /\ n <= Len(d)
    BY <1>1, <1>4, <1>5
  <2> HIDE DEF w, n
  <2>3. /\ BlockOK(filled, m_buffer_size_, m_read_index_, w)
        /\ Span(filled, m_read_index_, w)
              = Span(m_buffer_, m_read_index_, m_write_index_) \o SubSeq(d, 1, n)
    BY <1>1, <1>3, <2>2, CopiedAppends
  <2>4. SubSeq(d, 1, n) = d
    BY <1>1, SubSeqFull DEF n
  <2>5. Readable' = Span(m_buffer_', m_read_index_', m_write_index_')
    BY DEF Readable, ReadableBytes, Span
  <2>6. Readable' = Readable \o d
    BY ReadableIsSpan, <2>1, <2>2, <2>3, <2>4, <2>5
  <2>7. BlockOK(m_buffer_, m_buffer_size_, m_read_index_, m_write_index_)'
    BY <2>1, <2>3
  <2> QED
    BY <1>1, <1>2, <2>6, <2>7, BlockKeepsInv DEF Queue!Add
<1>6. CASE ~(Len(d) < room)
  <2> DEFINE head == SubSeq(d, 1, room)
             rest == SubSeq(d, room + 1, Len(d))
  <2>1. AppendTo(filled, m_buffer_size_, m_read_index_, m_buffer_size_, rest)
    BY <1>6 DEF Read
  <2>2. /\ m_buffer_size_ \in m_write_index_ .. m_buffer_size_
        /\ room = m_buffer_size_ - m_write_index_ /\ room <= Len(d)
    BY <1>1, <1>4, <1>6
  <2> HIDE DEF room
  <2>3. /\ BlockOK(filled, m_buffer_size_, m_read_index_, m_buffer_size_)
        /\ Span(filled, m_read_index_, m_buffer_size_)
              = Span(m_buffer_, m_read_index_, m_write_index_) \o head
    BY <1>1, <1>3, <2>2, CopiedAppends
  <2>4. head \in Seq(Bytes) /\ rest \in Seq(Bytes) /\ head \o rest = d
    <3>1. \A k \in 1 .. Len(d) : d[k] \in Bytes
      BY <1>1, ElementOfSeq
    <3>2. /\ room \in Int /\ room + 1 \in Int /\ Len(d) \in Int
          /\ \A k \in 1 .. room : d[k] \in Bytes
          /\ \A k \in room + 1 .. Len(d) : d[k] \in Bytes
      <4>1. room \in Nat /\ Len(d) \in Nat /\ room <= Len(d)
        BY <1>1, <1>4, <1>6
      <4> QED
        BY ONLY <3>1, <4>1
    <3>3. head \in Seq(Bytes) /\ rest \in Seq(Bytes)
      BY <3>2, SubSeqProperties
    <3>4. 1 \in 1 .. Len(d) + 1 /\ room \in 1 - 1 .. Len(d) /\ Len(d) \in room .. Len(d)
      BY <1>1, <1>4, <1>6
    <3>5. head \o rest = SubSeq(d, 1, Len(d))
      BY <1>1, <3>4, ConcatAdjacentSubSeq
    <3>6. SubSeq(d, 1, Len(d)) = d
      BY <1>1, SubSeqFull
    <3> QED
      BY <3>3, <3>5, <3>6
  <2> HIDE DEF head, rest, filled
  <2>5. /\ BlockOK(m_buffer_, m_buffer_size_, m_read_index_, m_write_index_)'
        /\ Readable' = (Readable \o head) \o rest
    BY ReadableIsSpan, <2>1, <2>3, <2>4, AppendToAppends
  <2>6. Readable' = Readable \o d
    <3>1. Readable \in Seq(Bytes)
      BY ReadableFacts
    <3>2. (Readable \o head) \o rest = Readable \o (head \o rest)
      <4> DEFINE old == Readable
      <4>1. old \in Seq(Bytes) /\ head \in Seq(Bytes) /\ rest \in Seq(Bytes)
        BY <2>4, <3>1
      <4> HIDE DEF old
      <4>2. (old \o head) \o rest = old \o (head \o rest)
        BY <4>1, ConcatAssociative
      <4> QED
        BY <4>2 DEF old
    <3> QED
      BY <2>4, <2>5, <3>2
  <2> QED
    BY <1>1, <1>2, <2>5, <2>6, BlockKeepsInv DEF Queue!Add
<1> QED
  BY <1>5, <1>6

\* An emptied buffer keeps its block and has nothing to read.
LEMMA EmptyEmpties ==
    ASSUME BufferInv, Empty
    PROVE  /\ BlockOK(m_buffer_, m_buffer_size_, m_read_index_, m_write_index_)'
           /\ Readable' = <<>>
<1>1. BlockOK(m_buffer_, m_buffer_size_, m_read_index_, m_write_index_)'
  BY DEF BufferInv, BlockOK, Empty
<1>2. m_write_index_' - m_read_index_' = 0
  BY DEF Empty
<1>3. Readable' = [k \in 1 .. 0 |-> m_buffer_'[m_read_index_' + k - 1]]
  BY <1>2 DEF Readable, ReadableBytes
<1> QED
  BY <1>1, <1>3

LEMMA RetrieveAllClears ==
    ASSUME BufferInv, RetrieveAll
    PROVE  BufferInv' /\ Queue!Clear
<1>1. call'.op = "Clear"
  BY DEF RetrieveAll
<1> QED
  BY <1>1, EmptyEmpties, BlockKeepsInv DEF RetrieveAll, Queue!Clear

\* The invariant of a block does not depend on the bytes left out of a shorter
\* span, and the shorter span is a part of the longer.
LEMMA ShorterSpan ==
    ASSUME NEW mem, NEW size, NEW read, NEW write, BlockOK(mem, size, read, write),
           NEW r \in read .. write, NEW w \in r .. write,
           NEW first, first = r - read + 1, NEW last, last = w - read
    PROVE  /\ BlockOK(mem, size, r, w)
           /\ Span(mem, r, w) = SubSeq(Span(mem, read, write), first, last)
<1> DEFINE old == Span(mem, read, write)
           part == SubSeq(old, first, last)
<1>1. /\ {size, read, write, r, w} \subseteq Nat
      /\ read <= r /\ r <= w /\ w <= write /\ write <= size
      /\ first \in 1 .. last + 1 /\ last \in 0 .. write - read
      /\ last - first + 1 = w - r
  BY DEF BlockOK
<1>2. BlockOK(mem, size, r, w)
  BY <1>1 DEF BlockOK
<1>3. /\ old \in Seq(Bytes) /\ Len(old) = write - read
      /\ \A k \in 1 .. write - read : old[k] = mem[read + k - 1]
  BY SpanIsSeq
<1>4. \A k \in first .. last : k \in 1 .. write - read /\ read + k - 1 = r + (k - first + 1) - 1
  BY <1>1
<1> HIDE DEF old
<1>5. \A k \in first .. last : old[k] \in Bytes
  BY <1>3, <1>4, ElementOfSeq
<1>6. /\ part \in Seq(Bytes)
      /\ Len(part) = IF first <= last THEN last - first + 1 ELSE 0
      /\ \A k \in 1 .. last - first + 1 : part[k] = old[first + k - 1]
  <2>1. first \in Int /\ last \in Int
    BY <1>1
  <2> QED
    BY <1>5, <2>1, SubSeqProperties
<1> HIDE DEF part
<1>7. Len(part) = w - r
  <2>1. first <= last => Len(part) = last - first + 1
    BY <1>6
  <2>2. ~(first <= last) => Len(part) = 0
    BY <1>6
  <2>3. ~(first <= last) => w - r = 0
    BY <1>1
  <2> QED
    BY ONLY <1>1, <2>1, <2>2, <2>3
<1>8. \A k \in 1 .. w - r : part[k] = mem[r + k - 1]
  <2> TAKE k \in 1 .. w - r
  <2> DEFINE j == first + k - 1
  <2>1. j \in 1 .. write - read /\ read + j - 1 = r + k - 1 /\ k \in 1 .. last - first + 1
    BY <1>1
  <2>2. part[k] = old[j]
    BY <1>6, <2>1
  <2> HIDE DEF j
  <2> QED
    BY <1>3, <2>1, <2>2
<1>9. part \in Seq(Bytes)
  BY <1>6
<1>10. Span(mem, r, w) = part
  BY <1>2, <1>7, <1>8, <1>9, SpanEqual, SMTT(60)
<1> QED
  BY <1>2, <1>10 DEF part, old

LEMMA RetrieveDrops ==
    ASSUME BufferInv, NEW n \in 0 .. MaxReadable, Retrieve(n)
    PROVE  BufferInv' /\ Queue!Drop
<1>1. call'.op = "Drop" /\ call'.n = n
  BY DEF Retrieve
<1>2. /\ Readable = Span(m_buffer_, m_read_index_, m_write_index_)
      /\ Readable \in Seq(Bytes) /\ Len(Readable) = ReadableBytes /\ ReadableBytes \in Nat
  BY ReadableFacts
<1>3. n \in 0 .. Len(Readable)
  BY <1>2 DEF Retrieve
<1>4. CASE n < ReadableBytes
  <2> DEFINE r == m_read_index_ + n
  <2>1. m_read_index_' = r /\ UNCHANGED <<m_buffer_, m_buffer_size_, m_write_index_>>
    BY <1>4 DEF Retrieve
  <2>2. /\ r \in m_read_index_ .. m_write_index_ /\ n + 1 = r - m_read_index_ + 1
        /\ m_write_index_ \in r .. m_write_index_
        /\ ReadableBytes = m_write_index_ - m_read_index_
    BY <1>4 DEF BufferInv, BlockOK, ReadableBytes
  <2> DEFINE first == n + 1
             last == ReadableBytes
  <2> HIDE DEF r, first, last
  <2>3. /\ BlockOK(m_buffer_, m_buffer_size_, r, m_write_index_)
        /\ Span(m_buffer_, r, m_write_index_)
              = SubSeq(Span(m_buffer_, m_read_index_, m_write_index_), first, last)
    <3>1. first = r - m_read_index_ + 1 /\ last = m_write_index_ - m_read_index_
      BY <2>2 DEF first, last
    <3> QED
      BY <2>2, <3>1, ShorterSpan DEF BufferInv
  <2>4. Readable' = Span(m_buffer_', m_read_index_', m_write_index_')
    BY DEF Readable, ReadableBytes, Span
  <2>5. Readable' = SubSeq(Readable, n + 1, Len(Readable))
    BY <1>2, <2>1, <2>3, <2>4 DEF first, last
  <2>6. BlockOK(m_buffer_, m_buffer_size_, m_read_index_, m_write_index_)'
    BY <2>1, <2>3
  <2> QED
    BY <1>1, <1>3, <2>5, <2>6, BlockKeepsInv DEF Queue!Drop
<1>5. CASE ~(n < ReadableBytes)
  <2>1. Empty
    BY <1>5 DEF Retrieve
  <2>2. n + 1 \in Int /\ Len(Readable) \in Int /\ Len(Readable) < n + 1
    BY <1>2, <1>3, <1>5
  <2>3. SubSeq(Readable, n + 1, Len(Readable)) = <<>>
    BY <2>2, SubSeqEmpty
  <2> QED
    BY <1>1, <1>3, <2>1, <2>3, EmptyEmpties, BlockKeepsInv DEF Queue!Drop
<1> QED
  BY <1>4, <1>5

LEMMA UnWriteTakesBack ==
    ASSUME BufferInv, NEW n \in 0 .. MaxReadable, UnWrite(n)
    PROVE  BufferInv' /\ Queue!TakeBack
<1>1. call'.op = "TakeBack" /\ call'.n = n
  BY DEF UnWrite
<1>2. /\ Readable = Span(m_buffer_, m_read_index_, m_write_index_)
      /\ Readable \in Seq(Bytes) /\ Len(Readable) = ReadableBytes /\ ReadableBytes \in Nat
  BY ReadableFacts
<1>3. n \in 0 .. Len(Readable)
  BY <1>2 DEF UnWrite
<1> DEFINE w == m_write_index_ - n
           r == m_read_index_
           first == 1
           last == ReadableBytes - n
<1>4. m_write_index_' = w /\ UNCHANGED <<m_buffer_, m_buffer_size_, m_read_index_>>
  BY DEF UnWrite
<1>5. /\ r \in m_read_index_ .. m_write_index_ /\ w \in r .. m_write_index_
      /\ first = r - m_read_index_ + 1 /\ last = w - m_read_index_
  BY DEF BufferInv, BlockOK, ReadableBytes, UnWrite
<1> HIDE DEF w, r, first, last
<1>6. /\ BlockOK(m_buffer_, m_buffer_size_, r, w)
      /\ Span(m_buffer_, r, w)
            = SubSeq(Span(m_buffer_, m_read_index_, m_write_index_), first, last)
  BY <1>5, ShorterSpan DEF BufferInv
<1>7. Readable' = Span(m_buffer_', m_read_index_', m_write_index_')
  BY DEF Readable, ReadableBytes, Span
<1>8. Readable' = SubSeq(Readable, 1, Len(Readable) - n)
  BY <1>2, <1>4, <1>6, <1>7 DEF r, first, last
<1>9. BlockOK(m_buffer_, m_buffer_size_, m_read_index_, m_write_index_)'
  BY <1>4, <1>6 DEF r
<1> QED
  BY <1>1, <1>3, <1>8, <1>9, BlockKeepsInv DEF Queue!TakeBack

-----------------------------------------------------------------------------
(* The theorems *)

LEMMA BufferInit == Init => BufferInv /\ Queue!Init
<1> SUFFICES ASSUME Init PROVE BufferInv /\ Queue!Init
  OBVIOUS
<1> USE BufferAssumption DEF Init
<1>1. BlockOK(m_buffer_, m_buffer_size_, m_read_index_, m_write_index_)
  BY DEF BlockOK
<1>2. TypeOK
  BY DEF TypeOK
<1>3. Readable = <<>>
  <2>1. Readable = [k \in 1 .. 0 |-> m_buffer_[m_read_index_ + k - 1]]
    BY DEF Readable, ReadableBytes
  <2> QED
    BY <2>1
<1> QED
  BY <1>1, <1>2, <1>3 DEF BufferInv, Queue!Init

LEMMA BufferStep == BufferInv /\ [Next]_vars => BufferInv' /\ [Queue!Next]_<<Readable, call>>
<1> SUFFICES ASSUME BufferInv, [Next]_vars
             PROVE  BufferInv' /\ [Queue!Next]_<<Readable, call>>
  OBVIOUS
<1> USE DEF Queue!Next
<1>1. CASE \E d \in Chunks : BufferAppend(d) \/ Read(d)
  BY <1>1, BufferAppendAdds, ReadAdds
<1>2. CASE \E n \in 0 .. MaxReadable : Retrieve(n) \/ UnWrite(n)
  BY <1>2, RetrieveDrops, UnWriteTakesBack
<1>3. CASE RetrieveAll
  BY <1>3, RetrieveAllClears
<1>4. CASE UNCHANGED vars
  <2>1. UNCHANGED <<Readable, call>>
    BY <1>4 DEF vars, Readable, ReadableBytes
  <2>2. BufferInv'
    BY <1>4 DEF vars, BufferInv, BlockOK, TypeOK
  <2> QED
    BY <2>1, <2>2
<1> QED
  BY <1>1, <1>2, <1>3, <1>4 DEF Next

LEMMA BufferInvAlways == Spec => []BufferInv
<1>1. Init => BufferInv
  BY BufferInit
<1>2. BufferInv /\ [Next]_vars => BufferInv'
  BY BufferStep
<1> QED
  BY <1>1, <1>2, PTL DEF Spec

\* Every pointer that Buffer computes from an index points into its block, and
\* the assertions of buffer.h hold, whatever sizes the operations are given.
THEOREM IndicesInBlockAlways == Spec => []IndicesInBlock
<1>1. BufferInv => IndicesInBlock
  BY DEF BufferInv, BlockOK, IndicesInBlock
<1> QED
  BY <1>1, BufferInvAlways, PTL

\* Appending, reading in two pieces, moving to the front, growing, retrieving
\* and taking back do to the bytes between the indices what ByteQueue says.
THEOREM BufferIsByteQueue == Spec => ImplementsByteQueue
<1>1. Init => Queue!Init
  BY BufferInit
<1>2. BufferInv /\ [Next]_vars => [Queue!Next]_<<Readable, call>>
  BY BufferStep
<1>3. Spec => Queue!Spec
  BY <1>1, <1>2, BufferInvAlways, PTL DEF Spec, Queue!Spec
<1> QED
  BY <1>3 DEF ImplementsByteQueue

-----------------------------------------------------------------------------
(* The buffers of the log *)

\* No buffer is handed to the writer, so that the queues stay as they were.
LogInv == NeverRotates /\ m_flush_buffer_que_ = <<>>

\* The log starts with an empty current buffer and no queue to flush.
LEMMA InitLogInv == LogInit => LogInv
<1> SUFFICES ASSUME LogInit PROVE LogInv
  OBVIOUS
<1>1. /\ count \in [Threads -> 0 .. MaxLines]
      /\ formatted \in [Threads -> Lines \cup {None}]
      /\ waiting = {}
  BY LogAssumption DEF LogInit
<1>2. /\ content \in [Buffers -> Seq(Lines)]
      /\ \A b \in Buffers : content[b] = <<>>
  BY EmptySeq DEF LogInit
<1>3. /\ m_cur_ptr \in [Buffers -> 0 .. LOG_BUFFER_SIZE]
      /\ m_cur_buffer_ \in Buffers
      /\ avail(m_cur_buffer_) > 0
  BY LogAssumption DEF LogInit, Buffers, avail, length
<1>4. m_free_buffer_que_ \in Seq(Buffers)
  <2>1. m_free_buffer_que_ \in [1 .. BUFFER_NUM -> Buffers]
    BY DEF LogInit, Buffers
  <2> QED
    BY <2>1, LogAssumption
<1>5. m_flush_buffer_que_ = <<>> /\ file = <<>>
  BY DEF LogInit
<1> QED
  BY <1>1, <1>2, <1>3, <1>4, <1>5, EmptySeq DEF LogInv, NeverRotates, LogTypeOK

\* A line that is only formatted is in no buffer yet.
LEMMA WriteKeeps ==
    ASSUME LogInv, NEW t \in Threads, Write(t)
    PROVE  LogInv'
<1>1. PICK size \in Sizes :
         formatted' = [formatted EXCEPT
                          ![t] = [thread |-> t, number |-> count'[t], size |-> size]]
  BY DEF Write
<1>2. count[t] \in 0 .. MaxLines /\ count[t] < MaxLines /\ count' = [count EXCEPT ![t] = @ + 1]
  BY DEF Write, LogInv, NeverRotates, LogTypeOK
<1>3. count'[t] \in 1 .. MaxLines /\ count' \in [Threads -> 0 .. MaxLines]
  BY <1>2, LogAssumption DEF LogInv, NeverRotates, LogTypeOK
<1>4. formatted' \in [Threads -> Lines \cup {None}]
  BY <1>1, <1>3 DEF LogInv, NeverRotates, LogTypeOK, Lines
<1> QED
  BY <1>3, <1>4 DEF Write, LogInv, NeverRotates, LogTypeOK, avail, length

\* append leaves a byte of the buffer, whether it takes the line or not.
LEMMA LogAppendKeeps ==
    ASSUME LogInv, NEW t \in Threads, LogAppend(t)
    PROVE  LogInv'
<1> DEFINE b == m_cur_buffer_
           line == formatted[t]
<1>1. /\ LogBufferAppend(b, line)
      /\ formatted' = [formatted EXCEPT ![t] = None]
      /\ UNCHANGED <<waiting, m_free_buffer_que_, m_flush_buffer_que_, count, m_cur_buffer_, file>>
  BY DEF LogAppend, LogInv, NeverRotates
<1>2. line \in Lines /\ line.size \in Nat /\ line.size > 0
  <2>1. line \in Lines
    BY DEF LogAppend, LogInv, NeverRotates, LogTypeOK
  <2>2. \A size \in Sizes : size \in Nat /\ size > 0
    BY LogAssumption
  <2>3. line.size \in Sizes
    BY <2>1 DEF Lines
  <2> QED
    BY <2>1, <2>2, <2>3
<1>3. b \in Buffers /\ m_cur_ptr[b] \in 0 .. LOG_BUFFER_SIZE
      /\ avail(b) = LOG_BUFFER_SIZE - m_cur_ptr[b]
  BY DEF LogInv, NeverRotates, LogTypeOK, avail, length
<1>4. CASE avail(b) > line.size
  <2>1. Takes(b, line)
    BY <1>1, <1>4 DEF LogBufferAppend
  <2>2. m_cur_ptr' = [m_cur_ptr EXCEPT ![b] = m_cur_ptr[b] + line.size]
    BY <2>1 DEF Takes
  <2>3. m_cur_ptr[b] + line.size \in 0 .. LOG_BUFFER_SIZE - 1
    BY <1>2, <1>3, <1>4, LogAssumption
  <2>4. m_cur_ptr' \in [Buffers -> 0 .. LOG_BUFFER_SIZE]
    BY <2>2, <2>3, LogAssumption DEF LogInv, NeverRotates, LogTypeOK
  <2>5. avail(m_cur_buffer_)' > 0
    BY <1>1, <1>3, <2>2, <2>3, LogAssumption DEF avail, length, LogInv, NeverRotates, LogTypeOK
  <2>6. /\ content' \in [Buffers -> Seq(Lines)]
        /\ \A c \in Buffers \ {b} : content'[c] = <<>>
    <3>1. content' = [content EXCEPT ![b] = Append(content[b], line)]
      BY <2>1 DEF Takes
    <3>2. Append(content[b], line) \in Seq(Lines)
      BY <1>2, <1>3, AppendProperties DEF LogInv, NeverRotates, LogTypeOK
    <3> QED
      BY <3>1, <3>2 DEF LogInv, NeverRotates, LogTypeOK
  <2> QED
    BY <1>1, <2>4, <2>5, <2>6 DEF LogInv, NeverRotates, LogTypeOK
<1>5. CASE ~(avail(b) > line.size)
  <2>1. UNCHANGED <<content, m_cur_ptr>>
    BY <1>1, <1>5 DEF LogBufferAppend
  <2> QED
    BY <1>1, <2>1 DEF LogInv, NeverRotates, LogTypeOK, avail, length
<1> QED
  BY <1>4, <1>5

\* Writing the current buffer out only empties it.
LEMMA WriteOutKeeps ==
    ASSUME LogInv, WriteOut
    PROVE  LogInv'
<1> DEFINE b == m_cur_buffer_
<1>1. /\ file' = file \o content[b]
      /\ content' = [content EXCEPT ![b] = <<>>]
      /\ m_cur_ptr' = [m_cur_ptr EXCEPT ![b] = 0]
      /\ UNCHANGED <<count, formatted, waiting, m_cur_buffer_, m_free_buffer_que_,
                     m_flush_buffer_que_>>
  BY DEF WriteOut, WritesCurrent
<1>2. b \in Buffers /\ content[b] \in Seq(Lines) /\ file \in Seq(Lines)
  BY DEF LogInv, NeverRotates, LogTypeOK
<1>3. file' \in Seq(Lines)
  BY <1>1, <1>2, ConcatProperties
<1>4. content' \in [Buffers -> Seq(Lines)] /\ \A c \in Buffers \ {b} : content'[c] = <<>>
  BY <1>1, EmptySeq DEF LogInv, NeverRotates, LogTypeOK
<1>5. /\ m_cur_ptr' \in [Buffers -> 0 .. LOG_BUFFER_SIZE]
      /\ avail(m_cur_buffer_)' > 0
  BY <1>1, <1>2, LogAssumption DEF LogInv, NeverRotates, LogTypeOK, avail, length
<1> QED
  BY <1>1, <1>3, <1>4, <1>5 DEF LogInv, NeverRotates, LogTypeOK

\* With nothing to flush, the writer's flush changes nothing.
LEMMA FlushKeeps ==
    ASSUME LogInv, Flush
    PROVE  LogInv'
<1>1. m_flush_buffer_que_ = <<>>
  BY DEF LogInv
<1>2. file' = file \o FlattenSeq([k \in DOMAIN <<>> |-> content[m_flush_buffer_que_[k]]])
  BY <1>1 DEF Flush
<1>3. [k \in DOMAIN <<>> |-> content[m_flush_buffer_que_[k]]] = <<>>
  OBVIOUS
<1>4. FlattenSeq(<<>>) = <<>>
  BY DEF FlattenSeq
<1>5. file' = file
  BY <1>2, <1>3, <1>4, ConcatEmptySeq DEF LogInv, NeverRotates, LogTypeOK
<1>6. ToSet(m_flush_buffer_que_) = {}
  BY <1>1 DEF ToSet
<1>7. content' = content /\ m_cur_ptr' = m_cur_ptr
  BY <1>6 DEF Flush, LogInv, NeverRotates, LogTypeOK
<1>8. m_free_buffer_que_' = m_free_buffer_que_ /\ m_flush_buffer_que_' = <<>>
  BY <1>1, ConcatEmptySeq DEF Flush, LogInv, NeverRotates, LogTypeOK
<1> QED
  BY <1>5, <1>7, <1>8 DEF Flush, LogInv, NeverRotates, LogTypeOK, avail, length

\* Every step of the log keeps the invariant.
LEMMA StepLogInv == LogInv /\ [LogNext]_logVars => LogInv'
<1> SUFFICES ASSUME LogInv, [LogNext]_logVars PROVE LogInv'
  OBVIOUS
<1>1. ASSUME NEW t \in Threads, Write(t) PROVE LogInv'
  BY <1>1, WriteKeeps
<1>2. ASSUME NEW t \in Threads, LogAppend(t) PROVE LogInv'
  BY <1>2, LogAppendKeeps
<1>3. CASE WriteOut
  BY <1>3, WriteOutKeeps
<1>4. CASE Flush
  BY <1>4, FlushKeeps
<1>5. CASE UNCHANGED logVars
  BY <1>5 DEF logVars, LogInv, NeverRotates, LogTypeOK, avail, length
<1> QED
  BY <1>1, <1>2, <1>3, <1>4, <1>5 DEF LogNext

\* Whatever the lines, their sizes and the buffers' size, append leaves the last
\* byte of a buffer free, and no thread ever hands one over or waits.
THEOREM NeverRotatesAlways == LogSpec => []NeverRotates
<1>1. LogInv => NeverRotates
  BY DEF LogInv
<1> QED
  BY <1>1, InitLogInv, StepLogInv, PTL DEF LogSpec
=============================================================================
