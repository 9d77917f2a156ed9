------------------------------- MODULE Buffer -------------------------------
(***************************************************************************)
(* Buffer (buffer.h, buffer.cpp): one block of memory and two indices.     *)
(* What the block holds outside the two indices is whatever was there      *)
(* before; after malloc and realloc that is Junk.                          *)
(***************************************************************************)
EXTENDS Integers, Sequences

CONSTANTS Bytes,
          Junk,                \* contents of memory nobody has written
          INI_BUFFER_SIZE,
          ExtraSize,           \* sizeof(extrabuf) in Buffer::Read
          MaxReadable          \* bound on the bytes that wait in a buffer

ASSUME BufferAssumption ==
    /\ Junk \notin Bytes
    /\ INI_BUFFER_SIZE \in Nat \ {0}
    /\ ExtraSize \in Nat
    /\ MaxReadable \in Nat

VARIABLES m_buffer_, m_buffer_size_, m_read_index_, m_write_index_,
          call                 \* the operation last called (history)

vars == <<m_buffer_, m_buffer_size_, m_read_index_, m_write_index_, call>>

ReadableBytes == m_write_index_ - m_read_index_
WritableBytes == m_buffer_size_ - m_write_index_
PrependableBytes == m_read_index_

TypeOK ==
    /\ m_buffer_size_ \in Nat
    /\ m_buffer_ \in [0 .. m_buffer_size_ - 1 -> Bytes \cup {Junk}]
    /\ m_read_index_ \in Nat
    /\ m_write_index_ \in Nat
    /\ call.op \in {"Buffer", "Add", "Drop", "TakeBack", "Clear"}

Init ==
    /\ m_buffer_size_ = INI_BUFFER_SIZE
    /\ m_buffer_ = [i \in 0 .. INI_BUFFER_SIZE - 1 |-> Junk]
    /\ m_read_index_ = 0
    /\ m_write_index_ = 0
    /\ call = [op |-> "Buffer"]

-----------------------------------------------------------------------------

\* Memory with d copied to the place it starts at, cut where the block ends.
Copied(mem, at, d) ==
    [i \in DOMAIN mem |-> IF i - at \in 0 .. Len(d) - 1 THEN d[i - at + 1] ELSE mem[i]]

\* realloc keeps what was there and adds memory nobody has written.
Grown(mem, size) == [i \in 0 .. size - 1 |-> IF i \in DOMAIN mem THEN mem[i] ELSE Junk]

\* std::copy of the bytes from `first' up to `last' to the front of the block.
MovedToFront(mem, first, last) ==
    [i \in DOMAIN mem |-> IF i < last - first THEN mem[first + i] ELSE mem[i]]

\* Mutant of MakeSpace: no room for the bytes already taken is asked for.
MakeSpaceReadable(mem, size, read, write, len) ==
    IF size - write + read < len
    THEN [mem |-> Grown(mem, (write - read) + len), size |-> (write - read) + len,
          read |-> read, write |-> write]
    ELSE [mem |-> MovedToFront(mem, read, write), size |-> size,
          read |-> 0, write |-> write - read]

MakeSpace(mem, size, read, write, len) ==
    IF size - write + read < len
    THEN [mem |-> Grown(mem, write + len), size |-> write + len,
          read |-> read, write |-> write]
    ELSE [mem |-> MovedToFront(mem, read, write), size |-> size,
          read |-> 0, write |-> write - read]

EnsureWritableBytes(mem, size, read, write, len) ==
    IF size - write < len
    THEN MakeSpace(mem, size, read, write, len)
    ELSE [mem |-> mem, size |-> size, read |-> read, write |-> write]

Added(d) == call' = [op |-> "Add", data |-> d]

\* Buffer::Append, on memory and indices given.
AppendTo(mem, size, read, write, d) ==
    LET block == EnsureWritableBytes(mem, size, read, write, Len(d))
    IN /\ m_buffer_size_' = block.size
       /\ m_buffer_' = Copied(block.mem, block.write, d)
       /\ m_read_index_' = block.read
       /\ m_write_index_' = block.write + Len(d)

BufferAppend(d) ==
    /\ ReadableBytes + Len(d) <= MaxReadable
    /\ Added(d)
    /\ AppendTo(m_buffer_, m_buffer_size_, m_read_index_, m_write_index_, d)

\* Mutant of Read: the rest, in extrabuf, is forgotten.
ReadNoExtra(d) ==
    LET writable == WritableBytes
    IN /\ ReadableBytes + Len(d) <= MaxReadable
       /\ Added(d)
       /\ Len(d) <= IF writable < ExtraSize THEN writable + ExtraSize ELSE writable
       /\ m_buffer_' = Copied(m_buffer_, m_write_index_, d)
       /\ m_write_index_' =
             IF Len(d) < writable THEN m_write_index_ + Len(d) ELSE m_buffer_size_
       /\ UNCHANGED <<m_buffer_size_, m_read_index_>>

\* Buffer::Read, when readv gets d (nothing at the end of the stream; an error
\* changes nothing).  The kernel fills the block, then extrabuf.
Read(d) ==
    LET writable == WritableBytes
        filled == Copied(m_buffer_, m_write_index_, d)
    IN /\ ReadableBytes + Len(d) <= MaxReadable
       /\ Added(d)
       /\ Len(d) <= IF writable < ExtraSize THEN writable + ExtraSize ELSE writable
       /\ IF Len(d) < writable
          THEN /\ m_buffer_' = filled
               /\ m_write_index_' = m_write_index_ + Len(d)
               /\ UNCHANGED <<m_buffer_size_, m_read_index_>>
          ELSE AppendTo(filled, m_buffer_size_, m_read_index_, m_buffer_size_,
                        SubSeq(d, writable + 1, Len(d)))

Empty ==
    /\ m_read_index_' = 0
    /\ m_write_index_' = 0
    /\ UNCHANGED <<m_buffer_, m_buffer_size_>>

RetrieveAll == Empty /\ call' = [op |-> "Clear"]

\* Buffer::Retrieve and RetrieveUntil, within what the assertions allow.
Retrieve(n) ==
    /\ n <= ReadableBytes
    /\ IF n < ReadableBytes
       THEN /\ m_read_index_' = m_read_index_ + n
            /\ UNCHANGED <<m_buffer_, m_buffer_size_, m_write_index_>>
       ELSE Empty
    /\ call' = [op |-> "Drop", n |-> n]

UnWrite(n) ==
    /\ n <= ReadableBytes
    /\ m_write_index_' = m_write_index_ - n
    /\ UNCHANGED <<m_buffer_, m_buffer_size_, m_read_index_>>
    /\ call' = [op |-> "TakeBack", n |-> n]

Chunks == UNION {[1 .. n -> Bytes] : n \in 0 .. MaxReadable}

Next ==
    \/ \E d \in Chunks : BufferAppend(d) \/ Read(d)
    \/ \E n \in 0 .. MaxReadable : Retrieve(n) \/ UnWrite(n)
    \/ RetrieveAll

Spec == Init /\ [][Next]_vars

-----------------------------------------------------------------------------
(* Properties *)

\* The block has the size the object keeps, and the indices stay in order and
\* inside it: what every assertion of
\* buffer.h and every pointer computed from an index rests on.
IndicesInBlock ==
    /\ TypeOK
    /\ m_read_index_ <= m_write_index_
    /\ m_write_index_ <= m_buffer_size_

Readable == [k \in 1 .. ReadableBytes |-> m_buffer_[m_read_index_ + k - 1]]

Queue == INSTANCE ByteQueue WITH q <- Readable

\* Whatever is moved, reallocated or read in two pieces, the bytes between the
\* indices are those put in and not yet taken, in order.
ImplementsByteQueue == Queue!Spec
=============================================================================
