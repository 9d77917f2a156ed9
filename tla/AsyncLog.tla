------------------------------ MODULE AsyncLog ------------------------------
(***************************************************************************)
(* The file logger (log.cpp, logbuffer.h) after Init: threads format lines *)
(* on their own and append them under m_mutex_; a writer thread wakes up   *)
(* every five seconds, or when it is notified, and writes to the file.     *)
(*                                                                         *)
(* main.cpp sets no log file, so that the program as built prints its      *)
(* lines instead; and it never leaves Loop(), so that ~Log never runs.     *)
(***************************************************************************)
EXTENDS Integers, Sequences

LOCAL INSTANCE SequencesExt

CONSTANTS Threads,         \* threads that log
          MaxLines,        \* bound on the lines of a thread
          Sizes,           \* sizes of lines
          LOG_BUFFER_SIZE,
          BUFFER_NUM,
          None             \* no line

\* Write formats into 4096 bytes, less than the 1 MiB of a buffer.
ASSUME LogAssumption ==
    /\ {LOG_BUFFER_SIZE, BUFFER_NUM} \subseteq Nat \ {0}
    /\ MaxLines \in Nat
    /\ Sizes \subseteq 1 .. LOG_BUFFER_SIZE - 1

VARIABLES count,                \* lines each thread has formatted
          formatted,            \* the line a thread is about to append
          waiting,              \* threads inside m_cond_.wait in Append
          content,              \* the lines in each buffer
          m_cur_ptr,            \* of each buffer, counted from m_data_
          m_cur_buffer_,
          m_free_buffer_que_,
          m_flush_buffer_que_,
          file                  \* the lines in the log file

logVars == <<count, formatted, waiting, content, m_cur_ptr, m_cur_buffer_,
             m_free_buffer_que_, m_flush_buffer_que_, file>>

Lines == [thread : Threads, number : 1 .. MaxLines, size : Sizes]
Buffers == 1 .. BUFFER_NUM

\* LogBuffer::length and avail.
length(b) == m_cur_ptr[b]
avail(b) == LOG_BUFFER_SIZE - length(b)

\* A buffer is never filled past its end.
LogTypeOK ==
    /\ count \in [Threads -> 0 .. MaxLines]
    /\ formatted \in [Threads -> Lines \cup {None}]
    /\ waiting \subseteq Threads
    /\ content \in [Buffers -> Seq(Lines)]
    /\ m_cur_ptr \in [Buffers -> 0 .. LOG_BUFFER_SIZE]
    /\ m_cur_buffer_ \in Buffers
    /\ m_free_buffer_que_ \in Seq(Buffers)
    /\ m_flush_buffer_que_ \in Seq(Buffers)
    /\ file \in Seq(Lines)

\* The current buffer stays at the front of the queue of free ones.
LogInit ==
    /\ count = [t \in Threads |-> 0]
    /\ formatted = [t \in Threads |-> None]
    /\ waiting = {}
    /\ content = [b \in Buffers |-> <<>>]
    /\ m_cur_ptr = [b \in Buffers |-> 0]
    /\ m_cur_buffer_ = 1
    /\ m_free_buffer_que_ = [b \in Buffers |-> b]
    /\ m_flush_buffer_que_ = <<>>
    /\ file = <<>>

-----------------------------------------------------------------------------
(* The threads *)

\* Log::Write up to its call of Append: no lock is held.
Write(t) ==
    /\ formatted[t] = None
    /\ count[t] < MaxLines
    /\ count' = [count EXCEPT ![t] = @ + 1]
    /\ \E size \in Sizes :
          formatted' = [formatted EXCEPT
                           ![t] = [thread |-> t, number |-> count'[t], size |-> size]]
    /\ UNCHANGED <<waiting, content, m_cur_ptr, m_cur_buffer_, m_free_buffer_que_,
                   m_flush_buffer_que_, file>>

\* The line is copied behind what the buffer holds.
Takes(b, line) ==
    /\ content' = [content EXCEPT ![b] = Append(@, line)]
    /\ m_cur_ptr' = [m_cur_ptr EXCEPT ![b] = @ + line.size]

\* Mutant of LogBufferAppend: the last byte may be used.
LogBufferAppendFills(b, line) ==
    IF avail(b) >= line.size THEN Takes(b, line) ELSE UNCHANGED <<content, m_cur_ptr>>

\* LogBuffer::append: a line for which there is no room is dropped.
LogBufferAppend(b, line) ==
    IF avail(b) > line.size THEN Takes(b, line) ELSE UNCHANGED <<content, m_cur_ptr>>

\* A full buffer goes to the writer, and the thread waits while there are free
\* buffers, which is the wrong way round.  What it does when it is woken is
\* left out, since NeverRotates shows that no thread comes here.
Rotate(t) ==
    /\ m_free_buffer_que_' = Tail(m_free_buffer_que_)
    /\ m_flush_buffer_que_' = Append(m_flush_buffer_que_, m_cur_buffer_)
    /\ waiting' = waiting \cup {t}
    /\ UNCHANGED <<content, m_cur_ptr, formatted>>

\* Log::Append.
LogAppend(t) ==
    /\ formatted[t] # None
    /\ t \notin waiting
    /\ IF avail(m_cur_buffer_) > 0
       THEN /\ LogBufferAppend(m_cur_buffer_, formatted[t])
            /\ formatted' = [formatted EXCEPT ![t] = None]
            /\ UNCHANGED <<waiting, m_free_buffer_que_, m_flush_buffer_que_>>
       ELSE Rotate(t)
    /\ UNCHANGED <<count, m_cur_buffer_, file>>

-----------------------------------------------------------------------------
(* Log::Run *)

\* The current buffer is written to the file and reset.
WritesCurrent ==
    /\ file' = file \o content[m_cur_buffer_]
    /\ content' = [content EXCEPT ![m_cur_buffer_] = <<>>]
    /\ m_cur_ptr' = [m_cur_ptr EXCEPT ![m_cur_buffer_] = 0]
    /\ UNCHANGED <<count, formatted, waiting, m_cur_buffer_, m_free_buffer_que_,
                   m_flush_buffer_que_>>

\* Mutant of WriteOut: the file lags behind until a buffer is full.
WriteOutFull == avail(m_cur_buffer_) = 0 /\ WritesCurrent

\* wait_for timed out: the current buffer is written, if it holds anything.
WriteOut == length(m_cur_buffer_) > 0 /\ WritesCurrent

\* wait_for returned without a timeout, as it may at any time: the buffers of
\* the flush queue are written and become free.
Flush ==
    LET que == m_flush_buffer_que_
    IN /\ file' = file \o FlattenSeq([k \in DOMAIN que |-> content[que[k]]])
       /\ content' = [b \in Buffers |-> IF b \in ToSet(que) THEN <<>> ELSE content[b]]
       /\ m_cur_ptr' = [b \in Buffers |-> IF b \in ToSet(que) THEN 0 ELSE m_cur_ptr[b]]
       /\ m_free_buffer_que_' = m_free_buffer_que_ \o que
       /\ m_flush_buffer_que_' = <<>>
       /\ UNCHANGED <<count, formatted, waiting, m_cur_buffer_>>

LogNext ==
    \/ \E t \in Threads : Write(t) \/ LogAppend(t)
    \/ WriteOut
    \/ Flush

\* wait_for times out in the end, however often it returns before.
LogSpec == LogInit /\ [][LogNext]_logVars /\ WF_logVars(WriteOut)

-----------------------------------------------------------------------------
(* Properties *)

\* LogBuffer::append never uses the last byte of a buffer, so that avail() is
\* never 0: Append never reaches its other branch, in which a thread would wait
\* for good, and of the four buffers only the first is ever used.
NeverRotates ==
    /\ LogTypeOK
    /\ avail(m_cur_buffer_) > 0
    /\ waiting = {}
    /\ \A b \in Buffers \ {m_cur_buffer_} : content[b] = <<>>

Holds(q, t, n) == \E k \in DOMAIN q : q[k].thread = t /\ q[k].number = n

\* A line that found room is written, although no thread ever notifies the
\* writer.
KeptIsWritten ==
    \A t \in Threads, n \in 1 .. MaxLines :
        Holds(content[m_cur_buffer_], t, n) ~> Holds(file, t, n)
=============================================================================
