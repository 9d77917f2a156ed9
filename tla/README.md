# A TLA+ model of MyRtspServer

MyRtspServer (C++17) serves one H.264 and one AAC file over RTSP/RTP.
This directory holds TLA+ modules that model its concurrency and its control
plane, the TLC configurations that check them, and proofs checked by TLAPS.
File names below are relative to the repository (`src/`, `include/`).

## 1. The system

One process, two kinds of thread:

* the **main thread** builds everything (`src/main.cpp`), then runs
  `EventScheduler::Loop` for ever: accepting, reading requests, answering,
  running the sinks' timers, sending RTP packets, deleting connections;
* **eight workers** of the `ThreadPool`, which read access units from the files.

They share the pool's queue (one mutex, one condition variable) and each media
source's two frame queues (one mutex per source). The contents of a frame are
*not* protected by a mutex: the hand-over through the queues has to do it.

| component | state | operations | who calls it | what is hard |
|---|---|---|---|---|
| ThreadPool | task queue, `m_quit_`, mutex, condition variable | `AddTask`, `HandleTask`, `CancelThreads` | sources (main thread and, through tasks, workers) | lost wake-ups, an `if` around the wait, unlocked test of `m_quit_` |
| MediaSource, H264MediaSource, AACMediaSource | input and output queue of 4 frames, file offset, mutex, one `Task` | constructor, `GetFrame`, `PutFrame`, `ReadFrame` | sinks, workers | several workers on one file, buffers used without a lock, failed reads |
| RtpSink, H264RtpSink, AACRtpSink | sequence number, time stamp, timer id | `TimeoutCallback`, `HandleFrame`, `SendRtpPacket` | TimerManager | the frame it sends must not be overwritten |
| TimerManager | timers by id, timers by due time, timerfd | `AddTimer`, `RemoveTimer`, `HandleTimerEvent` | sinks, event loop | two maps that must agree, time moving during callbacks |
| EpollEpoller, EventScheduler | descriptor map, kernel set, event list, trigger list | `AddIOEvent`, `RemoveIOEvent`, `AddTriggerEvent`, `Loop` | everything in the main thread | a batch of ready descriptors that handlers may make stale |
| Acceptor, RtspServer | map of connections, list of descriptors to delete, sessions | `HandleNewConnection`, `HandleDisconnection`, `HandleDisconnectionList` | event loop, connections | deletion put off to the next round, descriptor reuse, failed `accept` |
| TcpConnection, RtspConnection | input/output buffer, method, session, instances per track, transport flag | the RTSP methods, the destructor | event loop | any request order, uninitialised `m_session_`, pointers left in sessions |
| MediaSession, RtpInstance | per track a list of instances, alive flags | `AddRtpInstance`, `RemoveRtpInstance`, `SendPacket`, `StartMulticast` | connections, sinks | lists of bare pointers |
| Buffer | realloc'd bytes, two indices | `Append`, `Retrieve`, `Read`, `MakeSpace` | connections | index arithmetic |
| Log | level; four 1 MB buffers, a writer thread (never started) | `Write`, `Append`, `Run` | everybody | unused in this program: only `printf` runs |
| Sockets, Ipv4Address, UsageEnvironment | none | wrappers | | |

## 2. The modules

| module | models | role |
|---|---|---|
| `TaskService` | what a client of the pool may rely on | abstract specification |
| `ThreadPool` | `threadpool.cpp`, lock by lock | actions and helpers, no `Next` of its own |
| `ThreadPoolService` | the pool with arbitrary clients and an owner that may destroy it | complete specification, refines `TaskService` |
| `FrameStream` | what one source promises its sink | abstract specification |
| `MediaPipeline` | sources, sinks' callbacks and the pool | extends `ThreadPool`, refines one `FrameStream` per source |
| `EventLoop` | `epollpoller.cpp`, `event_scheduler.cpp` | actions and helpers |
| `RtspServer` | acceptor, server, connections, instance lists | extends `EventLoop` |
| `TimerManager` | `timer.cpp` | complete specification |
| `RequestFraming` | `HandleReadBytes`, `ParseRequest`, `HandleRtpOverTcp` over a TCP stream | complete specification, with its client |
| `ByteQueue` | what `Buffer` promises | abstract specification |
| `Buffer` | `buffer.h`, `buffer.cpp` | complete specification, refines `ByteQueue` |
| `RtpSink` | both `HandleFrame` and `SendRtpPacket` | actions and properties of the packets |
| `RtpDelivery` | `MediaSession::SendPacket`, `RtpInstance::Send`, `SendMessage` on one socket | extends `RtpSink`, complete specification |
| `RtpSockets` | descriptors and ports of connections, instances, multicast, `GetLocalIp` | complete specification |
| `H264File`, `AACFile` | how each source cuts a file into frames | actions and what the frames should be |
| `MediaFile` | a source of either kind that plays one file | complete specification, instantiates the two |
| `AsyncLog` | `log.cpp`, `logbuffer.h` with a log file | complete specification |
| `PoolProofs` | proofs about `ThreadPoolService` and `MediaPipeline`, after the lemmas on the steps of the pool that both need | section 4 |
| `TimerProofs`, `BufferProofs`, `RtspServerProofs`, `SocketProofs`, `RequestFramingProofs`, `MediaFileProofs` | proofs about `TimerManager`, `Buffer` and `AsyncLog`, `RtspServer` (with `EventLoop`), `RtpSockets`, `RequestFraming`, and `MediaFile` (with `H264File` and `AACFile`) | section 4 |
| `SinkProofs` | proofs of `RtpSink`'s properties, and of the streams of clients, under `RtpDelivery`'s specification | section 4 |
| `MC...` | instances for TLC | values of the constants and symmetry sets |

State and actions keep the source's names. Where they differ:

* **ThreadPool.** `pc[w]` is the line of `HandleTask` a worker stands at; every
  acquisition of the mutex is a step, so all interleavings of the workers'
  critical sections with `AddTask` and `CancelThreads` are there. `AddTask` is one
  step, because its `lock_guard` scope cannot block. `wait` may return without a
  notification. The unlocked read of `m_quit_` is a data race in C++; the build
  reads the flag afresh in every turn (the loop body takes a lock) and an unlock
  publishes the write, so a read returns the current value.
* **MediaPipeline.** A *token* is a copy of the source's task: queued, running,
  about to be queued by `PutFrame`, or still to be queued by the constructor.
  `cb`, `cbSource`, `cbFrame` are the main thread's position in `TimeoutCallback`.
  An access unit is its number in the file; a frame's buffer holds a unit or
  `NoUnit`. A read may fail for the sources in `BadSources`, and then leaves the
  file offset anywhere.
* **EventLoop.** `phase` is the position in `Loop`; `batch` is what is left of
  what `epoll_wait` returned. The kernel may report any subset of the watched
  descriptors and handlers run in any order, which covers every order the event
  list can have. The wake-up descriptor has no writer and is left out.
* **RtspServer.** A connection object is named by its `IOEvent`. Member
  initialisation is as in the code: `m_session_` starts as `Uninit`, and using it
  either kills the process or finds some session. `accept` may return -1 (`NoFd`).
  An instance is identified with its owner and track. Requests that change nothing
  but buffers are `Other`; everything that makes a handler return false is
  `Hangup`.
* **TimerManager.** Stamps are small naturals; `armed` is the value last given to
  `timerfd_settime`; time passes between any two steps.

* **RequestFraming.** A byte is the message it belongs to, its place in it and a
  symbol; the text of a line is one symbol, because a cut inside a line has the
  effect of a cut at its end (the line is incomplete either way). `Send` is the
  client; `Read` is one call of `HandleRead` with any number of the bytes in flight.
  The size field of a packet whose header has not come completely is any number
  up to `MaxSize`, since it is read from what the buffer held before. Methods that
  are handled alike are one (`PLAIN`). A refused request, a failing handler and a
  failing `SendMessage` all end the connection (`closed`). The history variable
  `orderly` says that the client has so far waited for each answer and that TCP has
  cut no request; packets may be cut all the same.
* **Buffer.** `m_buffer_` is a function from positions to bytes, with `Junk` where
  nobody has written since `malloc` or `realloc`. The history variable `call` names
  the last operation, and is shared with `ByteQueue`, so that the refinement
  compares operation by operation and not only contents.
* **RtpSink, RtpDelivery.** Which of the two sinks it is, `codec`, is chosen at the
  start. A packet carries the places of the frame its bytes come
  from, not the bytes. One step sends one packet, but no request is handled
  between the fragments of a frame, as in the event loop. Requests other than PLAY
  are answered at any other time, before PLAY and between packets
  (`HandleCmdOption`). A socket takes any part of what is written to it; `torn`
  remembers whose.
* **RtpSockets.** The kernel hands out the lowest free descriptor and binds a port
  once. The turns of the loop in `CreateRtpRtcpOverUdp` are steps, and so are the two
  parts of a destructor: the instances close their descriptors (`DeleteInstances`),
  over TCP the connection's own, which the connection then closes again
  (`CloseSocket`). Nothing else happens between these steps (`Idle`), since only the
  event loop opens descriptors.
* **MediaFile, H264File, AACFile.** A file is any sequence of 0, 1 and other bytes, or of
  frame lengths. One frame stands for all, since a frame whose read failed stays
  at the head of the queue. In `H264File` the scan that runs past the bytes that
  were read ends the model (`past`): what it finds there is outside the file. In
  `AACFile` a frame length is at least a header, so that the second read never
  asks for a negative number of bytes.
* **AsyncLog.** A buffer is its lines and, as in the code, the length that has been
  filled (`m_cur_ptr`). Formatting (no lock) and appending (under `m_mutex_`) are two steps.
  `WriteOut` is a timeout of `wait_for`, `Flush` a return without one. How a thread
  that waits in `Append` goes on is left out: `NeverRotates` shows that none gets there.

Operators whose comment begins with "Mutant" are not part of a specification.
They are wrong variants of the definition that follows them, kept beside it
to confirm that each property is sensitive to such a change
(`mutants` in `PROJECT.json`).

## 3. What is checked

| run | configuration | shows |
|---|---|---|
| `pool` | 3 workers, 4 tasks, fair | `EnoughAwake`: one `notify_one` per task is enough; refinement of `TaskService`; `EveryTaskRuns`; `CancelReturns` |
| `pipeline` | 2 workers, 2 sources (one damaged), 2 frames, 2 units, fair | `TokenConservation`, `LocksOwned`, `SendingStable`, refinement of `FrameStream`, `StreamsOrStalls`; no deadlock |
| `rtsp` | 2 descriptors, 3 connection objects, 1 session, 2 tracks, any client, symmetry | `DispatchSafe`, `DisconnectedKnown`, `MapsAgree`, `InstancesListed`, `NothingPendingWhenBlocked`; no deadlock |
| `rtsp_two` | 2 descriptors, 2 objects, 2 sessions, one of them multicast, clients that set up what they described, fair | `InstancesListed`, `DisconnectedFreed`; no deadlock |
| `rtsp_pause` | 2 descriptors, 2 objects, 1 session | **violated**: PAUSE does not stop the packets |
| `timer` | 3 timers, periods 0 to 2, 6 ticks | `TimersPendingOnce`, `OrphansHaveFired`, `OncePerRound`, `DueIsReadable` |
| `framing` | 3 messages, any client, any cut, sizes up to 2 from stale memory, fair | `AnswersMatch` for every client; `HeadAtBoundary`, `NoneLost`, `TransportSticks`, `AnsweredUnlessBehindPacket` for orderly ones |
| `buffer` | a block and an `extrabuf` of 2 bytes, up to 4 readable ones, 2 byte values | `IndicesInBlock`, refinement of `ByteQueue`; no deadlock |
| `rtp` | video frames of 2, 4 and 5 bytes in packets of 2, audio frames of 7 and 8, 2 frames, counters that wrap at 5 (packets) and 4 (time, in steps of 7); two TCP clients, one UDP client, one short write, one answer besides those to PLAY | `FrameCovered`, `FragmentsMarked`, `TimePerFrame`, `FitsAllocation`, `StreamFramed` |
| `sockets` | 2 connections, 2 tracks, few descriptors and ports, 2 tries, symmetry | `DescriptorsAccounted`, `InstancesOpen`, `PortsPaired`; no deadlock |
| `files` | every video file of 4 to 9 bytes in blocks of 6; every audio file of up to 6 bytes | `FramesAreUnits`, `OnlyDamagedFail`, `EveryUnitPlayed` |
| `log` | 2 threads with 3 lines, buffers of 4 bytes, lines of 1 and 2 | `NeverRotates`, `KeptIsWritten`; no deadlock |

The type invariants of `RtspServer`, `TimerManager`, `RequestFraming`, `Buffer`,
`RtpSink`, `RtpSockets`, `MediaFile` and `AsyncLog` are a conjunct of one of these
invariants; those of `ThreadPoolService` and `MediaPipeline` (`ServiceTypeOK`,
`TypeOK`) are proved.

**Bounds.** With three workers one can be parked, one awake and one busy, which is
every distinction the wake-up argument makes, and four tasks fill all workers with
one left in the queue. Two frames per source make both queues non-empty at once
and let a source lose some or all of its tokens; two units tell a repeated or
swapped unit from the expected one. Two descriptors and three objects give reuse
of a descriptor by another object, two connections in one batch, and a connection
from a failed `accept`; `InitListSize = 3` makes the event list grow. Six ticks
let a timer of period 1 fire several times and be overtaken by another. Three
messages are a SETUP over TCP, a packet and a request behind it, or a
GET_PARAMETER between two requests; one payload looks like the end of a line. A
block of two bytes is filled, moved and reallocated within a few calls, and four
readable bytes need both the block and `extrabuf`. Video frames of 2, 4
and 5 bytes fit a packet exactly, need two full fragments, and two with a
remainder; of the audio frames one fits the allocation and one does
not. The time of a second frame has wrapped, and so has the number of the sixth packet. One
answer besides PLAY's comes before PLAY, between two packets, or behind the last of
them, whole or cut short. Nine bytes hold three video units, with codes of either length, or
one that does not fit a block of six and another behind it; six hold three audio
frames. In
`RtpSockets` there are fewer descriptors than two connections with two tracks
over UDP need, and the ports end where a pair could wrap.

The sets of tasks in `ThreadPoolService` (each submitted once), of connection
objects, of timers (`MaxTimerId`), of clock values (`MaxTime`), of messages
(`MaxMessages`), frames (`MaxFrames`), short writes (`MaxShort`), answers to requests other
than PLAY (`MaxAnswers`), calls of
`GetLocalIp` (`MaxLocalIps`), lines (`MaxLines`) and of bytes that wait in a buffer
(`MaxReadable`) are bounds of the models. `CHECK_DEADLOCK FALSE` is used where a
bound, the end of a connection or of the pool, or a scan outside the file stops
the model (`pool`, `timer`, `framing`, `rtp`, `files`).

**Fairness.** `ThreadPoolService`: weak fairness of each worker (a thread that can
run does) and of the owner once it is in the destructor; none for clients, for
the decision to cancel or for spurious wake-ups. `MediaPipeline`: strong fairness
of each worker, of the main thread, and of each repeating timer, because a thread
waiting for a mutex that is released again and again gets it in the end; none
for success or failure of a read. `RtspServer`: weak fairness of the loop as a
whole. `RequestFraming`: weak fairness of `Read`, since the loop keeps running and
epoll is level-triggered, so a descriptor stays ready until it is read; none for
the client, which need not send anything more. `MediaFile`: weak fairness of the
reads, since every frame sent re-posts the source's task. `AsyncLog`: weak
fairness of `WriteOut`, since `wait_for` times out in the end; none for the
threads, nor for a return without a timeout.

**What the runs say about the code.**

* `CancelReturns` carries a proviso: if a worker stands between its unlocked test
  of `m_quit_` and its wait when `notify_all` is called, it parks afterwards and
  `join` waits for ever. Without the proviso TLC finds that trace.
  (`main` never destroys the pool.)
* A failed read loses one task for good; after `DEFAULT_FRAME_NUM` of them a
  source stays silent (`StreamsOrStalls`, exactly this and nothing else).
* `InstancesListed` needs clients that set up the session they described, or a
  server with a single session, as `main` builds it. With two sessions and
  `AnyClients = TRUE` a session keeps a pointer to a deleted instance.
* `RemoveTimer` on a repeating timer that has fired leaves its entry behind
  (`OrphansHaveFired` is the exact extent).
* A request that TCP cuts after a whole header line is answered before it is
  complete, and what follows of it ends the connection (`AnswersMatch`). Two
  requests that come together are handled as one, so that only clients that wait
  for their answers lose nothing, and even these may behind a GET_PARAMETER, which
  is never answered (`NoneLost`).
* One read handles one message: a request that comes together with an interleaved
  packet waits in the buffer until the client sends something else
  (`AnsweredUnlessBehindPacket`).
* Once a SETUP has asked for TCP, every later one on that connection is answered
  with TCP (`TransportSticks`).
* The fragments of a video frame cover its bytes and one from behind it
  (`FrameCovered`), and a last fragment shorter than the others names no NAL unit
  type (`FragmentsMarked`). An audio frame of 1500 bytes or more overruns the
  packet's memory (`FitsAllocation`).
* A write that takes a part of a packet or of an answer leaves that client's stream
  unreadable for good, and only such a write does (`StreamFramed`). Answers may come
  between packets of different frames, and before PLAY is answered they are all that
  comes.
* Every call of `GetLocalIp` leaves a descriptor open; no other path loses one
  (`DescriptorsAccounted`). A connection over TCP has its descriptor closed two or three
  times; that this hits nobody else's rests on the event loop being the only thread
  that opens descriptors, and on nothing being opened in the destructor (the same
  property, and the mutant of `Idle`).
* The frames of a file that is units from end to end are those units in their order,
  and then again from the first (`FramesAreUnits`).
* What follows a video unit that does not fit a frame is never played
  (`EveryUnitPlayed`), and a file without a start code at its beginning can make
  the scan leave the bytes that were read (`OnlyDamagedFail`).
* A log line is dropped when the buffer is full until the writer's timeout; of
  the four buffers three are never used, and the branch in which `Append` would
  wait is never reached (`NeverRotates`).
* `HandleCmdPause` answers and does nothing else, while the repository's README
  names PAUSE as a feature.

## 4. What is proved

Each theorem holds for every value of the constants that satisfies the modules'
assumptions:

| assumption | says | why the code justifies it |
|---|---|---|
| `PoolAssumption` | finitely many workers; the names for no thread and no task are none of theirs | `ThreadPool::ThreadPool` starts eight in a loop |
| `PipelineAssumption` | at least one frame and one unit; the main thread is not a worker | `DEFAULT_FRAME_NUM` is 4; a file without a unit only fails reads, as a source in `BadSources` may |
| `TimerAssumption` | stamps are numbers and the clock starts above 0 | milliseconds of the monotonic clock; 0 disarms a timerfd |
| `BufferAssumption` | the first block holds something; `Junk` is no byte a client sends | `INI_BUFFER_SIZE` is 1024 |
| `EventLoopAssumption`, `ServerAssumption` | finitely many descriptors; the listening and the timer descriptor are none of a connection's; names are distinct; the event list starts with more than two places | the first two are opened before any connection and never closed; the list starts with 16 |
| `SocketsAssumption` | finitely many descriptors; a connection is not named like another kind of owner; ports are drawn from the reserved ones up, below half of `PortMod` | a process has a descriptor table of fixed size; `rand() % 0xfffe`, moved up by 10000 when it is below, in 16 bits |
| `SinkAssumption` | a packet holds at least a byte; what is allocated beyond header and payload covers the interleaved header and the two bytes of a fragment's; an audio frame has its ADTS header | `RTP_MAX_PKT_SIZE` is 1400, the slack is 100 and the two need 6; `AACMediaSource` delivers no frame without one |
| `LogAssumption` | a buffer has room for a byte, there is a buffer, and a line is at least a byte and smaller than a buffer | `LOG_BUFFER_SIZE` is 1 MiB, `BUFFER_NUM` is 4, and `Write` formats into 4096 bytes |
| `FileAssumption` | video files and blocks have at least four bytes; a header and a length in it are at least the ADTS header | a block is 1920 * 1200 bytes and a header 7. From a shorter video file the first read would test bytes that nobody has written, and a smaller length makes a negative read: both are outside the model (section 5) |
| `FramingAssumption` | the bounds are numbers; a payload is made of line ends and other bytes | `HandleReadBytes` looks for `$` and for the text of a request, which are left out of payloads (section 5) |

| theorem | says | argument |
|---|---|---|
| `PoolProofs!ServiceTypeCorrect` | types | `PoolInv` (types, a worker that runs a task has one, the mutex belongs to the worker in the critical section) is preserved by every step of the pool, whoever its clients are |
| `PoolProofs!EnoughAwakeAlways` | `EnoughAwake` | inductive with `PoolInv`: a parked worker gives up nobody's place, since it parks only when the queue is empty while it holds the mutex; an `AddTask` adds one task and moves one worker from parked to awake; cardinalities by `FiniteSetTheorems` |
| `PoolProofs!ServiceRefinement` | `ServiceSpec => Service!Spec` | each action of `HandleTask` maps to `Start`, `Finish` or a stutter. The strengthening says that no task is in two of queue, workers and `finished`, which is what makes `running` (a set of tasks) shrink by exactly one in `Finish` |
| `PoolProofs!NoneParksOnceNotified` | the safety part of `CancelReturns`: if no worker stands between its test of `m_quit_` and its wait when `CancelThreads` notifies them, none waits again (`Leaving`) | an action property; `QuitIsSet` (the flag is set as long as the owner is in `CancelThreads`) is the invariant it needs. What is left to fairness is only that each worker goes on |
| `PoolProofs!TypeCorrect`, `LocksOwnedAlways` | types, `LocksOwned` | inductive together, with: between `GetFrame` and `PutFrame` the callback holds a frame |
| `PoolProofs!TokenConservationAlways` | `TokenConservation` | inductive with types. Occurrences in a queue are counted by `Positions`, with lemmas for `Append` and `Tail`; one lemma per kind of step says how the number of queued and running copies changes. A worker that reaches the input queue holds a token, so the queue is not empty: the empty-queue test of `ReadFrame` is dead code |
| `PoolProofs!SendingStableAlways` | `SendingStable`, an action property | `FInv`: no frame of a source is in two of input queue, output queue and the callback's hands (`OnePlace`), and whatever has left the input queue holds a unit. A worker writes only into the head of the input queue, which is then not the frame being sent. That the queue has a head is `TokenConservation` |
| `PoolProofs!FrameStreams` | every source implements `FrameStream` | each step moves at most one frame of a source: one lemma says which of the moves (`Filled`, `Spoiled`, `Taken`, `Returned`, or none) a step makes, and each maps to a step of `FrameStream` or a stutter. A spoiled buffer is still in the input queue, so that the abstract queue does not see it (`OnePlace`) |
| `PoolProofs!NeverIdleAlways` | the safety part of `StreamsOrStalls`: unless `FrameNum` reads have failed, a copy of the source's task is about, a unit is ready, or one is being sent (`NeverIdle`) | `FrameCount`: the frames of a source in its queues and in the main thread's hands always number `FrameNum`, since every move keeps their sum; `TokenConservation` turns the frames to fill into tokens |
| `TimerProofs!TimersPendingOnceAlways`, `OrphansHaveFiredAlways`, `OncePerRoundAlways`, `DueIsReadableAlways` | the four invariants of `TimerManager` | one inductive invariant, `TimerInv`: ids are given out once, an entry of a timer that has not fired still has the stamp it was added with (which is why `RemoveTimer` finds it), an entry served in this round is due after it, and outside a round the timerfd is armed for the first entry or disarmed when there is none |
| `BufferProofs!IndicesInBlockAlways` | `IndicesInBlock` | `BufferInv`: read index, write index and size in order, the block defined up to its size. `MakeSpace` keeps it in both of its branches, also between the two pieces of a `Read` |
| `BufferProofs!BufferIsByteQueue` | `Buffer` implements `ByteQueue` | the queue is the part of the block between the indices (`Span`). Lemmas say what copying, growing and moving do to a span; each operation then maps to its abstract one |
| `BufferProofs!NeverRotatesAlways` | `NeverRotates` | `LogInv`: the length of the current buffer never reaches its end, as a line is taken only if it leaves room, and so nothing is ever in the queue of buffers to flush, and no thread waits |
| `RtspServerProofs!MapsAgreeAlways`, `DisconnectedKnownAlways`, `DispatchSafeAlways`, `NothingPendingAlways` | the four invariants of `RtspServer` | `ServerInv`: they are inductive together with: the queued descriptors are of live connections and are served in the round after; a trigger event is pending while any is queued; a batch exists only while it is dispatched; names not in use are as the allocator left them. `DispatchSafe` rests on deletion happening in no step of the dispatch |
| `RtspServerProofs!InstancesListedAlways`, `NeverDangling` | `InstancesListed`; and no session follows a pointer to a deleted instance. Both under `NoMixing`: clients set up only what they described (`~AnyClients`, the run `rtsp_two`), or there is one session (`main`, the run `rtsp`) | `ListInv`: the lists of a session hold exactly the instances of the connections whose `m_session_` it is. Without `NoMixing` it is false (section 3) |
| `SocketProofs!DescriptorsAccountedAlways`, `InstancesOpenAlways`, `PortsPairedAlways` | the three invariants of `RtpSockets` | `SocketInv`: inductive with: a closed descriptor is bound to nothing, a connection's own descriptor has no port, instances over TCP have it and those over UDP have others; what holds of the two sockets while `CreateRtpRtcpOverUdp` tries; and a connection in its destructor has no instance left and no set-up going on (`DeletionPending`). The lowest free descriptor exists because the table is finite and the numbers are well-ordered |
| `SinkProofs!FrameCoveredAlways`, `FragmentsMarkedAlways`, `TimePerFrameAlways`, `FitsAllocationAlways` | the four properties of the packets | `SinkInv`: the last packet is of the last frame or, when a frame to be cut has no packet yet, of the one before; the place of `HandleFrame` in the frame is one behind the full fragments it has sent; the sink's time follows from the last packet. One lemma (`PacketKeeps`) says what a packet must satisfy for the properties to be kept, the others that each action sends such a packet; the arithmetic of the cut (`Division`, `FullFragments`) is apart. That the properties hold through every wrap of a counter needs no more than that a time is a remainder |
| `SinkProofs!StreamFramedAlways` | `StreamFramed`, for any number of clients, answers (`MaxAnswers`), packets and short writes | `DeliveryInv`: before its PLAY a client has answers only; and the boundaries of the pieces a client has read form a path from the first symbol to the end of its stream or, once a write was short, to a piece that can never become whole (`Broken`). Appending a piece extends a path by one place. That a client that parses its stream visits a path to its end is shown with the greatest place it visits |
| `MediaFileProofs!FramesAreUnitsAlways`, `OnlyDamagedFailAlways` | the two invariants of `MediaFile`, for files of any length; `FramesAreUnits` of those that are well-formed (`WellFormed`: video that begins with a start code, ADTS frames from end to end), and both with ADTS lengths of at least a header (`FileAssumption`) | `AACInv`: of a file of units, every read starts at a unit or at the end. The units are the least set of headers that holds the first and, with a header, the one behind its frame. `H264Inv`: a read starts at a code (`AtCode`) or, in a file that begins with none, at whole blocks (`Searching`). The block of a read shows exactly the codes of the file that lie in it (lemmas on `Code4`, `Code3` and the scan), and no unit starts inside another's code; so the scan finds the end of the unit, if it fits |
| `RequestFramingProofs!AnswersMatchAlways` | `AnswersMatch`, with the types, for any client | `StreamInv`: the bytes in the buffer and on the wire, put together, are a contiguous part of those sent, which ends with the last message; a read only drops bytes at the front (`ReadCases` says which, for each way through `HandleReadBytes`). So a request that parses is a line that is followed by its own CSeq (`Parsed`). `AnswerInv`: lines still in the stream are of requests after those answered; and an answer given too early leaves CR LF at the head of the stream, with which no request and no packet begins, so that the next read refuses it |
| `RequestFramingProofs!HeadAtBoundaryAlways`, `NoneLostAlways`, `TransportSticksAlways` | the three invariants about an orderly client | inductive with those: what is behind the last line end that came is a message or the rest of a packet with a line end in it (`HeadInv`); every request before another was settled when that one was sent, and one that is not settled is still in the stream from its line on, or behind a keep-alive (`OrderInv`); so a Transport header found behind a request that is answered is its own, and the flag follows the requests taken (`TransportInv`) |

Each inductive invariant was also checked by TLC on the run's instance;
`DeliveryInv`, which quantifies over sets of places, on one frame and two clients.

The library's induction principles cannot be instantiated here. Where a property is
about what a recursion computes, the proofs do without: how a client parses its
stream is followed along a set of places, what the units of an audio file are is
stated as a least set (which TLC compared with a recursive definition), and a
smallest or greatest counterexample, which exists because numbers are well-ordered,
takes the place of an induction step.

Outside the prover's reach, and model-checked only, is liveness: `EveryTaskRuns`,
`CancelReturns`, `StreamsOrStalls`, `DisconnectedFreed`, `AnsweredUnlessBehindPacket`,
`EveryUnitPlayed` and `KeptIsWritten`. They rest on fairness and `ENABLED`. The
safety parts of `CancelReturns` and `StreamsOrStalls` are proved.

## 5. Not modelled

* Text: the session description, URLs, the wording of headers and answers,
  addresses. A header is a symbol that a request has or has not.
* Payloads of interleaved packets with a `$`, or the text of a request, behind a line
  end: a read that drops a request together with such a line end would take them for
  a message. `RequestFraming` has payloads of line ends and other bytes only
  (`FramingAssumption`); `HeadAtBoundary` says that a buffer can begin there.
* Socket options, `IgnoreSigPipeOnSocket` among them, and a write to a connection
  that was reset, which ends the process: the models say what holds while it lives.
* Operations without a caller: `EnableWriteHandling` and its kin, so that only read
  interest exists; `RunInLocalThread` and `WakeUp`; `RtpSink::Stop`; `~ThreadPool`
  is modelled although `main` never gets there.
* Video files of fewer than four bytes, and ADTS lengths smaller than the header
  (`FileAssumption`).
* `~Log`, and how a thread that waits in `Append` goes on, which `NeverRotates` shows
  to be out of reach.
* The models of the connection meet at their interfaces, not in one state space:
  `RtspServer` has whole requests and no sockets but the connection's own,
  `RequestFraming` one connection's bytes, `RtpSockets` descriptors and ports,
  `RtpDelivery` the bytes written. In `RtspServer` a freed object's name is not
  reused while a session still points to it, so that a dangling pointer stays
  visible.

## 6. Plan

The models cover the components, and every safety property of section 3 is proved,
as are the refinements of the pool, of the pipeline and of the buffer.
What remains is liveness, which needs a prover for fairness and `ENABLED`.
