---------------------------- MODULE MediaPipeline ----------------------------
(***************************************************************************)
(* From the media files to the sinks: MediaSource (media_source.h) with    *)
(* its two implementations of ReadFrame, and RtpSink::TimeoutCallback      *)
(* (rtpsink.h), over the thread pool.                                      *)
(*                                                                         *)
(* A source owns FrameNum frames, which travel                             *)
(*     input queue -> (a worker reads the file) -> output queue            *)
(*                 -> (the event loop sends it) -> input queue             *)
(* and one Task object; a copy of the task in the pool's queue, a worker   *)
(* running it, or a pending AddTask is a "token" that fills one frame.     *)
(* Threads: the pool's workers and the main thread, which constructs the   *)
(* sources and then runs the sinks' timers in the event loop.              *)
(***************************************************************************)
EXTENDS ThreadPool

CONSTANTS FrameNum,     \* DEFAULT_FRAME_NUM
          FileLen,      \* access units in a media file
          BadSources,   \* sources whose file does not parse everywhere
          MainThread,   \* the thread of main() and the event loop
          NoUnit        \* content of a frame that holds no access unit

\* Each source owns exactly one Task, m_task_.
Sources == Tasks
Frames == 1 .. FrameNum
NoFrame == 0
Units == 0 .. FileLen - 1

ASSUME PipelineAssumption ==
    /\ FrameNum \in Nat \ {0}
    /\ FileLen \in Nat \ {0}
    /\ BadSources \subseteq Sources
    /\ MainThread \notin Workers \cup {NoThread}
    /\ NoUnit \notin Units

VARIABLES boot,       \* AddTask calls the constructor has yet to make
          input,      \* m_av_frame_input_que_
          output,     \* m_av_frame_output_que_
          unit,       \* access unit in each frame's buffer
          filePos,    \* file offset, in units
          src_mtx,    \* holder of MediaSource::m_mtx_
          lost,       \* reads that failed so far
          cb,         \* where the main thread is in TimeoutCallback
          cbSource,   \* ... of the sink of this source
          cbFrame     \* ... and its local variable `frame'

sourceVars == <<input, output, unit, filePos, lost>>
cbVars == <<cb, cbSource, cbFrame>>
vars == <<poolVars, boot, sourceVars, src_mtx, cbVars>>

TypeOK ==
    /\ PoolTypeOK
    /\ boot \in [Sources -> 0 .. FrameNum]
    /\ input \in [Sources -> Seq(Frames)]
    /\ output \in [Sources -> Seq(Frames)]
    /\ unit \in [Sources -> [Frames -> Units \cup {NoUnit}]]
    /\ filePos \in [Sources -> Units]
    /\ src_mtx \in [Sources -> Workers \cup {MainThread, NoThread}]
    /\ lost \in [Sources -> Nat]
    /\ cb \in {"idle", "get", "handle", "put", "add"}
    /\ cbSource \in Sources
    /\ cbFrame \in Frames \cup {NoFrame}

\* MediaSource::MediaSource has run: all frames wait to be filled.
Init ==
    /\ PoolInit
    /\ boot = [s \in Sources |-> FrameNum]
    /\ input = [s \in Sources |-> [i \in Frames |-> i]]
    /\ output = [s \in Sources |-> <<>>]
    /\ unit = [s \in Sources |-> [f \in Frames |-> NoUnit]]
    /\ filePos = [s \in Sources |-> 0]
    /\ src_mtx = [s \in Sources |-> NoThread]
    /\ lost = [s \in Sources |-> 0]
    /\ cb = "idle"
    /\ cbSource \in Sources
    /\ cbFrame = NoFrame

-----------------------------------------------------------------------------
(* Main thread, before the event loop: the constructors, one at a time *)

PostTask(s) ==
    /\ boot[s] > 0
    /\ \A o \in Sources \ {s} : boot[o] \in {0, FrameNum}
    /\ AddTask(s)
    /\ boot' = [boot EXCEPT ![s] = @ - 1]
    /\ UNCHANGED <<sourceVars, src_mtx, cbVars>>

-----------------------------------------------------------------------------
(* Main thread, in the event loop: RtpSink::TimeoutCallback *)

Timeout(s) ==
    /\ \A o \in Sources : boot[o] = 0
    /\ cb = "idle"
    /\ cb' = "get"
    /\ cbSource' = s
    /\ UNCHANGED <<poolVars, boot, sourceVars, src_mtx, cbFrame>>

\* Mutant of GetFrame: front() without pop().
GetFrameNoPop ==
    /\ cb = "get"
    /\ src_mtx[cbSource] = NoThread
    /\ IF output[cbSource] = <<>>
       THEN cb' = "idle" /\ UNCHANGED cbFrame
       ELSE cb' = "handle" /\ cbFrame' = Head(output[cbSource])
    /\ UNCHANGED <<poolVars, boot, sourceVars, src_mtx, cbSource>>

\* GetFrame() keeps the source's mutex for its whole, non-blocking body.
GetFrame ==
    /\ cb = "get"
    /\ src_mtx[cbSource] = NoThread
    /\ IF output[cbSource] = <<>>
       THEN /\ cb' = "idle"
            /\ UNCHANGED <<output, cbFrame>>
       ELSE /\ cb' = "handle"
            /\ cbFrame' = Head(output[cbSource])
            /\ output' = [output EXCEPT ![cbSource] = Tail(@)]
    /\ UNCHANGED <<poolVars, boot, input, unit, filePos, lost, src_mtx, cbSource>>

\* HandleFrame() reads the frame's buffer with no lock held.
HandleFrame ==
    /\ cb = "handle"
    /\ cb' = "put"
    /\ UNCHANGED <<poolVars, boot, sourceVars, src_mtx, cbSource, cbFrame>>

\* PutFrame(): the source's mutex is held while AddTask waits for the pool's.
PutFrame ==
    /\ cb = "put"
    /\ src_mtx[cbSource] = NoThread
    /\ src_mtx' = [src_mtx EXCEPT ![cbSource] = MainThread]
    /\ input' = [input EXCEPT ![cbSource] = Append(@, cbFrame)]
    /\ cb' = "add"
    /\ cbFrame' = NoFrame
    /\ UNCHANGED <<poolVars, boot, output, unit, filePos, lost, cbSource>>

\* Mutant of PutFrameAddTask: the frame goes back with no task to fill it.
PutFrameNoTask ==
    /\ cb = "add"
    /\ src_mtx' = [src_mtx EXCEPT ![cbSource] = NoThread]
    /\ cb' = "idle"
    /\ UNCHANGED <<poolVars, boot, sourceVars, cbSource, cbFrame>>

PutFrameAddTask ==
    /\ cb = "add"
    /\ AddTask(cbSource)
    /\ src_mtx' = [src_mtx EXCEPT ![cbSource] = NoThread]
    /\ cb' = "idle"
    /\ UNCHANGED <<boot, sourceVars, cbSource, cbFrame>>

-----------------------------------------------------------------------------
(* Workers: the task's callback, ReadFrame() *)

ReadFrame(w) ==
    /\ pc[w] = "handle"
    /\ src_mtx[task[w]] = NoThread
    /\ src_mtx' = [src_mtx EXCEPT ![task[w]] = w]
    /\ UNCHANGED <<poolVars, boot, sourceVars, cbVars>>

Reading(w) == pc[w] = "handle" /\ src_mtx[task[w]] = w

\* Mutant of ReadDone: a return path that leaves the mutex locked.
ReadDoneLocked(w) == Handled(w) /\ UNCHANGED <<src_mtx, boot, cbVars>>

ReadDone(w) ==
    /\ Handled(w)
    /\ src_mtx' = [src_mtx EXCEPT ![task[w]] = NoThread]
    /\ UNCHANGED <<boot, cbVars>>

\* GetFrameFromH264File / GetFrameFromAACFile succeed; at the end of the file
\* they rewind.
ReadFrameOk(w) ==
    LET s == task[w]
        f == Head(input[s])
    IN /\ Reading(w)
       /\ IF input[s] = <<>>
          THEN UNCHANGED sourceVars
          ELSE /\ unit' = [unit EXCEPT ![s][f] = filePos[s]]
               /\ filePos' = [filePos EXCEPT ![s] = (@ + 1) % FileLen]
               /\ input' = [input EXCEPT ![s] = Tail(@)]
               /\ output' = [output EXCEPT ![s] = Append(@, f)]
               /\ UNCHANGED lost
       /\ ReadDone(w)

\* Mutant of ReadFrameFail: the frame is handed on whatever the parse returned.
ReadFrameFailDelivers(w) ==
    LET s == task[w]
        f == Head(input[s])
    IN /\ Reading(w)
       /\ s \in BadSources
       /\ input[s] # <<>>
       /\ unit' = [unit EXCEPT ![s][f] = NoUnit]
       /\ \E p \in Units : filePos' = [filePos EXCEPT ![s] = p]
       /\ lost' = [lost EXCEPT ![s] = @ + 1]
       /\ input' = [input EXCEPT ![s] = Tail(@)]
       /\ output' = [output EXCEPT ![s] = Append(@, f)]
       /\ ReadDone(w)

\* They fail (no start code, no ADTS header, frame too long, read error): the
\* frame stays in the input queue, its buffer overwritten, and the file offset
\* stays wherever the failed parse left it.
ReadFrameFail(w) ==
    LET s == task[w]
    IN /\ Reading(w)
       /\ s \in BadSources
       /\ input[s] # <<>>
       /\ unit' = [unit EXCEPT ![s][Head(input[s])] = NoUnit]
       /\ \E p \in Units : filePos' = [filePos EXCEPT ![s] = p]
       /\ lost' = [lost EXCEPT ![s] = @ + 1]
       /\ UNCHANGED <<input, output>>
       /\ ReadDone(w)

Work(w) == WorkerLoop(w) /\ UNCHANGED <<boot, sourceVars, src_mtx, cbVars>>

Wakeup(w) == SpuriousWakeup(w) /\ UNCHANGED <<boot, sourceVars, src_mtx, cbVars>>

-----------------------------------------------------------------------------

MainStep == GetFrame \/ HandleFrame \/ PutFrame \/ PutFrameAddTask

WorkerStep(w) == Work(w) \/ ReadFrame(w) \/ ReadFrameOk(w) \/ ReadFrameFail(w)

Next ==
    \/ \E s \in Sources : PostTask(s) \/ Timeout(s)
    \/ MainStep
    \/ \E w \in Workers : WorkerStep(w) \/ Wakeup(w)

Spec == Init /\ [][Next]_vars

\* Threads run; a thread blocked on a mutex that is released again and again
\* gets it in the end (strong fairness); a repeating timer that is due is
\* served in the end, whatever the other timers do.  Nothing makes a thread
\* wake up spuriously and nothing makes a read fail or succeed.
Fairness ==
    /\ \A s \in Sources : SF_vars(PostTask(s)) /\ SF_vars(Timeout(s))
    /\ SF_vars(MainStep)
    /\ \A w \in Workers : SF_vars(WorkerStep(w))

FairSpec == Spec /\ Fairness

-----------------------------------------------------------------------------
(* Properties *)

Queued(s) == {i \in DOMAIN m_task_que_ : m_task_que_[i] = s}
Running(s) == {w \in Workers : pc[w] = "handle" /\ task[w] = s}
Returning(s) == IF cb = "add" /\ cbSource = s THEN 1 ELSE 0

Tokens(s) == Cardinality(Queued(s)) + Cardinality(Running(s))
             + Returning(s) + boot[s]

\* Tokens and frames to fill stay matched, one lost with every failed read and
\* none ever invented, so ReadFrame's test for an empty input queue never
\* fires, and after FrameNum failed reads nothing reads the source any more.
TokenConservation == \A s \in Sources : Tokens(s) + lost[s] = Len(input[s])

\* The frame the main thread has taken out of the queues.
HeldFrames(s) == IF cb \in {"handle", "put"} /\ cbSource = s THEN {cbFrame} ELSE {}
\* A mutex is held by a thread that is inside the critical section it guards,
\* and the main thread, the only one to nest two mutexes, takes them in the
\* order source, pool; so nothing here can deadlock.
LocksOwned ==
    /\ \A s \in Sources : src_mtx[s] \in Workers => s = task[src_mtx[s]]
                                                     /\ pc[src_mtx[s]] = "handle"
    /\ \A s \in Sources : src_mtx[s] = MainThread <=> cb = "add" /\ cbSource = s
    /\ \A w \in Workers : m_mtx_ = w <=> pc[w] \in {"fetch", "recheck"}

\* No step changes the buffer of the frame the main thread is sending.
SendingStable ==
    [][cb = "handle" => unit'[cbSource][cbFrame] = unit[cbSource][cbFrame]]_vars

\* Each source with its sink is a FrameStream: eight workers read the same
\* file, and still the units leave in file order, none skipped or repeated.
Stream(s) == INSTANCE FrameStream WITH
    MayFail <- s \in BadSources,
    credits <- Len(input[s]) - lost[s],
    ready   <- [i \in DOMAIN output[s] |-> unit[s][output[s][i]]],
    sending <- IF HeldFrames(s) = {} THEN NoUnit ELSE unit[s][cbFrame],
    next    <- filePos[s]

ImplementsFrameStream ==
    /\ \A s \in Sources : Stream(s)!Init
    /\ [][\A s \in Sources : [Stream(s)!Next]_(Stream(s)!vars)]_vars

\* A source is sent for ever, unless failed reads have eaten all its tokens.
StreamsOrStalls ==
    \A s \in Sources : []<>(HeldFrames(s) # {}) \/ <>[](lost[s] = FrameNum)
=============================================================================
