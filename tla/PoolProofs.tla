----------------------------- MODULE PoolProofs ------------------------------
(***************************************************************************)
(* Proofs about the thread pool and what runs on it: ThreadPoolService,    *)
(* for every number of workers and tasks, and MediaPipeline, for any       *)
(* number of sources, workers, frames and file lengths.                    *)
(***************************************************************************)
EXTENDS MediaPipeline, ThreadPoolService, SequenceTheorems, FiniteSetTheorems, TLAPS

-----------------------------------------------------------------------------
(* Every step of the pool preserves PoolInv *)

\* An empty pool has the invariant.
LEMMA PoolInitInv == PoolInit => PoolInv
  BY PoolAssumption, EmptySeq DEF PoolInit, PoolInv, PoolTypeOK, HandlesTask, MutexOwned

\* A step of a worker of HandleTask, at any of its control points.
LEMMA WorkerPoolInv ==
  ASSUME PoolInv, NEW w \in Workers,
         WorkerLoop(w) \/ Handled(w) \/ SpuriousWakeup(w)
  PROVE  PoolInv'
<1> USE PoolAssumption DEF PoolInv, PoolTypeOK, HandlesTask, MutexOwned, Goto
<1>1. CASE CheckQuit(w)
  BY <1>1 DEF CheckQuit
<1>2. CASE Acquire(w)
  BY <1>2 DEF Acquire
<1>3. CASE Wait(w)
  BY <1>3 DEF Wait
<1>4. CASE Quit(w)
  BY <1>4 DEF Quit, PastWait
<1>5. CASE Retry(w)
  BY <1>5 DEF Retry, PastWait
<1>6. CASE Take(w)
  BY <1>6, HeadTailProperties DEF Take, PastWait
<1>7. CASE Handled(w)
  BY <1>7 DEF Handled
<1>8. CASE SpuriousWakeup(w)
  BY <1>8 DEF SpuriousWakeup
<1> QED
  BY <1>1, <1>2, <1>3, <1>4, <1>5, <1>6, <1>7, <1>8 DEF WorkerLoop

\* A call of AddTask by any client.
LEMMA AddTaskPoolInv ==
  ASSUME PoolInv, NEW t \in Tasks, AddTask(t)
  PROVE  PoolInv'
<1> USE PoolAssumption DEF PoolInv, PoolTypeOK, HandlesTask, MutexOwned, AddTask
<1>1. m_task_que_' \in Seq(Tasks)
  BY AppendProperties
<1>2. CASE Parked = {}
  BY <1>1, <1>2 DEF NotifyOne
<1>3. CASE Parked # {}
  <2>1. PICK w \in Parked : Goto(w, "reacquire")
    BY <1>3 DEF NotifyOne
  <2> QED
    BY <1>1, <2>1 DEF Parked, Goto
<1> QED
  BY <1>2, <1>3

\* The two halves of CancelThreads.
LEMMA CancelPoolInv ==
  ASSUME PoolInv, SetQuit \/ NotifyAll
  PROVE  PoolInv'
  BY PoolAssumption
     DEF PoolInv, PoolTypeOK, HandlesTask, MutexOwned, SetQuit, NotifyAll, Parked

\* Any step that leaves the pool alone.
LEMMA StutterPoolInv ==
  ASSUME PoolInv, UNCHANGED poolVars
  PROVE  PoolInv'
  BY DEF PoolInv, PoolTypeOK, HandlesTask, MutexOwned, poolVars

-----------------------------------------------------------------------------
(* The pool with its clients *)

\* Queued and running tasks were submitted and have not finished.
TasksSubmitted ==
    /\ \A i \in DOMAIN m_task_que_ : m_task_que_[i] \in submitted
    /\ \A w \in Workers : pc[w] = "handle" => task[w] \in submitted

ServiceInv == ServiceTypeOK /\ PoolInv /\ TasksSubmitted

LEMMA InitServiceInv == ServiceInit => ServiceInv
  BY PoolInitInv DEF ServiceInit, ServiceInv, PoolInv, ServiceTypeOK, TasksSubmitted, PoolInit

LEMMA StepServiceInv == ServiceInv /\ [ServiceNext]_serviceVars => ServiceInv'
<1> SUFFICES ASSUME ServiceInv, [ServiceNext]_serviceVars
             PROVE  ServiceInv'
  OBVIOUS
<1> USE DEF ServiceInv, ServiceTypeOK, TasksSubmitted
<1> USE DEF PoolInv, PoolTypeOK, HandlesTask
<1>1. ASSUME NEW t \in Tasks, Submit(t)
      PROVE  ServiceInv'
  <2>1. PoolInv'
    BY <1>1, AddTaskPoolInv DEF Submit
  <2>2. \A w \in Workers : pc'[w] = "handle" => pc[w] = "handle" /\ task'[w] = task[w]
    BY <1>1 DEF Submit, AddTask, NotifyOne, Goto, Parked
  <2>3. \A i \in DOMAIN m_task_que_' : m_task_que_'[i] \in submitted'
    BY <1>1, AppendProperties DEF Submit, AddTask
  <2> QED
    BY <1>1, <2>1, <2>2, <2>3 DEF Submit
<1>2. ASSUME NEW w \in Workers, ServiceWork(w)
      PROVE  ServiceInv'
  <2>1. PoolInv'
    BY <1>2, WorkerPoolInv DEF ServiceWork
  <2>2. CASE Take(w)
    <3>1. \A i \in DOMAIN m_task_que_' : m_task_que_'[i] = m_task_que_[i+1] /\ i+1 \in DOMAIN m_task_que_
      BY <2>2, HeadTailProperties DEF Take
    <3>2. Head(m_task_que_) \in submitted
      BY <2>2 DEF Take
    <3> QED
      BY <1>2, <2>1, <2>2, <3>1, <3>2 DEF ServiceWork, Take, Goto
  <2>3. CASE CheckQuit(w) \/ Acquire(w) \/ Wait(w) \/ Quit(w) \/ Retry(w)
    BY <1>2, <2>1, <2>3 DEF ServiceWork, CheckQuit, Acquire, Wait, Quit, Retry, Goto
  <2> QED
    BY <1>2, <2>2, <2>3 DEF ServiceWork, WorkerLoop
<1>3. ASSUME NEW w \in Workers, Finish(w) \/ ServiceWakeup(w)
      PROVE  ServiceInv'
  <2>1. PoolInv'
    BY <1>3, WorkerPoolInv DEF Finish, ServiceWakeup
  <2> QED
    BY <1>3, <2>1 DEF Finish, ServiceWakeup, Handled, SpuriousWakeup, Goto
<1>4. CASE BeginCancel \/ NotifyWorkers
  <2>1. PoolInv'
    BY <1>4, CancelPoolInv DEF BeginCancel, NotifyWorkers
  <2> QED
    BY <1>4, <2>1 DEF BeginCancel, NotifyWorkers, SetQuit, NotifyAll, Parked
<1>5. CASE JoinThreads \/ UNCHANGED serviceVars
  <2>1. PoolInv'
    BY <1>5, StutterPoolInv DEF JoinThreads, serviceVars
  <2> QED
    BY <1>5, <2>1 DEF JoinThreads, serviceVars, poolVars
<1> QED
  BY <1>1, <1>2, <1>3, <1>4, <1>5 DEF ServiceNext

\* Every variable keeps its type, and finished tasks were submitted.
THEOREM ServiceTypeCorrect == ServiceSpec => []ServiceTypeOK
<1>1. ServiceInv => ServiceTypeOK
  BY DEF ServiceInv
<1> QED
  BY InitServiceInv, StepServiceInv, <1>1, PTL DEF ServiceSpec

-----------------------------------------------------------------------------

LEMMA AwakeFinite ==
  IsFiniteSet(Awake) /\ Cardinality(Awake) \in Nat
  BY PoolAssumption, FS_Subset, FS_CardinalityType DEF Awake

\* EnoughAwake is inductive relative to ServiceInv.
LEMMA StepEnoughAwake == ServiceInv /\ EnoughAwake /\ [ServiceNext]_serviceVars => EnoughAwake'
<1> SUFFICES ASSUME ServiceInv, EnoughAwake, [ServiceNext]_serviceVars, ~m_quit_', Parked' # {}
             PROVE  Len(m_task_que_') <= Cardinality(Awake')
  BY DEF EnoughAwake
<1> USE DEF ServiceInv, PoolInv, PoolTypeOK, Goto
<1>0. /\ IsFiniteSet(Awake)
      /\ Cardinality(Awake) \in Nat
      /\ Len(m_task_que_) \in Nat
  BY AwakeFinite, LenProperties
<1>1. ASSUME NEW t \in Tasks, Submit(t)
      PROVE  Len(m_task_que_') <= Cardinality(Awake')
  <2>1. Parked # {}
    BY <1>1 DEF Submit, AddTask, NotifyOne, Parked
  <2>2. PICK w \in Parked : pc' = [pc EXCEPT ![w] = "reacquire"]
    BY <1>1, <2>1 DEF Submit, AddTask, NotifyOne
  <2>3. Awake' = Awake \cup {w} /\ w \notin Awake
    BY <2>2 DEF Awake, Parked
  <2>4. Cardinality(Awake') = Cardinality(Awake) + 1
    BY <1>0, <2>3, FS_AddElement
  <2>5. Len(m_task_que_') = Len(m_task_que_) + 1
    BY <1>1, AppendProperties DEF Submit, AddTask
  <2>6. Len(m_task_que_) <= Cardinality(Awake)
    BY <1>1, <2>1 DEF EnoughAwake, Submit, AddTask
  <2> QED
    BY <1>0, <2>4, <2>5, <2>6
<1>2. ASSUME NEW w \in Workers, ServiceWork(w)
      PROVE  Len(m_task_que_') <= Cardinality(Awake')
  <2>1. CASE CheckQuit(w) \/ Acquire(w) \/ Retry(w)
    <3>1. Awake' = Awake /\ Parked' = Parked /\ UNCHANGED <<m_task_que_, m_quit_>>
      BY <2>1 DEF CheckQuit, Acquire, Retry, PastWait, Awake, Parked
    <3> QED
      BY <3>1 DEF EnoughAwake
  <2>2. CASE Wait(w)
    <3>1. Len(m_task_que_') = 0 /\ Awake' = Awake \ {w}
      BY <2>2 DEF Wait, Awake
    <3> QED
      BY <1>0, <3>1, FS_RemoveElement, FS_CardinalityType
  <2>3. CASE Quit(w)
    BY <2>3 DEF Quit
  <2>4. CASE Take(w)
    <3>1. Awake' = Awake \ {w} /\ w \in Awake /\ Parked' = Parked
      BY <2>4 DEF Take, PastWait, Awake, Parked
    <3>2. Cardinality(Awake') = Cardinality(Awake) - 1
      BY <1>0, <3>1, FS_RemoveElement
    <3>3. Len(m_task_que_') = Len(m_task_que_) - 1
      BY <2>4, HeadTailProperties DEF Take
    <3>4. Len(m_task_que_) <= Cardinality(Awake)
      BY <2>4, <3>1 DEF Take, EnoughAwake
    <3> QED
      BY <1>0, <3>2, <3>3, <3>4
  <2> QED
    BY <1>2, <2>1, <2>2, <2>3, <2>4 DEF ServiceWork, WorkerLoop
<1>3. ASSUME NEW w \in Workers, Finish(w) \/ ServiceWakeup(w)
      PROVE  Len(m_task_que_') <= Cardinality(Awake')
  <2>1. Awake' = Awake \cup {w} /\ w \notin Awake /\ Parked' \subseteq Parked
    BY <1>3 DEF Finish, Handled, ServiceWakeup, SpuriousWakeup, Awake, Parked
  <2>2. UNCHANGED <<m_task_que_, m_quit_>>
    BY <1>3 DEF Finish, Handled, ServiceWakeup, SpuriousWakeup
  <2>3. Cardinality(Awake') = Cardinality(Awake) + 1
    BY <1>0, <2>1, FS_AddElement
  <2> QED
    BY <1>0, <2>1, <2>2, <2>3 DEF EnoughAwake
<1>4. CASE BeginCancel
  BY <1>4 DEF BeginCancel, SetQuit
<1>5. CASE NotifyWorkers
  BY <1>5 DEF NotifyWorkers, NotifyAll, Parked
<1>6. CASE JoinThreads \/ UNCHANGED serviceVars
  <2>1. UNCHANGED <<m_task_que_, m_quit_, pc>>
    BY <1>6 DEF JoinThreads, serviceVars, poolVars
  <2> QED
    BY <2>1 DEF EnoughAwake, Awake, Parked
<1> QED
  BY <1>1, <1>2, <1>3, <1>4, <1>5, <1>6 DEF ServiceNext

\* Whatever the numbers of workers and tasks: while a worker sleeps, every
\* queued task has a worker on its way to it.
THEOREM EnoughAwakeAlways == ServiceSpec => []EnoughAwake
<1>1. ServiceInit => EnoughAwake
  BY DEF ServiceInit, PoolInit, EnoughAwake, Parked
<1> QED
  BY InitServiceInv, StepServiceInv, StepEnoughAwake, <1>1, PTL DEF ServiceSpec

-----------------------------------------------------------------------------
(* The safety part of CancelReturns *)

\* Workers that will find m_quit_ set before they could wait again.
Leaving ==
    /\ m_quit_ /\ owner \in {"join", "joined"}
    /\ \A w \in Workers : pc[w] \notin {"acquire", "fetch", "wait"}

\* The flag is set as long as the owner is in CancelThreads.
QuitIsSet == owner # "open" => m_quit_

LEMMA StepQuitIsSet == QuitIsSet /\ [ServiceNext]_serviceVars => QuitIsSet'
<1> SUFFICES ASSUME QuitIsSet, [ServiceNext]_serviceVars PROVE QuitIsSet'
  OBVIOUS
<1> USE DEF QuitIsSet
<1>1. ASSUME NEW t \in Tasks, Submit(t) PROVE QuitIsSet'
  BY <1>1 DEF Submit, AddTask
<1>2. ASSUME NEW w \in Workers, ServiceWork(w) PROVE QuitIsSet'
  BY <1>2 DEF ServiceWork, WorkerLoop, CheckQuit, Acquire, Wait, Quit, Retry, Take
<1>3. ASSUME NEW w \in Workers, Finish(w) \/ ServiceWakeup(w) PROVE QuitIsSet'
  BY <1>3 DEF Finish, ServiceWakeup, Handled, SpuriousWakeup
<1>4. CASE BeginCancel
  BY <1>4 DEF BeginCancel, SetQuit
<1>5. CASE NotifyWorkers
  BY <1>5 DEF NotifyWorkers, NotifyAll
<1>6. CASE JoinThreads \/ UNCHANGED serviceVars
  BY <1>6 DEF JoinThreads, serviceVars, poolVars
<1> QED
  BY <1>1, <1>2, <1>3, <1>4, <1>5, <1>6 DEF ServiceNext

\* A worker that does not stand before its wait never comes there again.
LEMMA StepLeaving ==
  ASSUME ServiceInv, QuitIsSet, [ServiceNext]_serviceVars
  PROVE  /\ NotifyWorkers /\ (\A w \in Workers : pc[w] \notin {"acquire", "fetch"}) => Leaving'
         /\ Leaving => Leaving'
<1> USE DEF ServiceInv, PoolInv, PoolTypeOK, Goto
<1>1. ASSUME NotifyWorkers, \A w \in Workers : pc[w] \notin {"acquire", "fetch"}
      PROVE  Leaving'
  <2>1. m_quit_' /\ owner' = "join"
    BY <1>1 DEF NotifyWorkers, NotifyAll, QuitIsSet
  <2>2. \A w \in Workers : pc'[w] \notin {"acquire", "fetch", "wait"}
    BY <1>1 DEF NotifyWorkers, NotifyAll, Parked
  <2> QED
    BY <2>1, <2>2 DEF Leaving
<1>2. ASSUME Leaving PROVE Leaving'
  <2> USE DEF Leaving
  <2>1. ASSUME NEW t \in Tasks, Submit(t) PROVE Leaving'
    BY <1>2, <2>1 DEF Submit
  <2>2. ASSUME NEW w \in Workers, ServiceWork(w) PROVE Leaving'
    <3>1. CASE CheckQuit(w) \/ Quit(w) \/ Retry(w) \/ Take(w)
      BY <1>2, <2>2, <3>1 DEF ServiceWork, CheckQuit, Quit, Retry, Take
    <3>2. CASE Acquire(w)
      BY <1>2, <2>2, <3>2 DEF ServiceWork, Acquire
    <3>3. CASE Wait(w)
      BY <1>2, <3>3 DEF Wait
    <3> QED
      BY <2>2, <3>1, <3>2, <3>3 DEF ServiceWork, WorkerLoop
  <2>3. ASSUME NEW w \in Workers, Finish(w) \/ ServiceWakeup(w) PROVE Leaving'
    BY <1>2, <2>3 DEF Finish, ServiceWakeup, Handled, SpuriousWakeup
  <2>4. CASE BeginCancel \/ NotifyWorkers
    BY <1>2, <2>4 DEF BeginCancel, NotifyWorkers
  <2>5. CASE JoinThreads \/ UNCHANGED serviceVars
    BY <1>2, <2>5 DEF JoinThreads, serviceVars, poolVars
  <2> QED
    BY <2>1, <2>2, <2>3, <2>4, <2>5 DEF ServiceNext
<1> QED
  BY <1>1, <1>2

\* If no worker stands between its unlocked test of m_quit_ and its wait when
\* CancelThreads notifies, none is left parked and none parks any more, so that
\* nothing keeps join() waiting but the tasks that run.
THEOREM NoneParksOnceNotified ==
  ServiceSpec =>
    [][/\ NotifyWorkers /\ (\A w \in Workers : pc[w] \notin {"acquire", "fetch"}) => Leaving'
       /\ Leaving => Leaving']_serviceVars
<1>1. ServiceInit => QuitIsSet
  BY DEF ServiceInit, QuitIsSet
<1> QED
  BY InitServiceInv, StepServiceInv, StepQuitIsSet, StepLeaving, <1>1, PTL DEF ServiceSpec

-----------------------------------------------------------------------------

\* A task is in one place at a time, and only the owner closes the pool.
RunsOnce ==
    /\ \A i, j \in DOMAIN m_task_que_ : m_task_que_[i] = m_task_que_[j] => i = j
    /\ \A v, w \in Workers :
          pc[v] = "handle" /\ pc[w] = "handle" /\ task[v] = task[w] => v = w
    /\ \A i \in DOMAIN m_task_que_, w \in Workers :
          pc[w] = "handle" => m_task_que_[i] # task[w]
    /\ owner = "open" => ~m_quit_

LEMMA StepRunsOnce == ServiceInv /\ RunsOnce /\ [ServiceNext]_serviceVars => RunsOnce'
<1> SUFFICES ASSUME ServiceInv, RunsOnce, [ServiceNext]_serviceVars
             PROVE  RunsOnce'
  OBVIOUS
<1> USE DEF ServiceInv, PoolInv, PoolTypeOK, RunsOnce, Goto
<1>1. ASSUME NEW t \in Tasks, Submit(t)
      PROVE  RunsOnce'
  <2>1. \A w \in Workers : pc'[w] = "handle" <=> pc[w] = "handle"
    BY <1>1 DEF Submit, AddTask, NotifyOne, Parked
  <2>2. /\ DOMAIN m_task_que_ = 1 .. Len(m_task_que_)
        /\ DOMAIN m_task_que_' = 1 .. Len(m_task_que_) + 1
        /\ Len(m_task_que_) \in Nat
        /\ \A i \in 1 .. Len(m_task_que_) : m_task_que_'[i] = m_task_que_[i]
        /\ m_task_que_'[Len(m_task_que_) + 1] = t
    BY <1>1, AppendProperties, LenProperties DEF Submit, AddTask
  <2>3. /\ \A i \in DOMAIN m_task_que_ : m_task_que_[i] # t
        /\ \A w \in Workers : pc[w] = "handle" => task[w] # t
    BY <1>1 DEF Submit, TasksSubmitted
  <2>4. \A i \in DOMAIN m_task_que_' : i \in DOMAIN m_task_que_ \/ i = Len(m_task_que_) + 1
    BY <2>2
  <2>5. task' = task /\ owner' = owner /\ m_quit_' = m_quit_
    BY <1>1 DEF Submit, AddTask
  <2>6. \A i, j \in DOMAIN m_task_que_' : m_task_que_'[i] = m_task_que_'[j] => i = j
    BY <2>2, <2>3, <2>4
  <2>7. \A i \in DOMAIN m_task_que_', w \in Workers :
            pc'[w] = "handle" => m_task_que_'[i] # task'[w]
    BY <2>1, <2>2, <2>3, <2>4, <2>5
  <2> QED
    BY <2>1, <2>5, <2>6, <2>7
<1>2. ASSUME NEW w \in Workers, ServiceWork(w)
      PROVE  RunsOnce'
  <2>1. CASE CheckQuit(w) \/ Acquire(w) \/ Wait(w) \/ Quit(w) \/ Retry(w)
    BY <1>2, <2>1 DEF ServiceWork, CheckQuit, Acquire, Wait, Quit, Retry, PastWait
  <2>2. CASE Take(w)
    <3>1. /\ DOMAIN m_task_que_' = 1 .. Len(m_task_que_) - 1
          /\ DOMAIN m_task_que_ = 1 .. Len(m_task_que_)
          /\ Len(m_task_que_) \in Nat \ {0}
          /\ \A i \in DOMAIN m_task_que_' : m_task_que_'[i] = m_task_que_[i+1]
      BY <2>2, HeadTailProperties, LenProperties, EmptySeq DEF Take
    <3>2. /\ Head(m_task_que_) = m_task_que_[1]
          /\ pc' = [pc EXCEPT ![w] = "handle"]
          /\ task' = [task EXCEPT ![w] = m_task_que_[1]]
          /\ UNCHANGED <<owner, m_quit_>>
      BY <1>2, <2>2 DEF ServiceWork, Take
    <3>3. \A i \in DOMAIN m_task_que_' : i + 1 \in DOMAIN m_task_que_ /\ i + 1 # 1
      BY <3>1
    <3>4. \A i, j \in DOMAIN m_task_que_' : m_task_que_'[i] = m_task_que_'[j] => i = j
      BY <3>1, <3>3
    <3>5. \A u, v \in Workers :
              pc'[u] = "handle" /\ pc'[v] = "handle" /\ task'[u] = task'[v] => u = v
      BY <3>1, <3>2
    <3>6. \A i \in DOMAIN m_task_que_', v \in Workers :
              pc'[v] = "handle" => m_task_que_'[i] # task'[v]
      BY <3>1, <3>2, <3>3
    <3> QED
      BY <3>2, <3>4, <3>5, <3>6
  <2> QED
    BY <1>2, <2>1, <2>2 DEF ServiceWork, WorkerLoop
<1>3. ASSUME NEW w \in Workers, Finish(w) \/ ServiceWakeup(w)
      PROVE  RunsOnce'
  BY <1>3 DEF Finish, ServiceWakeup, Handled, SpuriousWakeup
<1>4. CASE BeginCancel \/ NotifyWorkers
  BY <1>4 DEF BeginCancel, NotifyWorkers, SetQuit, NotifyAll, Parked
<1>5. CASE JoinThreads \/ UNCHANGED serviceVars
  BY <1>5 DEF JoinThreads, serviceVars, poolVars
<1> QED
  BY <1>1, <1>2, <1>3, <1>4, <1>5 DEF ServiceNext

\* The tasks that are running, as the abstract service sees them.
RunningTasks == {task[w] : w \in {v \in Workers : pc[v] = "handle"}}

\* Every step of the pool is a step of the service, or none.
LEMMA StepService == ServiceInv /\ RunsOnce /\ [ServiceNext]_serviceVars => [Service!Next]_(Service!vars)
<1> SUFFICES ASSUME ServiceInv, RunsOnce, [ServiceNext]_serviceVars
             PROVE  Service!Next \/ UNCHANGED Service!vars
  OBVIOUS
<1> USE DEF ServiceInv, PoolInv, PoolTypeOK, Goto
<1>0. \A w \in Workers, l \in {"check", "acquire", "fetch", "wait", "reacquire", "recheck", "exit"} :
         pc[w] # "handle" /\ pc' = [pc EXCEPT ![w] = l] /\ task' = task
            => RunningTasks' = RunningTasks
  BY DEF RunningTasks
<1>1. ASSUME NEW t \in Tasks, Submit(t)
      PROVE  Service!Next
  <2>1. RunningTasks' = RunningTasks
    <3>1. \A w \in Workers : pc'[w] = "handle" <=> pc[w] = "handle"
      BY <1>1 DEF Submit, AddTask, NotifyOne, Parked
    <3>2. task' = task
      BY <1>1 DEF Submit, AddTask
    <3> QED
      BY <3>1, <3>2 DEF RunningTasks
  <2>2. t \notin Service!Known
    BY <1>1 DEF Service!Known, Submit, TasksSubmitted, ServiceTypeOK
  <2>3. Service!Submit(t)
    BY <1>1, <2>1, <2>2 DEF Service!Submit, Submit, AddTask, RunsOnce, RunningTasks
  <2> QED
    BY <2>3 DEF Service!Next
<1>2. ASSUME NEW w \in Workers, ServiceWork(w)
      PROVE  Service!Next \/ UNCHANGED Service!vars
  <2>1. CASE CheckQuit(w) \/ Acquire(w) \/ Wait(w) \/ Quit(w) \/ Retry(w)
    <3>1. RunningTasks' = RunningTasks
      BY <1>0, <2>1 DEF CheckQuit, Acquire, Wait, Quit, Retry, PastWait
    <3>2. UNCHANGED <<m_task_que_, finished, m_quit_>>
      BY <1>2, <2>1 DEF ServiceWork, CheckQuit, Acquire, Wait, Quit, Retry
    <3> QED
      BY <3>1, <3>2 DEF Service!vars, RunningTasks
  <2>2. CASE Take(w)
    <3>1. pc[w] # "handle" /\ pc' = [pc EXCEPT ![w] = "handle"]
             /\ task' = [task EXCEPT ![w] = Head(m_task_que_)]
      BY <2>2 DEF Take, PastWait
    <3>2. RunningTasks' = RunningTasks \cup {Head(m_task_que_)}
      BY <3>1 DEF RunningTasks
    <3>3. Service!Start
      BY <1>2, <2>2, <3>2 DEF Service!Start, ServiceWork, Take, RunningTasks
    <3> QED
      BY <3>3 DEF Service!Next
  <2> QED
    BY <1>2, <2>1, <2>2 DEF ServiceWork, WorkerLoop
<1>3. ASSUME NEW w \in Workers, Finish(w)
      PROVE  Service!Next
  <2>1. pc[w] = "handle" /\ task[w] \in Tasks
    BY <1>3 DEF Finish, Handled, HandlesTask
  <2>2. PICK t \in Tasks : t = task[w]
    BY <2>1
  <2>3. t \in RunningTasks /\ RunningTasks' = RunningTasks \ {t}
    BY <1>3, <2>1, <2>2 DEF Finish, Handled, RunsOnce, RunningTasks
  <2>4. Service!Finish(t)
    BY <1>3, <2>2, <2>3 DEF Service!Finish, Finish, Handled, RunningTasks
  <2> QED
    BY <2>4 DEF Service!Next
<1>4. ASSUME NEW w \in Workers, ServiceWakeup(w)
      PROVE  UNCHANGED Service!vars
  <2>1. RunningTasks' = RunningTasks
    BY <1>0, <1>4 DEF ServiceWakeup, SpuriousWakeup
  <2> QED
    BY <1>4, <2>1 DEF ServiceWakeup, SpuriousWakeup, Service!vars, RunningTasks
<1>5. CASE BeginCancel
  BY <1>5 DEF BeginCancel, SetQuit, Service!Next, Service!Close
<1>6. CASE NotifyWorkers
  <2>1. RunningTasks' = RunningTasks
    BY <1>6 DEF NotifyWorkers, NotifyAll, Parked, RunningTasks
  <2> QED
    BY <1>6, <2>1 DEF NotifyWorkers, NotifyAll, Service!vars, RunningTasks
<1>7. CASE JoinThreads \/ UNCHANGED serviceVars
  BY <1>7 DEF JoinThreads, serviceVars, poolVars, Service!vars
<1> QED
  BY <1>1, <1>2, <1>3, <1>4, <1>5, <1>6, <1>7 DEF ServiceNext

\* HandleTask and AddTask implement the task service: first in first out,
\* every task once, none started after the pool is closed.
THEOREM ServiceRefinement == ServiceSpec => ImplementsTaskService
<1>1. ServiceInit => Service!Init
  BY DEF ServiceInit, PoolInit, Service!Init
<1>2. ServiceInit => RunsOnce
  BY DEF ServiceInit, PoolInit, RunsOnce
<1> QED
  BY InitServiceInv, StepServiceInv, StepRunsOnce, StepService, <1>1, <1>2, PTL
     DEF ServiceSpec, ImplementsTaskService, Service!Spec

-----------------------------------------------------------------------------
(* Counting a value in a queue *)

Positions(q, x) == {i \in DOMAIN q : q[i] = x}
One(b) == IF b THEN 1 ELSE 0

LEMMA PositionsFinite ==
  ASSUME NEW S, NEW q \in Seq(S), NEW x
  PROVE  /\ IsFiniteSet(Positions(q, x))
         /\ Cardinality(Positions(q, x)) \in Nat
<1>1. IsFiniteSet(1 .. Len(q))
  BY LenProperties, FS_Interval
<1>2. Positions(q, x) \in SUBSET (1 .. Len(q))
  BY LenProperties DEF Positions
<1> QED
  BY <1>1, <1>2, FS_Subset, FS_CardinalityType

\* push() adds one occurrence of what it pushes.
LEMMA PositionsAppend ==
  ASSUME NEW S, NEW q \in Seq(S), NEW y \in S, NEW x
  PROVE  Cardinality(Positions(Append(q, y), x)) =
             Cardinality(Positions(q, x)) + One(y = x)
<1> DEFINE n == Len(q)
<1>1. /\ n \in Nat
      /\ DOMAIN q = 1 .. n
      /\ DOMAIN Append(q, y) = 1 .. n + 1
      /\ \A i \in 1 .. n : Append(q, y)[i] = q[i]
      /\ Append(q, y)[n + 1] = y
  BY AppendProperties, LenProperties
<1>2. CASE y = x
  <2>1. Positions(Append(q, y), x) = Positions(q, x) \cup {n + 1}
    BY <1>1, <1>2 DEF Positions
  <2>2. n + 1 \notin Positions(q, x)
    BY <1>1 DEF Positions
  <2> HIDE DEF n
  <2> QED
    BY <1>2, <2>1, <2>2, PositionsFinite, FS_AddElement DEF One
<1>3. CASE y # x
  <2>1. Positions(Append(q, y), x) = Positions(q, x)
    BY <1>1, <1>3 DEF Positions
  <2> QED
    BY <1>3, <2>1, PositionsFinite DEF One
<1> QED
  BY <1>2, <1>3

\* front() and pop() take one occurrence of the head away.
LEMMA PositionsTail ==
  ASSUME NEW S, NEW q \in Seq(S), q # <<>>, NEW x
  PROVE  Cardinality(Positions(Tail(q), x)) =
             Cardinality(Positions(q, x)) - One(Head(q) = x)
<1> DEFINE n == Len(q)
           R == Positions(q, x) \ {1}
           f == [i \in Positions(Tail(q), x) |-> i + 1]
<1>1. /\ n \in Nat \ {0}
      /\ DOMAIN q = 1 .. n
      /\ DOMAIN Tail(q) = 1 .. n - 1
      /\ \A i \in 1 .. n - 1 : Tail(q)[i] = q[i + 1]
      /\ Head(q) = q[1]
      /\ Tail(q) \in Seq(S)
  BY HeadTailProperties, LenProperties, EmptySeq
<1>2. f \in Bijection(Positions(Tail(q), x), R)
  <2>1. \A i \in Positions(Tail(q), x) : i + 1 \in R
    BY <1>1 DEF Positions
  <2>2. \A j \in R : j - 1 \in Positions(Tail(q), x) /\ j = (j - 1) + 1
    BY <1>1 DEF Positions
  <2>3. \A i, j \in Positions(Tail(q), x) : i + 1 = j + 1 => i = j
    BY <1>1 DEF Positions
  <2> QED
    BY <2>1, <2>2, <2>3 DEF Bijection, Injection, Surjection, IsInjective
<1>3. Cardinality(R) = Cardinality(Positions(Tail(q), x))
  <2>1. IsFiniteSet(Positions(Tail(q), x))
    BY <1>1, PositionsFinite
  <2>2. ExistsBijection(Positions(Tail(q), x), R)
    BY <1>2 DEF ExistsBijection
  <2> HIDE DEF R
  <2> QED
    BY <2>1, <2>2, FS_Bijection
<1>4. IsFiniteSet(Positions(q, x)) /\ Cardinality(Positions(q, x)) \in Nat
  BY PositionsFinite
<1>5. Cardinality(R) = IF 1 \in Positions(q, x) THEN Cardinality(Positions(q, x)) - 1
                                                ELSE Cardinality(Positions(q, x))
  BY <1>4, FS_RemoveElement
<1>6. 1 \in Positions(q, x) <=> Head(q) = x
  BY <1>1 DEF Positions
<1> HIDE DEF R
<1> QED
  BY <1>3, <1>4, <1>5, <1>6 DEF One

-----------------------------------------------------------------------------
(* Types and lock ownership *)

\* Between GetFrame and PutFrame the callback holds a frame.
CallbackFrame == cb \in {"handle", "put"} => cbFrame \in Frames

IInv == TypeOK /\ PoolInv /\ LocksOwned /\ CallbackFrame

LEMMA InitIInv == Init => IInv
<1> SUFFICES ASSUME Init
             PROVE  IInv
  OBVIOUS
<1> USE PoolAssumption, PipelineAssumption DEF Init, Sources
<1>1. PoolInv /\ PoolTypeOK
  BY PoolInitInv DEF PoolInv
<1>2. [i \in Frames |-> i] \in Seq(Frames)
  BY IsASeq DEF Frames
<1>3. TypeOK
  BY <1>1, <1>2, EmptySeq DEF TypeOK, Units
<1>4. LocksOwned
  BY DEF LocksOwned, PoolInit
<1> QED
  BY <1>1, <1>3, <1>4 DEF IInv, CallbackFrame

\* The main thread's steps.
LEMMA MainIInv ==
  ASSUME IInv,
         (\E s \in Sources : PostTask(s) \/ Timeout(s)) \/ MainStep
  PROVE  IInv'
<1> USE PoolAssumption, PipelineAssumption DEF IInv, Sources
<1>1. ASSUME NEW s \in Sources, PostTask(s)
      PROVE  IInv'
  <2>1. PoolInv'
    BY <1>1, AddTaskPoolInv DEF PostTask
  <2>2. TypeOK'
    BY <1>1, <2>1 DEF PostTask, TypeOK, PoolInv, sourceVars, cbVars
  <2>3. \A w \in Workers : pc[w] = "handle" => pc'[w] = "handle" /\ task'[w] = task[w]
    BY <1>1 DEF PostTask, AddTask, NotifyOne, Parked, Goto, PoolInv, PoolTypeOK
  <2>4. LocksOwned'
    BY <1>1, <2>1, <2>3 DEF PostTask, LocksOwned, PoolInv, MutexOwned, cbVars
  <2> QED
    BY <1>1, <2>1, <2>2, <2>4 DEF PostTask, CallbackFrame, cbVars
<1>2. CASE (\E s \in Sources : Timeout(s)) \/ GetFrame \/ HandleFrame \/ PutFrame
  <2> USE DEF sourceVars, poolVars
  <2>1. PoolInv'
    BY <1>2, StutterPoolInv DEF Timeout, GetFrame, HandleFrame, PutFrame
  <2>2. CASE \E s \in Sources : Timeout(s)
    BY <2>1, <2>2 DEF Timeout, TypeOK, PoolInv, LocksOwned, CallbackFrame
  <2>3. CASE GetFrame
    <3>1. CASE output[cbSource] = <<>>
      BY <2>1, <2>3, <3>1 DEF GetFrame, TypeOK, PoolInv, LocksOwned, CallbackFrame
    <3>2. CASE output[cbSource] # <<>>
      <4>1. Head(output[cbSource]) \in Frames /\ Tail(output[cbSource]) \in Seq(Frames)
        BY <3>2, HeadTailProperties DEF TypeOK
      <4>2. /\ cb' = "handle" /\ cbFrame' = Head(output[cbSource])
            /\ output' = [output EXCEPT ![cbSource] = Tail(@)]
            /\ UNCHANGED <<boot, input, unit, filePos, lost, src_mtx, cbSource>>
        BY <2>3, <3>2 DEF GetFrame
      <4>3. output' \in [Sources -> Seq(Frames)] /\ cbFrame' \in Frames
        BY <4>1, <4>2 DEF TypeOK
      <4>4. LocksOwned'
        BY <2>3, <3>2 DEF GetFrame, LocksOwned
      <4> QED
        BY <2>1, <4>2, <4>3, <4>4 DEF TypeOK, PoolInv, CallbackFrame
    <3> QED
      BY <3>1, <3>2
  <2>4. CASE HandleFrame
    BY <2>1, <2>4 DEF HandleFrame, TypeOK, PoolInv, LocksOwned, CallbackFrame
  <2>5. CASE PutFrame
    <3>1. Append(input[cbSource], cbFrame) \in Seq(Frames)
      BY <2>5, AppendProperties DEF PutFrame, TypeOK, CallbackFrame
    <3>2. TypeOK' /\ CallbackFrame'
      BY <2>1, <2>5, <3>1 DEF PutFrame, TypeOK, PoolInv, CallbackFrame
    <3>3. LocksOwned'
      BY <2>5 DEF PutFrame, TypeOK, LocksOwned
    <3> QED
      BY <2>1, <3>2, <3>3
  <2> QED
    BY <1>2, <2>2, <2>3, <2>4, <2>5
<1>3. CASE PutFrameAddTask
  <2>1. PoolInv'
    BY <1>3, AddTaskPoolInv DEF PutFrameAddTask, TypeOK
  <2>2. TypeOK'
    BY <1>3, <2>1 DEF PutFrameAddTask, TypeOK, PoolInv, sourceVars
  <2>3. \A w \in Workers : pc[w] = "handle" => pc'[w] = "handle" /\ task'[w] = task[w]
    BY <1>3 DEF PutFrameAddTask, AddTask, NotifyOne, Parked, Goto, PoolInv, PoolTypeOK
  <2>4. LocksOwned'
    <3>1. /\ cbSource' = cbSource /\ cb' = "idle" /\ cb = "add"
          /\ src_mtx[cbSource] = MainThread
          /\ src_mtx' = [src_mtx EXCEPT ![cbSource] = NoThread]
      BY <1>3 DEF PutFrameAddTask, LocksOwned, TypeOK
    <3>2. \A s \in Sources : src_mtx'[s] \in Workers => s = task'[src_mtx'[s]]
                                                        /\ pc'[src_mtx'[s]] = "handle"
      BY <3>1, <2>3 DEF LocksOwned, TypeOK
    <3>3. \A s \in Sources : src_mtx'[s] # MainThread
      BY <3>1 DEF LocksOwned, TypeOK
    <3> QED
      BY <2>1, <3>1, <3>2, <3>3 DEF LocksOwned, PoolInv, MutexOwned
  <2> QED
    BY <1>3, <2>1, <2>2, <2>4 DEF PutFrameAddTask, CallbackFrame
<1> QED
  BY <1>1, <1>2, <1>3 DEF MainStep

\* The workers' steps.
LEMMA WorkerIInv ==
  ASSUME IInv, NEW w \in Workers, WorkerStep(w) \/ Wakeup(w)
  PROVE  IInv'
<1> USE PoolAssumption, PipelineAssumption DEF IInv, Sources
<1>1. CASE Work(w) \/ Wakeup(w)
  <2>1. PoolInv'
    BY <1>1, WorkerPoolInv DEF Work, Wakeup
  <2>2. TypeOK'
    BY <1>1, <2>1 DEF Work, Wakeup, TypeOK, PoolInv, sourceVars, cbVars
  <2>3. \A v \in Workers : pc[v] = "handle" => pc'[v] = "handle" /\ task'[v] = task[v]
    BY <1>1 DEF Work, Wakeup, WorkerLoop, CheckQuit, Acquire, Wait, Quit, Retry, Take,
                SpuriousWakeup, PastWait, Goto, PoolInv, PoolTypeOK
  <2>4. LocksOwned'
    BY <1>1, <2>1, <2>3 DEF Work, Wakeup, LocksOwned, PoolInv, MutexOwned, cbVars
  <2> QED
    BY <1>1, <2>1, <2>2, <2>4 DEF Work, Wakeup, CallbackFrame, cbVars
<1>2. CASE ReadFrame(w)
  <2>1. PoolInv' /\ CallbackFrame'
    BY <1>2, StutterPoolInv DEF ReadFrame, CallbackFrame, cbVars
  <2>2. TypeOK'
    BY <1>2, <2>1 DEF ReadFrame, TypeOK, PoolInv, sourceVars, cbVars
  <2>3. LocksOwned'
    BY <1>2 DEF ReadFrame, LocksOwned, TypeOK, PoolInv, HandlesTask, poolVars, cbVars
  <2> QED
    BY <2>1, <2>2, <2>3
<1>3. CASE ReadFrameOk(w) \/ ReadFrameFail(w)
  <2>1. Handled(w) /\ ReadDone(w) /\ Reading(w)
    BY <1>3 DEF ReadFrameOk, ReadFrameFail, ReadDone
  <2>2. PoolInv' /\ CallbackFrame'
    BY <2>1, WorkerPoolInv DEF ReadDone, CallbackFrame, cbVars
  <2>3. task[w] \in Sources
    BY <2>1 DEF Reading, PoolInv, HandlesTask
  <2>4. /\ boot' = boot /\ cb' = cb /\ cbSource' = cbSource /\ cbFrame' = cbFrame
        /\ src_mtx' \in [Sources -> Workers \cup {MainThread, NoThread}]
    BY <2>1, <2>3 DEF ReadDone, TypeOK, cbVars
  <2>5. LocksOwned'
    BY <2>1, <2>3 DEF ReadDone, Handled, Reading, LocksOwned, Goto, TypeOK, PoolInv,
                      PoolTypeOK, cbVars
  <2>6. CASE input[task[w]] # <<>>
    <3>1. /\ Head(input[task[w]]) \in Frames
          /\ Tail(input[task[w]]) \in Seq(Frames)
          /\ Append(output[task[w]], Head(input[task[w]])) \in Seq(Frames)
      BY <2>3, <2>6, HeadTailProperties, AppendProperties DEF TypeOK
    <3>2. \A p \in Units : (p + 1) % FileLen \in Units
      BY DEF Units
    <3>3. CASE ReadFrameOk(w)
      <4> DEFINE s == task[w]
      <4>1. /\ unit' = [unit EXCEPT ![s][Head(input[s])] = filePos[s]]
            /\ filePos' = [filePos EXCEPT ![s] = (@ + 1) % FileLen]
            /\ input' = [input EXCEPT ![s] = Tail(@)]
            /\ output' = [output EXCEPT ![s] = Append(@, Head(input[s]))]
            /\ lost' = lost
        BY <2>6, <3>3 DEF ReadFrameOk
      <4>2. unit' \in [Sources -> [Frames -> Units \cup {NoUnit}]]
        BY <2>3, <3>1, <4>1 DEF TypeOK
      <4>3. filePos' \in [Sources -> Units]
        BY <2>3, <3>2, <4>1 DEF TypeOK
      <4>4. input' \in [Sources -> Seq(Frames)] /\ output' \in [Sources -> Seq(Frames)]
        BY <2>3, <3>1, <4>1 DEF TypeOK
      <4> QED
        BY <2>2, <2>4, <2>5, <4>1, <4>2, <4>3, <4>4 DEF TypeOK, PoolInv
    <3>4. CASE ReadFrameFail(w)
      <4>1. /\ unit' \in [Sources -> [Frames -> Units \cup {NoUnit}]]
            /\ filePos' \in [Sources -> Units]
        BY <2>3, <2>6, <3>1, <3>4 DEF ReadFrameFail, TypeOK
      <4>2. lost' \in [Sources -> Nat] /\ input' = input /\ output' = output
        BY <2>3, <2>6, <3>4 DEF ReadFrameFail, TypeOK
      <4> QED
        BY <2>2, <2>4, <2>5, <4>1, <4>2 DEF TypeOK, PoolInv
    <3> QED
      BY <1>3, <3>3, <3>4
  <2>7. sourceVars' = sourceVars \/ input[task[w]] # <<>>
    BY <1>3 DEF ReadFrameOk, ReadFrameFail
  <2>8. CASE sourceVars' = sourceVars
    BY <2>2, <2>4, <2>5, <2>8 DEF TypeOK, PoolInv, sourceVars
  <2> QED
    BY <2>6, <2>7, <2>8
<1> QED
  BY <1>1, <1>2, <1>3 DEF WorkerStep

LEMMA StepIInv == IInv /\ [Next]_vars => IInv'
<1> SUFFICES ASSUME IInv, [Next]_vars
             PROVE  IInv'
  OBVIOUS
<1>1. CASE UNCHANGED vars
  <2>1. PoolInv'
    BY <1>1, StutterPoolInv DEF IInv, vars
  <2> QED
    BY <1>1, <2>1 DEF IInv, TypeOK, PoolInv, LocksOwned, CallbackFrame,
                      vars, poolVars, sourceVars, cbVars
<1> QED
  BY <1>1, MainIInv, WorkerIInv DEF Next

\* Every variable keeps its type.
THEOREM TypeCorrect == Spec => []TypeOK
<1>1. IInv => TypeOK
  BY DEF IInv
<1> QED
  BY InitIInv, StepIInv, <1>1, PTL DEF Spec

\* A mutex is held exactly by a thread inside its critical section, and the
\* main thread takes the pool's while it holds a source's, never the reverse.
THEOREM LocksOwnedAlways == Spec => []LocksOwned
<1>1. IInv => LocksOwned
  BY DEF IInv
<1> QED
  BY InitIInv, StepIInv, <1>1, PTL DEF Spec

-----------------------------------------------------------------------------
(* TokenConservation: every task copy fills one frame, and none is ever      *)
(* invented.                                                                 *)

\* The invariant is inductive once types and lock ownership are known.
TInv == IInv /\ TokenConservation

LEMMA QueuedIsPositions ==
  ASSUME NEW s
  PROVE  /\ Queued(s) = Positions(m_task_que_, s)
         /\ Queued(s)' = Positions(m_task_que_', s)
  BY DEF Queued, Positions

\* Every term of the sum is a number.
LEMMA TokensNat ==
  ASSUME IInv, NEW s \in Sources
  PROVE  /\ Cardinality(Queued(s)) \in Nat
         /\ IsFiniteSet(Running(s))
         /\ Cardinality(Running(s)) \in Nat
         /\ Returning(s) \in Nat
         /\ boot[s] \in Nat
         /\ lost[s] \in Nat
         /\ Len(input[s]) \in Nat
<1>1. Cardinality(Queued(s)) \in Nat
  BY QueuedIsPositions, PositionsFinite DEF IInv, PoolInv, PoolTypeOK
<1>2. IsFiniteSet(Running(s)) /\ Cardinality(Running(s)) \in Nat
  BY PoolAssumption, FS_Subset, FS_CardinalityType DEF Running
<1>3. boot[s] \in Nat /\ lost[s] \in Nat /\ Len(input[s]) \in Nat
  BY PipelineAssumption, LenProperties DEF IInv, TypeOK
<1> QED
  BY <1>1, <1>2, <1>3 DEF Returning

\* AddTask(t) queues one more copy of t.
LEMMA AddTaskCounts ==
  ASSUME IInv, NEW t \in Sources, AddTask(t), NEW s \in Sources
  PROVE  /\ Cardinality(Queued(s)') = Cardinality(Queued(s)) + One(t = s)
         /\ Running(s)' = Running(s)
<1>1. Cardinality(Queued(s)') = Cardinality(Queued(s)) + One(t = s)
  BY QueuedIsPositions, PositionsAppend
     DEF IInv, PoolInv, PoolTypeOK, AddTask, Sources
<1>2. \A w \in Workers : pc'[w] = "handle" <=> pc[w] = "handle"
  BY DEF AddTask, NotifyOne, Parked, Goto, IInv, PoolInv, PoolTypeOK
<1>3. task' = task
  BY DEF AddTask
<1> QED
  BY <1>1, <1>2, <1>3 DEF Running

\* A worker that returns from a task of source s gives its copy up.
LEMMA HandledCounts ==
  ASSUME IInv, NEW w \in Workers, Handled(w), NEW s \in Sources
  PROVE  /\ Queued(s)' = Queued(s)
         /\ Cardinality(Running(s)') = Cardinality(Running(s)) - One(task[w] = s)
<1>1. Queued(s)' = Queued(s)
  BY DEF Handled, Queued
<1>2. Running(s)' = Running(s) \ {w}
  BY DEF Handled, Goto, Running, IInv, PoolInv, PoolTypeOK
<1>3. w \in Running(s) <=> task[w] = s
  BY DEF Handled, Running
<1>4. Cardinality(Running(s) \ {w}) = IF w \in Running(s) THEN Cardinality(Running(s)) - 1
                                                          ELSE Cardinality(Running(s))
  BY TokensNat, FS_RemoveElement
<1> QED
  BY <1>1, <1>2, <1>3, <1>4, TokensNat DEF One

\* The other steps of a worker: Take moves one copy from the queue to the
\* worker, and the rest move none.
LEMMA WorkCounts ==
  ASSUME IInv, NEW w \in Workers, WorkerLoop(w) \/ SpuriousWakeup(w), NEW s \in Sources
  PROVE  Cardinality(Queued(s)') + Cardinality(Running(s)') =
             Cardinality(Queued(s)) + Cardinality(Running(s))
<1>1. CASE Take(w)
  <2>1. Cardinality(Queued(s)') =
            Cardinality(Queued(s)) - One(Head(m_task_que_) = s)
    BY <1>1, QueuedIsPositions, PositionsTail DEF IInv, PoolInv, PoolTypeOK, Take
  <2>2. w \notin Running(s)
    BY <1>1 DEF Take, PastWait, Running
  <2>3. CASE Head(m_task_que_) = s
    <3>1. Running(s)' = Running(s) \cup {w}
      BY <1>1, <2>3 DEF Take, Goto, Running, IInv, PoolInv, PoolTypeOK
    <3>2. Cardinality(Running(s)') = Cardinality(Running(s)) + 1
      BY <2>2, <3>1, TokensNat, FS_AddElement
    <3> QED
      BY <2>1, <2>3, <3>2, TokensNat DEF One
  <2>4. CASE Head(m_task_que_) # s
    <3>1. Running(s)' = Running(s)
      BY <1>1, <2>2, <2>4 DEF Take, Goto, Running, IInv, PoolInv, PoolTypeOK
    <3> QED
      BY <2>1, <2>4, <3>1, TokensNat DEF One
  <2> QED
    BY <2>3, <2>4
<1>2. CASE CheckQuit(w) \/ Acquire(w) \/ Wait(w) \/ Quit(w) \/ Retry(w) \/ SpuriousWakeup(w)
  <2>1. m_task_que_' = m_task_que_ /\ task' = task
    BY <1>2 DEF CheckQuit, Acquire, Wait, Quit, Retry, SpuriousWakeup
  <2>2. pc[w] # "handle" /\ \E l \in {"exit", "acquire", "fetch", "recheck", "wait",
                                      "check", "reacquire"} : Goto(w, l)
    BY <1>2 DEF CheckQuit, Acquire, Wait, Quit, Retry, SpuriousWakeup, PastWait
  <2>3. \A v \in Workers : pc'[v] = "handle" <=> pc[v] = "handle"
    BY <2>2 DEF Goto, IInv, PoolInv, PoolTypeOK
  <2> QED
    BY <2>1, <2>3 DEF Queued, Running
<1> QED
  BY <1>1, <1>2 DEF WorkerLoop

-----------------------------------------------------------------------------

\* The balance of one source, as the sums below use it.
LEMMA Balance ==
  ASSUME TInv, NEW s \in Sources
  PROVE  Tokens(s) + lost[s] = Len(input[s])
  BY DEF TInv, TokenConservation

LEMMA InitTInv == Init => TInv
<1> SUFFICES ASSUME Init
             PROVE  TokenConservation
  BY InitIInv DEF TInv
<1> SUFFICES ASSUME NEW s \in Sources
             PROVE  Tokens(s) + lost[s] = Len(input[s])
  BY DEF TokenConservation
<1>1. Cardinality(Queued(s)) = 0 /\ Cardinality(Running(s)) = 0
  <2>1. Queued(s) = {} /\ Running(s) = {}
    BY DEF Init, PoolInit, Queued, Running
  <2> QED
    BY <2>1, FS_EmptySet
<1>2. Len(input[s]) = FrameNum
  <2>1. input[s] \in Seq(Frames) /\ DOMAIN input[s] = 1 .. FrameNum
    BY InitIInv DEF Init, IInv, TypeOK, Frames
  <2> QED
    BY <2>1, LenProperties, PipelineAssumption
<1> QED
  BY <1>1, <1>2, PipelineAssumption DEF Init, Tokens, Returning

\* Steps of the main thread.
LEMMA MainTokens ==
  ASSUME TInv, (\E s \in Sources : PostTask(s) \/ Timeout(s)) \/ MainStep
  PROVE  TokenConservation'
<1> SUFFICES ASSUME NEW s \in Sources
             PROVE  (Tokens(s) + lost[s] = Len(input[s]))'
  BY DEF TokenConservation
<1> DEFINE q == Cardinality(Queued(s))
           r == Cardinality(Running(s))
           n == Len(input[s])
<1>1. IInv /\ q + r + Returning(s) + boot[s] + lost[s] = n
  BY Balance DEF Tokens, TInv
<1>2. q \in Nat /\ r \in Nat /\ Returning(s) \in Nat /\ boot[s] \in Nat /\ lost[s] \in Nat
  BY <1>1, TokensNat
<1>3. SUFFICES q' + r' + Returning(s)' + boot'[s] + lost'[s] = n'
  BY DEF Tokens
<1>4. CASE \E o \in Sources : PostTask(o)
  <2>1. PICK o \in Sources : PostTask(o)
    BY <1>4
  <2>2. q' = q + One(o = s) /\ r' = r
    BY <1>1, <2>1, AddTaskCounts DEF PostTask
  <2>3. boot'[s] = boot[s] - One(o = s)
    <3>1. boot' = [boot EXCEPT ![o] = @ - 1]
      BY <2>1 DEF PostTask
    <3>2. boot \in [Sources -> 0 .. FrameNum]
      BY <1>1 DEF IInv, TypeOK
    <3> HIDE DEF q, r, n
    <3>3. CASE o = s
      BY <3>1, <3>2, <3>3 DEF One
    <3>4. CASE o # s
      BY <1>2, <3>1, <3>2, <3>4 DEF One
    <3> QED
      BY <3>3, <3>4
  <2>4. Returning(s)' = Returning(s) /\ lost' = lost /\ n' = n
    BY <2>1 DEF PostTask, Returning, sourceVars, cbVars
  <2> HIDE DEF q, r, n
  <2> QED
    BY <1>1, <1>2, <2>2, <2>3, <2>4 DEF One
<1>5. CASE PutFrameAddTask
  <2>1. q' = q + One(cbSource = s) /\ r' = r
    BY <1>1, <1>5, AddTaskCounts DEF PutFrameAddTask, IInv, TypeOK
  <2>2. Returning(s) = One(cbSource = s) /\ Returning(s)' = 0
    BY <1>5 DEF PutFrameAddTask, Returning, One
  <2>3. boot' = boot /\ lost' = lost /\ n' = n
    BY <1>5 DEF PutFrameAddTask, sourceVars
  <2> HIDE DEF q, r, n
  <2> QED
    BY <1>1, <1>2, <2>1, <2>2, <2>3 DEF One
<1>6. CASE PutFrame
  <2>1. q' = q /\ r' = r /\ boot' = boot /\ lost' = lost
    BY <1>6 DEF PutFrame, Queued, Running, poolVars
  <2>2. Returning(s) = 0 /\ Returning(s)' = One(cbSource = s)
    BY <1>6 DEF PutFrame, Returning, One
  <2>3. n' = n + One(cbSource = s)
    <3>1. input[s] \in Seq(Frames) /\ cbFrame \in Frames /\ s \in DOMAIN input
      BY <1>1, <1>6 DEF IInv, TypeOK, CallbackFrame, PutFrame
    <3>2. Len(Append(input[s], cbFrame)) = Len(input[s]) + 1 /\ Len(input[s]) \in Nat
      BY <3>1, AppendProperties, LenProperties
    <3> QED
      BY <1>6, <3>1, <3>2 DEF PutFrame, One
  <2>4. One(cbSource = s) \in {0, 1}
    BY DEF One
  <2> HIDE DEF q, r, n
  <2> QED
    BY <1>1, <1>2, <2>1, <2>2, <2>3, <2>4
<1>7. CASE (\E o \in Sources : Timeout(o)) \/ GetFrame \/ HandleFrame
  <2>1. q' = q /\ r' = r /\ boot' = boot /\ lost' = lost /\ n' = n
    BY <1>7 DEF Timeout, GetFrame, HandleFrame, Queued, Running, poolVars, sourceVars
  <2>2. Returning(s) = 0 /\ Returning(s)' = 0
    BY <1>7 DEF Timeout, GetFrame, HandleFrame, Returning
  <2> HIDE DEF q, r, n
  <2> QED
    BY <1>1, <1>2, <2>1, <2>2
<1> QED
  BY <1>4, <1>5, <1>6, <1>7 DEF MainStep

\* Steps of the workers.
LEMMA WorkerTokens ==
  ASSUME TInv, NEW w \in Workers, WorkerStep(w) \/ Wakeup(w)
  PROVE  TokenConservation'
<1> SUFFICES ASSUME NEW s \in Sources
             PROVE  (Tokens(s) + lost[s] = Len(input[s]))'
  BY DEF TokenConservation
<1> DEFINE q == Cardinality(Queued(s))
           r == Cardinality(Running(s))
           n == Len(input[s])
<1>1. IInv /\ q + r + Returning(s) + boot[s] + lost[s] = n
  BY Balance DEF Tokens, TInv
<1>2. q \in Nat /\ r \in Nat /\ Returning(s) \in Nat /\ boot[s] \in Nat /\ lost[s] \in Nat
  BY <1>1, TokensNat
<1>3. SUFFICES q' + r' + Returning(s)' + boot'[s] + lost'[s] = n'
  BY DEF Tokens
<1>4. CASE Work(w) \/ Wakeup(w)
  <2>1. q' + r' = q + r
    BY <1>1, <1>4, WorkCounts DEF Work, Wakeup
  <2>2. /\ Returning(s)' = Returning(s)
        /\ boot' = boot /\ lost' = lost /\ n' = n
    BY <1>4 DEF Work, Wakeup, Returning, sourceVars, cbVars
  <2>3. (q + r)' = q + r
    BY <2>1
  <2> HIDE DEF q, r, n
  <2> QED
    BY <1>1, <1>2, <2>1, <2>2
<1>5. CASE ReadFrame(w)
  <2>1. /\ q' = q /\ r' = r /\ Returning(s)' = Returning(s)
        /\ boot' = boot /\ lost' = lost /\ n' = n
    BY <1>5 DEF ReadFrame, Queued, Running, Returning, poolVars, sourceVars, cbVars
  <2> HIDE DEF q, r, n
  <2> QED
    BY <1>1, <2>1
<1>6. CASE ReadFrameOk(w) \/ ReadFrameFail(w)
  <2>1. Handled(w) /\ ReadDone(w) /\ task[w] \in Sources
    BY <1>1, <1>6 DEF ReadFrameOk, ReadFrameFail, ReadDone, Handled, IInv, PoolInv,
                      HandlesTask, Sources
  <2>2. q' = q /\ r' = r - One(task[w] = s)
    BY <1>1, <2>1, HandledCounts
  <2>3. Returning(s)' = Returning(s) /\ boot' = boot
    BY <2>1 DEF ReadDone, Returning, cbVars
  <2>4. CASE ReadFrameFail(w)
    <3>1. n' = n /\ lost'[s] = lost[s] + One(task[w] = s)
      <4>1. input' = input /\ lost' = [lost EXCEPT ![task[w]] = @ + 1]
        BY <2>4 DEF ReadFrameFail
      <4>2. lost \in [Sources -> Nat]
        BY <1>1 DEF IInv, TypeOK
      <4> QED
        BY <1>2, <2>1, <4>1, <4>2 DEF One
    <3> HIDE DEF q, r, n
    <3>2. One(task[w] = s) \in {0, 1}
      BY DEF One
    <3> QED
      BY <1>1, <1>2, <2>2, <2>3, <3>1, <3>2
  <2>5. CASE ReadFrameOk(w)
    <3>1. input[task[w]] # <<>>
      <4>1. w \in Running(task[w])
        BY <2>1 DEF Handled, Running
      <4>2. Cardinality(Running(task[w])) # 0
        BY <1>1, <2>1, <4>1, TokensNat, FS_EmptySet
      <4>3. Len(input[task[w]]) # 0
        <5> DEFINE t == task[w]
        <5>1. Tokens(t) + lost[t] = Len(input[t])
          BY <2>1, Balance
        <5>2. /\ Cardinality(Queued(t)) \in Nat /\ Cardinality(Running(t)) \in Nat
              /\ Returning(t) \in Nat /\ boot[t] \in Nat /\ lost[t] \in Nat
          BY <1>1, <2>1, TokensNat
        <5> HIDE DEF t
        <5> QED
          BY <4>2, <5>1, <5>2 DEF Tokens, t
      <4> QED
        BY <4>3, EmptySeq
    <3>2. lost' = lost /\ input' = [input EXCEPT ![task[w]] = Tail(@)]
      BY <2>5, <3>1 DEF ReadFrameOk
    <3>3. n' = n - One(task[w] = s)
      <4>1. input[s] \in Seq(Frames) /\ s \in DOMAIN input
        BY <1>1 DEF IInv, TypeOK
      <4>2. Len(input[s]) \in Nat /\ (task[w] = s => Len(Tail(input[s])) = Len(input[s]) - 1)
        BY <3>1, <4>1, HeadTailProperties, LenProperties
      <4>3. CASE task[w] = s
        BY <3>2, <4>1, <4>2, <4>3 DEF One
      <4>4. CASE task[w] # s
        BY <3>2, <4>1, <4>2, <4>4 DEF One
      <4> QED
        BY <4>3, <4>4
    <3> HIDE DEF q, r, n
    <3>4. One(task[w] = s) \in {0, 1}
      BY DEF One
    <3>5. lost'[s] = lost[s]
      BY <3>2
    <3> QED
      BY <1>1, <1>2, <2>2, <2>3, <3>3, <3>4, <3>5
  <2> QED
    BY <1>6, <2>4, <2>5
<1> QED
  BY <1>4, <1>5, <1>6 DEF WorkerStep

LEMMA StepTInv == TInv /\ [Next]_vars => TInv'
<1> SUFFICES ASSUME TInv, [Next]_vars
             PROVE  TokenConservation'
  BY StepIInv DEF TInv
<1>1. CASE UNCHANGED vars
  BY <1>1 DEF TInv, TokenConservation, Tokens, Queued, Running, Returning,
              vars, poolVars, sourceVars, cbVars
<1> QED
  BY <1>1, MainTokens, WorkerTokens DEF Next

\* Copies of a source's task (queued, running, being returned, still to be
\* posted) and its failed reads together always number the frames waiting in
\* its input queue, however many workers and sources there are.
THEOREM TokenConservationAlways == Spec => []TokenConservation
<1>1. TInv => TokenConservation
  BY DEF TInv
<1> QED
  BY InitTInv, StepTInv, <1>1, PTL DEF Spec

-----------------------------------------------------------------------------
(* A frame of a source is in its input queue, in its output queue or in the  *)
(* main thread's hands, never in two of them.  From that follow              *)
(* SendingStable and, step by step, the refinement of FrameStream.           *)

Distinct(q) == \A i, j \in DOMAIN q : q[i] = q[j] => i = j
Apart(q, r) == \A i \in DOMAIN q, j \in DOMAIN r : q[i] # r[j]
Lacks(q, f) == \A i \in DOMAIN q : q[i] # f

\* No frame is in two places.
OnePlace(s) ==
    /\ Distinct(input[s])
    /\ Distinct(output[s])
    /\ Apart(input[s], output[s])
    /\ \A f \in HeldFrames(s) : Lacks(input[s], f) /\ Lacks(output[s], f)

\* What has left the input queue holds a unit of the file.
UnitsReady(s) ==
    /\ \A i \in DOMAIN output[s] : unit[s][output[s][i]] \in Units
    /\ \A f \in HeldFrames(s) : unit[s][f] \in Units

FInv == TInv /\ \A s \in Sources : OnePlace(s) /\ UnitsReady(s)

-----------------------------------------------------------------------------
(* Queues, and the contents of the frames in them *)

\* push() of a frame that is in neither queue keeps both as they should be.
LEMMA PushFrame ==
  ASSUME NEW S, NEW q \in Seq(S), NEW r \in Seq(S), NEW f \in S,
         Distinct(q), Apart(q, r), Lacks(q, f), Lacks(r, f)
  PROVE  /\ Distinct(Append(q, f))
         /\ Apart(Append(q, f), r)
         /\ \A g : Lacks(q, g) /\ f # g => Lacks(Append(q, f), g)
<1>1. /\ Len(q) \in Nat
      /\ DOMAIN q = 1 .. Len(q)
      /\ DOMAIN Append(q, f) = 1 .. Len(q) + 1
      /\ \A i \in 1 .. Len(q) : Append(q, f)[i] = q[i]
      /\ Append(q, f)[Len(q) + 1] = f
  BY AppendProperties, LenProperties
<1>2. \A i \in DOMAIN Append(q, f) : i \in DOMAIN q \/ i = Len(q) + 1
  BY <1>1
<1> QED
  BY <1>1, <1>2 DEF Distinct, Apart, Lacks

\* front() and pop(): what is left lacks the frame that was taken.
LEMMA PopFrame ==
  ASSUME NEW S, NEW q \in Seq(S), q # <<>>, NEW r \in Seq(S),
         Distinct(q), Apart(q, r)
  PROVE  /\ Distinct(Tail(q))
         /\ Apart(Tail(q), r)
         /\ Lacks(Tail(q), Head(q))
         /\ Lacks(r, Head(q))
         /\ \A g : Lacks(q, g) => Lacks(Tail(q), g) /\ Head(q) # g
<1>1. /\ Len(q) \in Nat \ {0}
      /\ DOMAIN q = 1 .. Len(q)
      /\ DOMAIN Tail(q) = 1 .. Len(q) - 1
      /\ \A i \in 1 .. Len(q) - 1 : Tail(q)[i] = q[i + 1]
      /\ Head(q) = q[1]
  BY HeadTailProperties, LenProperties, EmptySeq
<1>2. \A i \in DOMAIN Tail(q) : i + 1 \in DOMAIN q /\ i + 1 # 1
  BY <1>1
<1>3. 1 \in DOMAIN q
  BY <1>1
<1>4. \A i \in DOMAIN Tail(q) : i \in Int
  BY <1>1
<1> QED
  BY <1>1, <1>2, <1>3, <1>4 DEF Distinct, Apart, Lacks

Contents(u, q) == [i \in DOMAIN q |-> u[q[i]]]

LEMMA ContentsAppend ==
  ASSUME NEW S, NEW q \in Seq(S), NEW f \in S, NEW u
  PROVE  Contents(u, Append(q, f)) = Append(Contents(u, q), u[f])
<1> DEFINE T == {u[x] : x \in S}
<1>1. /\ Len(q) \in Nat
      /\ DOMAIN q = 1 .. Len(q)
      /\ \A i \in 1 .. Len(q) : q[i] \in S
      /\ Append(q, f) \in Seq(S)
      /\ DOMAIN Append(q, f) = 1 .. Len(q) + 1
      /\ \A i \in 1 .. Len(q) : Append(q, f)[i] = q[i]
      /\ Append(q, f)[Len(q) + 1] = f
  BY AppendProperties, LenProperties
<1>2. Contents(u, q) \in Seq(T) /\ Len(Contents(u, q)) = Len(q)
  BY <1>1 DEF Contents
<1>3. Contents(u, Append(q, f)) \in Seq(T)
      /\ Len(Contents(u, Append(q, f))) = Len(q) + 1
  BY <1>1 DEF Contents
<1>4. /\ Append(Contents(u, q), u[f]) \in Seq(T)
      /\ Len(Append(Contents(u, q), u[f])) = Len(q) + 1
      /\ \A i \in 1 .. Len(q) : Append(Contents(u, q), u[f])[i] = Contents(u, q)[i]
      /\ Append(Contents(u, q), u[f])[Len(q) + 1] = u[f]
  BY <1>2, AppendProperties
<1>5. \A i \in 1 .. Len(q) + 1 :
          Contents(u, Append(q, f))[i] = Append(Contents(u, q), u[f])[i]
  BY <1>1, <1>4 DEF Contents
<1> HIDE DEF T
<1> QED
  BY <1>3, <1>4, <1>5, SeqEqual

LEMMA ContentsTail ==
  ASSUME NEW S, NEW q \in Seq(S), q # <<>>, NEW u
  PROVE  /\ Contents(u, q) # <<>>
         /\ Head(Contents(u, q)) = u[Head(q)]
         /\ Tail(Contents(u, q)) = Contents(u, Tail(q))
<1> DEFINE T == {u[x] : x \in S}
<1>1. /\ Len(q) \in Nat \ {0}
      /\ DOMAIN q = 1 .. Len(q)
      /\ \A i \in 1 .. Len(q) : q[i] \in S
      /\ Tail(q) \in Seq(S)
      /\ DOMAIN Tail(q) = 1 .. Len(q) - 1
      /\ \A i \in 1 .. Len(q) - 1 : Tail(q)[i] = q[i + 1]
      /\ Head(q) = q[1]
  BY HeadTailProperties, LenProperties, EmptySeq
<1>2. Contents(u, q) \in Seq(T) /\ Len(Contents(u, q)) = Len(q)
  BY <1>1 DEF Contents
<1>3. Contents(u, q) # <<>>
  BY <1>1, <1>2, EmptySeq
<1>4. Contents(u, Tail(q)) \in Seq(T) /\ Len(Contents(u, Tail(q))) = Len(q) - 1
  BY <1>1 DEF Contents
<1>5. /\ Tail(Contents(u, q)) \in Seq(T)
      /\ Len(Tail(Contents(u, q))) = Len(q) - 1
      /\ \A i \in 1 .. Len(q) - 1 : Tail(Contents(u, q))[i] = Contents(u, q)[i + 1]
  BY <1>2, <1>3, HeadTailProperties
<1>6. \A i \in 1 .. Len(q) - 1 : Tail(Contents(u, q))[i] = Contents(u, Tail(q))[i]
  BY <1>1, <1>5 DEF Contents
<1>7. Head(Contents(u, q)) = u[Head(q)]
  BY <1>1, <1>2, <1>3 DEF Contents
<1> HIDE DEF T
<1> QED
  BY <1>3, <1>4, <1>5, <1>6, <1>7, SeqEqual

\* Writing into a frame that is not in the queue changes nothing of it.
LEMMA ContentsOther ==
  ASSUME NEW S, NEW q \in Seq(S), NEW u, NEW v, NEW f,
         Lacks(q, f), \A g \in S : g # f => v[g] = u[g]
  PROVE  Contents(v, q) = Contents(u, q)
<1>1. \A i \in DOMAIN q : q[i] \in S /\ q[i] # f
  BY LenProperties DEF Lacks
<1> QED
  BY <1>1 DEF Contents

-----------------------------------------------------------------------------
(* What a step does to the frames of one source *)

Kept(s) == /\ input'[s] = input[s] /\ output'[s] = output[s]
           /\ unit'[s] = unit[s]
           /\ lost'[s] = lost[s] /\ filePos'[s] = filePos[s]
           /\ HeldFrames(s)' = HeldFrames(s)

\* ReadFrameOk: a frame is filled and goes to the output queue.
Filled(s) == /\ input[s] # <<>> /\ lost[s] < Len(input[s])
             /\ unit'[s] = [unit[s] EXCEPT ![Head(input[s])] = filePos[s]]
             /\ filePos'[s] = (filePos[s] + 1) % FileLen
             /\ input'[s] = Tail(input[s])
             /\ output'[s] = Append(output[s], Head(input[s]))
             /\ lost'[s] = lost[s]
             /\ HeldFrames(s)' = HeldFrames(s)

\* ReadFrameFail: a frame is overwritten and stays.
Spoiled(s) == /\ s \in BadSources
              /\ input[s] # <<>> /\ lost[s] < Len(input[s])
              /\ unit'[s] = [unit[s] EXCEPT ![Head(input[s])] = NoUnit]
              /\ filePos'[s] \in Units
              /\ input'[s] = input[s] /\ output'[s] = output[s]
              /\ lost'[s] = lost[s] + 1
              /\ HeldFrames(s)' = HeldFrames(s)

\* GetFrame: the main thread takes a frame.
Taken(s) == /\ output[s] # <<>>
            /\ HeldFrames(s) = {} /\ HeldFrames(s)' = {Head(output[s])}
            /\ cbFrame' = Head(output[s])
            /\ output'[s] = Tail(output[s])
            /\ input'[s] = input[s] /\ unit'[s] = unit[s]
            /\ lost'[s] = lost[s] /\ filePos'[s] = filePos[s]

\* PutFrame: the main thread gives it back.
Returned(s) == /\ HeldFrames(s) = {cbFrame} /\ HeldFrames(s)' = {}
               /\ cbFrame \in Frames
               /\ input'[s] = Append(input[s], cbFrame)
               /\ output'[s] = output[s] /\ unit'[s] = unit[s]
               /\ lost'[s] = lost[s] /\ filePos'[s] = filePos[s]

\* A worker inside ReadFrame holds a token, so that a frame waits for it.
LEMMA FrameForWorker ==
  ASSUME TInv, NEW w \in Workers, pc[w] = "handle"
  PROVE  lost[task[w]] < Len(input[task[w]]) /\ input[task[w]] # <<>>
<1> DEFINE s == task[w]
<1>1. IInv /\ s \in Sources
  BY DEF TInv, IInv, PoolInv, HandlesTask, Sources
<1>2. /\ Cardinality(Queued(s)) \in Nat
      /\ IsFiniteSet(Running(s)) /\ Cardinality(Running(s)) \in Nat
      /\ Returning(s) \in Nat /\ boot[s] \in Nat /\ lost[s] \in Nat
      /\ Len(input[s]) \in Nat
  BY <1>1, TokensNat
<1>3. w \in Running(s)
  BY DEF Running
<1>4. Cardinality(Running(s)) # 0
  BY <1>2, <1>3, FS_EmptySet
<1>5. Tokens(s) + lost[s] = Len(input[s])
  BY <1>1, Balance
<1> HIDE DEF s
<1>6. lost[s] < Len(input[s])
  BY <1>2, <1>4, <1>5 DEF Tokens
<1>7. input[s] # <<>>
  BY <1>2, <1>6, EmptySeq
<1> QED
  BY <1>6, <1>7 DEF s

\* Every step moves frames in one of these ways, of at most one source.
LEMMA StepMoves ==
  ASSUME TInv, [Next]_vars, NEW s \in Sources
  PROVE  Kept(s) \/ Filled(s) \/ Spoiled(s) \/ Taken(s) \/ Returned(s)
<1>1. IInv /\ TypeOK /\ CallbackFrame
  BY DEF TInv, IInv
<1>2. ASSUME UNCHANGED <<sourceVars, cbVars>>
      PROVE  Kept(s)
  BY <1>2 DEF Kept, sourceVars, cbVars, HeldFrames
<1>3. CASE UNCHANGED vars
  BY <1>2, <1>3 DEF vars
<1>4. CASE \E o \in Sources : PostTask(o)
  BY <1>2, <1>4 DEF PostTask
<1>5. CASE (\E o \in Sources : Timeout(o)) \/ HandleFrame \/ PutFrameAddTask
  BY <1>5 DEF Timeout, HandleFrame, PutFrameAddTask, Kept, sourceVars, HeldFrames
<1>6. CASE GetFrame
  <2>1. CASE s = cbSource /\ output[s] # <<>>
    BY <1>1, <1>6, <2>1 DEF GetFrame, Taken, HeldFrames, TypeOK
  <2>2. CASE s # cbSource \/ output[s] = <<>>
    BY <1>1, <1>6, <2>2 DEF GetFrame, Kept, HeldFrames, TypeOK
  <2> QED
    BY <2>1, <2>2
<1>7. CASE PutFrame
  <2>1. CASE s = cbSource
    BY <1>1, <1>7, <2>1 DEF PutFrame, Returned, HeldFrames, TypeOK, CallbackFrame
  <2>2. CASE s # cbSource
    BY <1>1, <1>7, <2>2 DEF PutFrame, Kept, HeldFrames, TypeOK
  <2> QED
    BY <2>1, <2>2
<1>8. ASSUME NEW w \in Workers, Work(w) \/ Wakeup(w) \/ ReadFrame(w)
      PROVE  Kept(s)
  BY <1>2, <1>8 DEF Work, Wakeup, ReadFrame
<1>9. ASSUME NEW w \in Workers, ReadFrameOk(w)
      PROVE  Kept(s) \/ Filled(s)
  <2>1. lost[task[w]] < Len(input[task[w]]) /\ input[task[w]] # <<>>
    BY <1>9, FrameForWorker DEF ReadFrameOk, Reading
  <2>2. HeldFrames(s)' = HeldFrames(s)
    BY <1>9 DEF ReadFrameOk, ReadDone, cbVars, HeldFrames
  <2>3. /\ unit' = [unit EXCEPT ![task[w]][Head(input[task[w]])] = filePos[task[w]]]
        /\ filePos' = [filePos EXCEPT ![task[w]] = (@ + 1) % FileLen]
        /\ input' = [input EXCEPT ![task[w]] = Tail(@)]
        /\ output' = [output EXCEPT ![task[w]] = Append(@, Head(input[task[w]]))]
        /\ lost' = lost
    BY <1>9, <2>1 DEF ReadFrameOk
  <2>4. CASE s = task[w]
    BY <1>1, <2>1, <2>2, <2>3, <2>4 DEF Filled, TypeOK
  <2>5. CASE s # task[w]
    BY <1>1, <2>2, <2>3, <2>5 DEF Kept, TypeOK
  <2> QED
    BY <2>4, <2>5
<1>10. ASSUME NEW w \in Workers, ReadFrameFail(w)
       PROVE  Kept(s) \/ Spoiled(s)
  <2>1. lost[task[w]] < Len(input[task[w]]) /\ input[task[w]] # <<>>
    BY <1>10, FrameForWorker DEF ReadFrameFail, Reading
  <2>2. HeldFrames(s)' = HeldFrames(s)
    BY <1>10 DEF ReadFrameFail, ReadDone, cbVars, HeldFrames
  <2>3. /\ task[w] \in BadSources
        /\ unit' = [unit EXCEPT ![task[w]][Head(input[task[w]])] = NoUnit]
        /\ \E p \in Units : filePos' = [filePos EXCEPT ![task[w]] = p]
        /\ lost' = [lost EXCEPT ![task[w]] = @ + 1]
        /\ input' = input /\ output' = output
    BY <1>10 DEF ReadFrameFail
  <2>4. CASE s = task[w]
    BY <1>1, <2>1, <2>2, <2>3, <2>4 DEF Spoiled, TypeOK
  <2>5. CASE s # task[w]
    BY <1>1, <2>2, <2>3, <2>5 DEF Kept, TypeOK
  <2> QED
    BY <2>4, <2>5
<1> QED
  BY <1>3, <1>4, <1>5, <1>6, <1>7, <1>8, <1>9, <1>10 DEF Next, MainStep, WorkerStep

-----------------------------------------------------------------------------
(* The invariant *)

LEMMA InitFInv == Init => FInv
<1> SUFFICES ASSUME Init
             PROVE  FInv
  OBVIOUS
<1>1. TInv
  BY InitTInv
<1>2. ASSUME NEW s \in Sources
      PROVE  OnePlace(s) /\ UnitsReady(s)
  <2>1. /\ input[s] = [i \in Frames |-> i]
        /\ output[s] = <<>>
        /\ HeldFrames(s) = {}
    BY DEF Init, HeldFrames
  <2> QED
    BY <2>1 DEF OnePlace, UnitsReady, Distinct, Apart
<1> QED
  BY <1>1, <1>2 DEF FInv

\* The frames of one source after any step.
LEMMA StepPlaces ==
  ASSUME FInv, [Next]_vars, NEW s \in Sources
  PROVE  OnePlace(s)' /\ UnitsReady(s)'
<1>1. OnePlace(s) /\ UnitsReady(s) /\ TInv /\ TypeOK
  BY DEF FInv, TInv, IInv
<1>2. /\ input[s] \in Seq(Frames) /\ output[s] \in Seq(Frames)
      /\ unit[s] \in [Frames -> Units \cup {NoUnit}]
      /\ filePos[s] \in Units
  BY <1>1 DEF TypeOK
<1>3. \A i \in DOMAIN output[s] : output[s][i] \in Frames
  BY <1>2, LenProperties
<1>4. \A f \in HeldFrames(s) : f \in Frames
  BY <1>1 DEF HeldFrames, TInv, IInv, CallbackFrame
<1> USE DEF OnePlace, UnitsReady
<1>5. CASE Kept(s)
  BY <1>1, <1>5 DEF Kept
<1>6. CASE Filled(s)
  <2> DEFINE f == Head(input[s])
  <2>1. f \in Frames /\ Tail(input[s]) \in Seq(Frames)
    BY <1>2, <1>6, HeadTailProperties DEF Filled
  <2>2. /\ Distinct(Tail(input[s])) /\ Apart(Tail(input[s]), output[s])
        /\ Lacks(Tail(input[s]), f) /\ Lacks(output[s], f)
        /\ \A g \in HeldFrames(s) : Lacks(Tail(input[s]), g) /\ f # g
    BY <1>1, <1>2, <1>6, PopFrame DEF Filled
  <2>3. /\ Distinct(Append(output[s], f)) /\ Apart(Append(output[s], f), Tail(input[s]))
        /\ \A g \in HeldFrames(s) : Lacks(Append(output[s], f), g)
    <3>1. Apart(output[s], Tail(input[s]))
      BY <2>2 DEF Apart
    <3> HIDE DEF f
    <3> QED
      BY <1>1, <1>2, <2>1, <2>2, <3>1, PushFrame
  <2>4. OnePlace(s)'
    BY <1>6, <2>2, <2>3 DEF Filled, Apart
  <2>5. \A g \in Frames : unit'[s][g] = IF g = f THEN filePos[s] ELSE unit[s][g]
    BY <1>2, <1>6, <2>1 DEF Filled
  <2>6. /\ DOMAIN Append(output[s], f) = 1 .. Len(output[s]) + 1
        /\ DOMAIN output[s] = 1 .. Len(output[s])
        /\ Len(output[s]) \in Nat
        /\ \A i \in 1 .. Len(output[s]) : Append(output[s], f)[i] = output[s][i]
        /\ Append(output[s], f)[Len(output[s]) + 1] = f
    BY <1>2, <2>1, AppendProperties, LenProperties
  <2>7. \A i \in DOMAIN Append(output[s], f) : unit'[s][Append(output[s], f)[i]] \in Units
    <3> HIDE DEF f
    <3>1. \A i \in DOMAIN Append(output[s], f) :
              i \in DOMAIN output[s] \/ i = Len(output[s]) + 1
      BY <2>6
    <3> QED
      BY <1>1, <1>2, <1>3, <2>1, <2>5, <2>6, <3>1
  <2>8. \A g \in HeldFrames(s) : unit'[s][g] \in Units
    BY <1>1, <1>2, <1>4, <2>5
  <2> QED
    BY <1>6, <2>4, <2>7, <2>8 DEF Filled
<1>7. CASE Spoiled(s)
  <2> DEFINE f == Head(input[s])
  <2>1. f \in Frames
    BY <1>2, <1>7, HeadTailProperties DEF Spoiled
  <2>2. Lacks(output[s], f) /\ \A g \in HeldFrames(s) : f # g
    BY <1>1, <1>2, <1>7, PopFrame DEF Spoiled
  <2>3. \A g \in Frames \ {f} : unit'[s][g] = unit[s][g]
    BY <1>2, <1>7, <2>1 DEF Spoiled
  <2>4. \A i \in DOMAIN output[s] : unit'[s][output[s][i]] \in Units
    BY <1>1, <1>3, <2>2, <2>3 DEF Lacks
  <2>5. \A g \in HeldFrames(s) : unit'[s][g] \in Units
    BY <1>1, <1>4, <2>2, <2>3
  <2> QED
    BY <1>1, <1>7, <2>4, <2>5 DEF Spoiled
<1>8. CASE Taken(s)
  <2> DEFINE f == Head(output[s])
  <2>1. /\ Distinct(Tail(output[s])) /\ Apart(Tail(output[s]), input[s])
        /\ Lacks(Tail(output[s]), f) /\ Lacks(input[s], f)
    <3>1. Apart(output[s], input[s])
      BY <1>1 DEF Apart
    <3> QED
      BY <1>1, <1>2, <1>8, <3>1, PopFrame DEF Taken
  <2>2. OnePlace(s)'
    BY <1>1, <1>8, <2>1 DEF Taken, Apart
  <2>3. /\ DOMAIN Tail(output[s]) = 1 .. Len(output[s]) - 1
        /\ DOMAIN output[s] = 1 .. Len(output[s])
        /\ Len(output[s]) \in Nat \ {0}
        /\ \A i \in 1 .. Len(output[s]) - 1 : Tail(output[s])[i] = output[s][i + 1]
        /\ f = output[s][1]
    BY <1>2, <1>8, HeadTailProperties, LenProperties, EmptySeq DEF Taken
  <2>4. UnitsReady(s)'
    <3>1. \A i \in DOMAIN Tail(output[s]) : i + 1 \in DOMAIN output[s]
      BY <2>3
    <3>2. 1 \in DOMAIN output[s]
      BY <2>3
    <3> QED
      BY <1>1, <1>8, <2>3, <3>1, <3>2 DEF Taken
  <2> QED
    BY <2>2, <2>4
<1>9. CASE Returned(s)
  <2>1. Lacks(input[s], cbFrame) /\ Lacks(output[s], cbFrame) /\ cbFrame \in Frames
    BY <1>1, <1>9 DEF Returned
  <2>2. Distinct(Append(input[s], cbFrame)) /\ Apart(Append(input[s], cbFrame), output[s])
    BY <1>1, <1>2, <2>1, PushFrame
  <2> QED
    BY <1>1, <1>9, <2>2 DEF Returned
<1> QED
  BY <1>1, <1>5, <1>6, <1>7, <1>8, <1>9, StepMoves

LEMMA StepFInv == FInv /\ [Next]_vars => FInv'
  BY StepTInv, StepPlaces DEF FInv

-----------------------------------------------------------------------------
(* What follows *)

\* A worker fills or spoils the head of the input queue only.
LEMMA StepSending ==
  ASSUME FInv, [Next]_vars, cb = "handle"
  PROVE  unit'[cbSource][cbFrame] = unit[cbSource][cbFrame]
<1>1. TInv /\ TypeOK /\ CallbackFrame /\ cbSource \in Sources
  BY DEF FInv, TInv, IInv, TypeOK
<1>2. OnePlace(cbSource)
  BY <1>1 DEF FInv
<1>3. /\ input[cbSource] \in Seq(Frames) /\ output[cbSource] \in Seq(Frames)
      /\ unit[cbSource] \in [Frames -> Units \cup {NoUnit}]
      /\ cbFrame \in HeldFrames(cbSource)
      /\ cbFrame \in Frames
  BY <1>1 DEF TypeOK, HeldFrames, CallbackFrame
<1>4. input[cbSource] # <<>> => Head(input[cbSource]) # cbFrame
  BY <1>2, <1>3, PopFrame DEF OnePlace
<1>5. CASE Kept(cbSource) \/ Taken(cbSource) \/ Returned(cbSource)
  BY <1>5 DEF Kept, Taken, Returned
<1>6. CASE Filled(cbSource) \/ Spoiled(cbSource)
  BY <1>3, <1>4, <1>6 DEF Filled, Spoiled
<1> QED
  BY <1>1, <1>5, <1>6, StepMoves

\* No step, of any worker on any source, changes the buffer of the frame that
\* HandleFrame is sending, although it holds no lock.
THEOREM SendingStableAlways == Spec => SendingStable
<1>1. FInv /\ [Next]_vars =>
          [cb = "handle" => unit'[cbSource][cbFrame] = unit[cbSource][cbFrame]]_vars
  BY StepSending
<1> QED
  BY InitFInv, StepFInv, <1>1, PTL DEF Spec, SendingStable

\* The initial state of a source and its sink is one of the stream.
LEMMA InitStream ==
  ASSUME Init, NEW s \in Sources
  PROVE  Stream(s)!Init
<1>1. input[s] = [i \in 1 .. FrameNum |-> i] /\ FrameNum \in Nat
  BY PipelineAssumption DEF Init, Frames
<1>2. Len(input[s]) = FrameNum
  BY <1>1
<1>3. output[s] = <<>> /\ lost[s] = 0 /\ filePos[s] = 0 /\ HeldFrames(s) = {}
  BY DEF Init, HeldFrames
<1>4. [i \in DOMAIN output[s] |-> unit[s][output[s][i]]] = <<>>
  BY <1>3
<1> QED
  BY <1>1, <1>2, <1>3, <1>4 DEF Stream!Init

\* Every step is one of the stream of s, or none.
LEMMA StepStream ==
  ASSUME FInv, [Next]_vars, NEW s \in Sources
  PROVE  [Stream(s)!Next]_(Stream(s)!vars)
<1>1. OnePlace(s) /\ UnitsReady(s) /\ TInv /\ TypeOK /\ CallbackFrame
  BY DEF FInv, TInv, IInv
<1>2. /\ input[s] \in Seq(Frames) /\ output[s] \in Seq(Frames)
      /\ unit[s] \in [Frames -> Units \cup {NoUnit}]
      /\ lost[s] \in Nat /\ Len(input[s]) \in Nat
  BY <1>1, LenProperties DEF TypeOK
<1>3. /\ Stream(s)!vars =
            <<Len(input[s]) - lost[s], Contents(unit[s], output[s]),
              IF HeldFrames(s) = {} THEN NoUnit ELSE unit[s][cbFrame], filePos[s]>>
      /\ (Stream(s)!vars)' =
            <<Len(input'[s]) - lost'[s], Contents(unit'[s], output'[s]),
              IF HeldFrames(s)' = {} THEN NoUnit ELSE unit'[s][cbFrame'], filePos'[s]>>
  BY DEF Stream!vars, Contents
<1>4. HeldFrames(s) # {} => HeldFrames(s) = {cbFrame} /\ cbFrame \in Frames
  BY <1>1 DEF HeldFrames, CallbackFrame
<1>5. HeldFrames(s)' = HeldFrames(s) /\ HeldFrames(s) # {} => cbFrame' = cbFrame
  BY DEF HeldFrames
<1>6. CASE Kept(s)
  BY <1>3, <1>4, <1>5, <1>6 DEF Kept
<1>7. CASE Filled(s)
  <2> DEFINE f == Head(input[s])
  <2>1. /\ f \in Frames
        /\ Len(Tail(input[s])) = Len(input[s]) - 1
        /\ Lacks(output[s], f)
        /\ \A g \in HeldFrames(s) : f # g
    BY <1>1, <1>2, <1>7, HeadTailProperties, PopFrame DEF Filled, OnePlace
  <2>2. /\ unit'[s][f] = filePos[s]
        /\ \A g \in Frames : g # f => unit'[s][g] = unit[s][g]
    BY <1>2, <1>7, <2>1 DEF Filled
  <2>3. Contents(unit'[s], output'[s]) = Append(Contents(unit[s], output[s]), filePos[s])
    <3>1. Contents(unit'[s], output[s]) = Contents(unit[s], output[s])
      <4> HIDE DEF f
      <4> QED
        BY <1>2, <2>1, <2>2, ContentsOther
    <3>2. Contents(unit'[s], Append(output[s], f)) =
              Append(Contents(unit'[s], output[s]), unit'[s][f])
      BY <1>2, <2>1, ContentsAppend
    <3> QED
      BY <1>7, <2>2, <3>1, <3>2 DEF Filled
  <2>4. Len(input[s]) - lost[s] > 0
        /\ Len(input'[s]) - lost'[s] = Len(input[s]) - lost[s] - 1
    BY <1>2, <1>7, <2>1 DEF Filled
  <2>5. (IF HeldFrames(s)' = {} THEN NoUnit ELSE unit'[s][cbFrame']) =
            IF HeldFrames(s) = {} THEN NoUnit ELSE unit[s][cbFrame]
    BY <1>4, <1>5, <1>7, <2>1, <2>2 DEF Filled
  <2>6. Stream(s)!Read
    BY <1>7, <2>3, <2>4, <2>5 DEF Stream!Read, Filled, Contents
  <2> QED
    BY <2>6 DEF Stream!Next
<1>8. CASE Spoiled(s)
  <2> DEFINE f == Head(input[s])
  <2>1. /\ f \in Frames
        /\ Lacks(output[s], f)
        /\ \A g \in HeldFrames(s) : f # g
    BY <1>1, <1>2, <1>8, HeadTailProperties, PopFrame DEF Spoiled, OnePlace
  <2>2. \A g \in Frames : g # f => unit'[s][g] = unit[s][g]
    BY <1>2, <1>8, <2>1 DEF Spoiled
  <2>3. Contents(unit'[s], output'[s]) = Contents(unit[s], output[s])
    <3> HIDE DEF f
    <3> QED
      BY <1>2, <1>8, <2>1, <2>2, ContentsOther DEF Spoiled
  <2>4. Len(input[s]) - lost[s] > 0
        /\ Len(input'[s]) - lost'[s] = Len(input[s]) - lost[s] - 1
    <3>1. lost[s] < Len(input[s]) /\ input'[s] = input[s] /\ lost'[s] = lost[s] + 1
      BY <1>8 DEF Spoiled
    <3> QED
      BY <1>2, <3>1
  <2>5. (IF HeldFrames(s)' = {} THEN NoUnit ELSE unit'[s][cbFrame']) =
            IF HeldFrames(s) = {} THEN NoUnit ELSE unit[s][cbFrame]
    BY <1>4, <1>5, <1>8, <2>1, <2>2 DEF Spoiled
  <2>6. Stream(s)!Fail
    BY <1>8, <2>3, <2>4, <2>5 DEF Stream!Fail, Stream!Units, Units, Spoiled, Contents
  <2> QED
    BY <2>6 DEF Stream!Next
<1>9. CASE Taken(s)
  <2>1. /\ Contents(unit[s], output[s]) # <<>>
        /\ unit[s][Head(output[s])] = Head(Contents(unit[s], output[s]))
        /\ Contents(unit[s], Tail(output[s])) = Tail(Contents(unit[s], output[s]))
    BY <1>2, <1>9, ContentsTail DEF Taken
  <2>2. Stream(s)!Send
    BY <1>9, <2>1 DEF Stream!Send, Taken, Contents
  <2> QED
    BY <2>2 DEF Stream!Next
<1>10. CASE Returned(s)
  <2>1. Len(input'[s]) - lost'[s] = Len(input[s]) - lost[s] + 1
    BY <1>2, <1>10, AppendProperties DEF Returned
  <2>2. unit[s][cbFrame] # NoUnit
    BY <1>1, <1>10, PipelineAssumption DEF Returned, UnitsReady
  <2>3. Stream(s)!Recycle
    BY <1>10, <2>1, <2>2 DEF Stream!Recycle, Returned
  <2> QED
    BY <2>3 DEF Stream!Next
<1> QED
  BY <1>1, <1>6, <1>7, <1>8, <1>9, <1>10, StepMoves

\* However many workers read a source's file, its units reach the sink in file
\* order, each once, and a failed read costs one frame: the pipeline implements
\* one FrameStream for each source.
THEOREM FrameStreams == Spec => ImplementsFrameStream
<1>1. Init => \A s \in Sources : Stream(s)!Init
  BY InitStream
<1>2. FInv /\ [Next]_vars => [\A s \in Sources : [Stream(s)!Next]_(Stream(s)!vars)]_vars
  BY StepStream
<1> QED
  BY InitFInv, StepFInv, <1>1, <1>2, PTL DEF Spec, ImplementsFrameStream
-----------------------------------------------------------------------------
(* The safety part of StreamsOrStalls *)

\* The FrameNum frames of a source are in its queues or with the main thread.
FrameCount(s) ==
    /\ HeldFrames(s) = {} => Len(input[s]) + Len(output[s]) = FrameNum
    /\ HeldFrames(s) # {} => Len(input[s]) + Len(output[s]) + 1 = FrameNum

CInv == TInv /\ \A s \in Sources : FrameCount(s)

\* Of a source that has tokens left, a task is about, a unit is ready, or one
\* is being sent.
NeverIdle ==
    \A s \in Sources :
        lost[s] < FrameNum => Tokens(s) > 0 \/ output[s] # <<>> \/ HeldFrames(s) # {}

\* The lengths of the two queues when a frame moves.
LEMMA OneMoreOneLess ==
  ASSUME NEW m \in Nat, NEW n \in Nat
  PROVE  (m - 1) + (n + 1) = m + n /\ (m + 1) + n = m + n + 1
  OBVIOUS

LEMMA InitCInv == Init => CInv
<1> SUFFICES ASSUME Init, NEW s \in Sources
             PROVE  FrameCount(s)
  BY InitTInv DEF CInv
<1>1. input[s] = [i \in 1 .. FrameNum |-> i] /\ FrameNum \in Nat
  BY PipelineAssumption DEF Init, Frames
<1>2. Len(input[s]) = FrameNum
  BY <1>1
<1>3. Len(output[s]) = 0 /\ HeldFrames(s) = {}
  BY DEF Init, HeldFrames
<1> QED
  BY <1>1, <1>2, <1>3 DEF FrameCount

\* However a step moves frames, it loses and copies none.
LEMMA StepCount ==
  ASSUME CInv, [Next]_vars, NEW s \in Sources
  PROVE  FrameCount(s)'
<1>1. TInv /\ TypeOK /\ FrameCount(s)
  BY DEF CInv, TInv, IInv
<1>2. /\ input[s] \in Seq(Frames) /\ output[s] \in Seq(Frames)
      /\ Len(input[s]) \in Nat /\ Len(output[s]) \in Nat
  BY <1>1, LenProperties DEF TypeOK
<1>3. CASE Kept(s) \/ Spoiled(s)
  BY <1>1, <1>3 DEF Kept, Spoiled, FrameCount
<1>4. CASE Filled(s)
  <2>1. Head(input[s]) \in Frames /\ Len(Tail(input[s])) = Len(input[s]) - 1
    BY <1>2, <1>4, HeadTailProperties DEF Filled
  <2>2. Len(Append(output[s], Head(input[s]))) = Len(output[s]) + 1
    BY <1>2, <2>1, AppendProperties
  <2>3. /\ Len(input'[s]) = Len(input[s]) - 1 /\ Len(output'[s]) = Len(output[s]) + 1
        /\ HeldFrames(s)' = HeldFrames(s)
    BY <1>4, <2>1, <2>2 DEF Filled
  <2>4. Len(input'[s]) + Len(output'[s]) = Len(input[s]) + Len(output[s])
    BY <1>2, <2>3, OneMoreOneLess
  <2> QED
    BY <1>1, <2>3, <2>4 DEF FrameCount
<1>5. CASE Taken(s)
  <2>1. Len(Tail(output[s])) = Len(output[s]) - 1
    BY <1>2, <1>5, HeadTailProperties DEF Taken
  <2>2. /\ Len(input'[s]) = Len(input[s]) /\ Len(output'[s]) = Len(output[s]) - 1
        /\ HeldFrames(s) = {} /\ HeldFrames(s)' # {}
    BY <1>5, <2>1 DEF Taken
  <2>3. Len(input'[s]) + Len(output'[s]) + 1 = Len(input[s]) + Len(output[s])
    BY <1>2, <2>2
  <2> QED
    BY <1>1, <2>2, <2>3 DEF FrameCount
<1>6. CASE Returned(s)
  <2>1. Len(Append(input[s], cbFrame)) = Len(input[s]) + 1
    BY <1>2, <1>6, AppendProperties DEF Returned
  <2>2. /\ Len(input'[s]) = Len(input[s]) + 1 /\ Len(output'[s]) = Len(output[s])
        /\ HeldFrames(s) # {} /\ HeldFrames(s)' = {}
    BY <1>6, <2>1 DEF Returned
  <2>3. Len(input'[s]) + Len(output'[s]) = Len(input[s]) + Len(output[s]) + 1
    BY <1>2, <2>2, OneMoreOneLess
  <2> QED
    BY <1>1, <2>2, <2>3 DEF FrameCount
<1> QED
  BY <1>1, <1>3, <1>4, <1>5, <1>6, StepMoves

\* No frame of a source is lost on its way round, whatever its reads do, so a
\* source stalls only with FrameNum failed reads.
THEOREM NeverIdleAlways == Spec => []NeverIdle
<1>1. CInv /\ [Next]_vars => CInv'
  BY StepTInv, StepCount DEF CInv
<1>2. CInv => NeverIdle
  <2> SUFFICES ASSUME CInv, NEW s \in Sources, lost[s] < FrameNum,
                      output[s] = <<>>, HeldFrames(s) = {}
               PROVE  Tokens(s) > 0
    BY DEF NeverIdle
  <2>1. FrameCount(s) /\ Tokens(s) + lost[s] = Len(input[s])
    BY DEF CInv, TInv, TokenConservation
  <2>2. Len(input[s]) = FrameNum
    <3>1. Len(input[s]) \in Nat /\ Len(output[s]) = 0
      BY LenProperties DEF CInv, TInv, IInv, TypeOK
    <3> QED
      BY <2>1, <3>1 DEF FrameCount
  <2>3. Tokens(s) \in Nat /\ lost[s] \in Nat /\ FrameNum \in Nat
    BY TokensNat, PipelineAssumption DEF CInv, TInv, Tokens
  <2> QED
    BY <2>1, <2>2, <2>3
<1> QED
  BY InitCInv, <1>1, <1>2, PTL DEF Spec
=============================================================================
