-------------------------- MODULE ThreadPoolService --------------------------
(***************************************************************************)
(* The pool with its clients: any thread submits tasks through AddTask     *)
(* (every task at most once, which bounds the queue), the workers run      *)
(* them, and the owner may run ~ThreadPool() at any moment.                *)
(***************************************************************************)
EXTENDS ThreadPool

VARIABLES submitted,   \* tasks given to AddTask so far
          finished,    \* tasks whose callback has returned
          owner        \* where the owner is in ~ThreadPool

serviceVars == <<poolVars, submitted, finished, owner>>

ServiceTypeOK ==
    /\ PoolTypeOK
    /\ submitted \subseteq Tasks
    /\ finished \subseteq submitted
    /\ owner \in {"open", "notify", "join", "joined"}

ServiceInit ==
    /\ PoolInit
    /\ submitted = {}
    /\ finished = {}
    /\ owner = "open"

Submit(t) ==
    /\ owner = "open"
    /\ t \notin submitted
    /\ AddTask(t)
    /\ submitted' = submitted \cup {t}
    /\ UNCHANGED <<finished, owner>>

ServiceWork(w) == WorkerLoop(w) /\ UNCHANGED <<submitted, finished, owner>>

Finish(w) ==
    /\ Handled(w)
    /\ finished' = finished \cup {task[w]}
    /\ UNCHANGED <<submitted, owner>>

ServiceWakeup(w) == SpuriousWakeup(w) /\ UNCHANGED <<submitted, finished, owner>>

(* CancelThreads(), in the thread that destroys the pool *)
BeginCancel ==
    /\ owner = "open"
    /\ SetQuit
    /\ owner' = "notify"
    /\ UNCHANGED <<submitted, finished>>

NotifyWorkers ==
    /\ owner = "notify"
    /\ NotifyAll
    /\ owner' = "join"
    /\ UNCHANGED <<submitted, finished>>

\* Every joinable thread has been joined; the array is cleared.
JoinThreads ==
    /\ owner = "join"
    /\ Joined
    /\ owner' = "joined"
    /\ UNCHANGED <<poolVars, submitted, finished>>

ServiceNext ==
    \/ \E t \in Tasks : Submit(t)
    \/ \E w \in Workers : ServiceWork(w) \/ Finish(w) \/ ServiceWakeup(w)
    \/ BeginCancel \/ NotifyWorkers \/ JoinThreads

ServiceSpec == ServiceInit /\ [][ServiceNext]_serviceVars

\* A thread that can run does run, and a task's callback returns.  Nothing is
\* assumed of spurious wake-ups, of clients or of the decision to cancel.
ServiceFairness ==
    /\ \A w \in Workers : WF_serviceVars(ServiceWork(w)) /\ WF_serviceVars(Finish(w))
    /\ WF_serviceVars(NotifyWorkers)
    /\ WF_serviceVars(JoinThreads)

ServiceFairSpec == ServiceSpec /\ ServiceFairness

-----------------------------------------------------------------------------
(* Properties *)

\* Workers that will look at the queue again without being notified.
Awake == {w \in Workers : pc[w] \notin {"wait", "handle", "exit"}}

\* One notify_one per AddTask is enough: while the pool is open and some
\* worker is still parked, at least as many workers are on their way to the
\* queue as there are tasks in it, so no task waits for a busy worker while an
\* idle one sleeps (the `if' around m_cond_.wait and the unlocked test of
\* m_quit_ make this anything but obvious).
EnoughAwake ==
    ~m_quit_ /\ Parked # {} => Len(m_task_que_) <= Cardinality(Awake)

\* HandleTask and AddTask implement the abstract service: FIFO start order,
\* every task at most once, nothing started once m_quit_ is set.
Service == INSTANCE TaskService WITH
    pending <- m_task_que_,
    running <- {task[w] : w \in {v \in Workers : pc[v] = "handle"}},
    done    <- finished,
    closed  <- m_quit_

ImplementsTaskService == Service!Spec

\* A submitted task is run, unless the pool is cancelled first.
EveryTaskRuns == \A t \in Tasks : t \in submitted ~> (t \in finished \/ m_quit_)

\* CancelThreads returns, provided no worker stands between its unlocked test
\* of m_quit_ and its wait while notify_all() is still to come.  Without that
\* proviso it is false: such a worker parks after the notification and join()
\* waits for ever.
CancelReturns ==
    (owner = "notify" /\ \A w \in Workers : pc[w] \notin {"acquire", "fetch"})
        ~> owner = "joined"
=============================================================================
