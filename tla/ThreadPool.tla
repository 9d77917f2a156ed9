----------------------------- MODULE ThreadPool -----------------------------
(***************************************************************************)
(* The worker pool of src/base/threadpool.cpp: one queue, one mutex, one   *)
(* condition variable, and Workers threads running HandleTask().           *)
(*                                                                         *)
(* The control of HandleTask() is kept lock by lock.  A worker is at       *)
(*   "check"      the unlocked while(!m_quit_)                    line 27  *)
(*   "acquire"    before the unique_lock                          line 30  *)
(*   "fetch"      holding m_mtx_, before the empty() test         line 31  *)
(*   "wait"       parked in m_cond_.wait, m_mtx_ released         line 32  *)
(*   "reacquire"  woken, m_mtx_ not yet taken back                line 32  *)
(*   "recheck"    holding m_mtx_ again after the wait             line 34  *)
(*   "handle"     lock released, running task.Handle()            line 44  *)
(*   "exit"       out of the loop                                          *)
(*                                                                         *)
(* What a task does is left to the modules that extend this one: they say  *)
(* what happens at "handle" and end it with Handled(w).                    *)
(***************************************************************************)
EXTENDS Naturals, Sequences, FiniteSets

CONSTANTS Workers,    \* the pool's threads (main.cpp creates 8)
          Tasks,      \* the Task objects that can be queued
          NoTask,     \* the local variable `task' before it is assigned
          NoThread    \* holder of a free mutex

ASSUME PoolAssumption ==
    /\ IsFiniteSet(Workers)
    /\ NoThread \notin Workers
    /\ NoTask \notin Tasks

VARIABLES m_task_que_,   \* std::queue<Task>
          m_quit_,       \* set once by CancelThreads
          m_mtx_,        \* the thread holding the pool mutex
          pc,            \* control state of every worker
          task           \* HandleTask's local variable

poolVars == <<m_task_que_, m_quit_, m_mtx_, pc, task>>

PoolTypeOK ==
    /\ m_task_que_ \in Seq(Tasks)
    /\ m_quit_ \in BOOLEAN
    /\ m_mtx_ \in Workers \cup {NoThread}
    /\ pc \in [Workers -> {"check", "acquire", "fetch", "wait", "reacquire",
                           "recheck", "handle", "exit"}]
    /\ task \in [Workers -> Tasks \cup {NoTask}]

PoolInit ==
    /\ m_task_que_ = <<>>
    /\ m_quit_ = FALSE
    /\ m_mtx_ = NoThread
    /\ pc = [w \in Workers |-> "check"]
    /\ task = [w \in Workers |-> NoTask]

Parked == {w \in Workers : pc[w] = "wait"}

Goto(w, label) == pc' = [pc EXCEPT ![w] = label]

-----------------------------------------------------------------------------
(* HandleTask() *)

CheckQuit(w) ==
    /\ pc[w] = "check"
    /\ Goto(w, IF m_quit_ THEN "exit" ELSE "acquire")
    /\ UNCHANGED <<m_task_que_, m_quit_, m_mtx_, task>>

Acquire(w) ==
    /\ pc[w] \in {"acquire", "reacquire"}
    /\ m_mtx_ = NoThread
    /\ m_mtx_' = w
    /\ Goto(w, IF pc[w] = "acquire" THEN "fetch" ELSE "recheck")
    /\ UNCHANGED <<m_task_que_, m_quit_, task>>

\* An `if', not a `while': the wait happens before m_quit_ is looked at again.
Wait(w) ==
    /\ pc[w] = "fetch"
    /\ m_task_que_ = <<>>
    /\ m_mtx_' = NoThread
    /\ Goto(w, "wait")
    /\ UNCHANGED <<m_task_que_, m_quit_, task>>

\* The part of the critical section after the wait, or without one.
PastWait(w) == pc[w] = "recheck" \/ (pc[w] = "fetch" /\ m_task_que_ # <<>>)

Quit(w) ==
    /\ PastWait(w)
    /\ m_quit_
    /\ m_mtx_' = NoThread
    /\ Goto(w, "exit")
    /\ UNCHANGED <<m_task_que_, m_quit_, task>>

Retry(w) ==
    /\ PastWait(w)
    /\ ~m_quit_
    /\ m_task_que_ = <<>>
    /\ m_mtx_' = NoThread
    /\ Goto(w, "check")
    /\ UNCHANGED <<m_task_que_, m_quit_, task>>

\* Mutant of Take: m_quit_ is not looked at after the wait.
TakeThoughQuit(w) ==
    /\ PastWait(w)
    /\ m_task_que_ # <<>>
    /\ task' = [task EXCEPT ![w] = Head(m_task_que_)]
    /\ m_task_que_' = Tail(m_task_que_)
    /\ m_mtx_' = NoThread
    /\ Goto(w, "handle")
    /\ UNCHANGED m_quit_

Take(w) ==
    /\ PastWait(w)
    /\ ~m_quit_
    /\ m_task_que_ # <<>>
    /\ task' = [task EXCEPT ![w] = Head(m_task_que_)]
    /\ m_task_que_' = Tail(m_task_que_)
    /\ m_mtx_' = NoThread
    /\ Goto(w, "handle")
    /\ UNCHANGED m_quit_

\* task.Handle() returns and the loop starts over.
Handled(w) ==
    /\ pc[w] = "handle"
    /\ task' = [task EXCEPT ![w] = NoTask]
    /\ Goto(w, "check")
    /\ UNCHANGED <<m_task_que_, m_quit_, m_mtx_>>

\* m_cond_.wait may return without a notification.
SpuriousWakeup(w) ==
    /\ pc[w] = "wait"
    /\ Goto(w, "reacquire")
    /\ UNCHANGED <<m_task_que_, m_quit_, m_mtx_, task>>

WorkerLoop(w) ==
    CheckQuit(w) \/ Acquire(w) \/ Wait(w) \/ Quit(w) \/ Retry(w) \/ Take(w)

-----------------------------------------------------------------------------
(* Operations of the pool's clients *)

\* Mutants of NotifyOne: notify only for the first task of a queue, and never.
NotifyWhenEmpty ==
    IF Parked = {} \/ m_task_que_ # <<>>
    THEN UNCHANGED pc
    ELSE \E w \in Parked : Goto(w, "reacquire")

NotifyNone == UNCHANGED pc

NotifyOne ==
    IF Parked = {} THEN UNCHANGED pc ELSE \E w \in Parked : Goto(w, "reacquire")

\* The lock_guard's whole scope is one step: nothing in it can block.
AddTask(t) ==
    /\ m_mtx_ = NoThread
    /\ m_task_que_' = Append(m_task_que_, t)
    /\ NotifyOne
    /\ UNCHANGED <<m_quit_, m_mtx_, task>>

\* CancelThreads, up to locker.unlock().
SetQuit ==
    /\ m_mtx_ = NoThread
    /\ m_quit_' = TRUE
    /\ UNCHANGED <<m_task_que_, m_mtx_, pc, task>>

\* Mutant of NotifyAll: notify_one in its place.
NotifyAllWakesOne ==
    /\ IF Parked = {} THEN UNCHANGED pc ELSE \E w \in Parked : Goto(w, "reacquire")
    /\ UNCHANGED <<m_task_que_, m_quit_, m_mtx_, task>>

\* CancelThreads, m_cond_.notify_all() with the lock already released.
NotifyAll ==
    /\ pc' = [w \in Workers |-> IF w \in Parked THEN "reacquire" ELSE pc[w]]
    /\ UNCHANGED <<m_task_que_, m_quit_, m_mtx_, task>>

Joined == \A w \in Workers : pc[w] = "exit"

-----------------------------------------------------------------------------
(* What every step of the pool preserves, whoever its clients are *)

\* A worker that runs a task runs one that was queued.
HandlesTask == \A w \in Workers : pc[w] = "handle" => task[w] \in Tasks

\* The pool's mutex is held by the worker inside the critical section.
MutexOwned == \A w \in Workers : m_mtx_ = w <=> pc[w] \in {"fetch", "recheck"}

PoolInv == PoolTypeOK /\ HandlesTask /\ MutexOwned
=============================================================================
