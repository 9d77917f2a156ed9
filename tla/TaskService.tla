----------------------------- MODULE TaskService -----------------------------
(***************************************************************************)
(* What a client of the thread pool may rely on, with no thread in sight:  *)
(* submitted tasks start in submission order, each runs once, and none     *)
(* starts after the pool was closed.                                       *)
(***************************************************************************)
EXTENDS Sequences

CONSTANT Tasks

VARIABLES pending,   \* submitted, not started, in submission order
          running,   \* started, not finished
          done,      \* finished
          closed     \* the owner asked the pool to stop

vars == <<pending, running, done, closed>>

Init ==
    /\ pending = <<>>
    /\ running = {}
    /\ done = {}
    /\ closed = FALSE

Known == {pending[i] : i \in DOMAIN pending} \cup running \cup done

Submit(t) ==
    /\ t \notin Known
    /\ ~closed
    /\ pending' = Append(pending, t)
    /\ UNCHANGED <<running, done, closed>>

Start ==
    /\ pending # <<>>
    /\ ~closed
    /\ running' = running \cup {Head(pending)}
    /\ pending' = Tail(pending)
    /\ UNCHANGED <<done, closed>>

Finish(t) ==
    /\ t \in running
    /\ running' = running \ {t}
    /\ done' = done \cup {t}
    /\ UNCHANGED <<pending, closed>>

Close ==
    /\ closed' = TRUE
    /\ UNCHANGED <<pending, running, done>>

Next == Start \/ Close \/ \E t \in Tasks : Submit(t) \/ Finish(t)

Spec == Init /\ [][Next]_vars
=============================================================================
