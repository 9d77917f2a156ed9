---------------------------- MODULE TimerManager ----------------------------
(***************************************************************************)
(* TimerManager (timer.cpp): two maps over the same timers, one by id, the *)
(* other by due time, and one timerfd armed for the first of the latter.   *)
(* Clients add and remove timers between rounds of the event loop; the     *)
(* loop calls HandleTimerEvent when the timerfd is readable.               *)
(***************************************************************************)
EXTENDS Integers, FiniteSets

CONSTANTS MaxTimerId,   \* bound on the timers ever added
          Intervals,    \* periods in use; 0 makes a one-shot timer
          MaxTime       \* bound on the clock

ASSUME TimerAssumption ==
    /\ MaxTimerId \in Nat
    /\ Intervals \subseteq Nat
    /\ MaxTime \in Nat \ {0}

Ids == 1 .. MaxTimerId
Times == 0 .. MaxTime
Disarmed == 0
Never == -1

VARIABLES m_timers_map_,   \* id -> Timer, as it was added
          m_events_map_,   \* the Timers by due time
          last_timer_id_,
          armed,           \* what timerfd_settime was last told
          now,             \* GetCurTime()
          round,           \* time_point of the running HandleTimerEvent
          fired,           \* timers whose callback has ever run (history)
          served           \* ... has run in this round (history)

vars == <<m_timers_map_, m_events_map_, last_timer_id_, armed, now, round, fired, served>>

\* The timers that m_timers_map_ holds, and a default entry for the others.
NoTimer == [stamp |-> Never, interval |-> 0]
Timers == {id \in Ids : m_timers_map_[id] # NoTimer}

Stamps == Nat
Entries == [stamp : Stamps, id : Ids, interval : Intervals]

TypeOK ==
    /\ m_timers_map_ \in [Ids -> [stamp : Stamps, interval : Intervals] \cup {NoTimer}]
    /\ m_events_map_ \in SUBSET Entries
    /\ last_timer_id_ \in 0 .. MaxTimerId
    /\ armed \in Nat
    /\ now \in Times
    /\ round \in Times \cup {Never}
    /\ served \subseteq fired
    /\ fired \subseteq 1 .. last_timer_id_

Init ==
    /\ m_timers_map_ = [id \in Ids |-> NoTimer]
    /\ m_events_map_ = {}
    /\ last_timer_id_ = 0
    /\ armed = Disarmed
    /\ now = 1
    /\ round = Never
    /\ fired = {}
    /\ served = {}

-----------------------------------------------------------------------------

\* The order of the multimap's keys, <<stamp, id>>.
Before(e, f) == e.stamp < f.stamp \/ (e.stamp = f.stamp /\ e.id < f.id)
First(E) == CHOOSE e \in E : \A f \in E \ {e} : Before(e, f)

\* The events map is E by now.
ModifyTimeout(E) == armed' = IF E = {} THEN Disarmed ELSE First(E).stamp

Idle == round = Never

\* Mutant of AddTimer: the timerfd not set for the new timer.
AddTimerUnarmed(delay, interval) ==
    LET id == last_timer_id_ + 1
        stamp == now + delay
    IN /\ Idle
       /\ id \in Ids
       /\ interval \in {0, delay}
       /\ last_timer_id_' = id
       /\ m_timers_map_' = [m_timers_map_ EXCEPT
              ![id] = [stamp |-> stamp, interval |-> interval]]
       /\ m_events_map_' = m_events_map_ \cup
              {[stamp |-> stamp, id |-> id, interval |-> interval]}
       /\ UNCHANGED <<armed, now, round, fired, served>>

\* RunAfter makes a one-shot timer, RunEvery one that repeats after `delay'.
AddTimer(delay, interval) ==
    LET id == last_timer_id_ + 1
        stamp == now + delay
    IN /\ Idle
       /\ id \in Ids
       /\ interval \in {0, delay}
       /\ last_timer_id_' = id
       /\ m_timers_map_' = [m_timers_map_ EXCEPT
              ![id] = [stamp |-> stamp, interval |-> interval]]
       /\ m_events_map_' = m_events_map_ \cup
              {[stamp |-> stamp, id |-> id, interval |-> interval]}
       /\ ModifyTimeout(m_events_map_')
       /\ UNCHANGED <<now, round, fired, served>>

\* Mutant of RemoveTimer: the events map is not touched.
RemoveTimerById(id) ==
    /\ Idle
    /\ id \in Timers
    /\ m_timers_map_' = [m_timers_map_ EXCEPT ![id] = NoTimer]
    /\ ModifyTimeout(m_events_map_)
    /\ UNCHANGED <<m_events_map_, last_timer_id_, now, round, fired, served>>

\* The key looked up in the events map is the time stamp of the first map,
\* which HandleTimerEvent does not keep up to date.
RemoveTimer(id) ==
    /\ Idle
    /\ id \in Timers
    /\ m_timers_map_' = [m_timers_map_ EXCEPT ![id] = NoTimer]
    /\ m_events_map_' = {e \in m_events_map_ :
                            ~(e.id = id /\ e.stamp = m_timers_map_[id].stamp)}
    /\ ModifyTimeout(m_events_map_')
    /\ UNCHANGED <<last_timer_id_, now, round, fired, served>>

-----------------------------------------------------------------------------
(* HandleTimerEvent, one turn of its loop per step *)

Readable == armed # Disarmed /\ armed <= now

BeginRound ==
    /\ Idle
    /\ Readable
    /\ Timers # {}
    /\ round' = now
    /\ UNCHANGED <<m_timers_map_, m_events_map_, last_timer_id_, armed, now, fired, served>>

\* With no timer left the handler only re-arms the timerfd with what it has.
EmptyRound ==
    /\ Idle
    /\ Readable
    /\ Timers = {}
    /\ ModifyTimeout(m_events_map_)
    /\ UNCHANGED <<m_timers_map_, m_events_map_, last_timer_id_, now, round, fired, served>>

Due == round # Never /\ Timers # {} /\ First(m_events_map_).stamp <= round

\* Mutants of FireFirst: the next expiry counted from the last one instead of
\* from the round; and a one-shot timer kept in the map of ids.
FireFirstCatchUp ==
    LET e == First(m_events_map_)
        rest == m_events_map_ \ {e}
    IN /\ Due
       /\ fired' = fired \cup {e.id}
       /\ served' = served \cup {e.id}
       /\ IF e.interval > 0
          THEN /\ m_events_map_' = rest \cup {[e EXCEPT !.stamp = @ + e.interval]}
               /\ UNCHANGED m_timers_map_
          ELSE /\ m_events_map_' = rest
               /\ m_timers_map_' = [m_timers_map_ EXCEPT ![e.id] = NoTimer]
       /\ UNCHANGED <<last_timer_id_, armed, now, round>>

FireFirstKeepsId ==
    LET e == First(m_events_map_)
        rest == m_events_map_ \ {e}
    IN /\ Due
       /\ fired' = fired \cup {e.id}
       /\ served' = served \cup {e.id}
       /\ m_events_map_' = IF e.interval > 0
                           THEN rest \cup {[e EXCEPT !.stamp = round + e.interval]}
                           ELSE rest
       /\ UNCHANGED <<m_timers_map_, last_timer_id_, armed, now, round>>

\* The callback of the first timer; it calls nothing of the TimerManager.
FireFirst ==
    LET e == First(m_events_map_)
        rest == m_events_map_ \ {e}
    IN /\ Due
       /\ fired' = fired \cup {e.id}
       /\ served' = served \cup {e.id}
       /\ IF e.interval > 0
          THEN /\ m_events_map_' = rest \cup {[e EXCEPT !.stamp = round + e.interval]}
               /\ UNCHANGED m_timers_map_
          ELSE /\ m_events_map_' = rest
               /\ m_timers_map_' = [m_timers_map_ EXCEPT ![e.id] = NoTimer]
       /\ UNCHANGED <<last_timer_id_, armed, now, round>>

EndRound ==
    /\ round # Never
    /\ ~Due
    /\ round' = Never
    /\ served' = {}
    /\ ModifyTimeout(m_events_map_)
    /\ UNCHANGED <<m_timers_map_, m_events_map_, last_timer_id_, now, fired>>

\* Time passes at any moment, also while callbacks run.
Tick ==
    /\ now < MaxTime
    /\ now' = now + 1
    /\ UNCHANGED <<m_timers_map_, m_events_map_, last_timer_id_, armed, round, fired, served>>

Next ==
    \/ \E delay, interval \in Intervals : AddTimer(delay, interval)
    \/ \E id \in Ids : RemoveTimer(id)
    \/ BeginRound
    \/ EmptyRound
    \/ FireFirst
    \/ EndRound
    \/ Tick

Spec == Init /\ [][Next]_vars

-----------------------------------------------------------------------------
(* Properties *)

Pending(id) == {e \in m_events_map_ : e.id = id}

\* Every timer of the first map is pending exactly once in the second, so the
\* loop condition of HandleTimerEvent, which tests one map for emptiness and
\* takes the first entry of the other, never looks into an empty map.
TimersPendingOnce ==
    /\ TypeOK
    /\ \A id \in Timers : Cardinality(Pending(id)) = 1

\* RemoveTimer leaves an entry behind, which then fires with its TimerEvent
\* perhaps deleted, in one case only: a repeating timer that has already fired.
OrphansHaveFired ==
    \A e \in m_events_map_ : e.id \notin Timers => e.interval > 0 /\ e.id \in fired

\* However late the round runs and however long callbacks take, a timer's
\* callback runs at most once per round, so the loop over due timers ends.
OncePerRound == \A e \in m_events_map_ : e.id \in served => e.stamp > round

\* No due timer is overlooked: between rounds the timerfd is readable as soon
\* as the first entry is due.
DueIsReadable == Idle => \A e \in m_events_map_ : e.stamp <= now => Readable
=============================================================================
