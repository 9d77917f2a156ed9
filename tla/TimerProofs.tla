---------------------------- MODULE TimerProofs ----------------------------
(***************************************************************************)
(* Proofs of the four properties of TimerManager, for any number of        *)
(* timers, any periods and any length of time.                             *)
(***************************************************************************)
EXTENDS TimerManager, FiniteSetTheorems, WellFoundedInduction, TLAPS

-----------------------------------------------------------------------------
(* The first entry of the events map *)

\* A set of numbers that is not empty has a least one.
LEMMA LeastNumber ==
    ASSUME NEW S \in SUBSET Nat, S # {}
    PROVE  \E n \in S : \A m \in S : n <= m
<1> DEFINE R == OpToRel(<, Nat)
<1>1. IsWellFoundedOn(R, Nat)
  BY NatLessThanWellFounded
<1>2. \A n, m \in Nat : n < m => <<n, m>> \in R
  BY DEF OpToRel
<1> HIDE DEF R
<1>3. PICK n \in S : \A m \in S : ~(<<m, n>> \in R)
  BY <1>1, WFMin
<1>4. \A m \in S : ~(m < n)
  BY <1>2, <1>3
<1>5. \A m \in S : n <= m
  BY <1>4, n \in Nat, S \subseteq Nat
<1> QED
  BY <1>5

\* No timer has two entries in the events map.
UniqueIds == \A e, f \in m_events_map_ : e.id = f.id => e = f

\* When the ids of its entries differ, a map that is not empty has a first
\* entry, and it precedes all the others.
LEMMA FirstIsFirst ==
    ASSUME NEW E \in SUBSET Entries, E # {},
           \A e, f \in E : e.id = f.id => e = f
    PROVE  /\ First(E) \in E
           /\ \A f \in E \ {First(E)} : Before(First(E), f)
<1> DEFINE S == {e.stamp : e \in E}
<1>1. S \in SUBSET Nat /\ S # {}
  BY DEF Entries, Stamps
<1> HIDE DEF S
<1>2. PICK s \in S : \A t \in S : s <= t
  BY LeastNumber, <1>1
<1> DEFINE I == {e.id : e \in {f \in E : f.stamp = s}}
<1>3. I \in SUBSET Nat /\ I # {}
  BY DEF Entries, Ids, S
<1> HIDE DEF I
<1>4. PICK i \in I : \A j \in I : i <= j
  BY LeastNumber, <1>3
<1>5. PICK e \in E : e.stamp = s /\ e.id = i
  BY DEF I
<1>6. \A f \in E \ {e} : Before(e, f)
  <2> TAKE f \in E \ {e}
  <2>1. s <= f.stamp
    BY <1>2 DEF S
  <2>2. f.stamp = s => i <= f.id
    BY <1>4 DEF I
  <2>3. f.id # e.id
    OBVIOUS
  <2>4. f.stamp \in Nat /\ s \in Nat /\ f.id \in Nat /\ i \in Nat
    BY <1>1, <1>3 DEF Entries, Stamps, Ids
  <2> QED
    BY <2>1, <2>2, <2>3, <2>4, <1>5 DEF Before
<1> QED
  BY <1>5, <1>6 DEF First

-----------------------------------------------------------------------------
(* The inductive invariant *)

\* Ids are given out in order and never again, in both maps.
IdsGivenOut ==
    /\ \A e \in m_events_map_ : e.id <= last_timer_id_
    /\ \A id \in Timers : id <= last_timer_id_

\* A timer that RemoveTimer can find by id has an entry to be removed with it.
EntryForTimer == \A id \in Timers : \E e \in m_events_map_ : e.id = id

\* The time stamp of the first map is the key of the entry, until the timer is
\* repeated: only HandleTimerEvent moves an entry, after its callback.
StampUntilFired ==
    \A e \in m_events_map_ :
        e.id \in Timers =>
            \/ e.stamp = m_timers_map_[e.id].stamp
            \/ e.interval > 0 /\ e.id \in fired

\* Neither the clock nor a time stamp is the 0 that disarms the timerfd.
ClockStarted ==
    /\ now >= 1
    /\ \A e \in m_events_map_ : e.stamp >= 1

\* A round forgets whom it served when it ends.
ServedInRound == Idle => served = {}

\* Between rounds the timerfd is armed for the first entry.
ArmedForFirst ==
    Idle => armed = IF m_events_map_ = {} THEN Disarmed ELSE First(m_events_map_).stamp

TimerInv ==
    /\ TypeOK
    /\ UniqueIds
    /\ IdsGivenOut
    /\ EntryForTimer
    /\ StampUntilFired
    /\ OrphansHaveFired
    /\ OncePerRound
    /\ ClockStarted
    /\ ServedInRound
    /\ ArmedForFirst

-----------------------------------------------------------------------------
(* It holds initially and is kept by every step *)

LEMMA TimerInit == Init => TimerInv
<1> SUFFICES ASSUME Init PROVE TimerInv
  OBVIOUS
<1> USE TimerAssumption DEF Init
<1>1. TypeOK
  <2>1. m_timers_map_ \in [Ids -> [stamp : Stamps, interval : Intervals] \cup {NoTimer}]
    OBVIOUS
  <2>2. now \in Times
    BY DEF Times
  <2> QED
    BY <2>1, <2>2 DEF TypeOK, Disarmed
<1>2. Timers = {}
  BY DEF Timers
<1>3. UniqueIds /\ IdsGivenOut /\ EntryForTimer /\ StampUntilFired
  BY <1>2 DEF UniqueIds, IdsGivenOut, EntryForTimer, StampUntilFired
<1>4. OrphansHaveFired /\ OncePerRound /\ ClockStarted
  BY DEF OrphansHaveFired, OncePerRound, ClockStarted
<1>5. ServedInRound /\ ArmedForFirst
  BY DEF ServedInRound, ArmedForFirst, Disarmed
<1> QED
  BY <1>1, <1>3, <1>4, <1>5 DEF TimerInv

\* A timer gets an id that neither map has.
LEMMA AddTimerKeeps ==
    ASSUME TimerInv, NEW delay \in Intervals, NEW interval \in Intervals,
           AddTimer(delay, interval)
    PROVE  TimerInv'
<1> DEFINE id == last_timer_id_ + 1
           stamp == now + delay
           new == [stamp |-> stamp, id |-> id, interval |-> interval]
<1>1. /\ id \in Ids /\ last_timer_id_' = id
      /\ stamp \in Nat /\ stamp >= 1
      /\ new \in Entries
      /\ m_events_map_' = m_events_map_ \cup {new}
      /\ UNCHANGED <<now, round, fired, served>>
      /\ Idle
      /\ last_timer_id_ \in Nat
  BY TimerAssumption DEF TimerInv, TypeOK, AddTimer, Entries, Stamps, Ids, Times, ClockStarted
<1>2. TypeOK'
  <2>1. m_timers_map_' \in [Ids -> [stamp : Stamps, interval : Intervals] \cup {NoTimer}]
    BY <1>1 DEF TimerInv, TypeOK, AddTimer, Stamps
  <2>2. ModifyTimeout(m_events_map_')
    BY DEF AddTimer
  <2>3. armed' \in Nat
    <3>1. UniqueIds'
      BY <1>1 DEF TimerInv, TypeOK, UniqueIds, IdsGivenOut, Entries, Ids
    <3>2. m_events_map_' \in SUBSET Entries /\ m_events_map_' # {}
      BY <1>1 DEF TimerInv, TypeOK
    <3>3. First(m_events_map_') \in Entries
      BY <3>1, <3>2, FirstIsFirst DEF UniqueIds
    <3> QED
      BY <2>2, <3>2, <3>3 DEF ModifyTimeout, Entries, Stamps
  <2> QED
    BY <1>1, <2>1, <2>3 DEF TimerInv, TypeOK, Ids
<1>3. Timers' = Timers \cup {id}
  BY <1>1 DEF TimerInv, TypeOK, AddTimer, Timers, NoTimer, Never, Stamps
<1>4. m_timers_map_'[id].stamp = stamp /\ \A i \in Ids : i # id => m_timers_map_'[i] = m_timers_map_[i]
  BY <1>1 DEF TimerInv, TypeOK, AddTimer
<1>5. \A e \in m_events_map_ : e.id <= last_timer_id_ /\ e.id # id /\ e.id \in Ids
  BY <1>1 DEF TimerInv, TypeOK, IdsGivenOut, Entries, Ids
<1>6. UniqueIds'
  BY <1>1, <1>5 DEF TimerInv, UniqueIds
<1>7. IdsGivenOut'
  BY <1>1, <1>3, <1>5 DEF TimerInv, IdsGivenOut, Timers, Ids
<1>8. EntryForTimer'
  BY <1>1, <1>3 DEF TimerInv, EntryForTimer
<1>9. StampUntilFired'
  BY <1>1, <1>3, <1>4, <1>5 DEF TimerInv, StampUntilFired
<1>10. OrphansHaveFired'
  BY <1>1, <1>3 DEF TimerInv, OrphansHaveFired
<1>11. OncePerRound' /\ ServedInRound'
  BY <1>1 DEF TimerInv, OncePerRound, ServedInRound, Idle
<1>12. ClockStarted'
  BY <1>1 DEF TimerInv, ClockStarted
<1>13. ArmedForFirst'
  BY DEF AddTimer, ModifyTimeout, ArmedForFirst
<1> QED
  BY <1>2, <1>6, <1>7, <1>8, <1>9, <1>10, <1>11, <1>12, <1>13 DEF TimerInv

\* RemoveTimer leaves no entry of the timer, unless the timer repeats and has
\* fired: its entry has then moved away from the time stamp looked up.
LEMMA RemoveTimerKeeps ==
    ASSUME TimerInv, NEW id \in Ids, RemoveTimer(id)
    PROVE  TimerInv'
<1>1. /\ id \in Timers /\ Idle
      /\ m_events_map_' \subseteq m_events_map_
      /\ \A e \in m_events_map_ :
            e \notin m_events_map_' <=> e.id = id /\ e.stamp = m_timers_map_[id].stamp
      /\ UNCHANGED <<last_timer_id_, now, round, fired, served>>
  BY DEF RemoveTimer
<1>2. Timers' = Timers \ {id} /\ \A i \in Timers' : m_timers_map_'[i] = m_timers_map_[i]
  BY DEF TimerInv, TypeOK, RemoveTimer, Timers
<1>3. UniqueIds'
  BY <1>1 DEF TimerInv, UniqueIds
<1>4. TypeOK'
  <2>1. m_timers_map_' \in [Ids -> [stamp : Stamps, interval : Intervals] \cup {NoTimer}]
    BY DEF TimerInv, TypeOK, RemoveTimer
  <2>2. ModifyTimeout(m_events_map_')
    BY DEF RemoveTimer
  <2>3. m_events_map_' \in SUBSET Entries
    BY <1>1 DEF TimerInv, TypeOK
  <2>4. m_events_map_' # {} => First(m_events_map_') \in Entries
    BY <1>3, <2>3, FirstIsFirst DEF UniqueIds
  <2>5. armed' \in Nat
    BY <2>2, <2>4 DEF ModifyTimeout, Disarmed, Entries, Stamps
  <2> QED
    BY <1>1, <2>1, <2>3, <2>5 DEF TimerInv, TypeOK
<1>5. IdsGivenOut'
  BY <1>1, <1>2 DEF TimerInv, IdsGivenOut
<1>6. EntryForTimer'
  BY <1>1, <1>2 DEF TimerInv, EntryForTimer
<1>7. StampUntilFired'
  BY <1>1, <1>2 DEF TimerInv, StampUntilFired
<1>8. OrphansHaveFired'
  <2> SUFFICES ASSUME NEW e \in m_events_map_', e.id \notin Timers'
               PROVE  e.interval > 0 /\ e.id \in fired
    BY <1>1 DEF OrphansHaveFired
  <2>1. CASE e.id = id
    BY <1>1, <2>1 DEF TimerInv, StampUntilFired
  <2>2. CASE e.id # id
    BY <1>1, <1>2, <2>2 DEF TimerInv, OrphansHaveFired
  <2> QED
    BY <2>1, <2>2
<1>9. OncePerRound' /\ ServedInRound' /\ ClockStarted'
  BY <1>1 DEF TimerInv, OncePerRound, ServedInRound, Idle, ClockStarted
<1>10. ArmedForFirst'
  BY DEF RemoveTimer, ModifyTimeout, ArmedForFirst
<1> QED
  BY <1>3, <1>4, <1>5, <1>6, <1>7, <1>8, <1>9, <1>10 DEF TimerInv

\* A round that finds a timer finds an entry: the first.
LEMMA DueEntry ==
    ASSUME TimerInv, Due
    PROVE  /\ First(m_events_map_) \in m_events_map_
           /\ \A f \in m_events_map_ \ {First(m_events_map_)} : f.id # First(m_events_map_).id
           /\ round \in Nat
<1>1. m_events_map_ # {}
  BY DEF TimerInv, Due, EntryForTimer
<1>2. First(m_events_map_) \in m_events_map_
  BY <1>1, FirstIsFirst DEF TimerInv, TypeOK, UniqueIds
<1>3. round \in Nat
  BY DEF TimerInv, TypeOK, Due, Times
<1> QED
  BY <1>2, <1>3 DEF TimerInv, UniqueIds

\* A repeating timer keeps its one entry, later than the round; a one-shot
\* timer leaves both maps.
LEMMA FireFirstKeeps ==
    ASSUME TimerInv, FireFirst
    PROVE  TimerInv'
<1> DEFINE e == First(m_events_map_)
           rest == m_events_map_ \ {e}
<1>1. /\ e \in m_events_map_ /\ e \in Entries
      /\ \A f \in rest : f.id # e.id
      /\ round \in Nat
      /\ ~Idle
      /\ fired' = fired \cup {e.id}
      /\ served' = served \cup {e.id}
      /\ UNCHANGED <<last_timer_id_, armed, now, round>>
  BY DueEntry DEF TimerInv, TypeOK, FireFirst, Due, Idle
<1>2. e.id \in Ids /\ e.interval \in Nat /\ e.stamp \in Nat /\ e.interval \in Intervals
  BY <1>1, TimerAssumption DEF Entries, Stamps
<1>3. /\ m_timers_map_ \in [Ids -> [stamp : Stamps, interval : Intervals] \cup {NoTimer}]
      /\ last_timer_id_' \in 0 .. MaxTimerId
      /\ armed' \in Nat
      /\ now' \in Times
      /\ round' \in Times \cup {Never}
      /\ served' \subseteq fired'
      /\ fired' \subseteq 1 .. last_timer_id_'
  <2>1. e.id \in 1 .. last_timer_id_
    BY <1>1, <1>2 DEF TimerInv, TypeOK, IdsGivenOut, Ids
  <2> QED
    BY <1>1, <2>1 DEF TimerInv, TypeOK
<1>4. CASE e.interval > 0
  <2> DEFINE next == [e EXCEPT !.stamp = round + e.interval]
  <2>1. m_events_map_' = rest \cup {next} /\ UNCHANGED m_timers_map_
    BY <1>4 DEF FireFirst
  <2>2. /\ next.id = e.id /\ next.interval = e.interval
        /\ next.stamp = round + e.interval
        /\ next \in Entries
    BY <1>1, <1>2 DEF Entries, Stamps
  <2> HIDE DEF next, rest, e
  <2>3. next.stamp > round /\ next.stamp >= 1
    BY <1>1, <1>2, <1>4, <2>2
  <2>4. Timers' = Timers
    BY <2>1 DEF Timers
  <2>5. rest \subseteq m_events_map_
    BY DEF rest
  <2>6. \A f \in m_events_map_ : f \in rest \/ f = e
    BY DEF rest
  <2>7. UniqueIds'
    BY <1>1, <2>1, <2>2, <2>5 DEF TimerInv, UniqueIds
  <2>8. TypeOK'
    <3>1. m_events_map_' \in SUBSET Entries
      BY <2>1, <2>2, <2>5 DEF TimerInv, TypeOK
    <3> QED
      BY <1>3, <2>1, <3>1 DEF TypeOK
  <2>9. IdsGivenOut'
    BY <1>1, <2>1, <2>2, <2>4, <2>5 DEF TimerInv, IdsGivenOut
  <2>10. EntryForTimer'
    BY <2>1, <2>2, <2>4, <2>6 DEF TimerInv, EntryForTimer
  <2>11. StampUntilFired'
    BY <1>1, <1>4, <2>1, <2>2, <2>4, <2>5 DEF TimerInv, StampUntilFired
  <2>12. OrphansHaveFired'
    BY <1>1, <1>4, <2>1, <2>2, <2>4, <2>5 DEF TimerInv, OrphansHaveFired
  <2>13. OncePerRound'
    BY <1>1, <2>1, <2>3, <2>5 DEF TimerInv, OncePerRound
  <2>14. ServedInRound' /\ ArmedForFirst'
    BY <1>1 DEF ServedInRound, ArmedForFirst, Idle
  <2>15. ClockStarted'
    BY <1>1, <2>1, <2>3, <2>5 DEF TimerInv, ClockStarted
  <2> QED
    BY <2>7, <2>8, <2>9, <2>10, <2>11, <2>12, <2>13, <2>14, <2>15 DEF TimerInv
<1>5. CASE ~(e.interval > 0)
  <2>1. /\ m_events_map_' = rest
        /\ m_timers_map_' = [m_timers_map_ EXCEPT ![e.id] = NoTimer]
    BY <1>5 DEF FireFirst
  <2>2. m_timers_map_' \in [Ids -> [stamp : Stamps, interval : Intervals] \cup {NoTimer}]
    BY <2>1 DEF TimerInv, TypeOK
  <2>3. /\ Timers' = Timers \ {e.id}
        /\ \A i \in Timers' : m_timers_map_'[i] = m_timers_map_[i]
    BY <1>2, <2>1 DEF TimerInv, TypeOK, Timers
  <2>4. \A f \in m_events_map_ : f \in rest \/ f = e
    OBVIOUS
  <2>5. rest \subseteq m_events_map_
    OBVIOUS
  <2> HIDE DEF rest, e
  <2>6. UniqueIds'
    BY <2>1, <2>5 DEF TimerInv, UniqueIds
  <2>7. TypeOK'
    <3>1. m_events_map_' \in SUBSET Entries
      BY <2>1, <2>5 DEF TimerInv, TypeOK
    <3> QED
      BY <1>3, <2>2, <3>1 DEF TypeOK
  <2>8. IdsGivenOut'
    BY <1>1, <2>1, <2>3, <2>5 DEF TimerInv, IdsGivenOut
  <2>9. EntryForTimer'
    BY <2>1, <2>3, <2>4 DEF TimerInv, EntryForTimer
  <2>10. StampUntilFired'
    BY <1>1, <2>1, <2>3, <2>5 DEF TimerInv, StampUntilFired
  <2>11. OrphansHaveFired'
    BY <1>1, <2>1, <2>3, <2>5 DEF TimerInv, OrphansHaveFired
  <2>12. OncePerRound'
    BY <1>1, <2>1, <2>5 DEF TimerInv, OncePerRound
  <2>13. ServedInRound' /\ ArmedForFirst'
    BY <1>1 DEF ServedInRound, ArmedForFirst, Idle
  <2>14. ClockStarted'
    BY <1>1, <2>1, <2>5 DEF TimerInv, ClockStarted
  <2> QED
    BY <2>6, <2>7, <2>8, <2>9, <2>10, <2>11, <2>12, <2>13, <2>14 DEF TimerInv
<1> QED
  BY <1>4, <1>5

\* What is left unchanged by a step that touches neither map nor the history.
MapsUntouched == UNCHANGED <<m_timers_map_, m_events_map_, last_timer_id_, fired>>

LEMMA MapsUntouchedKeeps ==
    ASSUME TimerInv, MapsUntouched
    PROVE  /\ UniqueIds' /\ IdsGivenOut' /\ EntryForTimer' /\ StampUntilFired'
           /\ OrphansHaveFired'
           /\ ModifyTimeout(m_events_map_) => armed' \in Nat /\ ArmedForFirst'
<1>1. Timers' = Timers
  BY DEF MapsUntouched, Timers
<1>2. UniqueIds' /\ IdsGivenOut' /\ EntryForTimer' /\ StampUntilFired' /\ OrphansHaveFired'
  BY <1>1 DEF MapsUntouched, TimerInv, UniqueIds, IdsGivenOut, EntryForTimer,
              StampUntilFired, OrphansHaveFired
<1>3. m_events_map_ # {} => First(m_events_map_) \in Entries
  BY FirstIsFirst DEF TimerInv, TypeOK, UniqueIds
<1>4. ModifyTimeout(m_events_map_) => armed' \in Nat /\ ArmedForFirst'
  BY <1>3 DEF ModifyTimeout, ArmedForFirst, MapsUntouched, Disarmed, Entries, Stamps
<1> QED
  BY <1>2, <1>4

LEMMA TimerStep == TimerInv /\ [Next]_vars => TimerInv'
<1> SUFFICES ASSUME TimerInv, [Next]_vars PROVE TimerInv'
  OBVIOUS
<1>1. CASE \E delay, interval \in Intervals : AddTimer(delay, interval)
  BY <1>1, AddTimerKeeps
<1>2. CASE \E id \in Ids : RemoveTimer(id)
  BY <1>2, RemoveTimerKeeps
<1>3. CASE BeginRound
  <2>1. MapsUntouched
    BY <1>3 DEF BeginRound, MapsUntouched
  <2>2. TypeOK' /\ OncePerRound' /\ ServedInRound' /\ ArmedForFirst' /\ ClockStarted'
    BY <1>3 DEF BeginRound, TimerInv, TypeOK, OncePerRound, ServedInRound, ArmedForFirst,
                ClockStarted, Idle, Times, Never
  <2> QED
    BY <2>1, <2>2, MapsUntouchedKeeps DEF TimerInv
<1>4. CASE EmptyRound
  <2>1. MapsUntouched /\ ModifyTimeout(m_events_map_)
    BY <1>4 DEF EmptyRound, MapsUntouched
  <2>2. armed' \in Nat /\ ArmedForFirst'
    BY <2>1, MapsUntouchedKeeps
  <2>3. TypeOK' /\ OncePerRound' /\ ServedInRound' /\ ClockStarted'
    BY <1>4, <2>2 DEF EmptyRound, TimerInv, TypeOK, OncePerRound, ServedInRound,
                      ClockStarted, Idle
  <2> QED
    BY <2>1, <2>2, <2>3, MapsUntouchedKeeps DEF TimerInv
<1>5. CASE FireFirst
  BY <1>5, FireFirstKeeps
<1>6. CASE EndRound
  <2>1. MapsUntouched /\ ModifyTimeout(m_events_map_)
    BY <1>6 DEF EndRound, MapsUntouched
  <2>2. armed' \in Nat /\ ArmedForFirst'
    BY <2>1, MapsUntouchedKeeps
  <2>3. TypeOK' /\ OncePerRound' /\ ServedInRound' /\ ClockStarted'
    BY <1>6, <2>2 DEF EndRound, TimerInv, TypeOK, OncePerRound, ServedInRound,
                      ClockStarted, Idle
  <2> QED
    BY <2>1, <2>2, <2>3, MapsUntouchedKeeps DEF TimerInv
<1>7. CASE Tick
  <2>1. MapsUntouched
    BY <1>7 DEF Tick, MapsUntouched
  <2>2. now' \in Times /\ now' >= 1
    BY <1>7, TimerAssumption DEF Tick, TimerInv, TypeOK, ClockStarted, Times
  <2>3. TypeOK' /\ ClockStarted'
    BY <1>7, <2>2 DEF Tick, TimerInv, TypeOK, ClockStarted
  <2>4. OncePerRound' /\ ServedInRound' /\ ArmedForFirst'
    BY <1>7 DEF Tick, TimerInv, OncePerRound, ServedInRound, ArmedForFirst, Idle
  <2> QED
    BY <2>1, <2>4, <2>3, MapsUntouchedKeeps DEF TimerInv
<1>8. CASE UNCHANGED vars
  <2>1. MapsUntouched
    BY <1>8 DEF vars, MapsUntouched
  <2>2. TypeOK' /\ ClockStarted' /\ OncePerRound' /\ ServedInRound' /\ ArmedForFirst'
    BY <1>8 DEF vars, TimerInv, TypeOK, ClockStarted, OncePerRound, ServedInRound,
                ArmedForFirst, Idle
  <2> QED
    BY <2>1, <2>2, MapsUntouchedKeeps DEF TimerInv
<1> QED
  BY <1>1, <1>2, <1>3, <1>4, <1>5, <1>6, <1>7, <1>8 DEF Next

LEMMA TimerInvAlways == Spec => []TimerInv
<1>1. Init => TimerInv
  BY TimerInit
<1>2. TimerInv /\ [Next]_vars => TimerInv'
  BY TimerStep
<1> QED
  BY <1>1, <1>2, PTL DEF Spec

-----------------------------------------------------------------------------
(* The theorems *)

\* HandleTimerEvent's loop, guarded by one map, never takes the first entry of
\* an empty other one: every timer has exactly one entry.
THEOREM TimersPendingOnceAlways == Spec => []TimersPendingOnce
<1>1. TimerInv => TimersPendingOnce
  <2> SUFFICES ASSUME TimerInv, NEW id \in Timers
               PROVE  Cardinality(Pending(id)) = 1
    BY DEF TimerInv, TimersPendingOnce
  <2>1. PICK e \in m_events_map_ : e.id = id
    BY DEF TimerInv, EntryForTimer
  <2>2. Pending(id) = {e}
    BY <2>1 DEF TimerInv, UniqueIds, Pending
  <2> QED
    BY <2>2, FS_Singleton
<1> QED
  BY <1>1, TimerInvAlways, PTL

\* The entry that RemoveTimer may leave behind belongs to a repeating timer
\* that has fired, whatever was added and removed before.
THEOREM OrphansHaveFiredAlways == Spec => []OrphansHaveFired
<1>1. TimerInv => OrphansHaveFired
  BY DEF TimerInv
<1> QED
  BY <1>1, TimerInvAlways, PTL

\* No timer fires twice in one round, however long the callbacks take.
THEOREM OncePerRoundAlways == Spec => []OncePerRound
<1>1. TimerInv => OncePerRound
  BY DEF TimerInv
<1> QED
  BY <1>1, TimerInvAlways, PTL

\* An entry that is due between rounds has the timerfd readable.
THEOREM DueIsReadableAlways == Spec => []DueIsReadable
<1>1. TimerInv => DueIsReadable
  <2> SUFFICES ASSUME TimerInv, Idle, NEW e \in m_events_map_, e.stamp <= now
               PROVE  Readable
    BY DEF DueIsReadable
  <2> DEFINE f == First(m_events_map_)
  <2>1. f \in m_events_map_ /\ (e = f \/ Before(f, e))
    BY FirstIsFirst DEF TimerInv, TypeOK, UniqueIds
  <2>2. f.stamp <= e.stamp /\ f.stamp >= 1 /\ {f.stamp, e.stamp, now} \subseteq Nat
    BY <2>1 DEF TimerInv, TypeOK, ClockStarted, Entries, Stamps, Before, Times
  <2>3. armed = f.stamp
    BY <2>1 DEF TimerInv, ArmedForFirst
  <2> QED
    BY <2>2, <2>3 DEF Readable, Disarmed
<1> QED
  BY <1>1, TimerInvAlways, PTL
=============================================================================
