------------------------------ MODULE EventLoop ------------------------------
(***************************************************************************)
(* The single-threaded event loop: EventScheduler::Loop                    *)
(* (event_scheduler.cpp) over EpollEpoller (epollpoller.cpp).  One round   *)
(* runs the trigger events, waits in epoll_wait, and dispatches the batch  *)
(* of ready descriptors it returned, each through m_event_map_.            *)
(*                                                                         *)
(* What the handlers do is left to the module that extends this one.       *)
(* HandleOtherEvent finds its queue empty, since nothing in src/ calls     *)
(* RunInLocalThread, and adds no step.                                     *)
(***************************************************************************)
EXTENDS Naturals, FiniteSets

CONSTANTS Fds,            \* descriptors of accepted connections
          Events,         \* IOEvent objects of connections
          NoFd,           \* what accept() returns when it fails
          None,           \* an absent map entry
          InitListSize    \* INIT_EVENT_LIST_SIZE

ListenFd == "listenfd"
TimerFd == "timerfd"

AllFds == Fds \cup {ListenFd, TimerFd}
AllEvents == Events \cup {"acceptor", "timers"}

\* The two descriptors made at start are none of the later ones.
ASSUME EventLoopAssumption ==
    /\ IsFiniteSet(Fds)
    /\ NoFd \notin Fds
    /\ {ListenFd, TimerFd} \cap (Fds \cup {NoFd}) = {}
    /\ None \notin AllEvents
    /\ InitListSize \in Nat /\ InitListSize > 2

VARIABLES phase,                \* where Loop() is
          m_event_map_,         \* fd -> IOEvent
          epoll,                \* descriptors the kernel watches
          batch,                \* ready descriptors still to dispatch
          polled,               \* their IOEvents when epoll_wait returned (history)
          event_list_size,      \* m_epoll_event_lists_.size()
          triggered             \* m_trigger_events_ is not empty

loopVars == <<phase, m_event_map_, epoll, batch, polled, event_list_size, triggered>>

EventMaps == [AllFds \cup {NoFd} -> AllEvents \cup {None}]
Mapped == {fd \in AllFds \cup {NoFd} : m_event_map_[fd] # None}

LoopTypeOK ==
    /\ phase \in {"trigger", "poll", "dispatch"}
    /\ m_event_map_ \in EventMaps
    /\ epoll \subseteq AllFds
    /\ batch \subseteq AllFds
    /\ polled \in EventMaps
    /\ event_list_size \in Nat \ {0}
    /\ triggered \in BOOLEAN

\* The timer descriptor is registered by TimerManager's constructor, the
\* listening one by Acceptor::Listen.
LoopInit ==
    /\ phase = "trigger"
    /\ m_event_map_ = [fd \in AllFds \cup {NoFd} |->
                          CASE fd = ListenFd -> "acceptor"
                            [] fd = TimerFd -> "timers"
                            [] OTHER -> None]
    /\ epoll = {ListenFd, TimerFd}
    /\ batch = {}
    /\ polled = [fd \in AllFds \cup {NoFd} |-> None]
    /\ event_list_size = InitListSize
    /\ triggered = FALSE

-----------------------------------------------------------------------------
(* Operations on the poller *)

\* Mutant of AddIOEvent: the event list keeps its first size.
AddIOEventNoGrowth(fd, event) ==
    IF fd \in Mapped
    THEN UNCHANGED <<m_event_map_, epoll, event_list_size>>
    ELSE /\ m_event_map_' = [m_event_map_ EXCEPT ![fd] = event]
         /\ epoll' = IF fd = NoFd THEN epoll ELSE epoll \cup {fd}
         /\ UNCHANGED event_list_size

\* AddIOEvent for a descriptor that may already be in the map; epoll_ctl fails
\* silently for a descriptor that is not open.
AddIOEvent(fd, event) ==
    IF fd \in Mapped
    THEN UNCHANGED <<m_event_map_, epoll, event_list_size>>
    ELSE /\ m_event_map_' = [m_event_map_ EXCEPT ![fd] = event]
         /\ epoll' = IF fd = NoFd THEN epoll ELSE epoll \cup {fd}
         /\ event_list_size' = IF Cardinality(Mapped) + 1 >= event_list_size
                               THEN 2 * event_list_size
                               ELSE event_list_size

\* Mutants of RemoveIOEvents: half of its work is forgotten.
RemoveFromMapOnly(fds) ==
    /\ m_event_map_' = [fd \in AllFds \cup {NoFd} |->
                          IF fd \in fds THEN None ELSE m_event_map_[fd]]
    /\ UNCHANGED epoll

RemoveFromEpollOnly(fds) == epoll' = epoll \ fds /\ UNCHANGED m_event_map_

\* RemoveIOEvent for each of a set of descriptors.
RemoveIOEvents(fds) ==
    /\ m_event_map_' = [fd \in AllFds \cup {NoFd} |->
                          IF fd \in fds THEN None ELSE m_event_map_[fd]]
    /\ epoll' = epoll \ fds

\* Mutant of AddTriggerEvent: the event is dropped.
AddNoTriggerEvent == UNCHANGED triggered

AddTriggerEvent == triggered' = TRUE

-----------------------------------------------------------------------------
(* The rounds of Loop() *)

\* HandleTriggleEvents: the callbacks, if any, then the list is cleared.
RunTriggers ==
    /\ phase = "trigger"
    /\ phase' = "poll"
    /\ triggered' = FALSE
    /\ UNCHANGED <<batch, polled, event_list_size>>

\* epoll_wait returns any of the watched descriptors, or none (timeout, EINTR).
Poll ==
    /\ phase = "poll"
    /\ batch' \in SUBSET epoll
    /\ polled' = [fd \in AllFds \cup {NoFd} |->
                      IF fd \in batch' THEN m_event_map_[fd] ELSE None]
    /\ phase' = "dispatch"
    /\ UNCHANGED <<m_event_map_, epoll, event_list_size, triggered>>

\* One turn of the loop over the batch: fd's handler, given by the extending
\* module, runs next.
Dispatch(fd) ==
    /\ phase = "dispatch"
    /\ fd \in batch
    /\ batch' = batch \ {fd}
    /\ polled' = [polled EXCEPT ![fd] = None]
    /\ UNCHANGED phase

EndRound ==
    /\ phase = "dispatch"
    /\ batch = {}
    /\ phase' = "trigger"
    /\ UNCHANGED <<m_event_map_, epoll, batch, polled, event_list_size, triggered>>
=============================================================================
