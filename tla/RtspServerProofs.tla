-------------------------- MODULE RtspServerProofs --------------------------
(***************************************************************************)
(* Proofs about the control plane: for any number of descriptors,          *)
(* connection objects, sessions and tracks, whatever clients send and      *)
(* whenever connections end, the tables of the server, of the poller and   *)
(* of the kernel agree, no event reaches a deleted object, and every       *)
(* connection that ended is deleted before the loop blocks.                *)
(***************************************************************************)
EXTENDS RtspServer, FiniteSetTheorems, SequenceTheorems, TLAPS

-----------------------------------------------------------------------------
(* The inductive invariant *)

\* Only descriptors that accept() returned are queued.
QueuedFds == Disconnected \subseteq Fds

\* No descriptor still to be dispatched is queued: its connection is not among
\* those the next round deletes.
QueuedServed == batch \cap Disconnected = {}

\* The queue and its trigger event come together.
QueuedTriggered == ~triggered => m_disconnected_list_ = <<>>

\* The batch is dispatched within its round.
BatchInDispatch == phase # "dispatch" => batch = {}

\* Names not in use are as the allocator leaves them.
OthersFreed == \A c \in Conns \ live : conn[c] = Freed

ServerInv ==
    /\ MapsAgree
    /\ DisconnectedKnown
    /\ DispatchSafe
    /\ NothingPendingWhenBlocked
    /\ QueuedFds
    /\ QueuedServed
    /\ QueuedTriggered
    /\ BatchInDispatch
    /\ OthersFreed

LEMMA FreedIsConnection == Freed \in Connections
<1>1. NoInstance \in Instances
  BY DEF Instances
<1> HIDE DEF NoInstance, Instances
<1> QED
  BY <1>1 DEF Freed, Connections

\* The maps are finite, and the poller's gets no smaller than they are.
LEMMA MappedFinite == IsFiniteSet(Mapped)
<1>1. IsFiniteSet(Fds \cup {ListenFd} \cup {TimerFd} \cup {NoFd})
  BY EventLoopAssumption, FS_AddElement
<1>2. Mapped \subseteq Fds \cup {ListenFd} \cup {TimerFd} \cup {NoFd}
  BY DEF Mapped, AllFds
<1> QED
  BY <1>1, <1>2, FS_Subset

LEMMA EmptyQueue ==
    ASSUME m_disconnected_list_ = <<>>
    PROVE  Disconnected = {} /\ Len(m_disconnected_list_) = 0
<1>1. DOMAIN m_disconnected_list_ = {}
  BY DOMAIN <<>> = {}
<1> QED
  BY <1>1, EmptySeq DEF Disconnected

-----------------------------------------------------------------------------
(* Initial states *)

LEMMA ServerInit == Init => ServerInv
<1> SUFFICES ASSUME Init PROVE ServerInv
  OBVIOUS
<1> USE EventLoopAssumption DEF Init, LoopInit
<1>1. Disconnected = {} /\ Len(m_disconnected_list_) = 0
  BY EmptyQueue
<1>2. TypeOK
  <2>1. LoopTypeOK
    <3>1. m_event_map_ \in EventMaps
      BY DEF EventMaps, AllFds, AllEvents
    <3>2. polled \in EventMaps
      BY DEF EventMaps
    <3>3. epoll \subseteq AllFds /\ batch \subseteq AllFds
      BY DEF AllFds
    <3>4. event_list_size \in Nat \ {0}
      BY ONLY EventLoopAssumption, event_list_size = InitListSize
    <3>5. phase \in {"trigger", "poll", "dispatch"} /\ triggered \in BOOLEAN
      OBVIOUS
    <3> QED
      BY ONLY <3>1, <3>2, <3>3, <3>4, <3>5 DEF LoopTypeOK
  <2>2. conn \in [Conns -> Connections]
    BY FreedIsConnection
  <2>3. m_disconnected_list_ \in Seq(Fds \cup {NoFd})
    BY EmptySeq
  <2> QED
    BY <2>1, <2>2, <2>3 DEF TypeOK
<1>3. Mapped = {ListenFd, TimerFd}
  BY DEF Mapped, AllFds, AllEvents
<1>4. Cardinality(Mapped) < event_list_size
  <2>1. Cardinality({ListenFd}) = 1 /\ IsFiniteSet({ListenFd})
    BY FS_Singleton
  <2>2. Cardinality({ListenFd} \cup {TimerFd}) <= 2
    BY ONLY <2>1, FS_AddElement
  <2>3. {ListenFd, TimerFd} = {ListenFd} \cup {TimerFd}
    OBVIOUS
  <2>4. Cardinality({ListenFd, TimerFd}) \in Nat
    BY <1>3, MappedFinite, FS_CardinalityType
  <2> QED
    BY ONLY EventLoopAssumption, <1>3, <2>2, <2>3, <2>4, event_list_size = InitListSize
<1>5. MapsAgree
  <2>1. \A fd \in Fds : m_event_map_[fd] = None /\ m_connections_[fd] = None
    BY DEF AllFds
  <2>2. epoll = Mapped \ {NoFd}
    BY <1>3
  <2> QED
    BY <1>2, <1>4, <2>1, <2>2 DEF MapsAgree
<1>6. DisconnectedKnown
  BY <1>1, FS_EmptySet DEF DisconnectedKnown
<1>7. OthersFreed
  BY DEF OthersFreed
<1> QED
  BY <1>1, <1>5, <1>6, <1>7 DEF ServerInv, DispatchSafe, NothingPendingWhenBlocked, QueuedFds,
     QueuedServed, QueuedTriggered, BatchInDispatch

-----------------------------------------------------------------------------
(* A turn of the dispatch loop *)

\* The descriptor leaves the batch, and the others stay as they were ready.
LEMMA DispatchTurn ==
    ASSUME ServerInv, NEW fd, Dispatch(fd)
    PROVE  /\ fd \in batch /\ fd \in epoll \cup batch /\ m_event_map_[fd] # None
           /\ phase = "dispatch" /\ phase' = "dispatch"
           /\ batch' = batch \ {fd} /\ batch' \subseteq AllFds
           /\ polled' \in EventMaps
           /\ \A g \in batch' : polled'[g] = polled[g]
<1>1. fd \in batch /\ phase = "dispatch" /\ phase' = phase /\ batch' = batch \ {fd}
  BY DEF Dispatch
<1>2. batch \subseteq AllFds /\ polled \in EventMaps
  BY DEF ServerInv, MapsAgree, TypeOK, LoopTypeOK
<1>3. polled' \in EventMaps /\ \A g \in batch' : polled'[g] = polled[g]
  BY <1>1, <1>2 DEF Dispatch, EventMaps
<1> QED
  BY <1>1, <1>2, <1>3 DEF ServerInv, DispatchSafe

\* What a handler of a connection's descriptor leaves alone, and its two ways
\* to end.
Serving(fd) ==
    /\ Dispatch(fd)
    /\ UNCHANGED <<m_event_map_, epoll, event_list_size, live, m_connections_>>
    /\ Stay \/ HandleDisconnection(fd)

\* The handler works on the one connection: it keeps its descriptor.
Updated(c) ==
    /\ conn' \in [Conns -> Connections]
    /\ conn'[c].fd = conn[c].fd
    /\ \A d \in Conns \ {c} : conn'[d] = conn[d]

\* A descriptor that can be read belongs to a connection that exists.
LEMMA ServedConnection ==
    ASSUME ServerInv, NEW fd \in Fds, fd \in batch
    PROVE  /\ m_event_map_[fd] \in live /\ m_event_map_[fd] \in Conns
           /\ m_event_map_[fd] = m_connections_[fd]
  BY DEF ServerInv, MapsAgree, TypeOK, DispatchSafe

LEMMA QueueKept ==
    ASSUME ServerInv, NEW fd \in Fds, fd \in batch, batch' = batch \ {fd},
           UNCHANGED m_connections_, Stay \/ HandleDisconnection(fd)
    PROVE  /\ m_disconnected_list_' \in Seq(Fds \cup {NoFd}) /\ triggered' \in BOOLEAN
           /\ (DisconnectedKnown /\ QueuedFds /\ QueuedServed /\ QueuedTriggered)'
<1>1. CASE Stay
  <2>1. Disconnected' = Disconnected
    BY <1>1 DEF Stay, Disconnected
  <2> QED
    BY <1>1, <2>1 DEF Stay, ServerInv, MapsAgree, TypeOK, LoopTypeOK, DisconnectedKnown,
                      QueuedFds, QueuedServed, QueuedTriggered
<1>2. CASE HandleDisconnection(fd)
  <2> DEFINE old == m_disconnected_list_
             new == Append(old, fd)
  <2>1. m_disconnected_list_' = new /\ triggered' = TRUE
    BY <1>2 DEF HandleDisconnection, AddTriggerEvent
  <2>2. old \in Seq(Fds \cup {NoFd}) /\ Len(old) \in Nat /\ DOMAIN old = 1 .. Len(old)
    BY LenProperties DEF ServerInv, MapsAgree, TypeOK
  <2>3. /\ new \in Seq(Fds \cup {NoFd}) /\ Len(new) = Len(old) + 1
        /\ \A i \in 1 .. Len(old) : new[i] = old[i]
        /\ new[Len(old) + 1] = fd
    BY <2>2, AppendProperties
  <2>4. DOMAIN new = 1 .. Len(old) + 1
    BY <2>3, LenProperties
  <2>5. Disconnected' = {new[i] : i \in DOMAIN new}
    BY <2>1 DEF Disconnected
  <2>6. Disconnected = {old[i] : i \in 1 .. Len(old)}
    BY <2>2 DEF Disconnected
  <2> HIDE DEF new, old
  <2>7. Disconnected' = Disconnected \cup {fd}
    BY <2>2, <2>3, <2>4, <2>5, <2>6
  <2>8. fd \notin Disconnected /\ Disconnected \subseteq Fds /\ IsFiniteSet(Disconnected)
    BY EventLoopAssumption, FS_Subset DEF ServerInv, QueuedServed, QueuedFds
  <2>9. Cardinality(Disconnected') = Len(old) + 1
    BY <2>7, <2>8, FS_AddElement DEF ServerInv, DisconnectedKnown, old
  <2>10. DisconnectedKnown'
    <3>1. m_connections_[fd] # None
      BY ServedConnection DEF ServerInv, MapsAgree, DispatchSafe
    <3> QED
      BY <2>1, <2>3, <2>7, <2>9, <3>1 DEF ServerInv, DisconnectedKnown
  <2> QED
    BY <2>1, <2>3, <2>7, <2>8, <2>10 DEF ServerInv, QueuedFds, QueuedServed, QueuedTriggered
<1> QED
  BY <1>1, <1>2

\* A turn that serves a connection keeps the invariant.
LEMMA ServingKeeps ==
    ASSUME ServerInv, NEW fd \in Fds, Serving(fd), Updated(m_event_map_[fd]),
           m_tracks_' \in [Sessions -> [Tracks -> SUBSET Conns]],
           crashed' \in {"no", "m_session_", "dangling"}
    PROVE  ServerInv'
<1> DEFINE c == m_event_map_[fd]
<1>1. /\ fd \in batch /\ batch' = batch \ {fd} /\ batch' \subseteq AllFds
      /\ phase' = "dispatch"
      /\ polled' \in EventMaps /\ \A g \in batch' : polled'[g] = polled[g]
  BY DispatchTurn DEF Serving
<1>2. UNCHANGED <<m_event_map_, epoll, event_list_size, live, m_connections_>>
  BY DEF Serving
<1>3. /\ m_disconnected_list_' \in Seq(Fds \cup {NoFd}) /\ triggered' \in BOOLEAN
      /\ (DisconnectedKnown /\ QueuedFds /\ QueuedServed /\ QueuedTriggered)'
  BY <1>1, <1>2, QueueKept DEF Serving
<1>4. c \in live /\ c \in Conns
  BY <1>1, ServedConnection
<1>5. \A d \in Conns : conn'[d].fd = conn[d].fd
  BY DEF Updated
<1>6. TypeOK'
  BY <1>1, <1>2, <1>3 DEF ServerInv, MapsAgree, TypeOK, LoopTypeOK, Updated
<1>7. MapsAgree'
  <2>1. Mapped' = Mapped
    BY <1>2 DEF Mapped
  <2>2. live \subseteq Conns
    BY DEF ServerInv, MapsAgree, TypeOK
  <2> QED
    BY <1>2, <1>5, <1>6, <2>1, <2>2 DEF ServerInv, MapsAgree
<1>8. DispatchSafe'
  BY <1>1, <1>2 DEF ServerInv, DispatchSafe
<1>9. OthersFreed'
  BY <1>2, <1>4 DEF ServerInv, OthersFreed, Updated
<1> QED
  BY <1>1, <1>3, <1>7, <1>8, <1>9 DEF ServerInv, NothingPendingWhenBlocked, BatchInDispatch

-----------------------------------------------------------------------------
(* The steps of the loop itself *)

\* With nothing queued, the triggers of a round change no table.
LEMMA QueueIsEmpty ==
    ASSUME ServerInv, ~triggered \/ phase = "poll"
    PROVE  m_disconnected_list_ = <<>>
  BY DEF ServerInv, QueuedTriggered, NothingPendingWhenBlocked

\* The connections deleted are the owners of the queued descriptors, and no
\* table keeps any of them.
LEMMA DeleteKeeps ==
    ASSUME ServerInv, RunTriggers, DeleteConnections, UNCHANGED crashed
    PROVE  ServerInv'
<1>1. /\ phase = "trigger" /\ phase' = "poll" /\ triggered' = FALSE
      /\ UNCHANGED <<batch, polled, event_list_size>>
      /\ batch = {}
  BY DEF RunTriggers, ServerInv, BatchInDispatch
<1>2. /\ live' = live \ Doomed
      /\ \A c \in Conns : conn'[c] = IF c \in Doomed THEN Freed ELSE conn[c]
      /\ conn' \in [Conns -> Connections]
  <2>1. conn \in [Conns -> Connections]
    BY DEF ServerInv, MapsAgree, TypeOK
  <2>2. conn' = [c \in Conns |-> IF c \in Doomed THEN Freed ELSE conn[c]]
    BY DEF DeleteConnections
  <2> HIDE DEF Freed
  <2> QED
    BY <2>1, <2>2, FreedIsConnection DEF DeleteConnections
<1>3. /\ m_event_map_' \in EventMaps
      /\ \A fd \in AllFds \cup {NoFd} :
            m_event_map_'[fd] = IF fd \in Disconnected THEN None ELSE m_event_map_[fd]
      /\ epoll' = epoll \ Disconnected
  BY DEF DeleteConnections, RemoveIOEvents, EventMaps, ServerInv, MapsAgree, TypeOK, LoopTypeOK
<1>4. /\ m_connections_' \in [Fds \cup {NoFd} -> Conns \cup {None}]
      /\ \A fd \in Fds \cup {NoFd} :
            m_connections_'[fd] = IF fd \in Disconnected THEN None ELSE m_connections_[fd]
      /\ m_disconnected_list_' = <<>>
  BY DEF DeleteConnections, ServerInv, MapsAgree, TypeOK
<1>5. Disconnected' = {} /\ Len(m_disconnected_list_') = 0
  BY <1>4, EmptySeq DEF Disconnected
<1>6. m_tracks_' \in [Sessions -> [Tracks -> SUBSET Conns]]
  <2>1. m_tracks_ \in [Sessions -> [Tracks -> SUBSET Conns]]
    BY DEF ServerInv, MapsAgree, TypeOK
  <2>2. m_tracks_' = [s \in Sessions |-> [t \in Tracks |->
            m_tracks_[s][t] \ {c \in Doomed : conn[c].m_session_ = s}]]
    BY DEF DeleteConnections
  <2>3. \A s \in Sessions, t \in Tracks : m_tracks_[s][t] \in SUBSET Conns
    BY <2>1
  <2> QED
    BY <2>2, <2>3
<1>7. /\ Disconnected \subseteq Fds
      /\ \A fd \in Disconnected : m_connections_[fd] \in live
      /\ \A fd \in Fds, c \in live : conn[c].fd = fd <=> m_connections_[fd] = c
      /\ live \subseteq Conns
      /\ \A fd \in Fds : m_event_map_[fd] = m_connections_[fd]
      /\ \A fd \in Fds : m_connections_[fd] \in live \cup {None}
  BY DEF ServerInv, MapsAgree, TypeOK, QueuedFds, DisconnectedKnown
<1>8. TypeOK'
  <2>1. m_disconnected_list_' \in Seq(Fds \cup {NoFd})
    BY <1>4, EmptySeq
  <2>2. live' \subseteq Conns /\ epoll' \subseteq AllFds
    BY <1>2, <1>3, <1>7 DEF ServerInv, MapsAgree, TypeOK, LoopTypeOK
  <2> QED
    BY <1>1, <1>2, <1>3, <1>4, <1>6, <2>1, <2>2 DEF ServerInv, MapsAgree, TypeOK, LoopTypeOK
<1>9. Mapped' = Mapped \ Disconnected
  BY <1>3 DEF Mapped
<1>10. MapsAgree'
  <2>1. Cardinality(Mapped') < event_list_size'
    <3>1. Cardinality(Mapped') <= Cardinality(Mapped)
      BY <1>9, MappedFinite, FS_Subset
    <3>2. Cardinality(Mapped') \in Nat /\ Cardinality(Mapped) \in Nat
      BY <1>9, MappedFinite, FS_Subset, FS_CardinalityType
    <3>3. Cardinality(Mapped) < event_list_size /\ event_list_size \in Nat /\ event_list_size' = event_list_size
      BY <1>1 DEF ServerInv, MapsAgree, TypeOK, LoopTypeOK
    <3> QED
      BY ONLY <3>1, <3>2, <3>3
  <2>2. epoll' = Mapped' \ {NoFd}
    BY <1>3, <1>9 DEF ServerInv, MapsAgree
  <2>3. \A fd \in Fds : m_event_map_'[fd] = m_connections_'[fd]
    BY <1>3, <1>4, <1>7 DEF AllFds
  <2>4. \A fd \in Fds : m_connections_'[fd] \in live' \cup {None}
    <3> SUFFICES ASSUME NEW fd \in Fds, fd \notin Disconnected, m_connections_[fd] \in live
                 PROVE  m_connections_[fd] \notin Doomed
      BY <1>2, <1>4, <1>7
    <3> QED
      BY <1>7 DEF Doomed
  <2>5. \A fd \in Fds, c \in live' : conn'[c].fd = fd <=> m_connections_'[fd] = c
    <3> TAKE fd \in Fds, c \in live'
    <3>1. c \in live /\ c \notin Doomed /\ c \in Conns /\ conn'[c] = conn[c] /\ c # None
      BY <1>2, <1>7, EventLoopAssumption DEF AllEvents, Conns
    <3>2. CASE fd \in Disconnected
      BY <1>4, <1>7, <3>1, <3>2 DEF Doomed
    <3>3. CASE fd \notin Disconnected
      BY <1>4, <1>7, <3>1, <3>3
    <3> QED
      BY <3>2, <3>3
  <2> QED
    BY <1>8, <2>1, <2>2, <2>3, <2>4, <2>5 DEF MapsAgree
<1>11. DisconnectedKnown' /\ QueuedFds' /\ QueuedServed' /\ QueuedTriggered'
  BY <1>4, <1>5, FS_EmptySet DEF DisconnectedKnown, QueuedFds, QueuedServed, QueuedTriggered
<1>12. DispatchSafe' /\ BatchInDispatch' /\ NothingPendingWhenBlocked'
  BY <1>1, <1>4 DEF DispatchSafe, BatchInDispatch, NothingPendingWhenBlocked
<1>13. OthersFreed'
  BY <1>2 DEF OthersFreed, ServerInv
<1> QED
  BY <1>10, <1>11, <1>12, <1>13 DEF ServerInv

\* What keeps every table as it is.
TablesKept ==
    UNCHANGED <<m_event_map_, epoll, event_list_size, live, conn, m_connections_,
                m_disconnected_list_, m_tracks_>>

LEMMA TablesKeptKeeps ==
    ASSUME ServerInv, TablesKept,
           phase' \in {"trigger", "poll", "dispatch"}, triggered' \in BOOLEAN,
           batch' \subseteq AllFds, polled' \in EventMaps,
           crashed' \in {"no", "m_session_", "dangling"},
           QueuedServed', QueuedTriggered', BatchInDispatch', DispatchSafe',
           NothingPendingWhenBlocked'
    PROVE  ServerInv'
<1>1. Mapped' = Mapped /\ Disconnected' = Disconnected
  BY DEF TablesKept, Mapped, Disconnected
<1>2. TypeOK'
  BY DEF TablesKept, ServerInv, MapsAgree, TypeOK, LoopTypeOK
<1>3. MapsAgree'
  BY <1>1, <1>2 DEF TablesKept, ServerInv, MapsAgree
<1>4. DisconnectedKnown' /\ QueuedFds' /\ OthersFreed'
  BY <1>1 DEF TablesKept, ServerInv, DisconnectedKnown, QueuedFds, OthersFreed
<1> QED
  BY <1>3, <1>4 DEF ServerInv

LEMMA TriggersKeep ==
    ASSUME ServerInv, Triggers
    PROVE  ServerInv'
<1>1. RunTriggers /\ UNCHANGED crashed
  BY DEF Triggers
<1>2. CASE triggered
  BY <1>1, <1>2, DeleteKeeps DEF Triggers
<1>3. CASE ~triggered
  <2>1. TablesKept
    BY <1>1, <1>3 DEF Triggers, RunTriggers, TablesKept
  <2>2. /\ phase' = "poll" /\ triggered' = FALSE /\ batch = {}
        /\ UNCHANGED <<batch, polled>>
        /\ m_disconnected_list_' = <<>>
    BY <1>1, <1>3, <2>1, QueueIsEmpty
       DEF RunTriggers, ServerInv, BatchInDispatch, TablesKept
  <2>3. QueuedServed' /\ QueuedTriggered' /\ BatchInDispatch' /\ DispatchSafe' /\ NothingPendingWhenBlocked'
    BY <2>2 DEF QueuedServed, QueuedTriggered, BatchInDispatch, DispatchSafe,
                NothingPendingWhenBlocked
  <2>4. polled' \in EventMaps /\ batch' \subseteq AllFds /\ crashed' \in {"no", "m_session_", "dangling"}
    BY <1>1, <2>2 DEF ServerInv, MapsAgree, TypeOK, LoopTypeOK
  <2> QED
    BY <2>1, <2>2, <2>3, <2>4, TablesKeptKeeps
<1> QED
  BY <1>2, <1>3

LEMMA WaitForEventsKeeps ==
    ASSUME ServerInv, WaitForEvents
    PROVE  ServerInv'
<1>1. /\ TablesKept /\ UNCHANGED <<triggered, crashed>>
      /\ phase = "poll" /\ phase' = "dispatch"
      /\ batch' \subseteq epoll
      /\ polled' = [fd \in AllFds \cup {NoFd} |->
                        IF fd \in batch' THEN m_event_map_[fd] ELSE None]
  BY DEF WaitForEvents, Poll, TablesKept, serverVars
<1>2. /\ m_event_map_ \in EventMaps /\ epoll \subseteq AllFds /\ epoll \subseteq Mapped
      /\ triggered \in BOOLEAN /\ crashed \in {"no", "m_session_", "dangling"}
  BY DEF ServerInv, MapsAgree, TypeOK, LoopTypeOK
<1>3. polled' \in EventMaps /\ batch' \subseteq AllFds
  BY <1>1, <1>2 DEF EventMaps
<1>4. m_disconnected_list_' = <<>> /\ Disconnected' = {}
  BY <1>1, QueueIsEmpty, EmptyQueue DEF TablesKept, Disconnected
<1>5. DispatchSafe'
  BY <1>1, <1>2 DEF DispatchSafe, Mapped, TablesKept
<1>6. QueuedServed' /\ QueuedTriggered' /\ BatchInDispatch' /\ NothingPendingWhenBlocked'
  BY <1>1, <1>4 DEF QueuedServed, QueuedTriggered, BatchInDispatch, NothingPendingWhenBlocked
<1> QED
  BY <1>1, <1>2, <1>3, <1>5, <1>6, TablesKeptKeeps

LEMMA NextRoundKeeps ==
    ASSUME ServerInv, NextRound
    PROVE  ServerInv'
<1>1. /\ TablesKept /\ UNCHANGED <<triggered, crashed, batch, polled>>
      /\ batch = {} /\ phase' = "trigger"
  BY DEF NextRound, EndRound, TablesKept, serverVars
<1>2. QueuedServed' /\ QueuedTriggered' /\ BatchInDispatch' /\ DispatchSafe' /\ NothingPendingWhenBlocked'
  BY <1>1 DEF ServerInv, QueuedServed, QueuedTriggered, BatchInDispatch, DispatchSafe,
              NothingPendingWhenBlocked, TablesKept
<1>3. /\ polled' \in EventMaps /\ batch' \subseteq AllFds /\ triggered' \in BOOLEAN
      /\ crashed' \in {"no", "m_session_", "dangling"}
  BY <1>1 DEF ServerInv, MapsAgree, TypeOK, LoopTypeOK
<1> QED
  BY <1>1, <1>2, <1>3, TablesKeptKeeps

\* The listening descriptor with nobody accepted, and the timer's.
LEMMA IdleTurnKeeps ==
    ASSUME ServerInv, NEW fd, Dispatch(fd), TablesKept, UNCHANGED triggered,
           crashed' \in {"no", "m_session_", "dangling"}
    PROVE  ServerInv'
<1>1. /\ batch' = batch \ {fd} /\ batch' \subseteq AllFds
      /\ phase' = "dispatch"
      /\ polled' \in EventMaps /\ \A g \in batch' : polled'[g] = polled[g]
  BY DispatchTurn
<1>2. triggered' \in BOOLEAN
  BY DEF ServerInv, MapsAgree, TypeOK, LoopTypeOK
<1>3. DispatchSafe'
  BY <1>1 DEF ServerInv, DispatchSafe, TablesKept
<1>4. QueuedServed' /\ QueuedTriggered' /\ BatchInDispatch' /\ NothingPendingWhenBlocked'
  BY <1>1 DEF ServerInv, QueuedServed, QueuedTriggered, BatchInDispatch,
              NothingPendingWhenBlocked, TablesKept, Disconnected
<1> QED
  BY <1>1, <1>2, <1>3, <1>4, TablesKeptKeeps

-----------------------------------------------------------------------------
(* A new connection *)

\* A descriptor that no existing connection owns is in no table.
LEMMA ClosedIsUnmapped ==
    ASSUME ServerInv, NEW fd \in Fds, fd \notin OpenFds
    PROVE  m_event_map_[fd] = None /\ m_connections_[fd] = None
<1>1. fd # NoFd
  BY EventLoopAssumption
<1>2. \A c \in live : conn[c].fd # fd
  BY <1>1 DEF OpenFds
<1> QED
  BY <1>2 DEF ServerInv, MapsAgree

LEMMA AddIOEventMaps ==
    ASSUME ServerInv, NEW fd \in Fds \cup {NoFd}, NEW c \in Conns, AddIOEvent(fd, c)
    PROVE  /\ m_event_map_' \in EventMaps
           /\ \A g \in Mapped : m_event_map_'[g] = m_event_map_[g]
           /\ \A g \in AllFds \cup {NoFd} : g # fd => m_event_map_'[g] = m_event_map_[g]
           /\ fd \notin Mapped => m_event_map_'[fd] = c
           /\ Mapped' = Mapped \cup {fd}
           /\ epoll' = Mapped' \ {NoFd}
           /\ event_list_size' \in Nat \ {0}
           /\ Cardinality(Mapped') < event_list_size'
<1>1. /\ m_event_map_ \in EventMaps
      /\ event_list_size \in Nat \ {0}
      /\ epoll = Mapped \ {NoFd}
      /\ Cardinality(Mapped) < event_list_size
      /\ fd \in AllFds \cup {NoFd} /\ c \in AllEvents /\ c # None
  BY EventLoopAssumption
     DEF ServerInv, MapsAgree, TypeOK, LoopTypeOK, AllFds, AllEvents, Conns
<1>2. CASE fd \in Mapped
  <2>1. UNCHANGED <<m_event_map_, epoll, event_list_size>>
    BY <1>2 DEF AddIOEvent
  <2>2. Mapped' = Mapped
    BY <2>1 DEF Mapped
  <2> QED
    BY <1>1, <1>2, <2>1, <2>2
<1>3. CASE fd \notin Mapped
  <2>1. /\ m_event_map_' = [m_event_map_ EXCEPT ![fd] = c]
        /\ epoll' = IF fd = NoFd THEN epoll ELSE epoll \cup {fd}
        /\ event_list_size' = IF Cardinality(Mapped) + 1 >= event_list_size
                              THEN 2 * event_list_size
                              ELSE event_list_size
    BY <1>3 DEF AddIOEvent
  <2>2. /\ m_event_map_' \in EventMaps
        /\ \A g \in AllFds \cup {NoFd} : g # fd => m_event_map_'[g] = m_event_map_[g]
        /\ m_event_map_'[fd] = c
    BY <1>1, <2>1 DEF EventMaps
  <2>3. Mapped' = Mapped \cup {fd}
    BY <1>1, <2>2 DEF Mapped
  <2>4. epoll' = Mapped' \ {NoFd}
    BY <1>1, <2>1, <2>3
  <2>5. Cardinality(Mapped') = Cardinality(Mapped) + 1 /\ Cardinality(Mapped) \in Nat
    BY <1>3, <2>3, MappedFinite, FS_AddElement, FS_CardinalityType
  <2>6. event_list_size' \in Nat \ {0} /\ Cardinality(Mapped') < event_list_size'
    <3>1. CASE Cardinality(Mapped) + 1 >= event_list_size
      <4>1. event_list_size' = 2 * event_list_size
        BY <2>1, <3>1
      <4> QED
        BY ONLY <1>1, <2>5, <4>1
    <3>2. CASE ~(Cardinality(Mapped) + 1 >= event_list_size)
      <4>1. event_list_size' = event_list_size
        BY <2>1, <3>2
      <4> QED
        BY ONLY <1>1, <2>5, <3>2, <4>1
    <3> QED
      BY <3>1, <3>2
  <2>7. \A g \in Mapped : m_event_map_'[g] = m_event_map_[g]
    BY <1>3, <2>2 DEF Mapped
  <2> QED
    BY <2>2, <2>3, <2>4, <2>6, <2>7
<1> QED
  BY <1>2, <1>3

LEMMA AcceptKeeps ==
    ASSUME ServerInv, NEW c \in Conns, NEW fd \in Fds \cup {NoFd}, Accept(c, fd)
    PROVE  /\ ServerInv'
           /\ conn'[c] = [Freed EXCEPT !.fd = fd]
           /\ \A d \in Conns \ {c} : conn'[d] = conn[d]
<1>1. /\ batch' = batch \ {ListenFd} /\ batch' \subseteq AllFds /\ batch' \subseteq batch
      /\ phase' = "dispatch"
      /\ polled' \in EventMaps /\ \A g \in batch' : polled'[g] = polled[g]
  BY DispatchTurn DEF Accept
<1>2. /\ c \notin live /\ live' = live \cup {c}
      /\ fd \in Fds => fd \notin OpenFds
      /\ AddIOEvent(fd, c)
      /\ UNCHANGED <<triggered, m_disconnected_list_, m_tracks_, crashed>>
  BY EventLoopAssumption DEF Accept
<1>3. fd \in Fds => m_event_map_[fd] = None /\ m_connections_[fd] = None /\ fd \notin Mapped
  BY <1>2, ClosedIsUnmapped DEF Mapped
<1>4. /\ conn[c] = Freed /\ conn \in [Conns -> Connections]
      /\ live \subseteq Conns
  BY <1>2 DEF ServerInv, OthersFreed, MapsAgree, TypeOK
<1>5. /\ conn' \in [Conns -> Connections]
      /\ conn'[c] = [Freed EXCEPT !.fd = fd] /\ conn'[c].fd = fd
      /\ \A d \in Conns \ {c} : conn'[d] = conn[d]
  <2> DEFINE new == [Freed EXCEPT !.fd = fd]
  <2>1. new \in Connections /\ new.fd = fd
    <3>1. NoInstance \in Instances
      BY DEF Instances
    <3> HIDE DEF NoInstance, Instances
    <3> QED
      BY <3>1 DEF Freed, Connections
  <2>2. conn' = [conn EXCEPT ![c] = new]
    BY <1>4 DEF Accept
  <2> HIDE DEF new
  <2>3. /\ conn' \in [Conns -> Connections] /\ conn'[c] = new
        /\ \A d \in Conns \ {c} : conn'[d] = conn[d]
    BY <1>4, <2>1, <2>2
  <2> QED
    BY <2>1, <2>3 DEF new
<1>6. /\ m_connections_' \in [Fds \cup {NoFd} -> Conns \cup {None}]
      /\ fd \in Fds => m_connections_'[fd] = c
      /\ \A g \in Fds : g # fd => m_connections_'[g] = m_connections_[g]
  <2>1. m_connections_ \in [Fds \cup {NoFd} -> Conns \cup {None}]
    BY DEF ServerInv, MapsAgree, TypeOK
  <2>2. m_connections_' = [m_connections_ EXCEPT ![fd] = IF @ = None THEN c ELSE @]
    BY DEF Accept
  <2> QED
    BY <1>3, <2>1, <2>2
<1>7. /\ m_event_map_' \in EventMaps
      /\ \A g \in Mapped : m_event_map_'[g] = m_event_map_[g]
      /\ \A g \in AllFds \cup {NoFd} : g # fd => m_event_map_'[g] = m_event_map_[g]
      /\ fd \notin Mapped => m_event_map_'[fd] = c
      /\ epoll' = Mapped' \ {NoFd}
      /\ event_list_size' \in Nat \ {0}
      /\ Cardinality(Mapped') < event_list_size'
  BY <1>2, AddIOEventMaps
<1>8. TypeOK'
  <2>1. epoll' \subseteq AllFds
    BY <1>7 DEF Mapped
  <2> QED
    BY <1>1, <1>2, <1>4, <1>5, <1>6, <1>7, <2>1 DEF ServerInv, MapsAgree, TypeOK, LoopTypeOK
<1>9. MapsAgree'
  <2>1. \A g \in Fds : m_event_map_'[g] = m_connections_'[g]
    BY <1>3, <1>6, <1>7 DEF ServerInv, MapsAgree, AllFds
  <2>2. \A g \in Fds : m_connections_'[g] \in live' \cup {None}
    BY <1>2, <1>6 DEF ServerInv, MapsAgree
  <2>3. \A g \in Fds, d \in live' : conn'[d].fd = g <=> m_connections_'[g] = d
    <3> TAKE g \in Fds, d \in live'
    <3>1. c # None /\ m_connections_[g] # c
      BY <1>2, EventLoopAssumption DEF ServerInv, MapsAgree, AllEvents, Conns
    <3>2. CASE d = c
      BY <1>5, <1>6, <3>1, <3>2
    <3>3. CASE d # c
      <4>1. d \in live /\ conn'[d] = conn[d]
        BY <1>2, <1>4, <1>5, <3>3
      <4>2. conn[d].fd = g <=> m_connections_[g] = d
        BY <4>1 DEF ServerInv, MapsAgree
      <4>3. d # None
        BY <1>4, <4>1, EventLoopAssumption DEF AllEvents, Conns
      <4> QED
        BY <1>3, <1>6, <3>3, <4>1, <4>2, <4>3
    <3> QED
      BY <3>2, <3>3
  <2> QED
    BY <1>7, <1>8, <2>1, <2>2, <2>3 DEF MapsAgree
<1>10. Disconnected' = Disconnected
  BY <1>2 DEF Disconnected
<1>11. DisconnectedKnown'
  <2>1. fd \notin Disconnected
    BY <1>3, EventLoopAssumption DEF ServerInv, DisconnectedKnown, QueuedFds
  <2> QED
    BY <1>2, <1>6, <1>10, <2>1 DEF ServerInv, DisconnectedKnown, QueuedFds
<1>12. DispatchSafe'
  <2>1. \A g \in batch' : g \in Mapped
    BY <1>1 DEF ServerInv, DispatchSafe, Mapped
  <2> QED
    BY <1>1, <1>7, <2>1 DEF ServerInv, DispatchSafe
<1>13. QueuedFds' /\ QueuedServed' /\ QueuedTriggered' /\ BatchInDispatch' /\ NothingPendingWhenBlocked'
  BY <1>1, <1>2, <1>10 DEF ServerInv, QueuedFds, QueuedServed, QueuedTriggered,
                           BatchInDispatch, NothingPendingWhenBlocked
<1>14. OthersFreed'
  BY <1>2, <1>5 DEF ServerInv, OthersFreed
<1> QED
  BY <1>5, <1>9, <1>11, <1>12, <1>13, <1>14 DEF ServerInv

-----------------------------------------------------------------------------
(* Requests *)

Listed == [Sessions -> [Tracks -> SUBSET Conns]]

\* A request that leaves the lists of instances alone: it may bind the
\* connection to another session only while it has no instance.
Relisted(c) ==
    /\ UNCHANGED m_tracks_
    /\ \A t \in Tracks :
          /\ conn'[c].m_rtp_instances_[t] = NoInstance
                <=> conn[c].m_rtp_instances_[t] = NoInstance
          /\ conn[c].m_rtp_instances_[t] # NoInstance
                => \/ conn'[c].m_session_ = conn[c].m_session_
                   \/ \E s \in Sessions :
                         /\ conn'[c].m_session_ = s
                         /\ AnyClients \/ \A o \in Sessions \ {s} : ~SetUpIn(c, o)

\* A SETUP that goes through, with the connection bound to m: one more
\* instance, listed in the session of the URL.
SetUp(c, m, s, t) ==
    /\ conn'[c].m_session_ = m
    /\ conn[c].m_rtp_instances_[t] = NoInstance
    /\ conn'[c].m_rtp_instances_[t] # NoInstance
    /\ \A u \in Tracks \ {t} : conn'[c].m_rtp_instances_[u] = conn[c].m_rtp_instances_[u]
    /\ m_tracks_' = [m_tracks_ EXCEPT ![s][t] = @ \cup {c}]

\* Which session a SETUP finds the connection bound to.
BoundTo(c, m, s) ==
    /\ m \in Sessions
    /\ \/ conn[c].m_session_ = m /\ (AnyClients \/ m = s)
       \/ conn[c].m_session_ = Uninit /\ AnyClients

\* What any request does to the connection and to the lists.
Effect(c) ==
    /\ Updated(c)
    /\ m_tracks_' \in Listed
    /\ crashed' \in {"no", "m_session_", "dangling"}
    /\ \/ Relisted(c)
       \/ /\ UNCHANGED m_tracks_
          /\ UNCHANGED <<conn>>
       \/ \E m, s \in Sessions, t \in Tracks :
             /\ BoundTo(c, m, s)
             /\ \/ SetUp(c, m, s, t)
                \/ /\ UNCHANGED m_tracks_
                   /\ conn'[c].m_session_ = m
                   /\ conn'[c].m_rtp_instances_ = conn[c].m_rtp_instances_

\* HandleCmdSetup, after the parser kept the transport asked for.
LEMMA SetupWithEffect ==
    ASSUME ServerInv, NEW fd \in Fds, NEW m \in Sessions, NEW s \in Sessions, NEW t \in Tracks,
           NEW asked \in {"udp", "tcp"},
           NEW c \in Conns, c = m_event_map_[fd],
           BoundTo(c, m, s), SetupWith(fd, m, s, t, asked),
           crashed' \in {"no", "m_session_", "dangling"}
    PROVE  Effect(c) /\ (Stay \/ HandleDisconnection(fd))
<1>1. /\ conn \in [Conns -> Connections] /\ conn[c] \in Connections
      /\ m_tracks_ \in Listed
  BY DEF ServerInv, MapsAgree, TypeOK, Listed
<1> DEFINE instance == NewInstance(c, asked)
           parsed == [ParseTransport(c, asked) EXCEPT ![c].m_session_ = m]
           bare == [conn[c] EXCEPT !.over_tcp = OverTcp(c, asked), !.m_session_ = m]
<1>2. /\ bare \in Connections /\ bare.fd = conn[c].fd /\ bare.m_session_ = m
      /\ bare.m_rtp_instances_ = conn[c].m_rtp_instances_
  <2>1. OverTcp(c, asked) \in BOOLEAN
    BY DEF OverTcp
  <2> QED
    BY <1>1, <2>1 DEF Connections
<1>3. parsed = [conn EXCEPT ![c] = bare]
  BY <1>1 DEF ParseTransport
<1>4. instance \in Instances /\ instance # NoInstance
  BY DEF NewInstance, Instances, NoInstance
<1> HIDE DEF bare
<1>5. parsed \in [Conns -> Connections] /\ parsed[c] = bare /\ \A d \in Conns \ {c} : parsed[d] = conn[d]
  BY <1>1, <1>2, <1>3
<1> HIDE DEF parsed, instance
<1>6. CASE conn[c].m_rtp_instances_[t] # NoInstance
  <2>1. conn' = parsed /\ HandleDisconnection(fd) /\ UNCHANGED m_tracks_
    BY <1>6 DEF SetupWith, parsed
  <2>2. Updated(c)
    BY <1>2, <1>5, <2>1 DEF Updated
  <2> QED
    BY <1>1, <1>2, <1>5, <2>1, <2>2 DEF Effect
<1>7. CASE ~(conn[c].m_rtp_instances_[t] # NoInstance) /\ m \in Multicast
  <2>1. conn' = parsed /\ Answer(fd) /\ UNCHANGED m_tracks_
    BY <1>7 DEF SetupWith, parsed
  <2>2. Updated(c)
    BY <1>2, <1>5, <2>1 DEF Updated
  <2> QED
    BY <1>1, <1>2, <1>5, <2>1, <2>2 DEF Effect, Answer
<1>8. CASE ~(conn[c].m_rtp_instances_[t] # NoInstance) /\ m \notin Multicast
  <2>1. /\ conn' = [parsed EXCEPT ![c].m_rtp_instances_[t] = instance]
        /\ m_tracks_' = [m_tracks_ EXCEPT ![s][t] = @ \cup {c}]
        /\ Answer(fd)
    BY <1>8 DEF SetupWith, parsed, instance
  <2> DEFINE instances == [conn[c].m_rtp_instances_ EXCEPT ![t] = instance]
             new == [bare EXCEPT !.m_rtp_instances_ = instances]
  <2>2. conn[c].m_rtp_instances_ \in [Tracks -> Instances]
    BY <1>1 DEF Connections
  <2>3. /\ instances \in [Tracks -> Instances] /\ instances[t] = instance
        /\ \A u \in Tracks \ {t} : instances[u] = conn[c].m_rtp_instances_[u]
    BY <1>4, <2>2
  <2>4. conn' = [conn EXCEPT ![c] = new]
    <3>1. conn' = [parsed EXCEPT ![c] = [parsed[c] EXCEPT !.m_rtp_instances_ =
                      [parsed[c].m_rtp_instances_ EXCEPT ![t] = instance]]]
      BY <2>1
    <3>2. conn' = [parsed EXCEPT ![c] = new]
      BY <1>2, <1>5, <3>1
    <3> HIDE DEF new
    <3> QED
      BY <1>1, <1>2, <1>3, <3>2
  <2> HIDE DEF instances
  <2>5. /\ new \in Connections /\ new.fd = conn[c].fd /\ new.m_session_ = m
        /\ new.m_rtp_instances_ = instances
    BY <1>2, <2>3 DEF Connections
  <2> HIDE DEF new
  <2>6. /\ conn' \in [Conns -> Connections] /\ conn'[c] = new
        /\ \A d \in Conns \ {c} : conn'[d] = conn[d]
    BY <1>1, <2>4, <2>5
  <2>7. Updated(c)
    BY <2>5, <2>6 DEF Updated
  <2>8. SetUp(c, m, s, t)
    BY <1>4, <1>8, <2>1, <2>3, <2>5, <2>6 DEF SetUp
  <2>9. m_tracks_' \in Listed
    BY <1>1, <2>1 DEF Listed
  <2> QED
    BY <2>1, <2>7, <2>8, <2>9 DEF Effect, Answer
<1> QED
  BY <1>6, <1>7, <1>8

\* Every request serves its connection, within its effects.
LEMMA RequestEffect ==
    ASSUME ServerInv, NEW fd \in Fds, Request(fd)
    PROVE  Serving(fd) /\ Effect(m_event_map_[fd])
<1> DEFINE c == m_event_map_[fd]
<1>1. Read(fd) /\ UNCHANGED <<live, m_connections_>>
  BY DEF Request, Hangup, Other, Describe, Setup, SetupUninit, Play, Pause
<1>2. c \in Conns
  BY <1>1, DispatchTurn, ServedConnection DEF Read
<1>3. /\ conn \in [Conns -> Connections] /\ conn[c] \in Connections
      /\ m_tracks_ \in Listed
      /\ crashed \in {"no", "m_session_", "dangling"}
  BY <1>2 DEF ServerInv, MapsAgree, TypeOK, Listed
<1> SUFFICES Effect(c) /\ (Stay \/ HandleDisconnection(fd))
  BY <1>1 DEF Serving, Read
<1> HIDE DEF c
<1>4. ASSUME UNCHANGED <<conn, m_tracks_, crashed>>
      PROVE  Effect(c)
  BY <1>3, <1>4 DEF Effect, Updated
<1>5. CASE Hangup(fd)
  BY <1>4, <1>5 DEF Hangup
<1>6. CASE Other(fd)
  BY <1>4, <1>6 DEF Other, HandleCmdOption, HandleCmdTeardown, HandleCmdGetParameter,
                    HandleRtpOverTcp, Answer
<1>7. CASE \E s \in Sessions : Describe(fd, s)
  <2>1. PICK s \in Sessions : Describe(fd, s)
    BY <1>7
  <2>2. /\ AnyClients \/ \A o \in Sessions \ {s} : ~SetUpIn(c, o)
        /\ conn' = [conn EXCEPT ![c].m_session_ = s]
        /\ Stay \/ HandleDisconnection(fd)
        /\ UNCHANGED <<m_tracks_, crashed>>
    BY <2>1 DEF Describe, Answer, c
  <2> DEFINE new == [conn[c] EXCEPT !.m_session_ = s]
  <2>3. /\ new \in Connections /\ new.fd = conn[c].fd /\ new.m_session_ = s
        /\ new.m_rtp_instances_ = conn[c].m_rtp_instances_
    BY <1>3 DEF Connections
  <2>4. conn' = [conn EXCEPT ![c] = new]
    BY <2>2
  <2> HIDE DEF new
  <2>5. /\ conn' \in [Conns -> Connections] /\ conn'[c] = new
        /\ \A d \in Conns \ {c} : conn'[d] = conn[d]
    BY <1>2, <1>3, <2>3, <2>4
  <2>6. Updated(c)
    BY <2>3, <2>5 DEF Updated
  <2>7. Relisted(c)
    BY <2>2, <2>3, <2>5 DEF Relisted
  <2> QED
    BY <1>3, <2>2, <2>6, <2>7 DEF Effect
<1>8. ASSUME NEW s \in Sessions, NEW t \in Tracks, NEW asked \in {"udp", "tcp"},
             Setup(fd, s, t, asked)
      PROVE  Effect(c) /\ (Stay \/ HandleDisconnection(fd))
  <2> DEFINE m == conn[c].m_session_
  <2>1. /\ m # Uninit /\ (AnyClients \/ m = s)
        /\ SetupWith(fd, m, s, t, asked)
        /\ UNCHANGED crashed
    BY <1>8 DEF Setup, c
  <2>2. m \in Sessions
    BY <1>3, <2>1 DEF Connections
  <2>3. BoundTo(c, m, s)
    BY <2>1, <2>2 DEF BoundTo
  <2> QED
    BY <1>2, <1>3, <2>1, <2>2, <2>3, SetupWithEffect DEF c
<1>9. ASSUME NEW s \in Sessions, NEW t \in Tracks, NEW asked \in {"udp", "tcp"},
             SetupUninit(fd, s, t, asked)
      PROVE  Effect(c) /\ (Stay \/ HandleDisconnection(fd))
  <2>1. AnyClients /\ conn[c].m_session_ = Uninit
    BY <1>9 DEF SetupUninit, c
  <2>2. CASE crashed' = "m_session_" /\ Stay /\ UNCHANGED <<conn, m_tracks_>>
    BY <1>3, <2>2 DEF Effect, Updated
  <2>3. CASE (\E m \in Sessions : SetupWith(fd, m, s, t, asked)) /\ UNCHANGED crashed
    <3>1. PICK m \in Sessions : SetupWith(fd, m, s, t, asked)
      BY <2>3
    <3>2. BoundTo(c, m, s)
      BY <2>1 DEF BoundTo
    <3> QED
      BY <1>2, <1>3, <2>3, <3>1, <3>2, SetupWithEffect DEF c
  <2> QED
    BY <1>9, <2>2, <2>3 DEF SetupUninit
<1>10. CASE Play(fd)
  <2> DEFINE Woken(i) == IF i = NoInstance THEN i ELSE [i EXCEPT !.alive = TRUE]
             instances == [t \in Tracks |-> Woken(conn[c].m_rtp_instances_[t])]
             new == [conn[c] EXCEPT !.m_rtp_instances_ = instances, !.paused = FALSE]
  <2>1. UNCHANGED <<m_tracks_, crashed>>
    BY <1>10 DEF Play
  <2>2. CASE HandleDisconnection(fd) /\ UNCHANGED conn
    BY <1>4, <2>1, <2>2
  <2>3. CASE Stay /\ conn' = [conn EXCEPT
                        ![c].m_rtp_instances_ = [t \in Tracks |-> Woken(@[t])],
                        ![c].paused = FALSE]
    <3>1. /\ instances \in [Tracks -> Instances]
          /\ \A t \in Tracks : instances[t] = NoInstance <=> conn[c].m_rtp_instances_[t] = NoInstance
      <4>1. conn[c].m_rtp_instances_ \in [Tracks -> Instances]
        BY <1>3 DEF Connections
      <4>2. \A i \in Instances : Woken(i) \in Instances /\ (Woken(i) = NoInstance <=> i = NoInstance)
        BY DEF Instances, NoInstance
      <4> HIDE DEF Woken
      <4> QED
        BY <4>1, <4>2
    <3>2. conn' = [conn EXCEPT ![c] = new]
      BY <1>2, <1>3, <2>3
    <3> HIDE DEF instances
    <3>3. /\ new \in Connections /\ new.fd = conn[c].fd /\ new.m_session_ = conn[c].m_session_
          /\ new.m_rtp_instances_ = instances
      BY <1>3, <3>1 DEF Connections
    <3> HIDE DEF new
    <3>4. /\ conn' \in [Conns -> Connections] /\ conn'[c] = new
          /\ \A d \in Conns \ {c} : conn'[d] = conn[d]
      BY <1>2, <1>3, <3>2, <3>3
    <3>5. Updated(c)
      BY <3>3, <3>4 DEF Updated
    <3>6. Relisted(c)
      BY <2>1, <3>1, <3>3, <3>4 DEF Relisted
    <3> QED
      BY <1>3, <2>1, <2>3, <3>5, <3>6 DEF Effect
  <2> QED
    BY <1>10, <2>2, <2>3 DEF Play, c
<1>11. CASE Pause(fd)
  <2> DEFINE new == [conn[c] EXCEPT !.paused = TRUE]
  <2>1. UNCHANGED <<m_tracks_, crashed>>
    BY <1>11 DEF Pause
  <2>2. CASE HandleDisconnection(fd) /\ UNCHANGED conn
    BY <1>4, <2>1, <2>2
  <2>3. CASE Stay /\ conn' = [conn EXCEPT ![c].paused = TRUE]
    <3>1. /\ new \in Connections /\ new.fd = conn[c].fd /\ new.m_session_ = conn[c].m_session_
          /\ new.m_rtp_instances_ = conn[c].m_rtp_instances_
      BY <1>3 DEF Connections
    <3>2. conn' = [conn EXCEPT ![c] = new]
      BY <2>3
    <3> HIDE DEF new
    <3>3. /\ conn' \in [Conns -> Connections] /\ conn'[c] = new
          /\ \A d \in Conns \ {c} : conn'[d] = conn[d]
      BY <1>2, <1>3, <3>1, <3>2
    <3>4. Updated(c)
      BY <3>1, <3>3 DEF Updated
    <3>5. Relisted(c)
      BY <2>1, <3>1, <3>3 DEF Relisted
    <3> QED
      BY <1>3, <2>1, <2>3, <3>4, <3>5 DEF Effect
  <2> QED
    BY <1>11, <2>2, <2>3 DEF Pause, c
<1> QED
  BY <1>5, <1>6, <1>7, <1>8, <1>9, <1>10, <1>11 DEF Request

-----------------------------------------------------------------------------
(* The theorems about the tables *)

LEMMA ServerStep == ServerInv /\ [Next]_vars => ServerInv'
<1> SUFFICES ASSUME ServerInv, [Next]_vars PROVE ServerInv'
  OBVIOUS
<1>1. CASE Triggers
  BY <1>1, TriggersKeep
<1>2. CASE WaitForEvents
  BY <1>2, WaitForEventsKeeps
<1>3. CASE NextRound
  BY <1>3, NextRoundKeeps
<1>4. CASE \E c \in Conns, fd \in Fds \cup {NoFd} : Accept(c, fd)
  BY <1>4, AcceptKeeps
<1>5. CASE AcceptLater
  <2>1. Dispatch(ListenFd) /\ TablesKept /\ UNCHANGED <<triggered, crashed>>
    BY <1>5 DEF AcceptLater, TablesKept, serverVars
  <2>2. crashed' \in {"no", "m_session_", "dangling"}
    BY <2>1 DEF ServerInv, MapsAgree, TypeOK
  <2> QED
    BY <2>1, <2>2, IdleTurnKeeps
<1>6. CASE \E fd \in Fds : Request(fd)
  BY <1>6, RequestEffect, ServingKeeps DEF Effect, Listed
<1>7. CASE SendPackets
  <2>1. /\ Dispatch(TimerFd) /\ TablesKept /\ UNCHANGED triggered
        /\ crashed' \in {"no", "m_session_", "dangling"}
    BY <1>7 DEF SendPackets, TablesKept, Running
  <2> QED
    BY <2>1, IdleTurnKeeps
<1>8. CASE UNCHANGED vars
  <2>1. TablesKept /\ UNCHANGED <<phase, triggered, batch, polled, crashed>>
    BY <1>8 DEF vars, loopVars, serverVars, TablesKept
  <2>2. (QueuedServed /\ QueuedTriggered /\ BatchInDispatch /\ DispatchSafe /\ NothingPendingWhenBlocked)'
    BY <2>1 DEF ServerInv, QueuedServed, QueuedTriggered, BatchInDispatch, DispatchSafe,
                NothingPendingWhenBlocked, TablesKept, Disconnected
  <2>3. /\ phase' \in {"trigger", "poll", "dispatch"} /\ triggered' \in BOOLEAN
        /\ batch' \subseteq AllFds /\ polled' \in EventMaps
        /\ crashed' \in {"no", "m_session_", "dangling"}
    BY <2>1 DEF ServerInv, MapsAgree, TypeOK, LoopTypeOK
  <2> QED
    BY <2>1, <2>2, <2>3, TablesKeptKeeps
<1> QED
  BY <1>1, <1>2, <1>3, <1>4, <1>5, <1>6, <1>7, <1>8 DEF Next, Dead

LEMMA ServerInvAlways == Spec => []ServerInv
<1>1. Init => ServerInv
  BY ServerInit
<1>2. ServerInv /\ [Next]_vars => ServerInv'
  BY ServerStep
<1> QED
  BY <1>1, <1>2, PTL DEF Spec

\* The server's map, the poller's map, the kernel's set and the connection
\* objects name the same owners of the same descriptors, through accepts,
\* failed accepts, requests and deletions; the event list has room for all.
THEOREM MapsAgreeAlways == Spec => []MapsAgree
<1>1. ServerInv => MapsAgree
  BY DEF ServerInv
<1> QED
  BY <1>1, ServerInvAlways, PTL

\* A connection is queued for deletion once, and is in the server's map until
\* then: the assertion of HandleDisconnectionList holds.
THEOREM DisconnectedKnownAlways == Spec => []DisconnectedKnown
<1>1. ServerInv => DisconnectedKnown
  BY DEF ServerInv
<1> QED
  BY <1>1, ServerInvAlways, PTL

\* An event goes to the object that was ready for it, however the batch is
\* ordered: the assertion of EpollEpoller::HandleEvent holds.
THEOREM DispatchSafeAlways == Spec => []DispatchSafe
<1>1. ServerInv => DispatchSafe
  BY DEF ServerInv
<1> QED
  BY <1>1, ServerInvAlways, PTL

\* The loop blocks in epoll_wait only with no connection left to delete.
THEOREM NothingPendingAlways == Spec => []NothingPendingWhenBlocked
<1>1. ServerInv => NothingPendingWhenBlocked
  BY DEF ServerInv
<1> QED
  BY <1>1, ServerInvAlways, PTL

-----------------------------------------------------------------------------
(* The lists of instances *)

\* There is one session; or clients set up only the session they described.
NoMixing == ~AnyClients \/ \E s \in Sessions : Sessions = {s}

\* A list of a session names the connections that are bound to the session and
\* have an instance on the track.
ListedExactly ==
    \A c \in Conns, s \in Sessions, t \in Tracks :
        c \in m_tracks_[s][t] <=> /\ c \in live
                                  /\ conn[c].m_rtp_instances_[t] # NoInstance
                                  /\ conn[c].m_session_ = s

\* A connection with an instance is bound to a session.
BoundIfSetUp ==
    \A c \in live, t \in Tracks :
        conn[c].m_rtp_instances_[t] # NoInstance => conn[c].m_session_ \in Sessions

ListInv == ServerInv /\ ListedExactly /\ BoundIfSetUp

LEMMA ListInit == Init => ListInv
<1> SUFFICES ASSUME Init PROVE ListInv
  OBVIOUS
<1>1. ServerInv
  BY ServerInit
<1>2. ListedExactly /\ BoundIfSetUp
  BY DEF Init, ListedExactly, BoundIfSetUp
<1> QED
  BY <1>1, <1>2 DEF ListInv

LEMMA RelistedKeeps ==
    ASSUME NoMixing, ListInv, NEW c \in live, Updated(c), Relisted(c), UNCHANGED live
    PROVE  (ListedExactly /\ BoundIfSetUp)'
<1>1. live \subseteq Conns
  BY DEF ListInv, ServerInv, MapsAgree, TypeOK
<1>2. \A t \in Tracks :
         conn[c].m_rtp_instances_[t] # NoInstance => conn'[c].m_session_ = conn[c].m_session_
  <2> SUFFICES ASSUME NEW t \in Tracks, conn[c].m_rtp_instances_[t] # NoInstance,
                      NEW s \in Sessions, conn'[c].m_session_ = s,
                      AnyClients \/ \A o \in Sessions \ {s} : ~SetUpIn(c, o)
               PROVE  conn[c].m_session_ = s
    BY DEF Relisted
  <2> DEFINE m == conn[c].m_session_
  <2>1. m \in Sessions
    BY DEF ListInv, BoundIfSetUp
  <2>2. c \in m_tracks_[m][t]
    BY <1>1, <2>1 DEF ListInv, ListedExactly
  <2>3. SetUpIn(c, m)
    BY <2>2 DEF SetUpIn
  <2> QED
    BY <2>1, <2>3 DEF NoMixing
<1>3. \A d \in Conns, t \in Tracks :
         /\ conn'[d].m_rtp_instances_[t] = NoInstance <=> conn[d].m_rtp_instances_[t] = NoInstance
         /\ conn[d].m_rtp_instances_[t] # NoInstance => conn'[d].m_session_ = conn[d].m_session_
  BY <1>1, <1>2 DEF Updated, Relisted
<1>4. UNCHANGED m_tracks_
  BY DEF Relisted
<1> QED
  BY <1>1, <1>3, <1>4 DEF ListInv, ListedExactly, BoundIfSetUp

LEMMA SetUpKeeps ==
    ASSUME NoMixing, ListInv, NEW c \in live, NEW m \in Sessions, NEW s \in Sessions,
           NEW t \in Tracks, Updated(c), BoundTo(c, m, s), UNCHANGED live,
           m_tracks_ \in Listed,
           \/ SetUp(c, m, s, t)
           \/ /\ UNCHANGED m_tracks_
              /\ conn'[c].m_session_ = m
              /\ conn'[c].m_rtp_instances_ = conn[c].m_rtp_instances_
    PROVE  (ListedExactly /\ BoundIfSetUp)'
<1>1. live \subseteq Conns
  BY DEF ListInv, ServerInv, MapsAgree, TypeOK
<1>2. m = s
  BY DEF NoMixing, BoundTo
<1>3. conn'[c].m_session_ = m
  BY DEF SetUp
<1>4. \A u \in Tracks : conn[c].m_rtp_instances_[u] # NoInstance => conn[c].m_session_ = m
  <2> SUFFICES ASSUME NEW u \in Tracks, conn[c].m_rtp_instances_[u] # NoInstance
               PROVE  conn[c].m_session_ = m
    OBVIOUS
  <2>1. conn[c].m_session_ \in Sessions
    BY DEF ListInv, BoundIfSetUp
  <2> QED
    BY <2>1, ServerAssumption DEF BoundTo
<1>5. CASE SetUp(c, m, s, t)
  <2>1. \A o \in Sessions, u \in Tracks :
           m_tracks_'[o][u] = IF o = s /\ u = t THEN m_tracks_[o][u] \cup {c} ELSE m_tracks_[o][u]
    BY <1>5 DEF SetUp, Listed
  <2>2. /\ conn'[c].m_rtp_instances_[t] # NoInstance
        /\ \A u \in Tracks \ {t} : conn'[c].m_rtp_instances_[u] = conn[c].m_rtp_instances_[u]
        /\ conn[c].m_rtp_instances_[t] = NoInstance
    BY <1>5 DEF SetUp
  <2>3. ListedExactly'
    <3> SUFFICES ASSUME NEW d \in Conns, NEW o \in Sessions, NEW u \in Tracks
                 PROVE  d \in m_tracks_'[o][u] <=>
                           /\ d \in live
                           /\ conn'[d].m_rtp_instances_[u] # NoInstance
                           /\ conn'[d].m_session_ = o
      BY DEF ListedExactly
    <3>1. d \in m_tracks_[o][u] <=>
             /\ d \in live
             /\ conn[d].m_rtp_instances_[u] # NoInstance
             /\ conn[d].m_session_ = o
      BY DEF ListInv, ListedExactly
    <3>2. CASE d # c
      BY <2>1, <3>1, <3>2 DEF Updated
    <3>3. CASE d = c /\ u = t
      BY <1>2, <1>3, <2>1, <2>2, <3>1, <3>3
    <3>4. CASE d = c /\ u # t
      BY <1>2, <1>3, <1>4, <2>1, <2>2, <3>1, <3>4
    <3> QED
      BY <3>2, <3>3, <3>4
  <2>4. BoundIfSetUp'
    BY <1>1, <1>3 DEF ListInv, BoundIfSetUp, Updated
  <2> QED
    BY <2>3, <2>4
<1>6. CASE /\ UNCHANGED m_tracks_
           /\ conn'[c].m_rtp_instances_ = conn[c].m_rtp_instances_
  <2>1. \A d \in Conns, u \in Tracks :
           /\ conn'[d].m_rtp_instances_[u] = conn[d].m_rtp_instances_[u]
           /\ conn[d].m_rtp_instances_[u] # NoInstance /\ d \in live
                 => conn'[d].m_session_ = conn[d].m_session_
    BY <1>3, <1>4, <1>6 DEF Updated
  <2> QED
    BY <1>1, <1>6, <2>1 DEF ListInv, ListedExactly, BoundIfSetUp
<1> QED
  BY <1>5, <1>6

LEMMA ListStep == NoMixing /\ ListInv /\ [Next]_vars => ListInv'
<1> SUFFICES ASSUME NoMixing, ListInv, [Next]_vars PROVE (ListedExactly /\ BoundIfSetUp)'
  BY ServerStep DEF ListInv
<1>0. /\ ServerInv /\ live \subseteq Conns
      /\ m_tracks_ \in Listed
      /\ \A c \in Conns \ live : conn[c] = Freed
  BY DEF ListInv, ServerInv, MapsAgree, TypeOK, OthersFreed, Listed
<1>1. ASSUME UNCHANGED <<live, conn, m_tracks_>>
      PROVE  (ListedExactly /\ BoundIfSetUp)'
  BY <1>1 DEF ListInv, ListedExactly, BoundIfSetUp
<1>2. CASE Triggers
  <2>1. CASE ~triggered
    BY <1>1, <1>2, <2>1 DEF Triggers
  <2>2. CASE triggered
    <3>1. /\ live' = live \ Doomed
          /\ \A c \in Conns : conn'[c] = IF c \in Doomed THEN Freed ELSE conn[c]
          /\ \A s \in Sessions, t \in Tracks :
                m_tracks_'[s][t] = m_tracks_[s][t] \ {c \in Doomed : conn[c].m_session_ = s}
      BY <1>2, <2>2 DEF Triggers, DeleteConnections
    <3>2. \A c \in live' : c \in Conns /\ c \in live /\ conn'[c] = conn[c]
      BY <1>0, <3>1
    <3>3. ListedExactly'
      <4> SUFFICES ASSUME NEW c \in Conns, NEW s \in Sessions, NEW t \in Tracks
                   PROVE  c \in m_tracks_'[s][t] <=>
                             /\ c \in live'
                             /\ conn'[c].m_rtp_instances_[t] # NoInstance
                             /\ conn'[c].m_session_ = s
        BY DEF ListedExactly
      <4>1. c \in m_tracks_[s][t] <=>
               /\ c \in live
               /\ conn[c].m_rtp_instances_[t] # NoInstance
               /\ conn[c].m_session_ = s
        BY DEF ListInv, ListedExactly
      <4>2. CASE c \in Doomed
        BY <3>1, <4>1, <4>2
      <4>3. CASE c \notin Doomed
        BY <3>1, <3>2, <4>1, <4>3
      <4> QED
        BY <4>2, <4>3
    <3>4. BoundIfSetUp'
      BY <3>2 DEF ListInv, BoundIfSetUp
    <3> QED
      BY <3>3, <3>4
  <2> QED
    BY <2>1, <2>2
<1>3. CASE WaitForEvents \/ NextRound \/ AcceptLater \/ SendPackets \/ UNCHANGED vars
  BY <1>1, <1>3 DEF WaitForEvents, NextRound, AcceptLater, SendPackets, vars, serverVars
<1>4. CASE \E c \in Conns, fd \in Fds \cup {NoFd} : Accept(c, fd)
  <2>1. PICK c \in Conns, fd \in Fds \cup {NoFd} : Accept(c, fd)
    BY <1>4
  <2>2. /\ conn'[c] = [Freed EXCEPT !.fd = fd]
        /\ \A d \in Conns \ {c} : conn'[d] = conn[d]
    BY <1>0, <2>1, AcceptKeeps
  <2>3. /\ c \notin live \cup Referenced
        /\ live' = live \cup {c}
        /\ UNCHANGED m_tracks_
    BY <2>1 DEF Accept
  <2>4. \A t \in Tracks : conn'[c].m_rtp_instances_[t] = NoInstance
    BY <2>2 DEF Freed
  <2>5. \A s \in Sessions, t \in Tracks : c \notin m_tracks_[s][t]
    BY <2>3 DEF Referenced
  <2>6. ListedExactly'
    <3> SUFFICES ASSUME NEW d \in Conns, NEW s \in Sessions, NEW t \in Tracks
                 PROVE  d \in m_tracks_[s][t] <=>
                           /\ d \in live'
                           /\ conn'[d].m_rtp_instances_[t] # NoInstance
                           /\ conn'[d].m_session_ = s
      BY <2>3 DEF ListedExactly
    <3>1. CASE d = c
      BY <2>4, <2>5, <3>1
    <3>2. CASE d # c
      BY <2>2, <2>3, <3>2 DEF ListInv, ListedExactly
    <3> QED
      BY <3>1, <3>2
  <2>7. BoundIfSetUp'
    <3> SUFFICES ASSUME NEW d \in live', NEW t \in Tracks,
                        conn'[d].m_rtp_instances_[t] # NoInstance
                 PROVE  conn'[d].m_session_ \in Sessions
      BY DEF BoundIfSetUp
    <3>1. d # c /\ d \in live /\ d \in Conns
      BY <1>0, <2>3, <2>4
    <3> QED
      BY <2>2, <3>1 DEF ListInv, BoundIfSetUp
  <2> QED
    BY <2>6, <2>7
<1>5. CASE \E fd \in Fds : Request(fd)
  <2>1. PICK fd \in Fds : Request(fd)
    BY <1>5
  <2> DEFINE c == m_event_map_[fd]
  <2>2. Serving(fd) /\ Effect(c)
    BY <1>0, <2>1, RequestEffect
  <2>3. c \in live /\ UNCHANGED live
    BY <1>0, <2>2, DispatchTurn, ServedConnection DEF Serving
  <2> HIDE DEF c
  <2>4. CASE Relisted(c)
    BY <2>2, <2>3, <2>4, RelistedKeeps DEF Effect
  <2>5. CASE UNCHANGED <<conn, m_tracks_>>
    BY <1>1, <2>3, <2>5
  <2>6. CASE \E m, s \in Sessions, t \in Tracks :
                /\ BoundTo(c, m, s)
                /\ \/ SetUp(c, m, s, t)
                   \/ /\ UNCHANGED m_tracks_
                      /\ conn'[c].m_session_ = m
                      /\ conn'[c].m_rtp_instances_ = conn[c].m_rtp_instances_
    BY <1>0, <2>2, <2>3, <2>6, SetUpKeeps DEF Effect
  <2> QED
    BY <2>2, <2>4, <2>5, <2>6 DEF Effect
<1> QED
  BY <1>2, <1>3, <1>4, <1>5 DEF Next, Dead

\* With one session, or with clients that set up what they described, a
\* session's lists hold the instances of the connections that exist, each in
\* one list, and nothing else.
THEOREM InstancesListedAlways == NoMixing => (Spec => []InstancesListed)
<1> SUFFICES ASSUME NoMixing PROVE Spec => []InstancesListed
  OBVIOUS
<1>1. Init => ListInv
  BY ListInit
<1>2. ListInv /\ [Next]_vars => ListInv'
  BY ListStep
<1>3. ListInv => InstancesListed
  <2> SUFFICES ASSUME ListInv, NEW c \in Conns, NEW t \in Tracks
               PROVE  Cardinality({s \in Sessions : c \in m_tracks_[s][t]}) =
                         IF c \in live /\ conn[c].m_rtp_instances_[t] # NoInstance THEN 1 ELSE 0
    BY DEF InstancesListed
  <2> DEFINE in == {s \in Sessions : c \in m_tracks_[s][t]}
  <2>1. \A s \in Sessions : c \in m_tracks_[s][t] <=>
           /\ c \in live
           /\ conn[c].m_rtp_instances_[t] # NoInstance
           /\ conn[c].m_session_ = s
    BY DEF ListInv, ListedExactly
  <2>2. CASE c \in live /\ conn[c].m_rtp_instances_[t] # NoInstance
    <3>1. conn[c].m_session_ \in Sessions
      BY <2>2 DEF ListInv, BoundIfSetUp
    <3>2. in = {conn[c].m_session_}
      BY <2>1, <2>2, <3>1
    <3> QED
      BY <2>2, <3>2, FS_Singleton
  <2>3. CASE ~(c \in live /\ conn[c].m_rtp_instances_[t] # NoInstance)
    <3>1. in = {}
      BY <2>1, <2>3
    <3> QED
      BY <2>3, <3>1, FS_EmptySet
  <2> QED
    BY <2>2, <2>3
<1> QED
  BY <1>1, <1>2, <1>3, PTL DEF Spec

\* Under the same condition SendPacket never follows a pointer to a deleted
\* instance, so the process is never killed by one.
THEOREM NeverDangling == NoMixing => (Spec => [](Referenced \subseteq live /\ crashed # "dangling"))
<1> SUFFICES ASSUME NoMixing PROVE Spec => [](Referenced \subseteq live /\ crashed # "dangling")
  OBVIOUS
<1> DEFINE Inv == ListInv /\ crashed # "dangling"
<1>1. Init => Inv
  BY ListInit DEF Init
<1>2. Inv => Referenced \subseteq live
  BY DEF ListInv, ListedExactly, Referenced, ServerInv, MapsAgree, TypeOK
<1>3. Inv /\ [Next]_vars => Inv'
  <2> SUFFICES ASSUME Inv, [Next]_vars PROVE crashed' # "dangling"
    BY ListStep
  <2>1. Referenced \subseteq live
    BY <1>2
  <2> QED
    BY <2>1 DEF Next, Triggers, WaitForEvents, NextRound, Accept, AcceptLater, Request, Hangup,
                Other, Describe, Setup, SetupUninit, Play, Pause, SendPackets, Dead,
                vars, serverVars
<1> HIDE DEF Inv
<1>4. Inv => Referenced \subseteq live /\ crashed # "dangling"
  BY <1>2 DEF Inv
<1> QED
  BY <1>1, <1>3, <1>4, PTL DEF Spec
=============================================================================
