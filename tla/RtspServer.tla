----------------------------- MODULE RtspServer -----------------------------
(***************************************************************************)
(* The control plane in the main thread: Acceptor, RtspServer, the         *)
(* RtspConnection objects with their RTP instances, and the instance lists *)
(* of the media sessions, as handlers of the EventLoop.                    *)
(*                                                                         *)
(* A connection object owns its descriptor and at most one RTP instance    *)
(* per track; the media sessions hold bare pointers to those instances.    *)
(* Deleting a connection is put off: the handler that sees it end queues   *)
(* its descriptor and a trigger event, and the next round deletes it.      *)
(***************************************************************************)
EXTENDS EventLoop, Sequences

CONSTANTS Sessions,       \* media sessions given to AddMediaSession
          Multicast,      \* the sessions on which StartMulticast was called
          Tracks,         \* TrackId0, TrackId1
          AnyClients      \* clients may set up a session they did not describe

\* Connection objects are identified with their IOEvent; a freed object's
\* name is not given out again while a session still points into it.
Conns == Events

\* m_session_ has no initialiser.
Uninit == "uninit"

ASSUME ServerAssumption ==
    /\ Multicast \subseteq Sessions
    /\ AnyClients \in BOOLEAN
    /\ Uninit \notin Sessions

NoInstance == [type |-> "none", alive |-> FALSE]
Instances == [type : {"udp", "tcp"}, alive : BOOLEAN] \cup {NoInstance}

Freed == [fd |-> NoFd, m_session_ |-> Uninit, over_tcp |-> FALSE,
          m_rtp_instances_ |-> [t \in Tracks |-> NoInstance], paused |-> FALSE]

Connections == [fd : Fds \cup {NoFd},
                m_session_ : Sessions \cup {Uninit},
                over_tcp : BOOLEAN,                        \* m_is_rtp_over_tcp_
                m_rtp_instances_ : [Tracks -> Instances],
                paused : BOOLEAN]      \* last answered PAUSE or PLAY (history)

VARIABLES live,                 \* allocated connection objects
          conn,                 \* their members
          m_connections_,       \* RtspServer: fd -> connection
          m_disconnected_list_, \* RtspServer: fds of connections to delete
          m_tracks_,            \* MediaSession: instances of each track, by owner
          crashed               \* undefined behaviour has killed the process

serverVars == <<live, conn, m_connections_, m_disconnected_list_, m_tracks_, crashed>>
vars == <<loopVars, serverVars>>

TypeOK ==
    /\ LoopTypeOK
    /\ live \subseteq Conns
    /\ conn \in [Conns -> Connections]
    /\ m_connections_ \in [Fds \cup {NoFd} -> Conns \cup {None}]
    /\ m_disconnected_list_ \in Seq(Fds \cup {NoFd})
    /\ m_tracks_ \in [Sessions -> [Tracks -> SUBSET Conns]]
    /\ crashed \in {"no", "m_session_", "dangling"}

\* main(): the sessions have a sink on each track, and the server listens.
Init ==
    /\ LoopInit
    /\ live = {}
    /\ conn = [c \in Conns |-> Freed]
    /\ m_connections_ = [fd \in Fds \cup {NoFd} |-> None]
    /\ m_disconnected_list_ = <<>>
    /\ m_tracks_ = [s \in Sessions |-> [t \in Tracks |-> {}]]
    /\ crashed = "no"

Referenced == UNION {m_tracks_[s][t] : s \in Sessions, t \in Tracks}

-----------------------------------------------------------------------------
(* Trigger events: RtspServer::HandleDisconnectionList *)

Disconnected == {m_disconnected_list_[i] : i \in DOMAIN m_disconnected_list_}
Doomed == {m_connections_[fd] : fd \in Disconnected}

\* Mutant of DeleteConnections: the sessions keep the instances' pointers.
DeleteButKeepListed ==
    /\ live' = live \ Doomed
    /\ conn' = [c \in Conns |-> IF c \in Doomed THEN Freed ELSE conn[c]]
    /\ RemoveIOEvents(Disconnected)
    /\ m_connections_' = [fd \in Fds \cup {NoFd} |->
           IF fd \in Disconnected THEN None ELSE m_connections_[fd]]
    /\ m_disconnected_list_' = <<>>
    /\ UNCHANGED m_tracks_

\* ~RtspConnection takes its instances out of the lists of m_session_, the
\* session described last; ~TcpConnection unregisters; ~TcpSocket closes.
DeleteConnections ==
    /\ live' = live \ Doomed
    /\ conn' = [c \in Conns |-> IF c \in Doomed THEN Freed ELSE conn[c]]
    /\ m_tracks_' = [s \in Sessions |-> [t \in Tracks |->
           m_tracks_[s][t] \ {c \in Doomed : conn[c].m_session_ = s}]]
    /\ RemoveIOEvents(Disconnected)
    /\ m_connections_' = [fd \in Fds \cup {NoFd} |->
           IF fd \in Disconnected THEN None ELSE m_connections_[fd]]
    /\ m_disconnected_list_' = <<>>

Running == crashed = "no"

Triggers ==
    /\ Running
    /\ RunTriggers
    /\ IF triggered
       THEN DeleteConnections
       ELSE UNCHANGED <<m_event_map_, epoll, live, conn, m_tracks_,
                        m_connections_, m_disconnected_list_>>
    /\ UNCHANGED crashed

WaitForEvents == Running /\ Poll /\ UNCHANGED serverVars

NextRound == Running /\ EndRound /\ UNCHANGED serverVars

\* The process is gone.
Dead == ~Running /\ UNCHANGED vars

-----------------------------------------------------------------------------
(* Listening descriptor: Acceptor::HandleRead, RtspServer::HandleNewConnection *)

OpenFds == {conn[c].fd : c \in live} \ {NoFd}

\* accept() gives a free descriptor or fails; the caller does not look.
Accept(c, fd) ==
    /\ Running
    /\ Dispatch(ListenFd)
    /\ c \notin live \cup Referenced
    /\ fd \in (Fds \ OpenFds) \cup {NoFd}
    /\ live' = live \cup {c}
    /\ conn' = [conn EXCEPT ![c].fd = fd]
    /\ AddIOEvent(fd, c)
    /\ m_connections_' = [m_connections_ EXCEPT ![fd] = IF @ = None THEN c ELSE @]
    /\ UNCHANGED <<triggered, m_disconnected_list_, m_tracks_, crashed>>

\* Bound: with every object name in use the client waits in the backlog.
AcceptLater ==
    /\ Running
    /\ Dispatch(ListenFd)
    /\ live \cup Referenced = Conns
    /\ UNCHANGED <<m_event_map_, epoll, event_list_size, triggered, serverVars>>

-----------------------------------------------------------------------------
(* Connection descriptor: TcpConnection::HandleRead and the RTSP methods *)

\* Dispatch goes through the map, not through m_connections_.
Read(fd) ==
    /\ Running
    /\ Dispatch(fd)
    /\ UNCHANGED <<m_event_map_, epoll, event_list_size>>

\* Mutants of HandleDisconnection: reported twice; and reported to no one.
DisconnectTwice(fd) ==
    /\ m_disconnected_list_' = m_disconnected_list_ \o <<fd, fd>>
    /\ AddTriggerEvent

DisconnectQuietly(fd) ==
    /\ m_disconnected_list_' = Append(m_disconnected_list_, fd)
    /\ UNCHANGED triggered

\* RtspServer::HandleDisconnection
HandleDisconnection(fd) ==
    /\ m_disconnected_list_' = Append(m_disconnected_list_, fd)
    /\ AddTriggerEvent

Stay == UNCHANGED <<m_disconnected_list_, triggered>>

\* SendMessage's result decides whether the connection goes on.
Answer(fd) == Stay \/ HandleDisconnection(fd)

\* End of file, read error, malformed request, unknown method or session,
\* failed bind or socket for UDP.
Hangup(fd) ==
    /\ fd \in Fds
    /\ Read(fd)
    /\ HandleDisconnection(fd)
    /\ UNCHANGED <<live, conn, m_connections_, m_tracks_, crashed>>

\* These requests change nothing but the buffers.
HandleCmdOption(fd) == Answer(fd)
HandleCmdTeardown(fd) == Answer(fd)
HandleCmdGetParameter == Stay
HandleRtpOverTcp == Stay

Other(fd) ==
    /\ fd \in Fds
    /\ Read(fd)
    /\ \/ HandleCmdOption(fd)
       \/ HandleCmdTeardown(fd)
       \/ HandleCmdGetParameter
       \/ HandleRtpOverTcp
    /\ UNCHANGED <<live, conn, m_connections_, m_tracks_, crashed>>

SetUpIn(c, s) == \E t \in Tracks : c \in m_tracks_[s][t]

Describe(fd, s) ==
    LET c == m_event_map_[fd]
    IN /\ fd \in Fds
       /\ Read(fd)
       /\ AnyClients \/ \A o \in Sessions \ {s} : ~SetUpIn(c, o)
       /\ conn' = [conn EXCEPT ![c].m_session_ = s]
       /\ Answer(fd)
       /\ UNCHANGED <<live, m_connections_, m_tracks_, crashed>>

\* The transport flag is set while the request is parsed and never cleared.
OverTcp(c, asked) == conn[c].over_tcp \/ asked = "tcp"

\* ParseTransport, which keeps the flag even if the request fails later on.
ParseTransport(c, asked) == [conn EXCEPT ![c].over_tcp = OverTcp(c, asked)]

\* CreateRtpOverTcp on the connection's own descriptor, or CreateRtpRtcpOverUdp
\* on a pair of new sockets, whose failure is a Hangup.
NewInstance(c, asked) ==
    [type |-> IF OverTcp(c, asked) THEN "tcp" ELSE "udp", alive |-> FALSE]

\* Mutant of SetupWith: the multicast answer does not stop the rest.
SetupMulticastListed(fd, m, s, t, asked) ==
    LET c == m_event_map_[fd]
        parsed == [ParseTransport(c, asked) EXCEPT ![c].m_session_ = m]
        instance == NewInstance(c, asked)
    IN IF conn[c].m_rtp_instances_[t] # NoInstance
       THEN /\ conn' = parsed
            /\ HandleDisconnection(fd)
            /\ UNCHANGED m_tracks_
       ELSE /\ conn' = IF m \in Multicast
                       THEN parsed
                       ELSE [parsed EXCEPT ![c].m_rtp_instances_[t] = instance]
            /\ m_tracks_' = [m_tracks_ EXCEPT ![s][t] = @ \cup {c}]
            /\ Answer(fd)

\* HandleCmdSetup, m_session_ pointing to m: refuse a track that is set up;
\* or answer with the multicast address; or create an instance and give it to
\* AddRtpInstance of the session s of the URL.
SetupWith(fd, m, s, t, asked) ==
    LET c == m_event_map_[fd]
        parsed == [ParseTransport(c, asked) EXCEPT ![c].m_session_ = m]
        instance == NewInstance(c, asked)
    IN IF conn[c].m_rtp_instances_[t] # NoInstance
       THEN /\ conn' = parsed
            /\ HandleDisconnection(fd)
            /\ UNCHANGED m_tracks_
       ELSE /\ IF m \in Multicast
               THEN conn' = parsed /\ UNCHANGED m_tracks_
               ELSE /\ conn' = [parsed EXCEPT ![c].m_rtp_instances_[t] = instance]
                    /\ m_tracks_' = [m_tracks_ EXCEPT ![s][t] = @ \cup {c}]
            /\ Answer(fd)

Setup(fd, s, t, asked) ==
    LET m == conn[m_event_map_[fd]].m_session_
    IN /\ fd \in Fds
       /\ Read(fd)
       /\ m # Uninit
       /\ AnyClients \/ m = s
       /\ SetupWith(fd, m, s, t, asked)
       /\ UNCHANGED <<live, m_connections_, crashed>>

\* Before any DESCRIBE, m_session_ is whatever the memory held: dereferencing
\* it kills the process, or it still points to the session of an earlier
\* object at the same address.
SetupUninit(fd, s, t, asked) ==
    /\ AnyClients
    /\ fd \in Fds
    /\ Read(fd)
    /\ conn[m_event_map_[fd]].m_session_ = Uninit
    /\ \/ /\ crashed' = "m_session_"
          /\ Stay
          /\ UNCHANGED <<conn, m_tracks_>>
       \/ /\ \E m \in Sessions : SetupWith(fd, m, s, t, asked)
          /\ UNCHANGED crashed
    /\ UNCHANGED <<live, m_connections_>>

\* HandleCmdPlay: answer first, then wake every instance of the connection.
Play(fd) ==
    LET c == m_event_map_[fd]
        Woken(i) == IF i = NoInstance THEN i ELSE [i EXCEPT !.alive = TRUE]
    IN /\ fd \in Fds
       /\ Read(fd)
       /\ \/ HandleDisconnection(fd) /\ UNCHANGED conn
          \/ /\ Stay
             /\ conn' = [conn EXCEPT
                    ![c].m_rtp_instances_ = [t \in Tracks |-> Woken(@[t])],
                    ![c].paused = FALSE]
       /\ UNCHANGED <<live, m_connections_, m_tracks_, crashed>>

\* HandleCmdPause only answers.
Pause(fd) ==
    /\ fd \in Fds
    /\ Read(fd)
    /\ \/ HandleDisconnection(fd) /\ UNCHANGED conn
       \/ Stay /\ conn' = [conn EXCEPT ![m_event_map_[fd]].paused = TRUE]
    /\ UNCHANGED <<live, m_connections_, m_tracks_, crashed>>

-----------------------------------------------------------------------------
(* Timer descriptor: the sinks' callbacks end in MediaSession::SendPacket *)

\* SendPacket asks every instance in a track's list whether it is alive.
SendPackets ==
    /\ Running
    /\ Dispatch(TimerFd)
    /\ IF Referenced \subseteq live
       THEN UNCHANGED crashed
       ELSE crashed' \in {"no", "dangling"}
    /\ UNCHANGED <<m_event_map_, epoll, event_list_size, triggered, live, conn,
                   m_connections_, m_disconnected_list_, m_tracks_>>

-----------------------------------------------------------------------------

Request(fd) ==
    \/ Hangup(fd)
    \/ Other(fd)
    \/ \E s \in Sessions : Describe(fd, s)
    \/ \E s \in Sessions, t \in Tracks, asked \in {"udp", "tcp"} :
           Setup(fd, s, t, asked) \/ SetupUninit(fd, s, t, asked)
    \/ Play(fd)
    \/ Pause(fd)

Next ==
    \/ Triggers
    \/ WaitForEvents
    \/ NextRound
    \/ \E c \in Conns, fd \in Fds \cup {NoFd} : Accept(c, fd)
    \/ AcceptLater
    \/ \E fd \in Fds : Request(fd)
    \/ SendPackets
    \/ Dead

Spec == Init /\ [][Next]_vars

\* The main thread keeps running its loop.
FairSpec == Spec /\ WF_vars(Next)

-----------------------------------------------------------------------------
(* Properties *)

\* Each descriptor of the batch is still registered when its turn comes, by
\* the very object that was ready: no handler deletes a connection that is
\* further down the batch, and no descriptor number is reused under it
\* (assert(iter != m_event_map_.end()), epollpoller.cpp:68).
DispatchSafe == \A fd \in batch : m_event_map_[fd] # None /\ m_event_map_[fd] = polled[fd]

\* Every queued descriptor is a connection of the server, queued once
\* (assert(it != m_connections_.end()), rtsp_server.cpp:78).
DisconnectedKnown ==
    /\ \A fd \in Disconnected : m_connections_[fd] # None
    /\ Cardinality(Disconnected) = Len(m_disconnected_list_)

\* The server's map, the poller's map, the kernel's set and the objects agree
\* on who owns a descriptor; only connections made from a failed accept() can
\* be missing from the maps.  The poller's event list has room for them all.
MapsAgree ==
    /\ TypeOK
    /\ Cardinality(Mapped) < event_list_size
    /\ epoll = Mapped \ {NoFd}
    /\ \A fd \in Fds : m_event_map_[fd] = m_connections_[fd]
    /\ \A fd \in Fds, c \in live : conn[c].fd = fd <=> m_connections_[fd] = c
    /\ \A fd \in Fds : m_connections_[fd] \in live \cup {None}

\* A session's lists name exactly the instances of existing connections, each
\* in one list: SendPacket never reaches a deleted instance.
InstancesListed ==
    \A c \in Conns, t \in Tracks :
        Cardinality({s \in Sessions : c \in m_tracks_[s][t]}) =
            IF c \in live /\ conn[c].m_rtp_instances_[t] # NoInstance THEN 1 ELSE 0

\* The loop never blocks in epoll_wait, up to ten seconds, with a connection
\* still to be deleted.
NothingPendingWhenBlocked == phase = "poll" => m_disconnected_list_ = <<>>

\* A connection that ended is deleted in the end and its descriptor freed.
DisconnectedFreed ==
    \A fd \in Fds : fd \in Disconnected ~> (m_connections_[fd] = None \/ crashed # "no")

\* What the README's "PAUSE" stands for: after an answered PAUSE no instance of
\* the connection is sent packets until the next PLAY.
PauseStopsSending ==
    \A c \in live : conn[c].paused => \A t \in Tracks : ~conn[c].m_rtp_instances_[t].alive
=============================================================================
