----------------------------- MODULE RtpSockets -----------------------------
(***************************************************************************)
(* The descriptors and ports of the process: the sockets of connections,   *)
(* of the RTP and RTCP instances a SETUP makes (CreateRtpOverTcp,          *)
(* CreateRtpRtcpOverUdp), of a multicast session, and those GetLocalIp     *)
(* opens.  All of them are opened and closed in the event loop, which      *)
(* handles one request to its end before anything else happens.            *)
(***************************************************************************)
EXTENDS Integers, FiniteSetsExt

CONSTANTS Conns, Fds,
          PortMod,             \* ports are uint16_t
          Reserved,            \* ports not drawn: 10000
          Tries,               \* of CreateRtpRtcpOverUdp: 10
          MaxLocalIps          \* bound on the calls of GetLocalIp

Tracks == {0, 1}
None == -1                     \* no descriptor, no port

ASSUME SocketsAssumption ==
    /\ Fds \subseteq Nat /\ IsFiniteSet(Fds)
    /\ Conns \cap {"nobody", "GetLocalIp", "multicast"} = {}
    /\ PortMod \in Nat /\ Reserved \in 1 .. PortMod \div 2 - 2
    /\ Tries \in Nat \ {0} /\ MaxLocalIps \in Nat

VARIABLES owner,               \* of each descriptor: "nobody" when it is closed
          bound,               \* the port each descriptor is bound to
          m_socket_,           \* of each connection
          m_rtp_instances_, m_rtcp_instances_,
          m_multicast_,        \* destination ports of a session's instances
          setup,               \* locals of CreateRtpRtcpOverUdp
          closing,             \* the connection in the middle of its destructor
          local_ips            \* calls of GetLocalIp (history)

vars == <<owner, bound, m_socket_, m_rtp_instances_, m_rtcp_instances_,
          m_multicast_, setup, closing, local_ips>>

Owners == {"nobody", "GetLocalIp", "multicast"} \cup Conns
Open == {fd \in Fds : owner[fd] # "nobody"}
Free == Fds \ Open
Ports == 0 .. PortMod - 1

\* An instance is its descriptor and local port; over TCP it has none.
Instances == [fd : Fds, port : Ports \cup {None}]
NoInstance == [fd |-> None, port |-> None]
NoSetup == [conn |-> "nobody", track |-> 0, tries |-> 0, rtp |-> None, rtcp |-> None]

TypeOK ==
    /\ owner \in [Fds -> Owners]
    /\ bound \in [Fds -> Ports \cup {None}]
    /\ m_socket_ \in [Conns -> Fds \cup {None}]
    /\ m_rtp_instances_ \in [Conns -> [Tracks -> Instances \cup {NoInstance}]]
    /\ m_rtcp_instances_ \in [Conns -> [Tracks -> Instances \cup {NoInstance}]]
    /\ m_multicast_ \subseteq Ports
    /\ setup \in [conn : Conns \cup {"nobody"}, track : Tracks, tries : 0 .. Tries,
                  rtp : Fds \cup {None}, rtcp : Fds \cup {None}]
    /\ closing \in Conns \cup {"nobody"}
    /\ local_ips \in 0 .. MaxLocalIps

Init ==
    /\ owner = [fd \in Fds |-> "nobody"]
    /\ bound = [fd \in Fds |-> None]
    /\ m_socket_ = [c \in Conns |-> None]
    /\ m_rtp_instances_ = [c \in Conns |-> [t \in Tracks |-> NoInstance]]
    /\ m_rtcp_instances_ = [c \in Conns |-> [t \in Tracks |-> NoInstance]]
    /\ m_multicast_ = {}
    /\ setup = NoSetup
    /\ closing = "nobody"
    /\ local_ips = 0

-----------------------------------------------------------------------------
(* The kernel: the lowest descriptor is given out; a port is bound once. *)

Lowest(n) == CHOOSE s \in kSubset(n, Free) : \A a \in s, b \in Free \ s : a < b

Given(fds, o) == [fd \in Fds |-> IF fd \in fds THEN o ELSE owner[fd]]

\* Closing a descriptor that is not open does nothing.
Closed(fds) ==
    /\ owner' = [fd \in Fds |-> IF fd \in fds THEN "nobody" ELSE owner[fd]]
    /\ bound' = [fd \in Fds |-> IF fd \in fds THEN None ELSE bound[fd]]

InUse(port) == \E fd \in Fds : bound[fd] = port

-----------------------------------------------------------------------------

\* Mutant of Idle: a request is handled in the middle of a destructor.
IdleWhileDeleting == setup = NoSetup

\* No request is handled in the middle of another, or of a destructor.
Idle == setup = NoSetup /\ closing = "nobody"

\* A new RtspConnection with an accepted descriptor.
Accept(c) ==
    /\ Idle
    /\ m_socket_[c] = None
    /\ Free # {}
    /\ LET fd == Min(Free)
       IN /\ owner' = Given({fd}, c)
          /\ m_socket_' = [m_socket_ EXCEPT ![c] = fd]
    /\ UNCHANGED <<bound, m_rtp_instances_, m_rtcp_instances_, m_multicast_, setup,
                   closing, local_ips>>

\* Sockets::GetLocalIp, called for the first DESCRIBE of a session and for each
\* multicast SETUP.  Once its socket is open and the ioctl succeeds, no path
\* closes it.
GetLocalIp ==
    /\ Idle
    /\ local_ips < MaxLocalIps
    /\ Free # {}
    /\ local_ips' = local_ips + 1
    /\ owner' = Given({Min(Free)}, "GetLocalIp")
    /\ UNCHANGED <<bound, m_socket_, m_rtp_instances_, m_rtcp_instances_,
                   m_multicast_, setup, closing>>

NewInstance(c, t) ==
    /\ m_socket_[c] # None
    /\ m_rtp_instances_[c][t] = NoInstance
    /\ m_rtcp_instances_[c][t] = NoInstance

\* CreateRtpOverTcp: the instance gets the connection's own descriptor.
SetupOverTcp(c, t) ==
    /\ Idle
    /\ NewInstance(c, t)
    /\ m_rtp_instances_' = [m_rtp_instances_ EXCEPT
          ![c][t] = [fd |-> m_socket_[c], port |-> None]]
    /\ UNCHANGED <<owner, bound, m_socket_, m_rtcp_instances_, m_multicast_, setup,
                   closing, local_ips>>

SetupOverUdp(c, t) ==
    /\ Idle
    /\ NewInstance(c, t)
    /\ setup' = [NoSetup EXCEPT !.conn = c, !.track = t]
    /\ UNCHANGED <<owner, bound, m_socket_, m_rtp_instances_, m_rtcp_instances_,
                   m_multicast_, closing, local_ips>>

\* One turn of the loop in CreateRtpRtcpOverUdp begins: two sockets, or the end.
\* If only the first can be opened it is closed again.
CreateUdpSocks ==
    /\ setup # NoSetup
    /\ setup.rtp = None
    /\ IF setup.tries < Tries /\ Cardinality(Free) >= 2
       THEN LET two == Lowest(2)
            IN /\ owner' = Given(two, setup.conn)
               /\ setup' = [setup EXCEPT !.rtp = Min(two), !.rtcp = Max(two)]
       ELSE /\ setup' = NoSetup
            /\ UNCHANGED owner
    /\ UNCHANGED <<bound, m_socket_, m_rtp_instances_, m_rtcp_instances_,
                   m_multicast_, closing, local_ips>>

\* Mutant of Drawn: one value more is drawn.
DrawnWide == {IF r < Reserved THEN r + Reserved ELSE r : r \in 0 .. PortMod - 2}

\* rand() % 0xfffe, moved out of the reserved ports.
Drawn == {IF r < Reserved THEN r + Reserved ELSE r : r \in 0 .. PortMod - 3}

\* Mutant of BindFails: only the socket that was not bound is closed.
BindFailsKeepsRtp(port) ==
    /\ InUse((port + 1) % PortMod) \/ InUse((port + 2) % PortMod)
    /\ Closed({setup.rtcp})
    /\ setup' = [setup EXCEPT !.tries = @ + 1, !.rtp = None, !.rtcp = None]
    /\ UNCHANGED <<m_rtp_instances_, m_rtcp_instances_>>

\* Mutant of BindFails: no `continue', the closed sockets are used.
BindFailsGoesOn(port) ==
    LET c == setup.conn
        t == setup.track
    IN /\ InUse((port + 1) % PortMod) \/ InUse((port + 2) % PortMod)
       /\ Closed({setup.rtp, setup.rtcp})
       /\ setup' = NoSetup
       /\ m_rtp_instances_' = [m_rtp_instances_ EXCEPT
             ![c][t] = [fd |-> setup.rtp, port |-> (port + 1) % PortMod]]
       /\ UNCHANGED m_rtcp_instances_

\* One of the ports is in use: both sockets are closed, and the loop goes on.
BindFails(port) ==
    /\ InUse((port + 1) % PortMod) \/ InUse((port + 2) % PortMod)
    /\ Closed({setup.rtp, setup.rtcp})
    /\ setup' = [setup EXCEPT !.tries = @ + 1, !.rtp = None, !.rtcp = None]
    /\ UNCHANGED <<m_rtp_instances_, m_rtcp_instances_>>

BindSucceeds(port) ==
    LET rtp_port == (port + 1) % PortMod
        rtcp_port == (rtp_port + 1) % PortMod
        c == setup.conn
        t == setup.track
    IN /\ ~InUse(rtp_port) /\ ~InUse(rtcp_port)
       /\ bound' = [bound EXCEPT ![setup.rtp] = rtp_port, ![setup.rtcp] = rtcp_port]
       /\ m_rtp_instances_' = [m_rtp_instances_ EXCEPT
             ![c][t] = [fd |-> setup.rtp, port |-> rtp_port]]
       /\ m_rtcp_instances_' = [m_rtcp_instances_ EXCEPT
             ![c][t] = [fd |-> setup.rtcp, port |-> rtcp_port]]
       /\ setup' = NoSetup
       /\ UNCHANGED owner

BindBoth ==
    /\ setup.rtp # None
    /\ \E port \in Drawn : BindFails(port) \/ BindSucceeds(port)
    /\ UNCHANGED <<m_socket_, m_multicast_, closing, local_ips>>

\* MediaSession::StartMulticast, before the server starts: four sockets, or the
\* assertions end the process.  None of them is bound; rand() & 0xfffe is even.
StartMulticast ==
    /\ Idle
    /\ \A c \in Conns : m_socket_[c] = None
    /\ m_multicast_ = {}
    /\ Cardinality(Free) >= 4
    /\ owner' = Given(Lowest(4), "multicast")
    /\ \E r \in {n \in 0 .. PortMod - 2 : n % 2 = 0} :
          LET port == IF r < Reserved THEN r + Reserved ELSE r
          IN m_multicast_' = {(port + n) % PortMod : n \in 0 .. 3}
    /\ UNCHANGED <<bound, m_socket_, m_rtp_instances_, m_rtcp_instances_, setup,
                   closing, local_ips>>

InstanceFds(c) ==
    {m_rtp_instances_[c][t].fd : t \in Tracks} \cup {m_rtcp_instances_[c][t].fd : t \in Tracks}

FdsOf(c) == {m_socket_[c]} \cup InstanceFds(c)

\* ~RtspConnection deletes the instances, which close their descriptors; over
\* TCP that is the connection's own, closed once for each.
DeleteInstances(c) ==
    /\ Idle
    /\ m_socket_[c] # None
    /\ Closed(InstanceFds(c))
    /\ m_rtp_instances_' = [m_rtp_instances_ EXCEPT ![c] = [t \in Tracks |-> NoInstance]]
    /\ m_rtcp_instances_' = [m_rtcp_instances_ EXCEPT ![c] = [t \in Tracks |-> NoInstance]]
    /\ closing' = c
    /\ UNCHANGED <<m_socket_, m_multicast_, setup, local_ips>>

\* ~TcpConnection closes the connection's descriptor, whether or not it is
\* still open.
CloseSocket ==
    /\ closing # "nobody"
    /\ Closed({m_socket_[closing]})
    /\ m_socket_' = [m_socket_ EXCEPT ![closing] = None]
    /\ closing' = "nobody"
    /\ UNCHANGED <<m_rtp_instances_, m_rtcp_instances_, m_multicast_, setup, local_ips>>

Next ==
    \/ \E c \in Conns : Accept(c) \/ DeleteInstances(c)
    \/ \E c \in Conns, t \in Tracks : SetupOverTcp(c, t) \/ SetupOverUdp(c, t)
    \/ CreateUdpSocks
    \/ BindBoth
    \/ CloseSocket
    \/ GetLocalIp
    \/ StartMulticast

Spec == Init /\ [][Next]_vars

-----------------------------------------------------------------------------
(* Properties *)

\* Whatever fails on the way, the open descriptors are those of connections and
\* of their instances, of the multicast session and of the set-up going on, and
\* one for each call of GetLocalIp.  A connection whose instances are deleted
\* has at most its own descriptor left, which nobody else has got when the
\* second close comes.
DescriptorsAccounted ==
    /\ TypeOK
    /\ \A c \in Conns \ {closing} :
          {fd \in Fds : owner[fd] = c} =
              (FdsOf(c) \cup (IF setup.conn = c THEN {setup.rtp, setup.rtcp} ELSE {})) \ {None}
    /\ closing # "nobody" =>
          /\ {fd \in Fds : owner[fd] = closing} \subseteq {m_socket_[closing]}
          /\ owner[m_socket_[closing]] \in {"nobody", closing}
    /\ Cardinality({fd \in Fds : owner[fd] = "GetLocalIp"}) = local_ips

\* No instance outlives its descriptor: SendPacket never writes to one that was
\* closed or that another connection has got since.
InstancesOpen ==
    \A c \in Conns, t \in Tracks :
        \A instance \in {m_rtp_instances_[c][t], m_rtcp_instances_[c][t]} \ {NoInstance} :
            /\ owner[instance.fd] = c
            /\ bound[instance.fd] = instance.port

\* The RTCP port is the one above the RTP port, neither has wrapped or is
\* reserved, and no two instances have the same: what the answer tells the
\* client is where packets come from.
PortsPaired ==
    /\ \A c \in Conns, t \in Tracks :
          LET port == m_rtp_instances_[c][t].port
          IN port # None => /\ port \in Reserved + 1 .. PortMod - 2
                            /\ m_rtcp_instances_[c][t].port = port + 1
    /\ \A f, g \in Fds : f # g /\ bound[f] # None => bound[f] # bound[g]
=============================================================================
