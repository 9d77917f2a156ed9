---------------------------- MODULE SocketProofs ----------------------------
(***************************************************************************)
(* Proofs of the properties of RtpSockets, for any number of connections,  *)
(* descriptors, ports and tries.                                           *)
(***************************************************************************)
EXTENDS RtpSockets, FiniteSetTheorems, TLAPS

Owned(o) == {fd \in Fds : owner[fd] = o}
InstancesOf(c, t) == {m_rtp_instances_[c][t], m_rtcp_instances_[c][t]}

\* A closed descriptor is bound to no port.
OnlyOpenBound == \A fd \in Fds : owner[fd] = "nobody" => bound[fd] = None

\* The descriptor of a connection is bound to no port of an instance.
ConnectionUnbound ==
    \A c \in Conns : m_socket_[c] # None => bound[m_socket_[c]] = None

\* An instance without a port uses the descriptor of its connection.
TcpInstances ==
    \A c \in Conns, t \in Tracks : \A instance \in InstancesOf(c, t) :
        instance.port = None => instance.fd \in {None, m_socket_[c]}

\* The two sockets of a set-up going on are open or closed together; they are
\* not yet bound, and the instances they are for do not exist yet.
SetupPending ==
    \/ setup = NoSetup
    \/ LET c == setup.conn
       IN /\ c \in Conns
          /\ InstancesOf(c, setup.track) = {NoInstance}
          /\ setup.rtp = None <=> setup.rtcp = None
          /\ setup.rtp # None =>
                /\ setup.tries < Tries
                /\ setup.rtp # setup.rtcp
                /\ m_socket_[c] \notin {setup.rtp, setup.rtcp}
                /\ bound[setup.rtp] = None
                /\ bound[setup.rtcp] = None

\* A connection in the middle of its destructor has its descriptor number, but
\* no instance any more, and nothing is set up meanwhile.
DeletionPending ==
    closing # "nobody" =>
        /\ setup = NoSetup
        /\ m_socket_[closing] \in Fds
        /\ \A t \in Tracks : InstancesOf(closing, t) = {NoInstance}

SocketInv ==
    /\ DescriptorsAccounted
    /\ InstancesOpen
    /\ PortsPaired
    /\ OnlyOpenBound
    /\ ConnectionUnbound
    /\ TcpInstances
    /\ SetupPending
    /\ DeletionPending

-----------------------------------------------------------------------------
(* The descriptors the kernel gives out *)

\* A set of descriptors that is not empty has a lowest, which Min names.
LEMMA LowestDescriptor ==
    ASSUME NEW S \in SUBSET Nat, S # {}
    PROVE  /\ Min(S) \in S
           /\ \A n \in S : Min(S) <= n
<1> DEFINE R == OpToRel(<, Nat)
<1>1. IsWellFoundedOn(R, Nat)
  BY NatLessThanWellFounded
<1>2. \A n, m \in Nat : n < m => <<n, m>> \in R
  BY DEF OpToRel
<1> HIDE DEF R
<1>3. PICK n \in S : \A m \in S : ~(<<m, n>> \in R)
  BY <1>1, WFMin
<1>4. \A m \in S : ~(m < n)
  BY <1>2, <1>3
<1>5. \A m \in S : n <= m
  BY <1>4, n \in Nat, S \subseteq Nat
<1> QED
  BY <1>5 DEF Min

\* The n lowest free descriptors, as Lowest(n) chooses them.
LowestOf(n, s) == s \in kSubset(n, Free) /\ \A a \in s, b \in Free \ s : a < b

LEMMA FreeFinite ==
    ASSUME TypeOK
    PROVE  Free \in SUBSET Nat /\ IsFiniteSet(Free) /\ Cardinality(Free) \in Nat
<1>1. Free \in SUBSET Fds
  BY DEF Free
<1> QED
  BY <1>1, SocketsAssumption, FS_Subset, FS_CardinalityType

\* When there are more, the lowest of the others is the next.
LEMMA LowestGrows ==
    ASSUME TypeOK, NEW n \in Nat, NEW s, LowestOf(n, s), n < Cardinality(Free)
    PROVE  \E t : LowestOf(n + 1, t)
<1>1. Free \in SUBSET Nat /\ IsFiniteSet(Free)
  BY FreeFinite
<1>2. s \in SUBSET Free /\ Cardinality(s) = n
  BY DEF LowestOf, kSubset
<1>3. IsFiniteSet(s)
  BY <1>1, <1>2, FS_Subset
<1>4. Free \ s # {}
  BY <1>2
<1> DEFINE m == Min(Free \ s)
           t == s \cup {m}
<1>5. m \in Free \ s /\ \A b \in Free \ s : m <= b
  BY <1>1, <1>4, LowestDescriptor
<1>6. Cardinality(t) = n + 1
  BY <1>2, <1>3, <1>5, FS_AddElement
<1>7. t \in kSubset(n + 1, Free)
  BY <1>2, <1>5, <1>6 DEF kSubset
<1> HIDE DEF m
<1>8. \A a \in t, b \in Free \ t : a < b
  <2> SUFFICES ASSUME NEW a \in t, NEW b \in Free \ t
               PROVE  a < b
    OBVIOUS
  <2>1. CASE a \in s
    BY <2>1 DEF LowestOf
  <2>2. CASE a = m
    <3>1. m <= b /\ m # b
      BY <1>5
    <3>2. m \in Nat /\ b \in Nat
      BY <1>1, <1>5
    <3> QED
      BY <2>2, <3>1, <3>2
  <2> QED
    BY <2>1, <2>2
<1> QED
  BY <1>7, <1>8 DEF LowestOf

\* Two or four descriptors are given out only when they are free.
LEMMA LowestAreFree ==
    ASSUME TypeOK, NEW n \in {2, 4}, Cardinality(Free) >= n
    PROVE  Lowest(n) \in kSubset(n, Free)
<1>0. LowestOf(0, {})
  BY FS_EmptySet DEF LowestOf, kSubset
<1>c. Cardinality(Free) \in Nat
  BY FreeFinite
<1>1. \E s : LowestOf(1, s)
  BY <1>0, <1>c, LowestGrows, 0 + 1 = 1
<1>2. \E s : LowestOf(2, s)
  BY <1>1, <1>c, LowestGrows, 1 + 1 = 2
<1>3. CASE n = 2
  BY <1>2, <1>3 DEF Lowest, LowestOf
<1>4. CASE n = 4
  <2>1. \E s : LowestOf(3, s)
    BY <1>2, <1>4, <1>c, LowestGrows, 2 + 1 = 3
  <2>2. \E s : LowestOf(4, s)
    BY <2>1, <1>4, <1>c, LowestGrows, 3 + 1 = 4
  <2> QED
    BY <2>2, <1>4 DEF Lowest, LowestOf
<1> QED
  BY <1>3, <1>4

\* The two sockets of a turn of CreateRtpRtcpOverUdp are two.
LEMMA TwoLowest ==
    ASSUME TypeOK, Cardinality(Free) >= 2
    PROVE  /\ Lowest(2) = {Min(Lowest(2)), Max(Lowest(2))}
           /\ Lowest(2) \subseteq Free
           /\ Min(Lowest(2)) # Max(Lowest(2))
<1> DEFINE s == Lowest(2)
<1>1. s \in SUBSET Free /\ Cardinality(s) = 2
  BY LowestAreFree DEF kSubset
<1>2. Free \in SUBSET Nat /\ IsFiniteSet(Free)
  BY FreeFinite
<1>3. IsFiniteSet(s)
  BY <1>1, <1>2, FS_Subset
<1> HIDE DEF s
<1>4. s # {}
  BY <1>1, FS_EmptySet
<1>5. PICK a \in s : TRUE
  BY <1>4
<1>6. IsFiniteSet(s \ {a}) /\ Cardinality(s \ {a}) = 1
  BY <1>1, <1>3, FS_RemoveElement
<1>7. PICK b : s \ {a} = {b}
  BY <1>6, FS_Singleton
<1>8. s = {a, b} /\ a # b
  BY <1>7
<1>9. a \in Nat /\ b \in Nat
  BY <1>1, <1>2, <1>8
<1>10. CASE a < b
  <2>1. Min(s) = a /\ Max(s) = b
    BY <1>8, <1>9, <1>10 DEF Min, Max
  <2> QED
    BY <2>1, <1>1, <1>8 DEF s
<1>11. CASE b < a
  <2>1. Min(s) = b /\ Max(s) = a
    BY <1>8, <1>9, <1>11 DEF Min, Max
  <2> QED
    BY <2>1, <1>1, <1>8 DEF s
<1> QED
  BY <1>8, <1>9, <1>10, <1>11

-----------------------------------------------------------------------------
(* What giving out and closing descriptors does to who owns them *)

LEMMA GivenOwned ==
    ASSUME TypeOK, NEW fds \in SUBSET Free, NEW o \in Conns \cup {"GetLocalIp", "multicast"},
           owner' = Given(fds, o)
    PROVE  /\ owner' \in [Fds -> Owners]
           /\ \A fd \in fds : fd \in Fds /\ owner[fd] = "nobody"
           /\ \A p : p # "nobody" => Owned(p)' = Owned(p) \cup {fd \in fds : p = o}
<1>1. o \in Owners /\ o # "nobody"
  BY SocketsAssumption DEF Owners
<1> QED
  BY <1>1 DEF TypeOK, Free, Open, Given, Owned, Owners

LEMMA ClosedOwned ==
    ASSUME TypeOK, NEW c \in Conns, NEW fds, fds \ {None} \subseteq Owned(c), Closed(fds)
    PROVE  /\ owner' \in [Fds -> Owners]
           /\ bound' \in [Fds -> Ports \cup {None}]
           /\ Owned(c)' = Owned(c) \ fds
           /\ \A p : p \notin {c, "nobody"} => Owned(p)' = Owned(p)
           /\ \A fd \in Fds : owner[fd] # c => owner'[fd] = owner[fd] /\ bound'[fd] = bound[fd]
           /\ \A fd \in Fds \ fds : owner'[fd] = owner[fd] /\ bound'[fd] = bound[fd]
           /\ OnlyOpenBound => OnlyOpenBound'
<1>1. None \notin Fds
  BY SocketsAssumption DEF None
<1>2. "nobody" \notin Conns
  BY SocketsAssumption
<1>3. \A fd \in fds : fd \in Fds => owner[fd] = c
  BY <1>1 DEF Owned
<1> QED
  BY <1>1, <1>2, <1>3 DEF TypeOK, Closed, Owned, Owners, OnlyOpenBound

\* The descriptors a connection and its set-up hold.
Held(c) ==
    (FdsOf(c) \cup (IF setup.conn = c THEN {setup.rtp, setup.rtcp} ELSE {})) \ {None}

LEMMA NoneOutside ==
    /\ None \notin Fds /\ None \notin Ports /\ None \in Int
    /\ {"nobody", "GetLocalIp", "multicast"} \cap Conns = {}
    /\ {"nobody", "GetLocalIp", "multicast"} \cup Conns = Owners
BY SocketsAssumption DEF None, Ports, Owners

\* While no destructor runs, before or after a step, every connection has all
\* that it holds.
LEMMA OwnedIsHeld ==
    /\ closing = "nobody" =>
          (DescriptorsAccounted <=>
              /\ TypeOK
              /\ \A c \in Conns : Owned(c) = Held(c)
              /\ Cardinality(Owned("GetLocalIp")) = local_ips)
    /\ closing' = "nobody" =>
          (DescriptorsAccounted' <=>
              /\ TypeOK'
              /\ \A c \in Conns : Owned(c)' = Held(c)'
              /\ Cardinality(Owned("GetLocalIp")') = local_ips')
<1>1. Conns \ {"nobody"} = Conns
  BY NoneOutside
<1>2. ASSUME closing = "nobody"
      PROVE  DescriptorsAccounted <=>
                /\ TypeOK
                /\ \A c \in Conns : Owned(c) = Held(c)
                /\ Cardinality(Owned("GetLocalIp")) = local_ips
  BY <1>1, <1>2 DEF DescriptorsAccounted, Owned, Held
<1>3. ASSUME closing' = "nobody"
      PROVE  DescriptorsAccounted' <=>
                /\ TypeOK'
                /\ \A c \in Conns : Owned(c)' = Held(c)'
                /\ Cardinality(Owned("GetLocalIp")') = local_ips'
  BY <1>1, <1>3 DEF DescriptorsAccounted, Owned, Held
<1> QED
  BY <1>2, <1>3

\* An instance is open and is its connection's.
LEMMA InstanceOwned ==
    ASSUME SocketInv, NEW c \in Conns, NEW t \in Tracks,
           NEW instance \in InstancesOf(c, t) \ {NoInstance}
    PROVE  /\ instance \in Instances
           /\ instance.fd \in Fds
           /\ owner[instance.fd] = c
           /\ bound[instance.fd] = instance.port
<1>1. InstancesOf(c, t) \subseteq Instances \cup {NoInstance}
  BY DEF SocketInv, DescriptorsAccounted, TypeOK, InstancesOf
<1> QED
  BY <1>1 DEF SocketInv, InstancesOpen, InstancesOf, Instances

\* What a connection and its instances hold is its own, while no destructor runs.
LEMMA HeldIsOwned ==
    ASSUME SocketInv, closing = "nobody", NEW c \in Conns
    PROVE  /\ m_socket_[c] # None => m_socket_[c] \in Fds /\ owner[m_socket_[c]] = c
           /\ \A t \in Tracks : \A instance \in InstancesOf(c, t) \ {NoInstance} :
                 /\ instance \in Instances
                 /\ instance.fd \in Fds
                 /\ owner[instance.fd] = c
                 /\ bound[instance.fd] = instance.port
           /\ FdsOf(c) \ {None} \subseteq Owned(c)
<1>1. TypeOK /\ Owned(c) = Held(c)
  BY OwnedIsHeld DEF SocketInv
<1>2. m_socket_[c] \in Fds \cup {None}
  BY <1>1 DEF TypeOK
<1>3. m_socket_[c] # None => m_socket_[c] \in Owned(c)
  BY <1>1 DEF Held, FdsOf, InstanceFds
<1>4. FdsOf(c) \ {None} \subseteq Owned(c)
  BY <1>1 DEF Held
<1> QED
  BY <1>2, <1>3, <1>4, InstanceOwned DEF Owned

-----------------------------------------------------------------------------
(* Every step keeps the invariant *)

LEMMA InitSocketInv == Init => SocketInv
<1> SUFFICES ASSUME Init PROVE SocketInv
  OBVIOUS
<1>1. TypeOK
  BY SocketsAssumption DEF Init, TypeOK, Owners, NoSetup, Tracks
<1>2. \A c \in Conns : FdsOf(c) = {None}
  BY DEF Init, FdsOf, InstanceFds, NoInstance, Tracks
<1>3. \A c \in Conns : Owned(c) = Held(c)
  BY <1>2, NoneOutside DEF Init, Owned, Held, NoSetup
<1>4. Owned("GetLocalIp") = {}
  BY DEF Init, Owned
<1>5. DescriptorsAccounted
  BY <1>1, <1>3, <1>4, OwnedIsHeld, FS_EmptySet DEF Init
<1>6. InstancesOpen /\ TcpInstances /\ PortsPaired
  BY DEF Init, InstancesOpen, TcpInstances, InstancesOf, PortsPaired, NoInstance
<1>7. OnlyOpenBound /\ ConnectionUnbound /\ SetupPending
  BY DEF Init, OnlyOpenBound, ConnectionUnbound, SetupPending
<1> QED
  BY <1>5, <1>6, <1>7 DEF Init, SocketInv, DeletionPending

\* Instances stay as they are while their descriptors do.
LEMMA InstancesKept ==
    ASSUME SocketInv,
           UNCHANGED <<m_rtp_instances_, m_rtcp_instances_, bound>>,
           \A f \in Fds : owner[f] \in Conns => owner'[f] = owner[f],
           \A d \in Conns : m_socket_[d] # None => m_socket_'[d] = m_socket_[d]
    PROVE  InstancesOpen' /\ TcpInstances'
<1>1. ASSUME NEW d \in Conns, NEW t \in Tracks, NEW instance \in InstancesOf(d, t)'
      PROVE  /\ instance # NoInstance => owner'[instance.fd] = d /\ bound'[instance.fd] = instance.port
             /\ instance.port = None => instance.fd \in {None, m_socket_'[d]}
  <2>1. instance \in InstancesOf(d, t)
    BY DEF InstancesOf
  <2>2. instance # NoInstance =>
           instance.fd \in Fds /\ owner[instance.fd] = d /\ bound[instance.fd] = instance.port
    BY <2>1, InstanceOwned
  <2>3. instance.port = None => instance.fd \in {None, m_socket_[d]}
    BY <2>1 DEF SocketInv, TcpInstances
  <2> QED
    BY <2>2, <2>3
<1> QED
  BY <1>1 DEF InstancesOpen, TcpInstances, InstancesOf

LEMMA AcceptKeeps ==
    ASSUME SocketInv, NEW c \in Conns, Accept(c),
           closing = "nobody", closing' = "nobody"
    PROVE  SocketInv'
<1> DEFINE fd == Min(Free)
<1>1. TypeOK
  BY DEF SocketInv, DescriptorsAccounted
<1>2. fd \in Free /\ fd \in Fds /\ owner[fd] = "nobody" /\ bound[fd] = None
  BY <1>1, FreeFinite, LowestDescriptor DEF Accept, Free, Open, SocketInv, OnlyOpenBound
<1> HIDE DEF fd
<1>3. /\ owner' = Given({fd}, c)
      /\ m_socket_' = [m_socket_ EXCEPT ![c] = fd]
      /\ m_socket_[c] = None
      /\ setup = NoSetup
      /\ UNCHANGED <<bound, m_rtp_instances_, m_rtcp_instances_, m_multicast_, setup, local_ips>>
  BY DEF Accept, Idle, fd
<1>4. /\ owner' \in [Fds -> Owners]
      /\ \A p : p # "nobody" => Owned(p)' = Owned(p) \cup {f \in {fd} : p = c}
  <2>1. {fd} \in SUBSET Free
    BY <1>2
  <2>2. c \in Conns \cup {"GetLocalIp", "multicast"} /\ owner' = Given({fd}, c)
    BY <1>3
  <2> DEFINE fds == {fd}
  <2> HIDE DEF fds
  <2>3. fds \in SUBSET Free /\ owner' = Given(fds, c)
    BY <2>1, <2>2 DEF fds
  <2>4. /\ owner' \in [Fds -> Owners]
        /\ \A p : p # "nobody" => Owned(p)' = Owned(p) \cup {f \in fds : p = c}
    BY <1>1, <2>2, <2>3, GivenOwned
  <2> QED
    BY <2>4 DEF fds
<1>5. TypeOK'
  BY <1>1, <1>2, <1>3, <1>4 DEF TypeOK
<1>6. /\ FdsOf(c)' = (FdsOf(c) \ {None}) \cup {fd} \cup (FdsOf(c)' \cap {None})
      /\ \A d \in Conns \ {c} : FdsOf(d)' = FdsOf(d)
  BY <1>1, <1>2, <1>3, NoneOutside DEF TypeOK, FdsOf, InstanceFds
<1>7. ASSUME NEW d \in Conns PROVE Owned(d)' = Held(d)'
  <2>1. Owned(d) = Held(d)
    BY OwnedIsHeld DEF SocketInv
  <2>2. Owned(d)' = Owned(d) \cup {f \in {fd} : d = c}
    BY <1>4, NoneOutside
  <2>3. setup'.conn # d
    BY <1>3, NoneOutside DEF NoSetup
  <2> QED
    BY <1>2, <1>3, <1>6, <2>1, <2>2, <2>3, NoneOutside DEF Held
<1>8. Owned("GetLocalIp")' = Owned("GetLocalIp")
  BY <1>4, NoneOutside
<1>9. DescriptorsAccounted'
  BY <1>3, <1>5, <1>7, <1>8, OwnedIsHeld DEF SocketInv
<1>10. \A f \in Fds : owner[f] \in Conns => owner'[f] = owner[f]
  BY <1>2, <1>3, NoneOutside DEF Given
<1>11. \A d \in Conns : m_socket_[d] # None => m_socket_'[d] = m_socket_[d]
  BY <1>1, <1>3 DEF TypeOK
<1>12. InstancesOpen' /\ TcpInstances'
  BY <1>3, <1>10, <1>11, InstancesKept
<1>13. PortsPaired'
  BY <1>3 DEF SocketInv, PortsPaired
<1>14. OnlyOpenBound'
  BY <1>2, <1>3 DEF SocketInv, OnlyOpenBound, Given
<1>15. ConnectionUnbound'
  BY <1>1, <1>2, <1>3 DEF SocketInv, ConnectionUnbound, TypeOK
<1>16. SetupPending'
  BY <1>3 DEF SetupPending
<1> QED
  BY <1>9, <1>12, <1>13, <1>14, <1>15, <1>16 DEF SocketInv, DeletionPending

LEMMA GetLocalIpKeeps ==
    ASSUME SocketInv, GetLocalIp,
           closing = "nobody", closing' = "nobody"
    PROVE  SocketInv'
<1> DEFINE fd == Min(Free)
<1>1. TypeOK
  BY DEF SocketInv, DescriptorsAccounted
<1>2. fd \in Free /\ fd \in Fds /\ owner[fd] = "nobody"
  BY <1>1, FreeFinite, LowestDescriptor DEF GetLocalIp, Free, Open
<1>3. /\ owner' = Given({fd}, "GetLocalIp")
      /\ local_ips' = local_ips + 1 /\ local_ips' \in 0 .. MaxLocalIps
      /\ UNCHANGED <<bound, m_socket_, m_rtp_instances_, m_rtcp_instances_, m_multicast_, setup>>
  BY <1>1, SocketsAssumption DEF GetLocalIp, TypeOK
<1> HIDE DEF fd
<1>4. /\ owner' \in [Fds -> Owners]
      /\ \A p : p # "nobody" => Owned(p)' = Owned(p) \cup {f \in {fd} : p = "GetLocalIp"}
  <2>1. {fd} \in SUBSET Free
    BY <1>2
  <2>2. "GetLocalIp" \in Conns \cup {"GetLocalIp", "multicast"}
    OBVIOUS
  <2> QED
    BY <1>1, <1>3, <2>1, <2>2, GivenOwned
<1>5. TypeOK'
  BY <1>1, <1>3, <1>4 DEF TypeOK
<1>6. \A d \in Conns : Owned(d)' = Held(d)'
  BY <1>3, <1>4, OwnedIsHeld, NoneOutside DEF SocketInv, Held, FdsOf, InstanceFds
<1>7. Cardinality(Owned("GetLocalIp")') = local_ips'
  <2>1. Owned("GetLocalIp") \in SUBSET Fds /\ fd \notin Owned("GetLocalIp")
    BY <1>2 DEF Owned
  <2>2. IsFiniteSet(Owned("GetLocalIp"))
    BY <2>1, SocketsAssumption, FS_Subset
  <2>3. Owned("GetLocalIp")' = Owned("GetLocalIp") \cup {fd}
    BY <1>4
  <2> QED
    BY <1>3, <2>1, <2>2, <2>3, FS_AddElement, OwnedIsHeld DEF SocketInv
<1>8. DescriptorsAccounted'
  BY <1>5, <1>6, <1>7, OwnedIsHeld
<1>9. \A f \in Fds : owner[f] \in Conns => owner'[f] = owner[f]
  BY <1>2, <1>3, NoneOutside DEF Given
<1>10. InstancesOpen' /\ TcpInstances'
  BY <1>3, <1>9, InstancesKept
<1>11. PortsPaired' /\ ConnectionUnbound'
  BY <1>3 DEF SocketInv, PortsPaired, ConnectionUnbound
<1>12. OnlyOpenBound'
  BY <1>3 DEF SocketInv, OnlyOpenBound, Given
<1>13. SetupPending'
  BY <1>3 DEF SocketInv, SetupPending, InstancesOf
<1> QED
  BY <1>8, <1>10, <1>11, <1>12, <1>13 DEF SocketInv, DeletionPending

LEMMA StartMulticastKeeps ==
    ASSUME SocketInv, StartMulticast,
           closing = "nobody", closing' = "nobody"
    PROVE  SocketInv'
<1>1. TypeOK
  BY DEF SocketInv, DescriptorsAccounted
<1>2. Lowest(4) \in SUBSET Free
  BY <1>1, LowestAreFree DEF StartMulticast, kSubset
<1> DEFINE fds == Lowest(4)
<1>3. /\ owner' = Given(fds, "multicast")
      /\ m_multicast_' \subseteq Ports
      /\ UNCHANGED <<bound, m_socket_, m_rtp_instances_, m_rtcp_instances_, setup, local_ips>>
  BY SocketsAssumption DEF StartMulticast, Ports
<1> HIDE DEF fds
<1>4. /\ owner' \in [Fds -> Owners]
      /\ \A f \in fds : f \in Fds /\ owner[f] = "nobody"
      /\ \A p : p # "nobody" => Owned(p)' = Owned(p) \cup {f \in fds : p = "multicast"}
  <2>1. fds \in SUBSET Free
    BY <1>2 DEF fds
  <2> QED
    BY <1>1, <1>3, <2>1, GivenOwned
<1>5. TypeOK'
  BY <1>1, <1>3, <1>4 DEF TypeOK
<1>6. \A d \in Conns : Owned(d)' = Held(d)'
  BY <1>3, <1>4, OwnedIsHeld, NoneOutside DEF SocketInv, Held, FdsOf, InstanceFds
<1>7. Owned("GetLocalIp")' = Owned("GetLocalIp")
  BY <1>4
<1>8. DescriptorsAccounted'
  BY <1>3, <1>5, <1>6, <1>7, OwnedIsHeld DEF SocketInv
<1>9. \A f \in Fds : owner[f] \in Conns => owner'[f] = owner[f]
  BY <1>3, <1>4, NoneOutside DEF Given
<1>10. InstancesOpen' /\ TcpInstances'
  BY <1>3, <1>9, InstancesKept
<1>11. PortsPaired' /\ ConnectionUnbound'
  BY <1>3 DEF SocketInv, PortsPaired, ConnectionUnbound
<1>12. OnlyOpenBound'
  BY <1>3 DEF SocketInv, OnlyOpenBound, Given
<1>13. SetupPending'
  BY <1>3 DEF SocketInv, SetupPending, InstancesOf
<1> QED
  BY <1>8, <1>10, <1>11, <1>12, <1>13 DEF SocketInv, DeletionPending

LEMMA SetupOverTcpKeeps ==
    ASSUME SocketInv, NEW c \in Conns, NEW t \in Tracks, SetupOverTcp(c, t),
           closing = "nobody", closing' = "nobody"
    PROVE  SocketInv'
<1> DEFINE new == [fd |-> m_socket_[c], port |-> None]
<1>1. TypeOK
  BY DEF SocketInv, DescriptorsAccounted
<1>2. /\ m_socket_[c] # None
      /\ m_rtp_instances_[c][t] = NoInstance
      /\ m_rtp_instances_' = [m_rtp_instances_ EXCEPT ![c][t] = new]
      /\ setup = NoSetup
      /\ UNCHANGED <<owner, bound, m_socket_, m_rtcp_instances_, m_multicast_, setup, local_ips>>
  BY DEF SetupOverTcp, NewInstance, Idle
<1>3. /\ m_socket_[c] \in Fds /\ owner[m_socket_[c]] = c /\ bound[m_socket_[c]] = None
      /\ new \in Instances
  BY <1>2, HeldIsOwned DEF SocketInv, ConnectionUnbound, Instances
<1>4. TypeOK'
  BY <1>1, <1>2, <1>3 DEF TypeOK
<1>5. \A d \in Conns, u \in Tracks :
         /\ m_rtcp_instances_'[d][u] = m_rtcp_instances_[d][u]
         /\ m_rtp_instances_'[d][u] = IF d = c /\ u = t THEN new ELSE m_rtp_instances_[d][u]
  BY <1>1, <1>2 DEF TypeOK
<1>6. \A d \in Conns : Held(d)' = Held(d)
  <2>1. \A d \in Conns : FdsOf(d)' \ {None} = FdsOf(d) \ {None}
    BY <1>2, <1>5 DEF FdsOf, InstanceFds, NoInstance
  <2> QED
    BY <1>2, <2>1 DEF Held
<1>7. DescriptorsAccounted'
  <2>1. \A d \in Conns : Owned(d)' = Held(d)'
    BY <1>2, <1>6, OwnedIsHeld DEF SocketInv, Owned
  <2>2. Owned("GetLocalIp")' = Owned("GetLocalIp")
    BY <1>2 DEF Owned
  <2> QED
    BY <1>2, <1>4, <2>1, <2>2, OwnedIsHeld DEF SocketInv
<1>8. \A d \in Conns, u \in Tracks :
         InstancesOf(d, u)' \subseteq InstancesOf(d, u) \cup {i \in {new} : d = c}
  BY <1>5 DEF InstancesOf
<1>9. InstancesOpen' /\ TcpInstances'
  BY <1>2, <1>3, <1>8 DEF SocketInv, InstancesOpen, TcpInstances, InstancesOf
<1>10. PortsPaired'
  BY <1>2, <1>5 DEF SocketInv, PortsPaired
<1>11. OnlyOpenBound' /\ ConnectionUnbound' /\ SetupPending'
  BY <1>2 DEF SocketInv, OnlyOpenBound, ConnectionUnbound, SetupPending
<1> QED
  BY <1>7, <1>9, <1>10, <1>11 DEF SocketInv, DeletionPending

LEMMA SetupOverUdpKeeps ==
    ASSUME SocketInv, NEW c \in Conns, NEW t \in Tracks, SetupOverUdp(c, t),
           closing = "nobody", closing' = "nobody"
    PROVE  SocketInv'
<1>1. TypeOK
  BY DEF SocketInv, DescriptorsAccounted
<1>2. /\ m_rtp_instances_[c][t] = NoInstance /\ m_rtcp_instances_[c][t] = NoInstance
      /\ setup = NoSetup /\ setup' = [NoSetup EXCEPT !.conn = c, !.track = t]
      /\ UNCHANGED <<owner, bound, m_socket_, m_rtp_instances_, m_rtcp_instances_,
                     m_multicast_, local_ips>>
  BY DEF SetupOverUdp, NewInstance, Idle
<1>3. /\ setup' \in [conn : Conns \cup {"nobody"}, track : Tracks, tries : 0 .. Tries,
                     rtp : Fds \cup {None}, rtcp : Fds \cup {None}]
      /\ setup'.conn = c /\ setup'.track = t /\ setup'.rtp = None /\ setup'.rtcp = None
  <2>1. setup' = [conn |-> c, track |-> t, tries |-> 0, rtp |-> None, rtcp |-> None]
    BY <1>2 DEF NoSetup
  <2>2. 0 \in 0 .. Tries
    BY SocketsAssumption
  <2> QED
    BY <2>1, <2>2
<1>4. TypeOK'
  BY <1>1, <1>2, <1>3 DEF TypeOK
<1>5. \A d \in Conns : Held(d)' = Held(d)
  BY <1>2, <1>3, NoneOutside DEF Held, FdsOf, InstanceFds, NoSetup
<1>6. DescriptorsAccounted'
  <2>1. \A d \in Conns : Owned(d)' = Held(d)'
    BY <1>2, <1>5, OwnedIsHeld DEF SocketInv, Owned
  <2>2. Owned("GetLocalIp")' = Owned("GetLocalIp")
    BY <1>2 DEF Owned
  <2> QED
    BY <1>2, <1>4, <2>1, <2>2, OwnedIsHeld DEF SocketInv
<1>7. InstancesOpen' /\ TcpInstances'
  BY <1>2, InstancesKept
<1>8. PortsPaired' /\ OnlyOpenBound' /\ ConnectionUnbound'
  BY <1>2 DEF SocketInv, PortsPaired, OnlyOpenBound, ConnectionUnbound
<1>9. SetupPending'
  BY <1>2, <1>3 DEF SetupPending, InstancesOf
<1> QED
  BY <1>6, <1>7, <1>8, <1>9 DEF SocketInv, DeletionPending

\* A set-up going on is a record of one of the connections.
LEMMA PendingSetup ==
    ASSUME SocketInv, closing = "nobody", setup # NoSetup
    PROVE  /\ setup \in [conn : Conns, track : Tracks, tries : 0 .. Tries,
                         rtp : Fds \cup {None}, rtcp : Fds \cup {None}]
           /\ InstancesOf(setup.conn, setup.track) = {NoInstance}
           /\ setup.rtp = None <=> setup.rtcp = None
           /\ setup.rtp # None =>
                 /\ setup.tries < Tries
                 /\ setup.rtp # setup.rtcp
                 /\ m_socket_[setup.conn] \notin {setup.rtp, setup.rtcp}
                 /\ bound[setup.rtp] = None /\ bound[setup.rtcp] = None
                 /\ owner[setup.rtp] = setup.conn /\ owner[setup.rtcp] = setup.conn
<1>1. TypeOK
  BY DEF SocketInv, DescriptorsAccounted
<1>2. LET c == setup.conn
      IN /\ c \in Conns
         /\ InstancesOf(c, setup.track) = {NoInstance}
         /\ setup.rtp = None <=> setup.rtcp = None
         /\ setup.rtp # None =>
               /\ setup.tries < Tries
               /\ setup.rtp # setup.rtcp
               /\ m_socket_[c] \notin {setup.rtp, setup.rtcp}
               /\ bound[setup.rtp] = None
               /\ bound[setup.rtcp] = None
  BY DEF SocketInv, SetupPending
<1>3. setup \in [conn : Conns, track : Tracks, tries : 0 .. Tries,
                 rtp : Fds \cup {None}, rtcp : Fds \cup {None}]
  BY <1>1, <1>2 DEF TypeOK
<1>4. {setup.rtp, setup.rtcp} \ {None} \subseteq Owned(setup.conn)
  BY <1>2, OwnedIsHeld DEF SocketInv, Held
<1> QED
  BY <1>2, <1>3, <1>4 DEF Owned

LEMMA CreateUdpSocksKeeps ==
    ASSUME SocketInv, CreateUdpSocks,
           closing = "nobody", closing' = "nobody"
    PROVE  SocketInv'
<1> DEFINE c == setup.conn
<1>1. TypeOK
  BY DEF SocketInv, DescriptorsAccounted
<1>2. /\ setup # NoSetup /\ setup.rtp = None /\ setup.rtcp = None
      /\ UNCHANGED <<bound, m_socket_, m_rtp_instances_, m_rtcp_instances_,
                     m_multicast_, local_ips>>
  BY PendingSetup DEF CreateUdpSocks, Idle
<1>3. /\ setup \in [conn : Conns, track : Tracks, tries : 0 .. Tries,
                    rtp : Fds \cup {None}, rtcp : Fds \cup {None}]
      /\ InstancesOf(c, setup.track) = {NoInstance}
  BY <1>2, PendingSetup
<1>4. PortsPaired' /\ ConnectionUnbound'
  BY <1>2 DEF SocketInv, PortsPaired, ConnectionUnbound
<1>5. CASE setup' = NoSetup /\ UNCHANGED owner
  <2>1. TypeOK'
    BY <1>1, <1>2, <1>5, SocketsAssumption DEF TypeOK, NoSetup, Tracks
  <2>2. \A d \in Conns : Held(d)' = Held(d)
    BY <1>2, <1>5, NoneOutside DEF Held, FdsOf, InstanceFds, NoSetup
  <2>3. DescriptorsAccounted'
    <3>1. \A d \in Conns : Owned(d)' = Held(d)'
      BY <1>5, <2>2, OwnedIsHeld DEF SocketInv, Owned
    <3>2. Owned("GetLocalIp")' = Owned("GetLocalIp")
      BY <1>5 DEF Owned
    <3> QED
      BY <1>2, <2>1, <3>1, <3>2, OwnedIsHeld DEF SocketInv
  <2>4. InstancesOpen' /\ TcpInstances'
    BY <1>2, <1>5, InstancesKept
  <2>5. OnlyOpenBound' /\ SetupPending'
    BY <1>2, <1>5 DEF SocketInv, OnlyOpenBound, SetupPending
  <2> QED
    BY <1>4, <2>3, <2>4, <2>5 DEF SocketInv, DeletionPending
<1>6. CASE /\ setup.tries < Tries
           /\ Cardinality(Free) >= 2
           /\ owner' = Given(Lowest(2), c)
           /\ setup' = [setup EXCEPT !.rtp = Min(Lowest(2)), !.rtcp = Max(Lowest(2))]
  <2> DEFINE two == Lowest(2)
             rtp == Min(two)
             rtcp == Max(two)
  <2>1. two = {rtp, rtcp} /\ two \in SUBSET Free /\ rtp # rtcp
    BY <1>1, <1>6, TwoLowest
  <2>2. owner' = Given(two, c) /\ setup' = [setup EXCEPT !.rtp = rtp, !.rtcp = rtcp]
    BY <1>6
  <2> HIDE DEF two, rtp, rtcp
  <2>3. rtp \in Free /\ rtcp \in Free /\ rtp \in Fds /\ rtcp \in Fds
    BY <2>1 DEF Free
  <2>4. /\ owner' \in [Fds -> Owners]
        /\ \A f \in two : f \in Fds /\ owner[f] = "nobody"
        /\ \A p : p # "nobody" => Owned(p)' = Owned(p) \cup {f \in two : p = c}
    <3>1. c \in Conns \cup {"GetLocalIp", "multicast"}
      BY <1>3
    <3> HIDE DEF c
    <3> QED
      BY <1>1, <2>1, <2>2, <3>1, GivenOwned
  <2>5. /\ setup' \in [conn : Conns, track : Tracks, tries : 0 .. Tries,
                       rtp : Fds \cup {None}, rtcp : Fds \cup {None}]
        /\ setup'.conn = c /\ setup'.track = setup.track
        /\ setup'.rtp = rtp /\ setup'.rtcp = rtcp
    BY <1>3, <2>2, <2>3
  <2>6. TypeOK'
    BY <1>1, <1>2, <2>4, <2>5 DEF TypeOK
  <2>7. \A d \in Conns : Held(d)' = Held(d) \cup {f \in two : d = c}
    BY <1>2, <2>1, <2>3, <2>5, NoneOutside DEF Held, FdsOf, InstanceFds
  <2>8. DescriptorsAccounted'
    <3>1. \A d \in Conns : Owned(d)' = Held(d)'
      BY <2>4, <2>7, OwnedIsHeld, NoneOutside DEF SocketInv
    <3>2. Owned("GetLocalIp")' = Owned("GetLocalIp")
      BY <1>3, <2>4, NoneOutside
    <3> QED
      BY <1>2, <2>6, <3>1, <3>2, OwnedIsHeld DEF SocketInv
  <2>9. \A f \in Fds : owner[f] \in Conns => owner'[f] = owner[f]
    BY <2>2, <2>4, NoneOutside DEF Given
  <2>10. InstancesOpen' /\ TcpInstances'
    BY <1>2, <2>9, InstancesKept
  <2>11. OnlyOpenBound'
    BY <1>2, <1>3, <2>2, NoneOutside DEF SocketInv, OnlyOpenBound, Given
  <2>12. SetupPending'
    <3>0. setup'.tries < Tries
      BY <1>3, <1>6, <2>2
    <3>1. bound[rtp] = None /\ bound[rtcp] = None
      BY <2>1, <2>3, <2>4 DEF SocketInv, OnlyOpenBound
    <3>2. m_socket_[c] \notin {rtp, rtcp}
      BY <1>3, <2>1, <2>3, <2>4, HeldIsOwned, NoneOutside
    <3>3. InstancesOf(c, setup.track)' = {NoInstance}
      BY <1>2, <1>3, <2>5 DEF InstancesOf
    <3> QED
      BY <1>2, <1>3, <2>1, <2>3, <2>5, <3>0, <3>1, <3>2, <3>3, NoneOutside DEF SetupPending, InstancesOf
  <2> QED
    BY <1>4, <2>8, <2>10, <2>11, <2>12 DEF SocketInv, DeletionPending
<1> QED
  BY <1>5, <1>6 DEF CreateUdpSocks

LEMMA BindFailsKeeps ==
    ASSUME SocketInv, setup.rtp # None, NEW port, BindFails(port),
           UNCHANGED <<m_socket_, m_multicast_, local_ips>>,
           closing = "nobody", closing' = "nobody"
    PROVE  SocketInv'
<1> DEFINE fds == {setup.rtp, setup.rtcp}
<1>0. PICK c \in Conns : c = setup.conn
  BY PendingSetup DEF NoSetup
<1>1. TypeOK
  BY DEF SocketInv, DescriptorsAccounted
<1>2. /\ Closed(fds)
      /\ setup' = [setup EXCEPT !.tries = @ + 1, !.rtp = None, !.rtcp = None]
      /\ UNCHANGED <<m_socket_, m_rtp_instances_, m_rtcp_instances_, m_multicast_, local_ips>>
  BY DEF BindFails
<1>3. /\ setup \in [conn : Conns, track : Tracks, tries : 0 .. Tries,
                    rtp : Fds \cup {None}, rtcp : Fds \cup {None}]
      /\ InstancesOf(c, setup.track) = {NoInstance}
      /\ setup.rtcp # None /\ setup.tries < Tries
      /\ m_socket_[c] \notin fds
      /\ \A f \in fds : f \in Fds /\ bound[f] = None /\ owner[f] = c
  BY <1>0, PendingSetup DEF NoSetup
<1>4. /\ setup' \in [conn : Conns, track : Tracks, tries : 0 .. Tries,
                     rtp : Fds \cup {None}, rtcp : Fds \cup {None}]
      /\ setup'.conn = c /\ setup'.track = setup.track
      /\ setup'.rtp = None /\ setup'.rtcp = None
  <2>1. setup.tries + 1 \in 0 .. Tries
    BY <1>3, SocketsAssumption
  <2> QED
    BY <1>0, <1>2, <1>3, <2>1
<1>5. /\ owner' \in [Fds -> Owners]
      /\ bound' \in [Fds -> Ports \cup {None}]
      /\ Owned(c)' = Owned(c) \ fds
      /\ \A p : p \notin {c, "nobody"} => Owned(p)' = Owned(p)
      /\ \A f \in Fds \ fds : owner'[f] = owner[f] /\ bound'[f] = bound[f]
      /\ OnlyOpenBound'
  <2>1. fds \ {None} \subseteq Owned(c)
    BY <1>3 DEF Owned
  <2>2. c \in Conns /\ OnlyOpenBound
    BY <1>3 DEF SocketInv
  <2> HIDE DEF fds
  <2> QED
    BY <1>1, <1>2, <2>1, <2>2, ClosedOwned
<1>6. \A f \in Fds : f \in fds => bound'[f] = None
  BY <1>2 DEF Closed
<1>7. \A d \in Conns : None \notin FdsOf(d) \cap fds /\ FdsOf(d) \cap fds = {}
  <2> SUFFICES ASSUME NEW d \in Conns, NEW f \in FdsOf(d), f \in fds
               PROVE  FALSE
    BY <1>3, NoneOutside
  <2>1. f \in Fds /\ f # None /\ owner[f] = c /\ bound[f] = None
    BY <1>3, NoneOutside
  <2>2. owner[f] = d
    BY <2>1, HeldIsOwned DEF Owned
  <2>3. f # m_socket_[c]
    BY <1>3
  <2>4. PICK t \in Tracks : \E instance \in InstancesOf(d, t) : instance.fd = f
    BY <2>1, <2>2, <2>3 DEF FdsOf, InstanceFds, InstancesOf
  <2>5. PICK instance \in InstancesOf(d, t) : instance.fd = f
    BY <2>4
  <2>6. instance # NoInstance
    BY <2>1, <2>5 DEF NoInstance
  <2>7. instance.port = None
    BY <2>1, <2>5, <2>6, HeldIsOwned
  <2> QED
    BY <2>1, <2>2, <2>3, <2>5, <2>7 DEF SocketInv, TcpInstances
<1>8. TypeOK'
  BY <1>1, <1>2, <1>4, <1>5 DEF TypeOK
<1>9. DescriptorsAccounted'
  <2>1. \A d \in Conns : FdsOf(d)' = FdsOf(d)
    BY <1>2 DEF FdsOf, InstanceFds
  <2>2. \A d \in Conns : Owned(d)' = Held(d)'
    BY <1>0, <1>4, <1>5, <1>7, <2>1, OwnedIsHeld, NoneOutside DEF SocketInv, Held
  <2>3. Owned("GetLocalIp")' = Owned("GetLocalIp")
    BY <1>3, <1>5, NoneOutside
  <2> QED
    BY <1>2, <1>8, <2>2, <2>3, OwnedIsHeld DEF SocketInv
<1>10. InstancesOpen' /\ TcpInstances'
  <2>1. ASSUME NEW d \in Conns, NEW t \in Tracks, NEW instance \in InstancesOf(d, t)'
        PROVE  /\ instance # NoInstance => owner'[instance.fd] = d /\ bound'[instance.fd] = instance.port
               /\ instance.port = None => instance.fd \in {None, m_socket_'[d]}
    <3>1. instance \in InstancesOf(d, t) /\ instance.fd \in FdsOf(d)
      BY <1>2 DEF InstancesOf, FdsOf, InstanceFds
    <3>2. instance # NoInstance =>
             instance.fd \in Fds /\ owner[instance.fd] = d /\ bound[instance.fd] = instance.port
      BY <3>1, HeldIsOwned
    <3>3. instance.port = None => instance.fd \in {None, m_socket_[d]}
      BY <3>1 DEF SocketInv, TcpInstances
    <3> QED
      BY <1>2, <1>5, <1>7, <3>1, <3>2, <3>3
  <2> QED
    BY <2>1 DEF InstancesOpen, TcpInstances, InstancesOf
<1>11. PortsPaired'
  <2>1. \A f \in Fds : bound'[f] = None \/ bound'[f] = bound[f]
    BY <1>5, <1>6
  <2> QED
    BY <1>2, <2>1 DEF SocketInv, PortsPaired
<1>12. ConnectionUnbound'
  BY <1>1, <1>2, <1>5, <1>6 DEF SocketInv, ConnectionUnbound, TypeOK
<1>13. SetupPending'
  BY <1>2, <1>3, <1>4 DEF SetupPending, InstancesOf
<1> QED
  BY <1>5, <1>9, <1>10, <1>11, <1>12, <1>13 DEF SocketInv, DeletionPending

LEMMA DeleteInstancesKeeps ==
    ASSUME SocketInv, NEW c \in Conns, DeleteInstances(c)
    PROVE  SocketInv'
<1> DEFINE fds == InstanceFds(c)
<1>1. TypeOK /\ closing = "nobody"
  BY DEF SocketInv, DescriptorsAccounted, DeleteInstances, Idle
<1>2. /\ Closed(fds)
      /\ m_rtp_instances_' = [m_rtp_instances_ EXCEPT ![c] = [t \in Tracks |-> NoInstance]]
      /\ m_rtcp_instances_' = [m_rtcp_instances_ EXCEPT ![c] = [t \in Tracks |-> NoInstance]]
      /\ closing' = c
      /\ setup = NoSetup
      /\ m_socket_[c] # None
      /\ UNCHANGED <<m_socket_, m_multicast_, setup, local_ips>>
  BY DEF DeleteInstances, Idle
<1>3. /\ owner' \in [Fds -> Owners]
      /\ bound' \in [Fds -> Ports \cup {None}]
      /\ Owned(c)' = Owned(c) \ fds
      /\ \A p : p \notin {c, "nobody"} => Owned(p)' = Owned(p)
      /\ \A f \in Fds : owner[f] # c => owner'[f] = owner[f] /\ bound'[f] = bound[f]
      /\ \A f \in Fds \ fds : owner'[f] = owner[f] /\ bound'[f] = bound[f]
      /\ OnlyOpenBound'
  <2>1. fds \ {None} \subseteq Owned(c) /\ OnlyOpenBound
    BY <1>1, HeldIsOwned DEF SocketInv, FdsOf
  <2> HIDE DEF fds
  <2> QED
    BY <1>1, <1>2, <2>1, ClosedOwned
<1>4. \A d \in Conns \ {c} :
         /\ m_rtp_instances_'[d] = m_rtp_instances_[d]
         /\ m_rtcp_instances_'[d] = m_rtcp_instances_[d]
  BY <1>1, <1>2 DEF TypeOK
<1>5. \A t \in Tracks : m_rtp_instances_'[c][t] = NoInstance
                        /\ m_rtcp_instances_'[c][t] = NoInstance
  BY <1>1, <1>2 DEF TypeOK
<1>6. TypeOK'
  BY <1>1, <1>2, <1>3 DEF TypeOK
<1>7. m_socket_[c] \in Fds /\ owner[m_socket_[c]] = c
  BY <1>1, <1>2, HeldIsOwned
<1>8. DescriptorsAccounted'
  <2>1. ASSUME NEW d \in Conns \ {c} PROVE Owned(d)' = Held(d)'
    <3>1. FdsOf(d)' = FdsOf(d)
      BY <1>2, <1>4 DEF FdsOf, InstanceFds
    <3> QED
      BY <1>1, <1>2, <1>3, <3>1, OwnedIsHeld, NoneOutside DEF SocketInv, Held
  <2>2. Owned(c)' \subseteq {m_socket_[c]}
    <3>1. setup.conn # c
      BY <1>2, NoneOutside DEF NoSetup
    <3>2. Owned(c) = ({m_socket_[c]} \cup fds) \ {None}
      BY <1>1, <3>1, OwnedIsHeld DEF SocketInv, Held, FdsOf
    <3> QED
      BY <1>3, <3>2
  <2>3. owner'[m_socket_[c]] \in {"nobody", c}
    BY <1>2, <1>7 DEF Closed
  <2>4. Owned("GetLocalIp")' = Owned("GetLocalIp")
    BY <1>3, NoneOutside
  <2>5. Cardinality(Owned("GetLocalIp")) = local_ips
    BY <1>1, OwnedIsHeld DEF SocketInv
  <2> QED
    BY <1>2, <1>6, <2>1, <2>2, <2>3, <2>4, <2>5 DEF DescriptorsAccounted, Owned, Held
<1>9. InstancesOpen' /\ TcpInstances'
  <2>1. ASSUME NEW d \in Conns, NEW t \in Tracks, NEW instance \in InstancesOf(d, t)'
        PROVE  /\ instance # NoInstance => owner'[instance.fd] = d /\ bound'[instance.fd] = instance.port
               /\ instance.port = None => instance.fd \in {None, m_socket_'[d]}
    <3>1. CASE d = c
      BY <1>5, <3>1 DEF InstancesOf, NoInstance
    <3>2. CASE d # c
      <4>1. instance \in InstancesOf(d, t)
        BY <1>4, <3>2 DEF InstancesOf
      <4>2. instance # NoInstance =>
               instance.fd \in Fds /\ owner[instance.fd] = d /\ bound[instance.fd] = instance.port
        BY <4>1, InstanceOwned
      <4>3. instance.port = None => instance.fd \in {None, m_socket_[d]}
        BY <4>1 DEF SocketInv, TcpInstances
      <4> QED
        BY <1>2, <1>3, <3>2, <4>2, <4>3
    <3> QED
      BY <3>1, <3>2
  <2> QED
    BY <2>1 DEF InstancesOpen, TcpInstances, InstancesOf
<1>10. PortsPaired'
  <2>1. \A f \in Fds : bound'[f] = None \/ bound'[f] = bound[f]
    BY <1>2 DEF Closed
  <2>2. \A d \in Conns, t \in Tracks :
           \/ m_rtp_instances_'[d][t].port = None
           \/ /\ m_rtp_instances_'[d][t] = m_rtp_instances_[d][t]
              /\ m_rtcp_instances_'[d][t] = m_rtcp_instances_[d][t]
    BY <1>4, <1>5 DEF NoInstance
  <2> QED
    BY <2>1, <2>2 DEF SocketInv, PortsPaired
<1>11. ConnectionUnbound'
  <2>1. \A f \in Fds : bound'[f] = None \/ bound'[f] = bound[f]
    BY <1>2 DEF Closed
  <2>2. \A d \in Conns : m_socket_[d] \in Fds \cup {None}
    BY <1>1 DEF TypeOK
  <2> QED
    BY <1>2, <2>1, <2>2 DEF SocketInv, ConnectionUnbound
<1>12. SetupPending'
  BY <1>2 DEF SetupPending
<1>13. DeletionPending'
  BY <1>2, <1>5, <1>7 DEF DeletionPending, InstancesOf
<1> QED
  BY <1>3, <1>8, <1>9, <1>10, <1>11, <1>12, <1>13 DEF SocketInv

LEMMA CloseSocketKeeps ==
    ASSUME SocketInv, CloseSocket
    PROVE  SocketInv'
<1>1. TypeOK
  BY DEF SocketInv, DescriptorsAccounted
<1>2. PICK c \in Conns : closing = c
  BY <1>1 DEF TypeOK, CloseSocket
<1> DEFINE fds == {m_socket_[c]}
<1>3. /\ Closed(fds)
      /\ m_socket_' = [m_socket_ EXCEPT ![c] = None]
      /\ closing' = "nobody"
      /\ UNCHANGED <<m_rtp_instances_, m_rtcp_instances_, m_multicast_, setup, local_ips>>
  BY <1>2 DEF CloseSocket
<1>4. /\ setup = NoSetup
      /\ m_socket_[c] \in Fds
      /\ \A t \in Tracks : m_rtp_instances_[c][t] = NoInstance /\ m_rtcp_instances_[c][t] = NoInstance
  BY <1>2, NoneOutside DEF SocketInv, DeletionPending, InstancesOf
<1>5. /\ Owned(c) \subseteq fds
      /\ owner[m_socket_[c]] \in {"nobody", c}
      /\ \A d \in Conns \ {c} : Owned(d) = Held(d)
      /\ Cardinality(Owned("GetLocalIp")) = local_ips
  BY <1>2, NoneOutside DEF SocketInv, DescriptorsAccounted, Owned, Held
<1>6. \A f \in Fds : f \notin fds => owner'[f] = owner[f] /\ bound'[f] = bound[f]
  BY <1>3 DEF Closed
<1>7. \A f \in Fds : f \in fds => owner'[f] = "nobody" /\ bound'[f] = None
  BY <1>3 DEF Closed
<1>8. TypeOK'
  <2>1. owner' \in [Fds -> Owners] /\ bound' \in [Fds -> Ports \cup {None}]
    BY <1>1, <1>3, NoneOutside DEF TypeOK, Closed
  <2> QED
    BY <1>1, <1>3, <2>1 DEF TypeOK
<1>9. /\ m_socket_'[c] = None
      /\ \A d \in Conns \ {c} : m_socket_'[d] = m_socket_[d]
  BY <1>1, <1>3 DEF TypeOK
<1>10. \A p : p \notin {c, "nobody"} => Owned(p)' = Owned(p)
  BY <1>4, <1>5, <1>6, <1>7 DEF Owned
<1>11. DescriptorsAccounted'
  <2>1. ASSUME NEW d \in Conns \ {c} PROVE Owned(d)' = Held(d)'
    <3>1. FdsOf(d)' = FdsOf(d)
      BY <1>3, <1>9 DEF FdsOf, InstanceFds
    <3> QED
      BY <1>3, <1>5, <1>10, <3>1, NoneOutside DEF Held
  <2>2. Owned(c)' = Held(c)'
    <3>1. FdsOf(c)' = {None}
      BY <1>3, <1>4, <1>9 DEF FdsOf, InstanceFds, NoInstance, Tracks
    <3>2. setup'.conn # c
      BY <1>3, <1>4, NoneOutside DEF NoSetup
    <3>3. Owned(c)' = {}
      BY <1>2, <1>5, <1>6, <1>7, NoneOutside DEF Owned
    <3> QED
      BY <3>1, <3>2, <3>3 DEF Held
  <2>3. Owned("GetLocalIp")' = Owned("GetLocalIp")
    BY <1>10, NoneOutside
  <2> QED
    BY <1>3, <1>5, <1>8, <2>1, <2>2, <2>3, OwnedIsHeld
<1>12. InstancesOpen' /\ TcpInstances'
  <2>1. ASSUME NEW d \in Conns, NEW t \in Tracks, NEW instance \in InstancesOf(d, t)'
        PROVE  /\ instance # NoInstance => owner'[instance.fd] = d /\ bound'[instance.fd] = instance.port
               /\ instance.port = None => instance.fd \in {None, m_socket_'[d]}
    <3>0. instance \in InstancesOf(d, t)
      BY <1>3 DEF InstancesOf
    <3>1. CASE d = c
      BY <1>4, <3>0, <3>1 DEF InstancesOf, NoInstance
    <3>2. CASE d # c
      <4>1. instance # NoInstance =>
               instance.fd \in Fds /\ owner[instance.fd] = d /\ bound[instance.fd] = instance.port
        BY <3>0, InstanceOwned
      <4>2. instance.port = None => instance.fd \in {None, m_socket_[d]}
        BY <3>0 DEF SocketInv, TcpInstances
      <4>3. instance # NoInstance => instance.fd \notin fds
        BY <1>5, <3>2, <4>1, NoneOutside
      <4> QED
        BY <1>6, <1>9, <3>2, <4>1, <4>2, <4>3
    <3> QED
      BY <3>1, <3>2
  <2> QED
    BY <2>1 DEF InstancesOpen, TcpInstances, InstancesOf
<1>13. \A f \in Fds : bound'[f] = None \/ bound'[f] = bound[f]
  BY <1>6, <1>7
<1>14. PortsPaired'
  BY <1>3, <1>13 DEF SocketInv, PortsPaired
<1>15. OnlyOpenBound'
  BY <1>6, <1>7 DEF SocketInv, OnlyOpenBound
<1>16. ConnectionUnbound'
  <2>1. \A d \in Conns : m_socket_[d] \in Fds \cup {None}
    BY <1>1 DEF TypeOK
  <2> QED
    BY <1>9, <1>13, <2>1 DEF SocketInv, ConnectionUnbound
<1>17. SetupPending' /\ DeletionPending'
  BY <1>3, <1>4 DEF SetupPending, DeletionPending
<1> QED
  BY <1>11, <1>12, <1>14, <1>15, <1>16, <1>17 DEF SocketInv

\* A port that is drawn leaves room for two above it: neither wraps.
LEMMA DrawnPorts ==
    ASSUME NEW port \in Drawn
    PROVE  /\ (port + 1) % PortMod = port + 1
           /\ (port + 2) % PortMod = port + 2
           /\ port \in Reserved .. PortMod - 3
           /\ {port + 1, port + 2} \subseteq Ports
<1>1. PortMod \in Nat /\ Reserved \in Nat /\ 2 * Reserved <= PortMod - 4
  BY SocketsAssumption
<1>2. PICK r \in 0 .. PortMod - 3 : port = IF r < Reserved THEN r + Reserved ELSE r
  BY DEF Drawn
<1>3. port \in Reserved .. PortMod - 3
  BY <1>1, <1>2
<1> HIDE <1>2
<1>4. \A n \in 0 .. PortMod - 1 : n % PortMod = n
  BY <1>1
<1> QED
  BY <1>1, <1>3, <1>4 DEF Ports

LEMMA BindSucceedsKeeps ==
    ASSUME SocketInv, setup.rtp # None, NEW port \in Drawn, BindSucceeds(port),
           UNCHANGED <<m_socket_, m_multicast_, local_ips>>,
           closing = "nobody", closing' = "nobody"
    PROVE  SocketInv'
<1>0. PICK c \in Conns : c = setup.conn
  BY PendingSetup DEF NoSetup
<1>1. PICK t \in Tracks : t = setup.track
  BY PendingSetup DEF NoSetup
<1>2. PICK rtp \in Fds, rtcp \in Fds : rtp = setup.rtp /\ rtcp = setup.rtcp
  BY PendingSetup DEF NoSetup
<1> DEFINE newRtp == [fd |-> rtp, port |-> port + 1]
           newRtcp == [fd |-> rtcp, port |-> port + 2]
<1>3. TypeOK
  BY DEF SocketInv, DescriptorsAccounted
<1>4. /\ port \in Int /\ port \in Reserved .. PortMod - 3
      /\ {port + 1, port + 2} \subseteq Ports
      /\ (port + 1) % PortMod = port + 1
      /\ (port + 1 + 1) % PortMod = port + 2
  <2>1. port + 1 + 1 = port + 2
    BY DrawnPorts, SocketsAssumption
  <2> QED
    BY <2>1, DrawnPorts, SocketsAssumption
<1>5. /\ ~InUse(port + 1) /\ ~InUse(port + 2)
      /\ bound' = [bound EXCEPT ![rtp] = port + 1, ![rtcp] = port + 2]
      /\ m_rtp_instances_' = [m_rtp_instances_ EXCEPT ![c][t] = newRtp]
      /\ m_rtcp_instances_' = [m_rtcp_instances_ EXCEPT ![c][t] = newRtcp]
      /\ setup' = NoSetup
      /\ UNCHANGED <<owner, m_socket_, m_multicast_, local_ips>>
  BY <1>0, <1>1, <1>2, <1>4 DEF BindSucceeds
<1>6. /\ InstancesOf(c, t) = {NoInstance}
      /\ rtp # rtcp /\ m_socket_[c] \notin {rtp, rtcp}
      /\ bound[rtp] = None /\ bound[rtcp] = None
      /\ owner[rtp] = c /\ owner[rtcp] = c
  BY <1>0, <1>1, <1>2, PendingSetup DEF NoSetup
<1>7. newRtp \in Instances /\ newRtcp \in Instances
  BY <1>4 DEF Instances
<1>8. \A f \in Fds : bound'[f] = IF f = rtp THEN port + 1
                                 ELSE IF f = rtcp THEN port + 2 ELSE bound[f]
  BY <1>3, <1>5, <1>6 DEF TypeOK
<1>9. \A d \in Conns, u \in Tracks :
         /\ m_rtp_instances_'[d][u] = IF d = c /\ u = t THEN newRtp ELSE m_rtp_instances_[d][u]
         /\ m_rtcp_instances_'[d][u] = IF d = c /\ u = t THEN newRtcp ELSE m_rtcp_instances_[d][u]
  BY <1>3, <1>5 DEF TypeOK
<1>10. bound' \in [Fds -> Ports \cup {None}]
  BY <1>3, <1>4, <1>5 DEF TypeOK
<1>11. TypeOK'
  <2>1. /\ m_rtp_instances_' \in [Conns -> [Tracks -> Instances \cup {NoInstance}]]
        /\ m_rtcp_instances_' \in [Conns -> [Tracks -> Instances \cup {NoInstance}]]
    BY <1>3, <1>5, <1>7 DEF TypeOK
  <2>2. setup' \in [conn : Conns \cup {"nobody"}, track : Tracks, tries : 0 .. Tries,
                    rtp : Fds \cup {None}, rtcp : Fds \cup {None}]
    BY <1>5, SocketsAssumption DEF NoSetup, Tracks
  <2> QED
    BY <1>3, <1>5, <1>10, <2>1, <2>2 DEF TypeOK
<1>12. \A d \in Conns : Held(d)' = Held(d)
  <2> SUFFICES ASSUME NEW d \in Conns PROVE Held(d)' = Held(d)
    OBVIOUS
  <2>1. setup'.conn # d
    BY <1>5, NoneOutside DEF NoSetup
  <2>2. CASE d # c
    BY <1>0, <1>5, <1>9, <2>1, <2>2 DEF Held, FdsOf, InstanceFds
  <2>3. CASE d = c
    <3>1. m_rtp_instances_[c][t].fd = None /\ m_rtcp_instances_[c][t].fd = None
      BY <1>6 DEF InstancesOf, NoInstance
    <3>2. FdsOf(d)' \ {None} = (FdsOf(d) \cup {rtp, rtcp}) \ {None}
      BY <1>5, <1>9, <2>3, <3>1, NoneOutside DEF FdsOf, InstanceFds
    <3> QED
      BY <1>0, <1>2, <2>1, <2>3, <3>2 DEF Held
  <2> QED
    BY <2>2, <2>3
<1>13. DescriptorsAccounted'
  <2>1. \A d \in Conns : Owned(d)' = Held(d)'
    BY <1>5, <1>12, OwnedIsHeld DEF SocketInv, Owned
  <2>2. Owned("GetLocalIp")' = Owned("GetLocalIp")
    BY <1>5 DEF Owned
  <2> QED
    BY <1>5, <1>11, <2>1, <2>2, OwnedIsHeld DEF SocketInv
<1>14. InstancesOpen' /\ TcpInstances'
  <2>1. ASSUME NEW d \in Conns, NEW u \in Tracks, NEW instance \in InstancesOf(d, u)'
        PROVE  /\ instance # NoInstance => owner'[instance.fd] = d /\ bound'[instance.fd] = instance.port
               /\ instance.port = None => instance.fd \in {None, m_socket_'[d]}
    <3>1. CASE instance \in {newRtp, newRtcp} /\ d = c
      <4>1. bound'[rtp] = port + 1 /\ bound'[rtcp] = port + 2
        BY <1>6, <1>8
      <4>2. instance.fd \in {rtp, rtcp} /\ bound'[instance.fd] = instance.port
        BY <3>1, <4>1
      <4>3. instance.port \in {port + 1, port + 2}
        BY <3>1
      <4>4. instance.port # None
        BY <1>4, <4>3, NoneOutside
      <4>5. owner'[instance.fd] = owner[instance.fd]
        BY <1>5
      <4> QED
        BY <1>6, <3>1, <4>2, <4>4, <4>5
    <3>2. CASE instance \in InstancesOf(d, u)
      <4>1. instance # NoInstance =>
               instance.fd \in Fds /\ owner[instance.fd] = d /\ bound[instance.fd] = instance.port
        BY <3>2, HeldIsOwned
      <4>2. instance.port = None => instance.fd \in {None, m_socket_[d]}
        BY <3>2 DEF SocketInv, TcpInstances
      <4>3. instance # NoInstance => instance.fd \notin {rtp, rtcp}
        BY <1>6, <4>1, <4>2, NoneOutside
      <4>4. instance # NoInstance => bound'[instance.fd] = bound[instance.fd]
        BY <1>8, <4>1, <4>3
      <4>5. owner' = owner /\ m_socket_' = m_socket_
        BY <1>5
      <4> QED
        BY <4>1, <4>2, <4>4, <4>5
    <3> QED
      BY <1>9, <3>1, <3>2 DEF InstancesOf
  <2> QED
    BY <2>1 DEF InstancesOpen, TcpInstances, InstancesOf
<1>15. PortsPaired'
  <2>1. \A f, g \in Fds : f # g /\ bound'[f] # None => bound'[f] # bound'[g]
    <3>1. \A f \in Fds : bound[f] # port + 1 /\ bound[f] # port + 2
      BY <1>5 DEF InUse
    <3>2. \A f, g \in Fds : f # g /\ bound[f] # None => bound[f] # bound[g]
      BY DEF SocketInv, PortsPaired
    <3>3. port + 1 # port + 2
      BY <1>4
    <3> QED
      BY <1>6, <1>8, <3>1, <3>2, <3>3
  <2>2. port + 1 \in Reserved + 1 .. PortMod - 2
    BY <1>4, SocketsAssumption
  <2>3. ASSUME NEW d \in Conns, NEW u \in Tracks, m_rtp_instances_'[d][u].port # None
        PROVE  /\ m_rtp_instances_'[d][u].port \in Reserved + 1 .. PortMod - 2
               /\ m_rtcp_instances_'[d][u].port = m_rtp_instances_'[d][u].port + 1
    <3>1. CASE d = c /\ u = t
      BY <1>4, <1>9, <2>2, <3>1
    <3>2. CASE ~(d = c /\ u = t)
      BY <1>9, <2>3, <3>2 DEF SocketInv, PortsPaired
    <3> QED
      BY <3>1, <3>2
  <2> QED
    BY <2>1, <2>3 DEF PortsPaired
<1>16. OnlyOpenBound'
  BY <1>5, <1>6, <1>8, NoneOutside DEF SocketInv, OnlyOpenBound
<1>17. ConnectionUnbound'
  <2>1. \A d \in Conns : m_socket_[d] # None => m_socket_[d] \in Fds /\ m_socket_[d] \notin {rtp, rtcp}
    BY <1>6, HeldIsOwned
  <2> QED
    BY <1>5, <1>8, <2>1 DEF SocketInv, ConnectionUnbound
<1>18. SetupPending'
  BY <1>5 DEF SetupPending
<1> QED
  BY <1>13, <1>14, <1>15, <1>16, <1>17, <1>18 DEF SocketInv, DeletionPending

LEMMA StepSocketInv == SocketInv /\ [Next]_vars => SocketInv'
<1> SUFFICES ASSUME SocketInv, [Next]_vars PROVE SocketInv'
  OBVIOUS
<1>0. setup # NoSetup => closing = "nobody"
  BY DEF SocketInv, DeletionPending
<1>1. ASSUME NEW c \in Conns, Accept(c) PROVE SocketInv'
  <2>1. closing = "nobody" /\ closing' = "nobody"
    BY <1>1 DEF Accept, Idle
  <2> QED
    BY <1>1, <2>1, AcceptKeeps
<1>2. ASSUME NEW c \in Conns, DeleteInstances(c) PROVE SocketInv'
  BY <1>2, DeleteInstancesKeeps
<1>3. ASSUME NEW c \in Conns, NEW t \in Tracks, SetupOverTcp(c, t) PROVE SocketInv'
  <2>1. closing = "nobody" /\ closing' = "nobody"
    BY <1>3 DEF SetupOverTcp, Idle
  <2> QED
    BY <1>3, <2>1, SetupOverTcpKeeps
<1>4. ASSUME NEW c \in Conns, NEW t \in Tracks, SetupOverUdp(c, t) PROVE SocketInv'
  <2>1. closing = "nobody" /\ closing' = "nobody"
    BY <1>4 DEF SetupOverUdp, Idle
  <2> QED
    BY <1>4, <2>1, SetupOverUdpKeeps
<1>5. CASE CreateUdpSocks
  <2>1. closing = "nobody" /\ closing' = "nobody"
    BY <1>0, <1>5 DEF CreateUdpSocks
  <2> QED
    BY <1>5, <2>1, CreateUdpSocksKeeps
<1>6. CASE BindBoth
  <2>1. closing = "nobody" /\ closing' = "nobody"
    BY <1>0, <1>6 DEF BindBoth, NoSetup
  <2> QED
    BY <1>6, <2>1, BindFailsKeeps, BindSucceedsKeeps DEF BindBoth
<1>7. CASE GetLocalIp
  <2>1. closing = "nobody" /\ closing' = "nobody"
    BY <1>7 DEF GetLocalIp, Idle
  <2> QED
    BY <1>7, <2>1, GetLocalIpKeeps
<1>8. CASE StartMulticast
  <2>1. closing = "nobody" /\ closing' = "nobody"
    BY <1>8 DEF StartMulticast, Idle
  <2> QED
    BY <1>8, <2>1, StartMulticastKeeps
<1>10. CASE CloseSocket
  BY <1>10, CloseSocketKeeps
<1>9. CASE UNCHANGED vars
  <2> USE <1>9 DEF vars
  <2>1. DescriptorsAccounted'
    BY DEF SocketInv, DescriptorsAccounted, TypeOK, FdsOf, InstanceFds
  <2>2. InstancesOpen' /\ TcpInstances'
    BY InstancesKept
  <2>3. PortsPaired' /\ OnlyOpenBound' /\ ConnectionUnbound'
    BY DEF SocketInv, PortsPaired, OnlyOpenBound, ConnectionUnbound
  <2>4. SetupPending' /\ DeletionPending'
    BY DEF SocketInv, SetupPending, DeletionPending, InstancesOf
  <2> QED
    BY <2>1, <2>2, <2>3, <2>4 DEF SocketInv
<1> QED
  BY <1>1, <1>2, <1>3, <1>4, <1>5, <1>6, <1>7, <1>8, <1>9, <1>10 DEF Next

-----------------------------------------------------------------------------
(* The theorems *)

\* Whatever fails on the way, every open descriptor has a holder and every
\* holder its descriptors, also between the two closes of a destructor, when
\* nobody else has got the number; GetLocalIp leaks exactly one at each call.
THEOREM DescriptorsAccountedAlways == Spec => []DescriptorsAccounted
<1>1. SocketInv => DescriptorsAccounted
  BY DEF SocketInv
<1> QED
  BY InitSocketInv, StepSocketInv, <1>1, PTL DEF Spec

\* SendPacket never writes to a descriptor that was closed, or that another
\* connection has got since.
THEOREM InstancesOpenAlways == Spec => []InstancesOpen
<1>1. SocketInv => InstancesOpen
  BY DEF SocketInv
<1> QED
  BY InitSocketInv, StepSocketInv, <1>1, PTL DEF Spec

\* The ports of a set-up are a pair that has not wrapped, is not reserved and
\* is no other instance's.
THEOREM PortsPairedAlways == Spec => []PortsPaired
<1>1. SocketInv => PortsPaired
  BY DEF SocketInv
<1> QED
  BY InitSocketInv, StepSocketInv, <1>1, PTL DEF Spec
=============================================================================
