SPECIFICATION Spec
CONSTANTS
    Fds = {f1, f2}
    Events = {c1, c2, c3}
    NoFd = NoFd
    None = None
    InitListSize = 3
    Sessions = {live_}
    Multicast = {}
    Tracks = {track0, track1}
    AnyClients = TRUE
SYMMETRY Symmetry
INVARIANTS
    DispatchSafe
    DisconnectedKnown
    MapsAgree
    InstancesListed
    NothingPendingWhenBlocked
