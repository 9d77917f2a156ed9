SPECIFICATION FairSpec
CONSTANTS
    Fds = {f1, f2}
    Events = {c1, c2}
    NoFd = NoFd
    None = None
    InitListSize = 3
    Sessions = {live_, other}
    Multicast = {other}
    Tracks = {track0}
    AnyClients = FALSE
INVARIANTS
    InstancesListed
PROPERTY
    DisconnectedFreed
