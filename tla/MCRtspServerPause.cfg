SPECIFICATION Spec
CONSTANTS
    Fds = {f1, f2}
    Events = {c1, c2}
    NoFd = NoFd
    None = None
    InitListSize = 3
    Sessions = {live_}
    Multicast = {}
    Tracks = {track0}
    AnyClients = TRUE
INVARIANTS
    PauseStopsSending
