SPECIFICATION FairSpec
CONSTANTS
    Workers = {w1, w2}
    Tasks = {video, audio}
    NoTask = NoTask
    NoThread = NoThread
    FrameNum = 2
    FileLen = 2
    BadSources = {audio}
    MainThread = MainThread
    NoUnit = NoUnit
INVARIANTS
    TokenConservation
    LocksOwned
PROPERTIES
    ImplementsFrameStream
    SendingStable
    StreamsOrStalls
