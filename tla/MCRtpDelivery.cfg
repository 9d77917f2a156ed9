SPECIFICATION Spec
CONSTANTS
    c1 = c1
    c2 = c2
    c3 = c3
    Clients <- MCClients
    TcpClients <- MCTcpClients
    MaxAnswers = 1
    MaxShort = 1
    RTP_MAX_PKT_SIZE = 2
    RTP_HEADER_SIZE = 1
    Slack = 6
    SeqMod = 5
    TimeMod = 4
    Step = 7
    FrameSizes <- MCSizes
    MaxFrames = 2
SYMMETRY Symmetry
INVARIANTS
    FrameCovered
    FragmentsMarked
    TimePerFrame
    FitsAllocation
    StreamFramed
CHECK_DEADLOCK FALSE
