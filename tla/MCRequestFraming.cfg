SPECIFICATION FairSpec
CONSTANTS
    MaxMessages = 3
    Payloads <- MCPayloads
    MaxSize = 2
INVARIANTS
    AnswersMatch
    HeadAtBoundary
    NoneLost
    TransportSticks
PROPERTY
    AnsweredUnlessBehindPacket
CHECK_DEADLOCK FALSE
