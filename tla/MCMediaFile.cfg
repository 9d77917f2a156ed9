SPECIFICATION Spec
CONSTANTS
    VideoFiles <- MCVideoFiles
    VideoFrameSize = 6
    MaxLen = 6
    Lengths <- MCLengths
    AdtsSize = 2
    AudioFrameSize = 4
INVARIANTS
    FramesAreUnits
    OnlyDamagedFail
PROPERTY
    EveryUnitPlayed
CHECK_DEADLOCK FALSE
