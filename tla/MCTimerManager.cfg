SPECIFICATION Spec
CONSTANTS
    MaxTimerId = 3
    Intervals = {0, 1, 2}
    MaxTime = 6
INVARIANTS
    TimersPendingOnce
    OrphansHaveFired
    OncePerRound
    DueIsReadable
CHECK_DEADLOCK FALSE
