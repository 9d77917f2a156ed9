SPECIFICATION ServiceFairSpec
CONSTANTS
    Workers = {w1, w2, w3}
    Tasks = {t1, t2, t3, t4}
    NoTask = NoTask
    NoThread = NoThread
INVARIANTS
    EnoughAwake
PROPERTIES
    ImplementsTaskService
    EveryTaskRuns
    CancelReturns
CHECK_DEADLOCK FALSE
