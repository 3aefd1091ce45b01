SPECIFICATION FairSpec
CONSTANTS
    Threads = {t1}
    Ptrs = {p1, p2}
    Free = Free
    Disarmed = Disarmed
    Delays = {0, 1}
    Intervals = {0, 1}
    MaxTimers = 2
    MaxTime = 2
INVARIANTS TimersSound
PROPERTIES RunsWhenDue TimerRuns
CHECK_DEADLOCK FALSE
