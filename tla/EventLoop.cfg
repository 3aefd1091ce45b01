SPECIFICATION FairSpec
CONSTANTS
    Threads = {t1, t2}
    Functors = {f1, f2}
    EventfdMax = 2
    MaxLoops = 2
INVARIANTS IInv
PROPERTIES ExecutorSpec QueuedRuns QuitExits
CHECK_DEADLOCK FALSE
