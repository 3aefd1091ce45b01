SPECIFICATION FairSpec
CONSTANTS
    Threads = {t1}
    OwnerOps = {"send", "shutdown", "forceClose", "forceCloseWithDelay"}
    ThreadOps = {"send"}
    ServerMayDie = FALSE
    Lengths = {2}
    HighWaterMark = 2
    MaxCalls = 3
    MaxInput = 1
INVARIANTS DestroyedOnce CleanAtEnd
PROPERTIES OutputEnds ClosedIsDestroyed
CHECK_DEADLOCK FALSE
