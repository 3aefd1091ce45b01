SPECIFICATION Spec
CONSTANTS
    Threads = {t1}
    OwnerOps = {"send", "shutdown", "forceClose", "forceCloseWithDelay", "startRead", "stopRead"}
    ThreadOps = {"send", "shutdown", "forceClose", "startRead", "stopRead"}
    ServerMayDie = TRUE
    Lengths = {2}
    HighWaterMark = 2
    MaxCalls = 3
    MaxInput = 0
INVARIANTS OutputSound
CHECK_DEADLOCK FALSE
