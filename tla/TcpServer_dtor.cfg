SPECIFICATION Spec
CONSTANTS
    ThreadNums = {0, 1, 2}
    MaxPeers = 4
    Descriptors = 2
CHECK_DEADLOCK FALSE
INVARIANTS LoopsEmptyAtExit
