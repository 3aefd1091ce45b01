SPECIFICATION ThreadSpec
CONSTANTS
    Threads = {"main"}
    Functors = {f1, f2}
    EventfdMax = 2
    MaxLoops = 1
INVARIANTS LoopPublished
PROPERTIES OwnerReturns
CHECK_DEADLOCK FALSE
