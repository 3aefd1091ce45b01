SPECIFICATION FairSpec
CONSTANTS
    kInitRetryDelayMs = 500
    kMaxRetryDelayMs = 1500
    MaxConnects = 1
    MaxStops = 2
    MaxConns = 2
INVARIANTS OneAtATime NothingDangles
PROPERTIES GetsConnected ClosedIsDestroyed
CHECK_DEADLOCK FALSE
