SPECIFICATION FairSpec
CONSTANTS
    Channels = {c1, c2, c3}
    Fds = {0, 1}
    Events = {"in", "out"}
    NoChannel = NoChannel
    kInitEventListSize = 1
 
PROPERTIES PollerSpec ReadyIsHandled
CHECK_DEADLOCK FALSE
