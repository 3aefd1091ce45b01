SPECIFICATION FairSpec
CONSTANTS
    ThreadNums = {0, 1, 2}
    MaxPeers = 4
    Descriptors = 2
INVARIANTS ConnectionsAccounted
PROPERTIES PeersAnswered 
CHECK_DEADLOCK FALSE
