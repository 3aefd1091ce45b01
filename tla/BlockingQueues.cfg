SPECIFICATION FairSpec
CONSTANTS
    Producers = {p1, p2}
    Consumers = {c1, c2, c3}
    Main = main
    Capacities = {0, 1, 2}
    MaxPuts = 2
INVARIANTS NobodyIdle
PROPERTIES CallsReturn ItemTaken
CHECK_DEADLOCK FALSE
