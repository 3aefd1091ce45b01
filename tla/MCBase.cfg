SPECIFICATION Spec
CONSTANTS
    Base = 2
    CR = 0
    LF = 1
    kCheapPrepend = 2
    kInitialSize = 2
    kExtraSize = 2
    ChunkLengths = {1, 3}
    IntSizes = {1, 2}
    MaxContent = 4
    Reserves = {1, 3, 4}
    RollSize = 3
    FlushInterval = 1
    CheckEveryN = 1
    RollPerSeconds = 3
    RecordSizes = {1, 3}
    MaxTime = 4
    MaxRecords = 4
    Writers = {w1, w2}
    Zones = {"z1"}
    Size = 18
    MaxNumberSize = 5
    HeaderSize = 4
    BodySizes = {1, 13}
    MaxInt = 127
    MaxSecond = 2
    MaxOut = 3
    FirstYear = 1900
    LastYear = 2500
    Unit = 2
    StandardOffsets = {0, 3, 16}
    Span = 20
INVARIANTS BufferSound MemoryBound FilesBounded LooksInTime  DatesAgree LocalTimesAgree
PROPERTIES QueueSpec
CHECK_DEADLOCK FALSE
