SPECIFICATION LoopSpec
CONSTANTS
    RingCapacity = 3
    MaxBatch = 5
    MaxStaleness = 2
    Ahead = 2
    Behind = 1
    None = None
INVARIANTS
    NothingLeftAtExit
    NoFalseAlarm
PROPERTIES
    StopCompletes
    SilentFeedIsNoticed
CHECK_DEADLOCK FALSE
