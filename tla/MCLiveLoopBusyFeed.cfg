SPECIFICATION LoopSpec
CONSTANTS
    RingCapacity = 3
    MaxBatch = 5
    MaxStaleness = 2
    Ahead = 2
    Behind = 1
    None = None
PROPERTIES
    StopRequestIsObeyed
CHECK_DEADLOCK FALSE
