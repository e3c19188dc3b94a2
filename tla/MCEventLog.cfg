SPECIFICATION MetricsSpec
CONSTANTS
    Messages <- MC_Messages
    MaxEvents = 3
    HalfRange = 4
    None = None
    TradeWindow = 1
    TopBit = 17
    Durations <- MC_Durations
INVARIANTS
    ReplaysAPrefix
    CompleteLogReplaysAll
    PercentileIsNearestRank
    VolumeOfLatestTrades
PROPERTIES
    RecorderEnds
CHECK_DEADLOCK FALSE
