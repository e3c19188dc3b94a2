SPECIFICATION LiveSpec
CONSTANTS
    MaxPrice = 200
    Prices <- MC_Prices
    QuoteQuantities <- MC_None
    TradeQuantities <- MC_None
    Frames <- MC_Frames
    Spread = 2
    RingCapacity = 2
    Sequences <- MC_Sequences
    Timestamps <- MC_Timestamps
    None = None
    MaxPosition = 2
    MaxOrderSize = 2
    MaxNotional = 1000
    MaxDailyLoss = 3
    MaxOpenOrders = 2
    HalfSpreadBps = 100
    VolWideningsBps <- MC_VolWidenings
    SkewBpsPerUnit = 25
    QuoteSize = 1
    MaxInventory = 2
    MaxStaleness = 1
    RequoteThresholdBps = 50
    VolatilityWindow = 0
    PartialFills = FALSE
    MinPartialPct = 20
    MaxPartialPct = 90
INVARIANTS
    OneLevelPerSide
    RepairedByOneMessage
    EventsAccountedFor
    LosslessFeedHasNoGap
CHECK_DEADLOCK FALSE
