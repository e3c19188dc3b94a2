SPECIFICATION FeedSpec
CONSTANTS
    MaxPrice = 200
    Prices <- MC_Prices
    QuoteQuantities <- MC_QuoteQuantities
    TradeQuantities <- MC_TradeQuantities
    Sequences <- MC_Sequences
    Timestamps <- MC_Timestamps
    None = None
    MaxPosition = 2
    MaxOrderSize = 2
    MaxNotional = 1000
    MaxDailyLoss = 3
    MaxOpenOrders = 2
    HalfSpreadBps = 100
    VolWideningsBps <- MC_VolWidenings
    SkewBpsPerUnit = 25
    QuoteSize = 0
    MaxInventory = 2
    MaxStaleness = 1
    RequoteThresholdBps = 50
    VolatilityWindow = 0
    PartialFills = TRUE
    MinPartialPct = 20
    MaxPartialPct = 90
INVARIANTS
    NoPhantomLevel
    ExactWhenComplete
