SPECIFICATION Spec
CONSTANTS
    MaxPrice = 200
    Prices <- ThreePrices
    QuoteQuantities <- Post
    TradeQuantities <- SmallTrades
    Sequences <- SevenEvents
    Timestamps <- OneInstant
    None = None
    MaxPosition = 2
    MaxOrderSize = 2
    MaxNotional = 200
    MaxDailyLoss = 1
    MaxOpenOrders = 2
    HalfSpreadBps = 50
    VolWideningsBps <- Widenings
    SkewBpsPerUnit = 100
    QuoteSize = 2
    MaxInventory = 4
    MaxStaleness = 1
    RequoteThresholdBps = 100
    VolatilityWindow = 2
    PartialFills = TRUE
    MinPartialPct = 20
    MaxPartialPct = 90
INVARIANTS
    TypeOK
    NoOrphanOrders
    ExposureWithinLimit
    QuotesAccountedFor
PROPERTIES
    LossLimitGatesSubmission
