SPECIFICATION Spec
CONSTANTS
    MaxPrice = 200
    Prices <- SpacedPrices
    QuoteQuantities <- Post
    TradeQuantities <- SmallTrades
    Sequences <- SixEvents
    Timestamps <- Earlier_Later
    None = None
    MaxPosition = 10
    MaxOrderSize = 2
    MaxNotional = 1000
    MaxDailyLoss = 100
    MaxOpenOrders = 2
    HalfSpreadBps = 110
    VolWideningsBps <- Widenings
    SkewBpsPerUnit = 25
    QuoteSize = 2
    MaxInventory = 2
    MaxStaleness = 1
    RequoteThresholdBps = 105
    VolatilityWindow = 2
    PartialFills = TRUE
    MinPartialPct = 20
    MaxPartialPct = 90
INVARIANTS
    InventoryWithinSkewLimit
    OwnQuotesNeverCross
    QuietWhenUntrusted
