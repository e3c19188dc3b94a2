SPECIFICATION MetricsSpec
CONSTANTS
    MaxPrice = 4
    Prices <- MC_Prices
    QuoteQuantities <- MC_QuoteQuantities
    TradeQuantities <- MC_TradeQuantities
    Sequences <- MC_Sequences
    Timestamps <- MC_Timestamps
    None = None
    LevelsNeeded = 2
    VolatilityWindow = 1
    MarketQuantities <- MC_MarketQuantities
INVARIANTS
    SortedLevels
    FrontsAnswerQueries
    BestExecution
    ReturnsSinceResync
    StatisticsFit
PROPERTIES
    ImplementsLevelBook
