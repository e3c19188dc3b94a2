SPECIFICATION BothSpec
CONSTANTS
    MaxPrice = 20
    Prices <- MC_Prices
    QuoteQuantities <- MC_None
    TradeQuantities <- MC_None
    Sequences <- MC_None
    Timestamps <- MC_Zero
    None = None
    LevelsPerSide = 3
    StartPrice = 10
    Capacity = 3
    Objects = {o1, o2}
    Vacant = Vacant
    Torn = Torn
    MaxExhausted = 1
INVARIANTS
    TracksTheBook
    NeverCrossed
    ObjectsIntact
    FreeListIsExact
