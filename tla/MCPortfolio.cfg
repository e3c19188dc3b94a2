SPECIFICATION Spec
CONSTANTS
    FillPrices <- MC_FillPrices
    FillQuantities <- MC_FillQuantities
    MaxFills = 4
INVARIANTS
    AverageWithinOpeningPrices
    PnlIsCashFlow
