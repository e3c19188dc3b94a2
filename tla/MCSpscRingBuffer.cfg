SPECIFICATION FairSpec
CONSTANTS
    Values <- MC_Values
    Capacity = 4
    MaxPushes = 6
INVARIANTS
    TypeOK
    NoDataRace
    UnreadValuesIntact
PROPERTIES
    ImplementsQueue
    EveryPushIsPopped
