SPECIFICATION QueueSpec
CONSTANTS
    giant = giant  giant2 = giant2  micro = micro  micro2 = micro2
    Jobs <- GiantsAndMicro
    WorldSize <- MCWorldSize
    LargeThreshold = 2
    MaxLarge = 1
    MaxWorld = 4
    Limit = 3
    Endings = {"cancelled"}
    Capacity <- OneEach
INVARIANT BudgetKept
PROPERTY Served
CHECK_DEADLOCK FALSE
