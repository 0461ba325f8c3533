SPECIFICATION IncentiveSpec
CONSTANTS
    Hotkeys = {1, 2, 3}
    Ss58 = {1, 2}
    Attempts = {1, 2, 3, 4}
    Owner <- MCOwner
    SelfDeals <- MCSelfDeals
    Composites = {0, 1, 3}
    Settings <- MCSettings
    MaxSeals = 3
    MaxSnapshots = 1
INVARIANTS
    RanksAgree
    CapIsFair
    SelfDealNeverPays
CHECK_DEADLOCK FALSE
