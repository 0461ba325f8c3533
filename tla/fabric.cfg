SPECIFICATION Spec
CONSTANTS
    Nodes <- MCNodes
    Sizes = {1, 2}
    Fleets <- MCFleets
    Pods <- MCPods
    JobSpecs <- MCJobSpecs
    SimDates = {1, 2}
    Injections <- MCInjections
    MaxChanges = 2
    NoScan = NoScan
INVARIANTS
    RanksSound
    PackIsTight
    IbBetweenLiveDevices
    EarnsHonestly
    RentedOnIb
CHECK_DEADLOCK FALSE
