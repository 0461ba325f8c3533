SPECIFICATION ReportSpec
CONSTANTS
    c1 = c1
    c2 = c2
    Client = {c1, c2}
    PodNodes = {1, 2}
    NNodes = 2
    NProc = 2
    Rankmaps <- RankmapsMC
    AttemptNos = {1, 2}
    PostDigests = {"x", "y"}
    MaxScans = 2
SYMMETRY Symmetry
CHECK_DEADLOCK FALSE
INVARIANTS
    ReportNamesRanks
    CollectedHasReport
PROPERTY
    WrittenOnce
