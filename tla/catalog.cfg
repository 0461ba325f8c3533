SPECIFICATION Spec
CONSTANTS
    r1 = r1
    r2 = r2
    o1 = o1
    a100 = a100
    Models <- MCModels
    Families <- MCFamilies
    FamilyOf <- MCFamilyOf
    Bodies <- MCBodies
    Asked = {0, 3}
    Ladder <- MCLadder
    Enforcements = {"soft"}
    MaxMultiplier = 2
    MinFraction = 2
    PriceCap = 3
    Requests <- MCRequests
    OfferIds <- MCOfferIds
    MaxChanges = 3
    NoRow = NoRow
    NoModel = NoModel
SYMMETRY RequestSymmetry
INVARIANTS
    HistoryTells
    OffersQuoteHistory
    SeedKeepsAdmin
CHECK_DEADLOCK FALSE
