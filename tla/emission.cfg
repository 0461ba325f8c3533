SPECIFICATION Spec
CONSTANTS
    a1 = a1
    a2 = a2
    h1 = h1
    h2 = h2
    c1 = c1
    c2 = c2
    worker = worker
    Attempt = {a1, a2}
    Hotkey = {h1}
    Owner <- OwnerMC
    Tee <- TeeMC
    Prices <- PricesMC
    Posts <- PostsMC
    Launches <- LaunchesMC
    Client = {c1, c2}
    Worker = worker
    MaxProofs = 4
    Hyper <- HyperMC
SYMMETRY Symmetry
CHECK_DEADLOCK FALSE
INVARIANTS
    BooksBalance
    NothingForgotten
    BonusHasProof
PROPERTIES
    MintedWithScore
    QuoteNamesItsJob
    KeepsPromise
