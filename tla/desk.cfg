SPECIFICATION LiveSpec
CHECK_DEADLOCK FALSE
CONSTANTS
    h1 = h1
    h2 = h2
    k1 = k1
    none = none
    ann = ann
    bob = bob
    cat = cat
    dan = dan
    eve = eve
    fay = fay
    gus = gus
    NoKey = none
    Hotkey <- MCHotkey
    Key <- MCKey
    Client <- MCClient
    Owner <- MCOwner
    Wish <- MCWish
    Groups <- MCGroups
    Ahead <- MCAhead
    Allowlist <- MCAllowlist
    SignatureTtl = 1
    NonceTtl = 2
    MaxWorldSize = 4
    MaxNnodes = 2
    MaxNproc = 2
    MaxTimeout = 2
    MaxGpus = 4
    MaxTime = 2
    MaxTries = 3
    MaxFaults = 1
INVARIANTS
    AppliedOnce
    CreatedOnce
PROPERTIES
    EveryoneIsTold
    KeepsPromise
