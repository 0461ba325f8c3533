SPECIFICATION Spec
CONSTANTS
    worker = worker  operator = operator  refresher = refresher
    Pushers = {worker, operator, refresher}
    Role <- MCRole
    MaxEpoch = 2
    MaxRevision = 2
    MaxMass = 2
    MaxCommands = 1
    MaxFaults = 1
INVARIANTS OnePayloadPerRevision LoopCarriesOn
PROPERTIES AckKept EventuallyAcked KeepsPromise
