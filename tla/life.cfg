SPECIFICATION Spec
CONSTANTS
    j1 = j1  j2 = j2  j3 = j3  w1 = w1  w2 = w2  c1 = c1
    Jobs <- OneJob
    WorldSize <- MCWorldSize
    LargeThreshold = 2
    MaxLarge = 1
    MaxWorld = 3
    Workers = {w1, w2}
    Clients = {c1}
    MaxAttempt = 2
    Outputs = {"o1", "o2"}
    Payloads <- AllPayloads
    NoDigest = NoDigest
    LaunchDigest = LaunchDigest
    NoJob = NoJob
SYMMETRY WorkerSymmetry
INVARIANTS PipelineEvidence SuccessHasResults
PROPERTY KeepsPromise
