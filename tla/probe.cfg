SPECIFICATION Spec
CONSTANTS
    n1 = n1
    n2 = n2
    g1 = g1
    g2 = g2
    r1 = r1
    r2 = r2
    Nodes <- MCNodes
    Gpus <- MCGpus
    Requests <- MCRequests
    Attachments <- MCAttachments
    Claims <- MCClaims
    Hosts <- MCHosts
    Keys = {"none", "env_pem"}
    DefaultKey = "file"
    Endpoints <- MCNodes
    ConnectTimeout = 1
    CmdCap = 6
    WallBudget = 12
    Modes = {"full"}
    RequireDocker = TRUE
    MaxGpus = 2
    MaxEvidence = 2
    MaxChanges = 2
    NoEvidence = NoEvidence
    NoNode = NoNode
SYMMETRY MCSymmetry
INVARIANTS
    
    OneHome
    FingerprintStable
    BoundedStall
CHECK_DEADLOCK FALSE
