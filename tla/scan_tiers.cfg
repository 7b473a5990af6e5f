SPECIFICATION Spec
CONSTANTS
    d1 = d1
    d2 = d2
    d3 = d3
    c1 = c1
    c2 = c2
    w1 = w1
    w2 = w2
    w3 = w3
    w4 = w4
    w5 = w5
    None = None
    RequeuedStages = {}
    Docs <- ThreeDocs
    Contents = {c1, c2}
    ContentOf <- ThirdDiffers
    TierOf <- FirstPublic
    Valid = {c1}
    Stages <- ScanStages
    Jobs <- AllJobs
    JobDoc <- JobsDoc
    JobStage <- JobsStage
    Workers <- TwoScanners
    WorkerStage <- BothScan
    Deletes = {}
    EagerDelete = FALSE
    BackfillStages = {}
    Backfills = {}
    Crashes = {}
    StorageFaults = {}
    DatabaseFaults = {}
    LeaseLoss = {}
    MaxRetries = 1
INVARIANTS
    StricterTierWins
    AuditTrail
SYMMETRY ScannerSymmetry
CHECK_DEADLOCK FALSE
