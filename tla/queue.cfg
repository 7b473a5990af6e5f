SPECIFICATION FairQueueSpec
CONSTANTS
    j1 = j1
    w1 = w1
    w2 = w2
    w3 = w3
    None = None
    Jobs <- OneJob
    Workers <- ThreeWorkers
    Stages <- ScanOnly
    JobStage <- AllJobsScan
    WorkerStage <- AllWorkersScan
    MaxRetries = 2
    LeaseLoss <- ScanOnly
INVARIANTS
    OwnershipMatchesStatus
    RetryCeiling
    NewestClaimOwns
PROPERTIES
    EveryJobSettles
CHECK_DEADLOCK FALSE
