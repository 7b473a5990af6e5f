SPECIFICATION Spec
CONSTANTS
    d1 = d1
    d2 = d2
    d3 = d3
    c1 = c1
    c2 = c2
    w1 = w1
    w2 = w2
    w3 = w3
    w4 = w4
    w5 = w5
    None = None
    RequeuedStages = {"EXTRACT"}
    Docs <- OneDoc
    Contents = {c1, c2}
    ContentOf <- SameContent
    TierOf <- FirstPublic
    Valid = {c1}
    Stages <- ScanStages
    Jobs <- AllJobs
    JobDoc <- JobsDoc
    JobStage <- JobsStage
    Workers <- ScannerAndExtractor
    WorkerStage <- ScanAndExtract
    Deletes = {}
    EagerDelete = FALSE
    BackfillStages = {"EXTRACT"}
    Backfills = {"entry", "other", "reset"}
    Crashes = {}
    StorageFaults = {}
    DatabaseFaults = {"SCAN"}
    LeaseLoss = {"SCAN"}
    MaxRetries = 1
PROPERTIES
    QueueSpec
CHECK_DEADLOCK FALSE
