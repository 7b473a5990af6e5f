SPECIFICATION FairSpec
CONSTANTS
    d1 = d1
    d2 = d2
    d3 = d3
    c1 = c1
    c2 = c2
    w1 = w1
    w2 = w2
    w3 = w3
    w4 = w4
    w5 = w5
    None = None
    RequeuedStages = {"CHUNK"}
    Docs <- OneDoc
    Contents = {c1, c2}
    ContentOf <- SameContent
    TierOf <- FirstPublic
    Valid = {c1}
    Stages <- AllStages
    Jobs <- AllJobs
    JobDoc <- JobsDoc
    JobStage <- JobsStage
    Workers <- FiveWorkers
    WorkerStage <- OnePerStage
    Deletes = {}
    EagerDelete = FALSE
    BackfillStages = {"CHUNK"}
    Backfills = {"entry"}
    Crashes = {}
    StorageFaults = {"NORMALIZE"}
    DatabaseFaults = {}
    LeaseLoss = {}
    MaxRetries = 1
INVARIANTS
    ArtifactsPresent
    LiveIsComplete
PROPERTIES
    EveryDocumentSettles
    LifeSpec
CHECK_DEADLOCK FALSE
