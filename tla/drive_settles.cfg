SPECIFICATION FairDriveSpec
CONSTANTS
    a = a
    b = b
    c1 = c1
    c2 = c2
    junk = junk
    None = None
    Docs <- FourDocs
    Contents = {c1, c2}
    Files = {a}
    Native = {a}
    Unexportable = {}
    Unreadable = {}
    Syncers <- OnlyWorker
    Limit = None
    MaxStalls = 0
    MaxChanges = 2
    MaxByHand = 0
    MaxErrors = 1
    MaxCrashes = 1
    MaxEvents = 2
PROPERTIES
    CatchesUp
    NewestSettles
