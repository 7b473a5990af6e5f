SPECIFICATION DriveSpec
CONSTANTS
    a = a
    b = b
    c1 = c1
    c2 = c2
    junk = junk
    None = None
    Docs <- ThreeDocs
    Contents = {c1, junk}
    Files = {a}
    Native = {}
    Unexportable = {}
    Unreadable = {junk}
    Syncers <- OnlyWorker
    Limit = None
    MaxStalls = 0
    MaxChanges = 2
    MaxByHand = 0
    MaxErrors = 0
    MaxCrashes = 0
    MaxEvents = 2
INVARIANTS
    GoneIsHidden
