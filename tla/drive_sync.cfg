SPECIFICATION DriveSpec
CONSTANTS
    a = a
    b = b
    c1 = c1
    c2 = c2
    junk = junk
    None = None
    Docs <- ThreeDocs
    Contents = {c1, c2, junk}
    Files = {a}
    Native = {a}
    Unexportable = {}
    Unreadable = {junk}
    Syncers <- BothSyncers
    Limit = 1
    MaxStalls = 1
    MaxChanges = 2
    MaxByHand = 1
    MaxErrors = 1
    MaxCrashes = 1
    MaxEvents = 2
INVARIANTS
    ReplacedStaysHidden
    ImportedOnce
    RetiredIsHidden
    FolderTierHolds
PROPERTIES
    NeverBlank
SYMMETRY ContentSymmetry
CHECK_DEADLOCK FALSE
