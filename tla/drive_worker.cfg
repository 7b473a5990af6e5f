SPECIFICATION Spec
CONSTANTS
    None = None
    Folders <- TwoRootsTwoFolders
    Public = 1
    Restricted = 2
    Shapes <- SomeShapes
    MaxDepth = 2
    Day = 3
    Ats = {0, 1, None}
    Interval = 2
    Retry = 1
    MaxTime = 6
    MaxFailures = 2
INVARIANTS
    CaughtUp
    WatchedAsFiled
PROPERTIES
    NeverTwice
CHECK_DEADLOCK FALSE
