SPECIFICATION FairSpec
CONSTANTS
    Keys = {k1, k2}
    Archived = {k1}
    Callers = {c1}
    Worker = worker
    Modes = {TRUE, FALSE}
    ReadThrough = TRUE
    ArchiveRetries = 2
    Missing = Missing
    Faults = TRUE
    MaxWrites = 3
    MaxNodes = 7
    MaxCrashes = 1
INVARIANTS MirrorAgrees HistoryInOrder NothingSilentlyLost
PROPERTIES ArchiveAppendOnly ReadsNeverGoBack QueueDrains
CHECK_DEADLOCK FALSE
