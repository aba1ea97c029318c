SPECIFICATION Spec
CONSTANTS
    Keys = {k1}
    Archived = {k1}
    Callers = {c1, c2}
    Worker = worker
    Modes = {FALSE}
    ReadThrough = TRUE
    ArchiveRetries = 1
    Missing = Missing
    Faults = FALSE
    MaxWrites = 2
    MaxNodes = 2
    MaxCrashes = 0
PROPERTIES ArchiveAppendOnly
CHECK_DEADLOCK FALSE
