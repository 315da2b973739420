\* Every accepted scan ends and every stop completes, and the scanning mark never
\* outlives its scan, if no catalogue call fails and the process stops in time.
SPECIFICATION FairSpec
CONSTANTS
    Provider = {p1}
    Weak = {}
    Legacy = {p1}
    Scan = {s1, s2}
    NumDirs = 2
    NumPlaces = 2
    MaxChanges = 2
    Unplugs = TRUE
    StoreFails = FALSE
    Crashes = FALSE
    MaxRequests = 3
    MaxStarts = 2
CHECK_DEADLOCK FALSE
INVARIANT MarkedScansAreRunning
PROPERTIES
    EveryScanEnds
    StopCompletes
