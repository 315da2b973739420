\* Two providers, one not established yet and one with weak evidence, and faults of every kind: directories
\* are put elsewhere, links re-pointed, calls fail, the process dies.
SPECIFICATION Spec
CONSTANTS
    Provider = {p1, p2}
    Weak = {p2}
    Legacy = {p1}
    Scan = {s1, s2}
    NumDirs = 2
    NumPlaces = 2
    MaxChanges = 3
    Unplugs = FALSE
    StoreFails = TRUE
    Crashes = TRUE
    MaxRequests = 2
    MaxStarts = 2
CHECK_DEADLOCK FALSE
SYMMETRY Symmetry
INVARIANTS
    TypeOK
    OneScanPerProvider
    ShownFromEnrolledRoot
PROPERTY KeepsProtocol
