\* The POSIX root directory and a directory in it.
SPECIFICATION Spec
CONSTANTS
    NoId = NoId
    Missing = Missing
    Grades <- Posix
    ProvId = {p1, p2}
    Actor = {r1}
    Dir = {d1, d2}
    Locator <- FromRoot
    Path <- FromRoot
    LegacyAt = {}
    MaxMoves = 0
SYMMETRY Symmetry
CHECK_DEADLOCK FALSE
INVARIANT TreesDisjoint
