\* Two requests race on nested and aliased directories; one provider of the
\* version 1 catalogue is among them.
SPECIFICATION Spec
CONSTANTS
    NoId = NoId
    Missing = Missing
    Grades <- Windows
    ProvId = {p1, p2, p3}
    Actor = {r1, r2}
    Dir = {d1, d2}
    Locator <- Both
    Path <- Nested
    LegacyAt <- OldA
    MaxMoves = 1
SYMMETRY Symmetry
CHECK_DEADLOCK FALSE
INVARIANTS
    TypeOK
    RootsDisjoint
    OneProviderPerDirectory
    AcceptedForOne
