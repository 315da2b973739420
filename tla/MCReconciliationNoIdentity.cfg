\* Two providers without native file identities (every system but Windows).
SPECIFICATION Spec
CONSTANTS
    New = New
    NoIdent = NoIdent
    NoLoc = NoLoc
    Window = 0
    Provider = {p1, p2}
    AppId = {a1, a2, a3, a4}
    Content = {c1, c2}
    Ident = {}
    NumLocs = 2
    MaxTime = 1
    MaxScans = 4
SYMMETRY Symmetry
CHECK_DEADLOCK FALSE
INVARIANTS
    AvailableMirrorsLastScan
    OneAppearancePerFile
PROPERTIES
    ReconnectKeepsAppearances
    RenamedOnlyWhenMoved
