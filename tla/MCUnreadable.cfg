\* A file that could not be read while a copy of it appeared.
SPECIFICATION Spec
CONSTANTS
    New = New
    NoIdent = NoIdent
    NoLoc = NoLoc
    Window = 0
    Provider = {p1}
    AppId = {a1, a2}
    Content = {c1}
    Ident = {}
    NumLocs = 2
    MaxTime = 0
    MaxScans = 2
SYMMETRY Symmetry
CHECK_DEADLOCK FALSE
PROPERTY RenamedOnlyWhenGone
