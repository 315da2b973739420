\* One provider with native file identities: renames, swaps and hard links,
\* with every scan committed statement by statement.
SPECIFICATION TxSpec
CONSTANTS
    New = New
    NoIdent = NoIdent
    NoLoc = NoLoc
    NoTx = NoTx
    Window = 0
    Provider = {p1}
    AppId = {a1, a2, a3, a4}
    Content = {c1, c2}
    Ident = {i1, i2}
    NumLocs = 2
    MaxTime = 0
    MaxScans = 3
SYMMETRY Symmetry
CHECK_DEADLOCK FALSE
INVARIANTS
    TypeOK
    AvailableLocatorsUnique
    AvailableMirrorsLastScan
    EventsExplainLocators
    IndexRefusesNothing
    WorkFollowsProgress
PROPERTIES
    ContentNeverRelabelled
    ReplayChangesNothing
    ImplementsReconciliation
