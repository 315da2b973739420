SPECIFICATION FairSpec
CONSTANTS
    Caller = {c1, c2}
    NoCaller = NoCaller
    MaxSessions = 2
    MaxCalls = 4
    MaxFailures = 1
    MaxDeaths = 1
    PowerFails = TRUE
INVARIANTS
    TypeOK
    SummaryBackedByLog
    FinishedStoryIsWhole
    UnfinishedMeansKilled
PROPERTIES
    ImplementsRecorder
    CallsReturn
CHECK_DEADLOCK FALSE
