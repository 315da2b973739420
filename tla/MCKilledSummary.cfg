SPECIFICATION Spec
CONSTANTS
    Caller = {c1}
    NoCaller = NoCaller
    MaxSessions = 1
    MaxCalls = 2
    MaxFailures = 0
    MaxDeaths = 1
    PowerFails = FALSE
INVARIANT KilledSummaryTellsSo
CHECK_DEADLOCK FALSE
