SPECIFICATION Spec
CONSTANTS
    Plans <- MCPlans
    Idle = 1
    MaxTime = 2
    MaxLaunches = 2
    MaxOpen = 2
    MaxSessions = 2
    MaxLost <- MCMaxLost
INVARIANTS
    TypeOK
    OneSessionPerLaunch
    CookieIsEnough
    WholeNarrative
    OneIdPerAction
CHECK_DEADLOCK FALSE
