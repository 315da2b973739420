SPECIFICATION Spec
CONSTANTS
    Plans <- OnePlan
    Idle = 2
    MaxTime = 3
    MaxLaunches = 1
    MaxOpen = 1
    MaxSessions = 0
    MaxLost <- NoLoss
INVARIANT CookieFollowsUse
CHECK_DEADLOCK FALSE
