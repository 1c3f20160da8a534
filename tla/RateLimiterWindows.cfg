CONSTANTS
    NoKey = NoKey
    Callers <- MCCallers
    Keys <- MCKeys
    Settings <- AllModes
    WindowSeconds = 2
    MaxTime = 4
    MaxRequests = 5
SPECIFICATION RateSpec
CHECK_DEADLOCK FALSE
INVARIANTS
    SlidingWindow
    RefusedOnlyWhenSpent
