SPECIFICATION FairSpec
CONSTANTS
    Second = 2
    TimerMax = 100
    Infinite = 1000
    Parts = 2
    Policies <- MCPolicies
    MaxTime = 60
INVARIANTS OverlapIsAborted NoTimerLeftBehind SettlesInTime BacksOff
PROPERTY AlwaysSettles
CHECK_DEADLOCK FALSE
