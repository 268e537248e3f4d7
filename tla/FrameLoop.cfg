CONSTANTS
    First = 1
    Second = 2
    Third = 4
    Recurring = 5
    Streak = 3
    HealthAfter = 1
    Environments <- Every
    MaxFrames = 6
    MaxFaults = 4
    Frames <- MCFrames
    Capacity = 4
    Proxies <- MCProxies
    Requests <- MCRequests
    MaxSends = 2
    MaxOwed = 2
    Nothing = Nothing
SPECIFICATION FrameLoopSpec
INVARIANTS VerdictHonest AskedIsServed
PROPERTIES FatalCloses Served
CHECK_DEADLOCK FALSE
