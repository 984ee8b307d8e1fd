SPECIFICATION FairSpec

CONSTANTS
    w1 = w1
    w2 = w2
    Workers = {w1, w2}
    Events = {1, 2}
    MaxAttempts = 2
    Limit = 1
    MaxFaults = 1

CHECK_DEADLOCK FALSE

INVARIANTS
    TypeOK
    AnsweredTwiceExplained
    WindowKept

PROPERTIES
    SettledStays
    SettledAtLast
