SPECIFICATION Spec

CONSTANTS
    d1 = d1
    t1 = t1
    t2 = t2
    t3 = t3
    Devices = {d1}
    Targets = {t1, t2, t3}
    Outcomes = {"like", "repost"}
    Limit <- SmallLimit
    Hour = 2
    MaxClock = 4
    MaxSteps = 1

SYMMETRY Profiles
CHECK_DEADLOCK FALSE

INVARIANTS
    TypeOK
    RollingKept
    Paced
    AuditClean
