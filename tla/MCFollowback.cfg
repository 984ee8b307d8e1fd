SPECIFICATION MCSpec

CONSTANTS
    t1 = t1
    t2 = t2
    f1 = f1
    f2 = f2
    Tabs = {t1, t2}
    Followers = {f1, f2}
    NoOne = NoOne
    Lease = 1
    Cooldown = 1
    MaxAttempts = 1
    MaxClock = 2
    MaxOrders = 1

SYMMETRY TabSymmetry

INVARIANTS
    TypeOK
    OneCanary
    WelcomedTwiceExplained

PROPERTIES
    ClosedByItsCanary
    StoppedNotWelcomed
