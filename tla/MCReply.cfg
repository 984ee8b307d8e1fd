SPECIFICATION MCSpec

CONSTANTS
    t1 = t1
    t2 = t2
    Tabs = {t1, t2}
    Inbounds = {1, 2}
    NoTab = NoTab
    Kinds = {"stop", "contact", "plain"}
    MaxReplies = 1
    InviteAfter = 1
    Lease = 1
    MaxClock = 1

SYMMETRY TabSymmetry

INVARIANTS
    TypeOK
    BudgetKept
    RepliedTwiceExplained
    HumanHolds

PROPERTIES
    TakenOverIsQuiet
