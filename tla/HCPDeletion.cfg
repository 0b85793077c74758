CONSTANTS
    Pools = {p1, p2}
    Claims = {c1, c2}
    Env = {"hypershift", "capi", "pool", "claim", "fail", "restart"}
    Budget = 3
SPECIFICATION FairSpec
INVARIANTS
    TypeOK
    OnlyTeardownDeletes
PROPERTIES
    ForeignFinalizersKept
    FinalizerKeptUntilDeletion
    TeardownCompletes
    EarlyCleanup
