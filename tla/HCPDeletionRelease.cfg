CONSTANTS
    Pools = {p1}
    Claims = {c1}
    Env = {"hypershift", "capi", "pool", "claim", "fail", "restart"}
    Budget = 3
SPECIFICATION Spec
PROPERTIES
    CleanWhenReleased
