CONSTANTS
    Names = {n1}
    Prepared = {n1}
    Settled = {}
    Workers = {w1}
    Subnets = {s1}
    Reports = {{s1}}
    BadSecrets = {}
    Env = {"create", "delete", "report"}
    MaxSecret = 1
    MaxRelease = 1
    Budget = 2
    ProviderTypes = {}
    Times = {"now"}
    Now = "now"
SPECIFICATION Spec
INVARIANT
    NoOrphan
