CONSTANTS
    Names = {n1, n2}
    Prepared = {n1, n2}
    Settled = {n1, n2}
    Workers = {w1, w2}
    Subnets = {s1, s2}
    Reports = {{s1}, {s2}}
    BadSecrets = {}
    Env = {"report"}
    MaxSecret = 1
    MaxRelease = 1
    Budget = 2
    ProviderTypes = {}
    Times = {"now"}
    Now = "now"
SPECIFICATION Spec
INVARIANT
    SubnetsPublishedAtRest
