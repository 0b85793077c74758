CONSTANTS
    Names = {n1}
    Prepared = {n1}
    Settled = {}
    Workers = {w1}
    Subnets = {s1}
    Reports = {{}, {s1}}
    BadSecrets = {3}
    Env = {"create", "delete", "pin", "secret", "hcp", "e2e", "platform", "upgrade", "tamper", "report", "resolve", "fail", "restart"}
    MaxSecret = 3
    MaxRelease = 2
    Budget = 2
    ProviderTypes = {}
    Times = {"now"}
    Now = "now"
SPECIFICATION FairSpec
INVARIANTS
    TypeOK
    UserDataMatchesAMIs
PROPERTIES
    UserDataNeverRollsBack
    CreatedUnderFinalizer
    Converges
