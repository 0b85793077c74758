CONSTANTS
    Names = {n1}
    MaxSecret = 2
    MaxRelease = 2
    Budget = 3
    ProviderTypes = {}
    Times = {"now"}
    Now = "now"
SPECIFICATION FairSpec
INVARIANTS
    TypeOK
    NoOrphan
    UserDataMatchesImage
PROPERTIES
    UserDataNeverRollsBack
    ReadyOnlyWhenResolved
    Implements
    Converges
