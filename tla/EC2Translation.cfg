CONSTANTS
    ProviderTypes = {"SubnetsReady"}
    Times = {"earlier", "now"}
    Now = "now"
    Sizes <- EdgeSizes
    Values = {"v1", "v2"}
    MaxList = 2
SPECIFICATION TranslationSpec
INVARIANTS
    ReadyMeansBothReady
    SyncIsAFixedPoint
    RejectedOnlyForKnownGaps
    ConflictIsReported
    KubeletRoundTrip
    NoFieldIsForgotten
    EnumsMeanTheSame
PROPERTY
    TransitionTimesKept
