CONSTANTS
    MaxUID = 2
    MaxLevel = 1
    Budget = 2
SPECIFICATION FairSpec
INVARIANTS
    TypeOK
    InSyncAtRest
PROPERTIES
    OperandConverges
    ComesToRest
