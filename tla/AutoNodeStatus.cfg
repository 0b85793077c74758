CONSTANTS
    Names = {n1, n2}
    CPUs = {0, 2}
    Budget = 5
SPECIFICATION FairSpec
INVARIANTS
    ExactAtRest
PROPERTIES
    StatusConverges
