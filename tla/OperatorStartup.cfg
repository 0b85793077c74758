CONSTANTS
    Envs <- MCEnvs
    Infras = {"i1", "i2"}
    Touched = {"NodePool", "OpenshiftEC2NodeClass", "policy", "binding", "default"}
    MetricFailures = 4
    Budget = 1
SPECIFICATION FairSpec
CHECK_DEADLOCK FALSE
PROPERTIES
    StartupCompletes
    KeptInTheEnd
    ComesToRest
