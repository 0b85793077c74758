CONSTANTS
    Nodes = {k1, k2, h1, nn}
    NoName = nn
    Karpenter = {k1, k2}
    Kinds = {"client", "renewal", "serving"}
    BatchSize = 1
    Budget = 3
SPECIFICATION FairSpec
INVARIANTS
    OnlyKarpenterNodes
PROPERTIES
    RestsButForNameless
    NodesGetCertificates
