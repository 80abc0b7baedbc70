CONSTANTS
    NoValue = NoValue
    Nodes = {n1, n2}
    Names = {t1}
    MaxIds = 1
    MaxCalls = 2
    GracePeriod = 1
    MaxTime = 1
    MaxFaults = 1
SPECIFICATION FairSpec
INVARIANTS
    TypeOK
    IdsUnique
    
PROPERTY Converges
