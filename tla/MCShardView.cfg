CONSTANTS
    n1 = n1
    n2 = n2
    Nodes <- TwoNodes
    noLeader = noLeader
    Configs <- OneLeaves
    MaxTerm = 2
    MaxFaults = 1
SPECIFICATION FairSpec
INVARIANTS
    TypeOK
    HeaderTruthful
PROPERTIES
    NeverBack
    ViewsConverge
