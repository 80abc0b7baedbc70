CONSTANTS
    NoValue = NoValue
    Nodes = {n1, n2}
    LeaseDuration = 1
    MaxTime = 2
    MaxIndex = 3
    MaxProposals = 3
SPECIFICATION Spec
SYMMETRY Symmetry
INVARIANTS
    TypeOK
    LeaseExclusive
PROPERTY LeaseNeverStolen
