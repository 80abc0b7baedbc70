CONSTANTS
    Names = {d1, d2, d3}
    Missing = Missing
    Root = Root
    MaxIndex = 3
    MaxCrashes = 2
SPECIFICATION FairSpec
INVARIANTS
    TypeOK
    
PROPERTIES
    SwitchIsAtomic
    Reopens
