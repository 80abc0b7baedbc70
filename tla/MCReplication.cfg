CONSTANTS
    Nodes = {n1, n2}
    Keys = {"a", "b"}
    KeyOf <- ShortKeyOf
    MaxGens = 2
    MaxShard = 2
    MaxTimeouts = 1
SPECIFICATION Spec
SYMMETRY Symmetry
INVARIANTS
    TypeOK
    NoGap
