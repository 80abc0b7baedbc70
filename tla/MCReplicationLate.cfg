CONSTANTS
    Nodes = {n1}
    Keys = {"a", "b"}
    KeyOf <- MCKeyOf
    MaxGens = 1
    MaxShard = 3
    MaxTimeouts = 1
SPECIFICATION Spec
INVARIANT StateReplicated
