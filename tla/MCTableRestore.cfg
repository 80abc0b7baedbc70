CONSTANTS
    Sizes = {1, 2}
    MaxPairs = 3
    Limit = 3
    Index = 7
    MaxTimeouts = 1
SPECIFICATION Spec
INVARIANT Restored
CHECK_DEADLOCK FALSE
