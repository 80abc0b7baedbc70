CONSTANTS
    Followers = {f1, f2}
    CacheSize = 2
    MaxSize = 3
    Sizes = {1, 2}
    Starts = {1, 5}
    MaxLog = 3
    MaxFaults = 1
SPECIFICATION Spec
SYMMETRY Symmetry
INVARIANTS
    TypeOK
    CacheIsRun
    StreamInOrder
    ErrorsTruthful
    PollProgress
CHECK_DEADLOCK FALSE
