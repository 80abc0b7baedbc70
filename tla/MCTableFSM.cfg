SPECIFICATION Spec
CONSTANTS
    Replicas = {r1, r2}
    r1 = r1
    r2 = r2
    Keys = {1, 2}
    Values = {1, 2}
    Nil = Nil
    None = None
    Wildcard = Wildcard
    MaxRange = 5
    Contents <- Tables
    EmptyTable <- NoKeys
    Commands <- MCCommands
    Handle <- HandleCommand
    Checkpoint = FALSE
    MaxLog = 2
SYMMETRY Symmetry
INVARIANTS
    TypeOK
    ReplicaIsPrefix
    CrashSafe
    ResponsesSerial
    ExportExact
PROPERTIES
    IndexMonotonic
    TableReplicated
