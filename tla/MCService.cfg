SPECIFICATION Spec
CONSTANTS
    Keys <- MCKeys
    Values <- MCValues
    Nil = Nil
    Wildcard = Wildcard
    MaxRange = 3
    Clients = {c1}
    Nodes = {n1, n2}
    follower = follower
    Requests <- MCRequests
    TooLong <- MCTooLong
    Promised <- PromisedAnswer
    Executed <- PromisedContent
    Sent <- MCSent
    Check <- CheckRequest
    OnlyReads <- IsReadonly
    AsksRaft <- linearizable
    Proposal <- ProposalData
    Update <- UpdateEntry
    ReadResult <- ReadAnswer
    WriteResult <- ProposalAnswer
    Metadata <- MCMetadata
    ReplicateRequest <- ReplicateRequestOf
    ReplicateCommand <- ReplicateCommandOf
    Streamed <- ReceivedCommands
    UseSnapshot <- ReadsUseSnapshot
    Pool <- PoolCommands
    NewCommand <- NewCommandVT
    Sequence <- SequenceOf
    Returned <- ReturnToVTPool
    Snapshot <- StreamOf
    Load <- readIntoTable
    MaxLog = 2
    MaxProposed = 1
    MaxElections = 1
SYMMETRY Symmetry
INVARIANTS TypeOK  
CHECK_DEADLOCK FALSE
