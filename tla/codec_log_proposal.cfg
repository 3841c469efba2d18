CONSTANTS
    Ids <- LedgerIds
    ParentOf <- LedgerParent
    SeqNumOf <- LedgerSeqNum
    BodyOf <- LedgerBody
    RoundOf <- LedgerRound
    Ranges <- LedgerRanges
    BlockCacheSize = 2
    MaxNumHeaders = 3
    MaxEvents = 1
    StopPoints = {}
    MaxStops = 0
    LogEvents <- ProposalEvents
    Upserts = 2
    ServerFails = 0
    RunParts = {"codec"}
SPECIFICATION AllSpec
INVARIANTS
    LogReadBack
CHECK_DEADLOCK FALSE
