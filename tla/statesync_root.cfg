CONSTANTS
    Ids <- LedgerIds
    ParentOf <- LedgerParent
    SeqNumOf <- LedgerSeqNum
    BodyOf <- LedgerBody
    RoundOf <- LedgerRound
    Ranges <- LedgerRanges
    BlockCacheSize = 2
    MaxNumHeaders = 3
    MaxEvents = 1
    StopPoints = {}
    MaxStops = 0
    LogEvents <- ReadableEvents
    Upserts = 3
    ServerFails = 1
    RunParts = {"statesync_client"}
SPECIFICATION AllSpec
INVARIANTS
    StateRootMatches
CHECK_DEADLOCK FALSE
