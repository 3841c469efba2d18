CONSTANTS
    Ids <- LedgerIds
    ParentOf <- LedgerParent
    SeqNumOf <- LedgerSeqNum
    BodyOf <- LedgerBody
    RoundOf <- LedgerRound
    Ranges <- LedgerRanges
    BlockCacheSize = 2
    MaxNumHeaders = 3
    MaxEvents = 1
    StopPoints = {"rename"}
    MaxStops = 1
    LogEvents <- ReadableEvents
    Upserts = 2
    ServerFails = 0
    RunParts = {"ledger"}
SPECIFICATION AllSpec
INVARIANTS
    CommandsSucceed
CHECK_DEADLOCK FALSE
