CONSTANTS
    Ids <- LedgerIds
    ParentOf <- LedgerParent
    SeqNumOf <- LedgerSeqNum
    BodyOf <- LedgerBody
    RoundOf <- LedgerRound
    Ranges <- LedgerRanges
    BlockCacheSize = 2
    MaxNumHeaders = 3
    MaxEvents = 1
    StopPoints = {}
    MaxStops = 0
    RunParts = {"ledger", "archive", "archive_fallback", "breaker"}
SPECIFICATION AllSpec
INVARIANTS
    ArchiveComplete
PROPERTIES
    ImplementsMock
    ServiceSteps
