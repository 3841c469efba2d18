CONSTANTS
    Ids <- StoppedIds
    ParentOf <- StoppedParent
    SeqNumOf <- StoppedSeqNum
    BodyOf <- StoppedBody
    RoundOf <- StoppedRound
    Ranges <- StoppedRanges
    BlockCacheSize = 1
    MaxNumHeaders = 2
    MaxEvents = 1
    StopPoints = {"idle", "body", "header", "header2", "link", "rename", "flink", "frename"}
    MaxStops = 2
    LogEvents <- ReadableEvents
    Upserts = 2
    ServerFails = 0
    RunParts = {"ledger", "wal", "codec", "statesync_server", "statesync_requests", "statesync_client", "statesync_targets", "txpool", "txpool_proposals", "txpool_forwards", "bridge", "executor", "preload"}
SPECIFICATION AllSpec
INVARIANTS
    LedgerSurvivesStop
    LogIsPrefix
    EncodedIsDecoded
    StateSyncExact
    PoolMatchesChain
    PoolServed
VIEW AllView
