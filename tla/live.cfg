CONSTANTS
    MaxRound = 5
    MaxRestarts = 1
    RunParts = {"vote_pacing", "archive", "blocks", "breaker", "tcp_rx", "tcp_tx", "udp_tx", "discovery", "raptorcast", "statesync_server", "statesync_client", "statesync_targets", "mode", "bridge", "executor", "preload"}
SPECIFICATION LiveSpec
INVARIANTS
    NeverReschedules
PROPERTIES
    WaitingVoteLeaves
    TransportLive
    SyncLive
    PoolLive
    ServicesLive
