CONSTANTS
    RunParts = {"tcp_rx", "tcp_tx", "udp_tx", "build", "udp_caches", "udp_batches", "addresses", "queues", "publisher", "steps", "client", "invites", "cast", "crowd", "pings", "lookups", "pruning"}
SPECIFICATION AllSpec
INVARIANTS
    TcpExact
    UdpPaced
    ChunksCover
    ForwardedAndDeliveredOnce
    TrustFollowsEpochs
    GroupsServed
    RoutedAnswered
PROPERTIES
    NetworkSteps
