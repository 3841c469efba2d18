CONSTANTS
    h1 = h1
    h2 = h2
    z = z
    Nothing = Nothing
    Validator = {h1, h2, z}
    Honest = {h1, h2}
    Stake <- VoteStake
    MaxStake = 2
    BlockId = {"b1", "b2"}
    FUTURE_VOTE_BOUND = 1
    MaxRound = 2
    RunParts = {"votes", "nec", "nec_once", "timeouts", "tree", "sync", "sync_peers", "epochs", "mode", "solvency", "solvency_cut"}
SPECIFICATION AllSpec
INVARIANTS
    NoQcMissed
    CertificatesBuilt
    TreeIsExact
    RequestsTracked
    EpochsAgree
    
    SolventExecution
