----------------------------- MODULE MCProtocol -----------------------------
(***************************************************************************)
(* The consensus side of a node for TLC, part by part: the votes a leader  *)
(* collects, no-endorsement messages, timeouts, the block tree, block      *)
(* sync, epochs, the sync modes and the block policy.                      *)
(***************************************************************************)
EXTENDS VoteState, Parts

CONSTANT RunParts   \* the parts of the run

CONSTANTS
  h1, h2, z,          \* the validators whose votes a leader collects; z is faulty
  Nothing             \* Option::None

VoteStake == (h1 :> 2) @@ (h2 :> 1) @@ (z :> 1)

(* The block tree: 1 <- 2, 1 <- 3 and 1 <- 4, which has the body of 3, 3 <- 5 <- 6,
   where 5 extends a QC of round 4 for block 3.                                 *)
Qc(r, b) == [round |-> r, id |-> b]
TreeRound == <<1, 2, 3, 4, 5, 6>>
TreeBody == <<1, 2, 3, 3, 5, 6>>
TreeVerdicts == {{1, 3}, {1, 3, 4, 5, 6}}
TreeQcs == {Qc(1, 1), Qc(4, 3), Qc(5, 5), Qc(6, 6)}
TreeQc == <<Qc(0, 0), Qc(1, 1), Qc(1, 1), Qc(1, 1), Qc(4, 3), Qc(5, 5)>>
TipTc(r, b) ==
  [kind |-> "Tc", round |-> r, high_extend |-> [tip |-> b, qc |-> TreeQc[b]]]
TreeTcs == {TipTc(2, 2), TipTc(3, 3)}
Proposed(r, b, tc) == [proposal_round |-> r, tip |-> b, last_round_tc |-> tc]
TreeProposals ==
  {Proposed(b, b, Nothing) : b \in {1, 2, 5, 6}}
    \cup {Proposed(3, 3, TipTc(2, 2)), Proposed(4, 3, TipTc(3, 3)), Proposed(4, 4, TipTc(3, 3))}

(* Chains without lost rounds but at most one: the blocks after one of these
   come a round late, because the round in between timed out.               *)
ChainsWithGap ==
  {[b \in 0 .. 16 |-> IF b <= k THEN b ELSE b + g] : k \in {5, 6, 7, 12}, g \in {0, 1}}

Nec == INSTANCE NoEndorsementState WITH
  Validator <- {"h1", "h2", "h3", "z"}, Honest <- {"h1", "h2", "h3"},
  Stake <- [v \in {"h1", "h2", "h3", "z"} |-> 1], MaxStake <- 1, QcRounds <- {1},
  TcRounds <- {3}, LedRounds <- {4}, TipQcRounds <- {1, 2}, FUTURE_VOTE_BOUND <- 3,
  MaxCrashes <- 1,
  current_round <- v1, saved_round <- v2, earliest_round <- v3, pending <- v4,
  certificates <- v5, recoveries <- v6, received <- v7, crashes <- v8, panicked <- v9

NecOnce == INSTANCE NoEndorsementState WITH
  Validator <- {"h1", "h2", "h3", "z"}, Honest <- {"h1", "h2", "h3"},
  Stake <- [v \in {"h1", "h2", "h3", "z"} |-> 1], MaxStake <- 1, QcRounds <- {1},
  TcRounds <- {3}, LedRounds <- {4}, TipQcRounds <- {1, 2}, FUTURE_VOTE_BOUND <- 3,
  MaxCrashes <- 0,
  current_round <- v1, saved_round <- v2, earliest_round <- v3, pending <- v4,
  certificates <- v5, recoveries <- v6, received <- v7, crashes <- v8, panicked <- v9

Timeouts == INSTANCE Pacemaker WITH
  Validator <- {"h1", "h2", "h3", "z"}, Honest <- {"h1", "h2", "h3"},
  Stake <- [v \in {"h1", "h2", "h3", "z"} |-> 1], MaxStake <- 1, Self <- "h1",
  Tips <- {[round |-> r, qc |-> IF r = 2 THEN 1 ELSE 2] : r \in 2..4}, QcRounds <- {1, 2},
  TcRounds <- {2}, FirstRound <- 2, TimeoutRounds <- {3},
  current_round <- v1, phase <- v2, pending_timeouts <- v3, votes <- v4, timer <- v5,
  elapsed <- v6, timed_out <- v7, tcs <- v8, panicked <- v9

Tree == INSTANCE BlockTree WITH
  Block <- 1..6, Genesis <- 0, None <- Nothing, BlockRound <- TreeRound, BlockQc <- TreeQc,
  Qcs <- TreeQcs, Tcs <- TreeTcs, Proposals <- TreeProposals, BodyId <- TreeBody,
  ValidBlocks <- {1, 3, 4, 5, 6}, Verdicts <- TreeVerdicts, LeaderRounds <- {3, 4},
  live_to_statesync_threshold <- 4,
  bt <- v1, high <- v2, requests <- v3, committed <- v4, panicked <- v5

Sync == INSTANCE BlockSync WITH
  Blocks <- 1..3, BodyId <- <<1, 2, 1>>, PeerRanges <- {[last |-> 3, num |-> 2]},
  PeerPayloads <- {2}, BLOCKSYNC_MAX_PAYLOAD_REQUESTS <- 1, MaxFetches <- 2,
  TreeBlocks <- {3}, SelfRanges <- {[last |-> 2, num |-> 2], [last |-> 3, num |-> 2]},
  Peers <- {},
  mode <- v1, headers <- v2, payloads <- v3, in_flight <- v4, completed <- v5,
  peer_headers <- v6, peer_payloads <- v7, tree <- v8, fetches <- v9, timers <- v10,
  wanted <- v11

SyncPeers == INSTANCE BlockSync WITH
  Blocks <- 1..3, BodyId <- <<1, 2, 1>>, PeerRanges <- {[last |-> 3, num |-> 2]},
  PeerPayloads <- {2}, BLOCKSYNC_MAX_PAYLOAD_REQUESTS <- 1, MaxFetches <- 2,
  TreeBlocks <- {3}, SelfRanges <- {[last |-> 3, num |-> 2]}, Peers <- {"p"},
  mode <- v1, headers <- v2, payloads <- v3, in_flight <- v4, completed <- v5,
  peer_headers <- v6, peer_payloads <- v7, tree <- v8, fetches <- v9, timers <- v10,
  wanted <- v11

Epoch == INSTANCE Epochs WITH
  EpochLength <- 7, EpochStartDelay <- 6, ExecutionDelay <- 2, NumLeaders <- 1,
  Chains <- ChainsWithGap, MaxLag <- 4, MaxCrashes <- 2,
  rounds <- v1, root <- v2, round <- v3, epoch_starts <- v4, validator_map <- v5,
  next_val_data <- v6, last_emitted <- v7, forkpoint <- v8, crashes <- v9, started <- v10

Mode == INSTANCE SyncMode WITH
  Length <- 9, Delay <- 2, Threshold <- 2, ForkSeq <- 4, Skips <- {5}, Roots <- {3, 4},
  MaxCrashes <- 1,
  mode <- v1, root <- v2, high <- v3, full_blocks <- v4, block_headers <- v5,
  proposal_buffer <- v6, db_status <- v7, updating_target <- v8, loopback <- v9,
  requested <- v10, thread <- v11, latest <- v12, ledger <- v13, tree <- v14, round <- v15,
  highest_vote <- v16, votes <- v17, received <- v18, forkpoint <- v19, crashes <- v20,
  panicked <- v21

(* with a delay of 1, four blocks are enough for the cache to be cut *)
Solvency(delay) == INSTANCE EthBlockPolicy WITH
  Addresses <- {"a1"}, Delay <- delay, Fees <- {1, 2}, Genesis <- [a \in {"a1"} |-> 3],
  TxLimit <- 1, MaxBlocks <- 4, MaxBalance <- 3,
  b <- v1

everything == <<all, vars>>

AllInit ==
  /\ part \in RunParts
  /\ Init
  /\ \/ part = "votes" /\ v1 = 0 /\ idle2
     \/ part = "nec" /\ Nec!Init /\ idle10
     \/ part = "nec_once" /\ NecOnce!Init /\ idle10
     \/ part = "timeouts" /\ Timeouts!Init /\ idle10
     \/ part = "tree" /\ Tree!Init /\ idle6
     \/ part = "sync" /\ Sync!Init /\ idle12
     \/ part = "sync_peers" /\ SyncPeers!Init /\ idle12
     \/ part = "epochs" /\ Epoch!Init /\ idle11
     \/ part = "mode" /\ Mode!Init /\ idle22
     \/ part = "solvency" /\ Solvency(2)!Init /\ idle2
     \/ part = "solvency_cut" /\ Solvency(1)!Init /\ idle2

AllNext ==
  \/ part = "votes" /\ Next /\ UNCHANGED all
  \/ part = "nec" /\ Nec!Next /\ UNCHANGED <<part, rest10, vars>>
  \/ part = "nec_once" /\ NecOnce!Next /\ UNCHANGED <<part, rest10, vars>>
  \/ part = "timeouts" /\ Timeouts!Next /\ UNCHANGED <<part, rest10, vars>>
  \/ part = "tree" /\ Tree!Next /\ UNCHANGED <<part, rest6, vars>>
  \/ part = "sync" /\ Sync!Next /\ UNCHANGED <<part, rest12, vars>>
  \/ part = "sync_peers" /\ SyncPeers!Next /\ UNCHANGED <<part, rest12, vars>>
  \/ part = "epochs" /\ Epoch!Next /\ UNCHANGED <<part, rest11, vars>>
  \/ part = "mode" /\ Mode!Next /\ UNCHANGED <<part, rest22, vars>>
  \/ part = "solvency" /\ Solvency(2)!Next /\ UNCHANGED <<part, rest2, vars>>
  \/ part = "solvency_cut" /\ Solvency(1)!Next /\ UNCHANGED <<part, rest2, vars>>
  \/ Rest({"nec", "nec_once", "tree", "epochs", "mode", "solvency", "solvency_cut"}) /\ UNCHANGED vars

AllSpec == AllInit /\ [][AllNext]_everything

(* The certificates of a round. A NEC exists only if correct validators
   answered the recovery request with its tip_qc_round; once enough of them
   have, the leader has it, whatever faulty validators send in between, and
   a leader that does not crash builds it once. A TC built from timeouts
   that validate verifies at every other node, also if faulty validators
   lie about their high_qc_round, with one exception: a faulty validator
   that claims a QC of the TC's round or a later one, for a tip of a later
   round still, passes the validation of its timeout and makes the TC one
   that verify_tc rejects. A TC is not missed for invalid signatures, a
   node joins a timeout some correct validator has made, and the round
   always has its timer. *)
CertificatesBuilt ==
  /\ part = "nec" => Nec!CertificatesBuilt
  /\ part = "nec_once" => NecOnce!NecBuiltOnce
  /\ part = "timeouts" => Timeouts!TypeOK /\ Timeouts!CertificatesBuilt

(* The block tree, in whatever order blocks and certificates come: what is
   committed is the chain from genesis to the root, each block once and
   after its parent; child lists and payload index name exactly the blocks
   of the tree; a coherent block has coherent ancestors down to the root;
   nothing that could be committed is left; a missing ancestor of the high
   QC is being requested, down to the root and not below it; and the node
   gives up on its tree only if it is stuck. *)
TreeIsExact ==
  part = "tree" =>
       /\ Tree!TypeOK
       /\ Tree!CommittedIsChain
       /\ Tree!IndexesExact
       /\ Tree!CoherentPathToRoot
       /\ Tree!NothingLeftToCommit
       /\ Tree!RangeReachesRoot
       /\ Tree!MissingIsRequested
       /\ Tree!StatesyncOnlyIfStuck

(* Block sync: a range is worked on exactly while its requester wants it, is
   emitted once and never after it was cancelled; each of its missing
   payloads is requested, also if ranges share it; each request that waits
   has somebody to answer it; the requests for payloads that are out are at
   most in_flight, which is at most its limit (it may count more than are
   out: a payload that turns up in the tree does not give its slot back); and a peer that waits, waits for a fetch the ledger will answer. *)
RequestsTracked ==
  /\ part = "sync" =>
       /\ Sync!TypeOK
       /\ Sync!TracksWantedRanges
       /\ Sync!MissingPayloadIsRequested
       /\ Sync!EveryRequestIsDriven
       /\ Sync!InFlightWithinBounds
  /\ part = "sync_peers" => SyncPeers!PeersAreAnswered

(* Epochs across restarts, wherever between two events the node stops: every
   start round it holds is the one the committed boundary block fixes
   ("Conflicting epoch start round" never fires), Forkpoint::validate accepts
   every checkpoint, and once it has committed the last block of an epoch
   above the root it was started with, it has scheduled the next one. For a
   boundary block at or below that root the schedule is what the checkpoint
   says, and the one written with the boundary block leaves it out. While
   commits lag by at most MaxLag rounds, the leaders of the next rounds can
   be computed. *)
EpochsAgree ==
  part = "epochs" =>
       /\ Epoch!TypeOK
       /\ Epoch!StartsAgree
       /\ Epoch!ValidatorsReady
       /\ Epoch!ForkpointValid
       /\ Epoch!NextEpochScheduled


(* A transaction of a coherent block can always be executed, with its nonce
   and by a sender who can pay the whole of its fee, whatever the blocks
   executed in the meantime cost, before and after the cache of committed
   blocks was cut; the nonce expected next is exact wherever the policy
   finds it, and none of the panics of the lookups is reachable. *)
SolventExecution ==
  /\ part = "solvency" =>
       /\ Solvency(2)!TypeOK
       /\ Solvency(2)!SolventExecution
       /\ Solvency(2)!NonceExact
       /\ Solvency(2)!NoPanic
  /\ part = "solvency_cut" =>
       /\ Solvency(1)!TypeOK
       /\ Solvency(1)!SolventExecution
       /\ Solvency(1)!NonceExact
       /\ Solvency(1)!NoPanic
=============================================================================
