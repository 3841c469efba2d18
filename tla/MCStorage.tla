----------------------------- MODULE MCStorage ------------------------------
(***************************************************************************)
(* What a node keeps and serves, for TLC, part by part: the ledger of a    *)
(* process that may stop, the write-ahead log and its encoding, state      *)
(* sync, and the transaction pool with its executor and its bridge to the  *)
(* RPC server.                                                             *)
(***************************************************************************)
EXTENDS Ledger, Parts

CONSTANT RunParts   \* the parts of the run

CONSTANTS
  LogEvents,    \* the events that are encoded and logged
  Upserts,      \* how many upserts make up a prefix, when they are fetched
  ServerFails   \* bound on the sessions a server of state sync gives up

(* The events of the write-ahead log without the one kind that the log
   cannot be read past, which is the subject of a run of its own.       *)
AnyEvent == INSTANCE Codec WITH Events <- {}, stage <- v1, sent <- v2, item <- v3, got <- v4, zstd <- v5
IsProposal(e) == e[1] = "MempoolEvent" /\ e[2][1][1] = "Proposal"
ReadableEvents == {e \in AnyEvent!Values("MonadEvent") : ~ IsProposal(e)}
ProposalEvents == {e \in AnyEvent!Values("MonadEvent") : IsProposal(e)}

(* A smaller ledger for the process that stops anywhere, twice: b1 <- b2, and
   b3, of the same round as b2, with the body of b1.                        *)
StoppedIds == {"b1", "b2", "b3"}
StoppedParent == [b1 |-> "genesis", b2 |-> "b1", b3 |-> "b1"]
StoppedSeqNum == [b1 |-> 1, b2 |-> 2, b3 |-> 2]
StoppedRound == [b1 |-> 1, b2 |-> 3, b3 |-> 3]
StoppedBody == [b1 |-> "p1", b2 |-> "p2", b3 |-> "p1"]
StoppedRanges == {[last |-> b, num |-> n] : b \in {"b2", "b3"}, n \in {2, 3}}

OneTarget == {[prefix |-> 1, target |-> 1]}
TwoTargets == {[prefix |-> 1, target |-> 1], [prefix |-> 1, target |-> 2]}

(* Two transactions compete for the first nonce of account 1, which also has
   a second nonce; account 2 has one or two.                                *)
Tx(a, n, tip, gas, val) == [a |-> a, n |-> n, tip |-> tip, gas |-> gas, val |-> val]
FewTxs == {Tx(1, 0, 1, 1, 1), Tx(1, 0, 2, 1, 1), Tx(1, 1, 2, 2, 1), Tx(2, 0, 1, 1, 1)}
AllTxs == FewTxs \cup {Tx(2, 1, 3, 2, 2)}
TinyTxs == {Tx(1, 0, 1, 1, 1), Tx(1, 0, 2, 1, 1), Tx(2, 0, 1, 1, 1)}
TwoTxs == {Tx(1, 0, 1, 1, 1), Tx(1, 0, 2, 1, 1)}

LogFiles == INSTANCE Wal WITH
  MaxFileSize <- 5, Sizes <- {1, 2, 6}, MaxEvents <- 4, MaxStarts <- 2, sync <- FALSE,
  files <- v1, curr_file_index <- v2, curr_file_offset <- v3, synced <- v4, unwritten <- v5,
  pushed <- v6, handled <- v7, starts <- v8, status <- v9

Wire == INSTANCE Codec WITH
  Events <- LogEvents,
  stage <- v1, sent <- v2, item <- v3, got <- v4, zstd <- v5

Serving == INSTANCE StateSync WITH
  Clients <- {"c1"}, Acks <- {"c1"}, Requests <- OneTarget, U <- 3,
  MAX_UPSERTS_PER_RESPONSE <- 1, MAX_PENDING_RESPONSES <- 2,
  MAX_UNACKNOWLEDGED_RESPONSES <- 2, RequestChannel <- 2, ResponseChannel <- 1,
  MaxRequests <- 2, MaxResets <- 1, MaxEmpty <- 2, Peers <- {"p1", "p2"},
  AllPrefixes <- {1}, MaxTarget <- 1, max_parallel_requests <- 1, MaxTimeouts <- 1,
  MaxFails <- 1, MaxUpgrades <- 1,
  request_tx <- v1, response_rx <- v2, pending_requests <- v3, wip <- v4, execution <- v5,
  nonces <- v6, net <- v7, received <- v8, asked <- v9, resets <- v10, panicked <- v11,
  peers <- v1, pending <- v2, inflight <- v3, prefix_peers <- v4, target <- v5, mode <- v6,
  done <- v7, toThread <- v8, fromThread <- v9, current_target <- v10, next_target <- v11,
  ctx <- v12, version <- v13, inbox <- v14, queue <- v15, client_wip <- v16, outbox <- v17,
  sessions <- v18, timeouts <- v19, fails <- v20, upgrades <- v21, client_panicked <- v22

Asking == INSTANCE StateSync WITH
  Clients <- {"c1", "c2"}, Acks <- {"c1"}, Requests <- TwoTargets, U <- 1,
  MAX_UPSERTS_PER_RESPONSE <- 2, MAX_PENDING_RESPONSES <- 2,
  MAX_UNACKNOWLEDGED_RESPONSES <- 2, RequestChannel <- 2, ResponseChannel <- 1,
  MaxRequests <- 3, MaxResets <- 0, MaxEmpty <- 0, Peers <- {"p1"}, AllPrefixes <- {1, 2},
  MaxTarget <- 2, max_parallel_requests <- 2, MaxTimeouts <- 1, MaxFails <- 1,
  MaxUpgrades <- 1,
  request_tx <- v1, response_rx <- v2, pending_requests <- v3, wip <- v4, execution <- v5,
  nonces <- v6, net <- v7, received <- v8, asked <- v9, resets <- v10, panicked <- v11,
  peers <- v1, pending <- v2, inflight <- v3, prefix_peers <- v4, target <- v5, mode <- v6,
  done <- v7, toThread <- v8, fromThread <- v9, current_target <- v10, next_target <- v11,
  ctx <- v12, version <- v13, inbox <- v14, queue <- v15, client_wip <- v16, outbox <- v17,
  sessions <- v18, timeouts <- v19, fails <- v20, upgrades <- v21, client_panicked <- v22

Fetching == INSTANCE StateSync WITH
  Clients <- {"c1"}, Acks <- {"c1"}, Requests <- OneTarget, U <- Upserts,
  MAX_UPSERTS_PER_RESPONSE <- 1, MAX_PENDING_RESPONSES <- 2,
  MAX_UNACKNOWLEDGED_RESPONSES <- 2, RequestChannel <- 2, ResponseChannel <- 1,
  MaxRequests <- 2, MaxResets <- 1, MaxEmpty <- 2, Peers <- {"p1", "p2"},
  AllPrefixes <- {1}, MaxTarget <- 1, max_parallel_requests <- 1, MaxTimeouts <- 1,
  MaxFails <- ServerFails, MaxUpgrades <- 1,
  request_tx <- v1, response_rx <- v2, pending_requests <- v3, wip <- v4, execution <- v5,
  nonces <- v6, net <- v7, received <- v8, asked <- v9, resets <- v10, panicked <- v11,
  peers <- v1, pending <- v2, inflight <- v3, prefix_peers <- v4, target <- v5, mode <- v6,
  done <- v7, toThread <- v8, fromThread <- v9, current_target <- v10, next_target <- v11,
  ctx <- v12, version <- v13, inbox <- v14, queue <- v15, client_wip <- v16, outbox <- v17,
  sessions <- v18, timeouts <- v19, fails <- v20, upgrades <- v21, client_panicked <- v22

Pooling == INSTANCE TxPool WITH
  Accounts <- {1, 2}, Balance <- <<2, 2>>, GasLimit <- 3, ByteLimit <- 3, TxLimit <- 2,
  MaxPending <- 2, SoftMark <- 3, SoftExpiry <- 0, HardExpiry <- 1, MaxTracked <- 1,
  MaxTxs <- 2, MinSeqDiff <- 0, MaxRetries <- 0, MaxBatch <- 1, TxSet <- FewTxs,
  Inputs <- {"Insert", "Promote", "Commit", "Propose"}, MaxCommits <- 3,
  p <- v1

Proposing == INSTANCE TxPool WITH
  Accounts <- {1, 2}, Balance <- <<2, 2>>, GasLimit <- 3, ByteLimit <- 3, TxLimit <- 2,
  MaxPending <- 2, SoftMark <- 3, SoftExpiry <- 0, HardExpiry <- 1, MaxTracked <- 2,
  MaxTxs <- 3, MinSeqDiff <- 0, MaxRetries <- 0, MaxBatch <- 1, TxSet <- AllTxs,
  Inputs <- {"Insert", "Commit"}, MaxCommits <- 1,
  p <- v1

Forwarding == INSTANCE TxPool WITH
  Accounts <- {1, 2}, Balance <- <<2, 2>>, GasLimit <- 3, ByteLimit <- 3, TxLimit <- 2,
  MaxPending <- 2, SoftMark <- 3, SoftExpiry <- 0, HardExpiry <- 1, MaxTracked <- 1,
  MaxTxs <- 2, MinSeqDiff <- 1, MaxRetries <- 1, MaxBatch <- 1, TxSet <- TinyTxs,
  Inputs <- {"Insert", "Foreign", "Commit", "Propose", "Tick"}, MaxCommits <- 3,
  p <- v1

Bridging == INSTANCE TxPoolBridge WITH
  Accounts <- {1}, Balance <- <<2>>, GasLimit <- 3, ByteLimit <- 3, TxLimit <- 2,
  MaxPending <- 2, SoftMark <- 3, SoftExpiry <- 0, HardExpiry <- 1, MaxTracked <- 1,
  MaxTxs <- 2, MinSeqDiff <- 0, MaxRetries <- 0, MaxBatch <- 1, TxSet <- TwoTxs,
  Inputs <- {"Commit", "Propose", "Promote", "Tick"}, MaxCommits <- 2, QueueCap <- 1,
  EvictAfter <- 1, MaxSubmits <- 2, MaxCrashes <- 1,
  p <- v1, b <- v2

Executing == INSTANCE TxPoolExecutor WITH
  CommandCap <- 2, EventCap <- 1, BatchMax <- 2, IngressMax <- 3, IngressChunk <- 1,
  EgressMax <- 2, Inputs <- {"Reset", "Propose", "Failed", "Commit", "Forwarded"},
  MaxCommands <- 2, MaxTxs <- 3, Accounts <- {1, 2}, Chunk <- 1, MaxRound <- 2, MaxSeq <- 2,
  executor <- v1, preload <- v1

everything == <<all, vars>>

AllInit ==
  /\ part \in RunParts
  /\ Init
  /\ \/ part = "ledger" /\ v1 = 0 /\ idle2
     \/ part = "wal" /\ LogFiles!Init /\ idle10
     \/ part = "codec" /\ Wire!Init /\ idle6
     \/ part = "statesync_server" /\ Serving!IpcInit /\ idle12
     \/ part = "statesync_requests" /\ Asking!IpcInit /\ idle12
     \/ part = "statesync_client" /\ Fetching!ClientInit
     \/ part = "statesync_targets" /\ Asking!ClientInit
     \/ part = "txpool" /\ Pooling!Init /\ idle2
     \/ part = "txpool_proposals" /\ Proposing!Init /\ idle2
     \/ part = "txpool_forwards" /\ Forwarding!Init /\ idle2
     \/ part = "bridge" /\ Bridging!BInit /\ idle3
     \/ part = "executor" /\ Executing!Init /\ idle2
     \/ part = "preload" /\ Executing!PreloadInit /\ idle2

AllNext ==
  \/ part = "ledger" /\ Next /\ UNCHANGED all
  \/ part = "wal" /\ LogFiles!Next /\ UNCHANGED <<part, rest10, vars>>
  \/ part = "codec" /\ Wire!Next /\ UNCHANGED <<part, rest6, vars>>
  \/ part = "statesync_server" /\ Serving!IpcNext /\ UNCHANGED <<part, rest12, vars>>
  \/ part = "statesync_requests" /\ Asking!IpcNext /\ UNCHANGED <<part, rest12, vars>>
  \/ part = "statesync_client" /\ Fetching!ClientNext /\ UNCHANGED <<part, vars>>
  \/ part = "statesync_targets" /\ Asking!ClientNext /\ UNCHANGED <<part, vars>>
  \/ part = "txpool" /\ Pooling!Next /\ UNCHANGED <<part, rest2, vars>>
  \/ part = "txpool_proposals" /\ Proposing!Next /\ UNCHANGED <<part, rest2, vars>>
  \/ part = "txpool_forwards" /\ Forwarding!Next /\ UNCHANGED <<part, rest2, vars>>
  \/ part = "bridge" /\ Bridging!BNext /\ UNCHANGED <<part, rest3, vars>>
  \/ part = "executor" /\ Executing!Next /\ UNCHANGED <<part, rest2, vars>>
  \/ part = "preload" /\ Executing!PreloadNext /\ UNCHANGED <<part, rest2, vars>>
  \/ Rest({"wal", "codec", "statesync_server", "statesync_requests", "statesync_client", "statesync_targets", "txpool", "txpool_proposals", "txpool_forwards", "bridge", "executor", "preload"}) /\ UNCHANGED vars

AllSpec == AllInit /\ [][AllNext]_everything

(* Whatever stops the node, the write-ahead log can be read, and what is read
   is the beginning of what was pushed, without a gap: a rotation cuts no
   event and a torn event ends the log; what was handled is in it unless
   the machine lost what was not synced. *)
LogIsPrefix ==
  part = "wal" => LogFiles!TypeOK /\ LogFiles!LogIsPrefix /\ LogFiles!HandledIsLogged

(* A receiver gets the message that was sent and the log the event that was
   handled, apart from what the encoders leave out on purpose: no two
   variants share a tag, nothing is read in another order or as another
   type, and the hand-written lengths are the ones encode writes. The one
   event that is not read back, a proposal, is left to LogReadBack below. *)
EncodedIsDecoded ==
  part = "codec" => Wire!WireRoundTrip /\ Wire!LogReadBack /\ Wire!LengthsAgree

(* State sync. The server: what the execution client sends is for the session
   at hand, dropped chunks leave a gap in the index, and back pressure is
   bounded. The client: its assertions hold, but for two that fail when its
   servers come back with unknown versions and not otherwise, a prefix has
   one request however often it is retried, and what waits for the thread
   comes from the peer fixed for its prefix. *)
StateSyncExact ==
  /\ part = "statesync_server" =>
       /\ Serving!IpcTypeOK
       /\ Serving!ExecutionMatchesSession
       /\ Serving!NoHiddenGap
       /\ Serving!BackPressure
  /\ part = "statesync_requests" => Asking!ExecutionMatchesSession /\ Asking!NoDuplicateRequests
  /\ part = "statesync_client" =>
       /\ Fetching!AssertionsHold
       /\ Fetching!OnlyUpgradesStop
       /\ Fetching!OneRequestPerPrefix
       /\ Fetching!ResponsesFromPrefixPeer
  /\ part = "statesync_targets" =>
       /\ Asking!ClientTypeOK
       /\ Asking!AssertionsHold
       /\ Asking!OnlyUpgradesStop
       /\ Asking!OneRequestPerPrefix

(* The transaction pool: the nonce kept with a tracked account is that of the
   committed chain; an account is pending or tracked, never both; counters
   and maps stay within their sizes; a proposal is one the block policy
   accepts and leaves out nothing that fits; and a transaction is forwarded
   a bounded number of times, however it moves between the maps. *)
PoolMatchesChain ==
  /\ part = "txpool" =>
       /\ Pooling!TypeOK
       /\ Pooling!TrackedNonceCurrent
       /\ Pooling!PendingNotTracked
       /\ Pooling!Bounded
  /\ part = "txpool_proposals" => Proposing!ProposalValid /\ Proposing!ProposalMaximal
  /\ part = "txpool_forwards" => Forwarding!ForwardedBoundedly

(* Around the pool. The bridge shows as alive only what is in the pool once
   the events have arrived, through expiry, a full queue, a crash and a
   reconnection, and no status stays for ever. The executor keeps what it
   sends on again within the size of a message (what a batch of clients
   brings is bounded in number only, lib.rs:511), looks at no transaction before the reset, and never sleeps on
   undone work; preloading reads each balance once, ahead of the commit. *)
PoolServed ==
  /\ part = "bridge" =>
       /\ Bridging!ShownIsHeld
       /\ Bridging!StatusExpires
       /\ Bridging!IndexCurrent
  /\ part = "executor" =>
       /\ Executing!TypeOK
       /\ Executing!ChunkFits
       /\ Executing!NothingBeforeReset
       /\ Executing!NothingAsleep
  /\ part = "preload" =>
       /\ Executing!PreloadTypeOK
       /\ Executing!ReadsAhead
       /\ Executing!ReadOnce
       /\ Executing!PreloadNothingAsleep


(* "state root doesn't match, are peers trusted?": when the target is
   reached, every upsert of every range has been applied.                  *)
StateRootMatches == part = "statesync_client" => Fetching!StateRootMatches

(* What the node handled can be read back from its log.                    *)
LogReadBack == part = "codec" => Wire!LogReadBack

(* The events of a call are an output of the pool: no call depends on those of
   an earlier one.                                                          *)
AllView ==
  <<part, l, IF part \in {"txpool", "txpool_proposals", "txpool_forwards"}
             THEN [v1 EXCEPT !.ev = 0] ELSE v1, rest2>>
=============================================================================
