------------------------------- MODULE MCLive -------------------------------
(***************************************************************************)
(* What must eventually happen, for TLC, part by part.  What is fair in    *)
(* each part, and why, is stated in the component's module; a behaviour is *)
(* of one part, so that one weak-fairness condition serves the action of   *)
(* the same number in every part.                                          *)
(***************************************************************************)
EXTENDS VotePacing, Parts

CONSTANT RunParts   \* the parts of the run

Rec(id, seq, addr) == [id |-> id, seq |-> seq, addr |-> addr]
OneTarget == {[prefix |-> 1, target |-> 1]}
OneTx == {[a |-> 1, n |-> 0, tip |-> 1, gas |-> 1, val |-> 1]}

Archive == INSTANCE ArchiveWorkers WITH
  MaxBlock <- 1, NumTxs <- [b \in 0..9 |-> 1], GroupSize <- 2, Concurrency <- 1,
  Retention <- 1, HasFallback <- TRUE, SkipBad <- FALSE, StartOverride <- {},
  StopOverride <- 16, U64 <- 16, Faults <- {"put", "kill"}, MaxFaults <- 1,
  source <- v1, sink <- v2, aw <- v3, iw <- v4, faults <- v5

Blocks == INSTANCE BlockSync WITH
  Blocks <- 1..2, BodyId <- <<1, 2>>, SelfRanges <- {[last |-> 2, num |-> 2]},
  PeerRanges <- {[last |-> 2, num |-> 2]}, PeerPayloads <- {2}, Peers <- {},
  BLOCKSYNC_MAX_PAYLOAD_REQUESTS <- 1, MaxFetches <- 1, TreeBlocks <- {2},
  mode <- v1, headers <- v2, payloads <- v3, in_flight <- v4, completed <- v5,
  peer_headers <- v6, peer_payloads <- v7, tree <- v8, fetches <- v9, timers <- v10,
  wanted <- v11

Breaker == INSTANCE CircuitBreaker WITH
  Callers <- {"c1", "c2"}, Kinds <- {"block"}, FailureThreshold <- 2, RecoveryTimeout <- 1,
  MaxOutages <- 1,
  breaker <- v1, caller <- v2, up <- v3, outages <- v4, streak <- v5

Plane == INSTANCE Dataplane WITH
  Ips <- {"i1"}, Conns <- {"c1"}, BanDuration <- 1, Limit <- 1, PerIpLimit <- 1,
  IngressSize <- 1, MaxBans <- 2, MaxTrust <- 0, Peers <- {"p1"}, EgressSize <- 1,
  QueueLimit <- 1, MaxMsgs <- 2, MaxTasks <- 2, Lens <- {5}, Strides <- {2}, Targets <- {2},
  DefaultSegment <- 2, MaxWrite <- 5, MaxSegments <- 2, Window <- 1, UdpEgressSize <- 1,
  DirectSocket <- FALSE, MaxUdpMsgs <- 2,
  entries <- v1, expiry <- v2, queue <- v3, ticker <- v4, writer <- v5, conn <- v6,
  total <- v7, perIp <- v8, ingress <- v9, bans <- v10, trusts <- v11, expiring <- v12, egress <- v1,
  written <- v2, peer_channels <- v3, task <- v4, wire <- v5, fate <- v6, udp_egress <- v1,
  udp_call <- v2, udp_written <- v3, udp_dropped <- v4, udp_requested <- v5,
  udp_queue <- v6, udp_pc <- v7, udp_cur <- v8, udp_segment <- v9, udp_lead <- v10,
  udp_bucket <- v11, udp_out <- v12, udp_pos <- v13

Discovery == INSTANCE PeerDiscovery WITH
  Self <- "me", NUM_LOOKUP_PEERS <- 2, MAX_PEER_IN_RESPONSE <- 2, PruneThreshold <- 2,
  IdleThreshold <- 2, Pinned <- {}, MinPeers <- 1, MaxPeers <- 2,
  NUM_UPSTREAM_VALIDATORS <- 1, MaxEpoch <- 1, MaxRound <- 2, MaxLookups <- 1,
  Peers <- {"v1"}, Records <- {Rec("v1", 1, "a")}, Bootstrap <- {Rec("v1", 1, "a")},
  InitRole <- "FullNodeClient", ValidatorsOf <- [e \in 1..5 |-> {"v1"}],
  Inputs <- {"Raptorcast", "Round"}, MaxInFlight <- 1,
  pd <- v1

Casting == INSTANCE RaptorCast WITH
  Nodes <- {"self", "n1", "n2"}, Self <- "self", NoIp <- "NoIp", NEpochs <- 3,
  ValSet <- <<{"self", "n1"}, {"n1", "n2"}, {"self", "n2"}>>, Dynamic <- TRUE,
  Ips <- {"i0"}, Inputs <- {"Udp", "Tcp", "Emit", "Chan"}, MaxInputs <- 2,
  s <- v1

Serving == INSTANCE StateSync WITH
  Clients <- {"c1"}, Acks <- {"c1"}, Requests <- OneTarget, U <- 2,
  MAX_UPSERTS_PER_RESPONSE <- 1, MAX_PENDING_RESPONSES <- 2,
  MAX_UNACKNOWLEDGED_RESPONSES <- 1, RequestChannel <- 1, ResponseChannel <- 1,
  MaxRequests <- 1, MaxResets <- 0, MaxEmpty <- 1, Peers <- {"p1", "p2"},
  AllPrefixes <- {1}, MaxTarget <- 1, max_parallel_requests <- 1, MaxTimeouts <- 1,
  MaxFails <- 0, MaxUpgrades <- 0,
  request_tx <- v1, response_rx <- v2, pending_requests <- v3, wip <- v4, execution <- v5,
  nonces <- v6, net <- v7, received <- v8, asked <- v9, resets <- v10, panicked <- v11,
  peers <- v1, pending <- v2, inflight <- v3, prefix_peers <- v4, target <- v5, mode <- v6,
  done <- v7, toThread <- v8, fromThread <- v9, current_target <- v10, next_target <- v11,
  ctx <- v12, version <- v13, inbox <- v14, queue <- v15, client_wip <- v16, outbox <- v17,
  sessions <- v18, timeouts <- v19, fails <- v20, upgrades <- v21, client_panicked <- v22

(* A client of two servers, with bounds on its targets, on timeouts of requests
   that are being served, on sessions given up and on restarted servers.      *)
Fetching(targets, slow, failing, restarted) == INSTANCE StateSync WITH
  Clients <- {"c1"}, Acks <- {"c1"}, Requests <- OneTarget, U <- 1,
  MAX_UPSERTS_PER_RESPONSE <- 1, MAX_PENDING_RESPONSES <- 2,
  MAX_UNACKNOWLEDGED_RESPONSES <- 1, RequestChannel <- 1, ResponseChannel <- 1,
  MaxRequests <- 1, MaxResets <- 0, MaxEmpty <- 1, Peers <- {"p1", "p2"},
  AllPrefixes <- {1}, MaxTarget <- targets, max_parallel_requests <- 1, MaxTimeouts <- slow,
  MaxFails <- failing, MaxUpgrades <- restarted,
  request_tx <- v1, response_rx <- v2, pending_requests <- v3, wip <- v4, execution <- v5,
  nonces <- v6, net <- v7, received <- v8, asked <- v9, resets <- v10, panicked <- v11,
  peers <- v1, pending <- v2, inflight <- v3, prefix_peers <- v4, target <- v5, mode <- v6,
  done <- v7, toThread <- v8, fromThread <- v9, current_target <- v10, next_target <- v11,
  ctx <- v12, version <- v13, inbox <- v14, queue <- v15, client_wip <- v16, outbox <- v17,
  sessions <- v18, timeouts <- v19, fails <- v20, upgrades <- v21, client_panicked <- v22

Mode == INSTANCE SyncMode WITH
  Length <- 8, Delay <- 2, Threshold <- 2, ForkSeq <- 4, Skips <- {4}, Roots <- {3},
  MaxCrashes <- 0,
  mode <- v1, root <- v2, high <- v3, full_blocks <- v4, block_headers <- v5,
  proposal_buffer <- v6, db_status <- v7, updating_target <- v8, loopback <- v9,
  requested <- v10, thread <- v11, latest <- v12, ledger <- v13, tree <- v14, round <- v15,
  highest_vote <- v16, votes <- v17, received <- v18, forkpoint <- v19, crashes <- v20,
  panicked <- v21

Bridging == INSTANCE TxPoolBridge WITH
  Accounts <- {1}, Balance <- <<2>>, GasLimit <- 3, ByteLimit <- 3, TxLimit <- 2,
  MaxPending <- 2, SoftMark <- 3, SoftExpiry <- 0, HardExpiry <- 1, MaxTracked <- 1,
  MaxTxs <- 2, MinSeqDiff <- 0, MaxRetries <- 0, MaxBatch <- 1, TxSet <- OneTx,
  Inputs <- {}, MaxCommits <- 1, QueueCap <- 1, EvictAfter <- 1, MaxSubmits <- 1,
  MaxCrashes <- 2,
  p <- v1, b <- v2

Executing == INSTANCE TxPoolExecutor WITH
  CommandCap <- 1, EventCap <- 1, BatchMax <- 2, IngressMax <- 2, IngressChunk <- 1,
  EgressMax <- 1, Inputs <- {"Reset", "Propose", "Commit", "Forwarded"}, MaxCommands <- 2,
  MaxTxs <- 2, Accounts <- {1, 2}, Chunk <- 1, MaxRound <- 1, MaxSeq <- 1,
  executor <- v1, preload <- v1

everything == <<all, vars>>

AllInit ==
  /\ part \in RunParts
  /\ Init
  /\ \/ part = "vote_pacing" /\ v1 = 0 /\ idle2
     \/ part = "archive" /\ Archive!Init /\ idle6
     \/ part = "blocks" /\ Blocks!Init /\ idle12
     \/ part = "breaker" /\ Breaker!Init /\ idle6
     \/ part = "tcp_rx" /\ Plane!RxInit /\ idle13
     \/ part = "tcp_tx" /\ Plane!TxInit /\ idle7
     \/ part = "udp_tx" /\ Plane!UdpInit /\ idle14
     \/ part = "discovery" /\ Discovery!Init /\ idle2
     \/ part = "raptorcast" /\ Casting!Init /\ idle2
     \/ part = "statesync_server" /\ Serving!IpcInit /\ idle12
     \/ part = "statesync_client" /\ Fetching(1, 1, 1, 0)!ClientInit
     \/ part = "statesync_targets" /\ Fetching(2, 0, 0, 1)!ClientInit
     \/ part = "mode" /\ Mode!Init /\ idle22
     \/ part = "bridge" /\ Bridging!BInit /\ idle3
     \/ part = "executor" /\ Executing!Init /\ idle2
     \/ part = "preload" /\ Executing!PreloadInit /\ idle2

AllNext ==
  \/ part = "vote_pacing" /\ Next /\ UNCHANGED all
  \/ part = "archive" /\ Archive!Next /\ UNCHANGED <<part, rest6, vars>>
  \/ part = "blocks" /\ Blocks!Next /\ UNCHANGED <<part, rest12, vars>>
  \/ part = "breaker" /\ Breaker!Next /\ UNCHANGED <<part, rest6, vars>>
  \/ part = "tcp_rx" /\ Plane!RxNext /\ UNCHANGED <<part, rest13, vars>>
  \/ part = "tcp_tx" /\ Plane!TxNext /\ UNCHANGED <<part, rest7, vars>>
  \/ part = "udp_tx" /\ Plane!UdpNext /\ UNCHANGED <<part, rest14, vars>>
  \/ part = "discovery" /\ Discovery!Next /\ UNCHANGED <<part, rest2, vars>>
  \/ part = "raptorcast" /\ Casting!Next /\ UNCHANGED <<part, rest2, vars>>
  \/ part = "statesync_server" /\ Serving!IpcNext /\ UNCHANGED <<part, rest12, vars>>
  \/ part = "statesync_client" /\ Fetching(1, 1, 1, 0)!ClientNext /\ UNCHANGED <<part, vars>>
  \/ part = "statesync_targets" /\ Fetching(2, 0, 0, 1)!ClientNext /\ UNCHANGED <<part, vars>>
  \/ part = "mode" /\ Mode!Next /\ UNCHANGED <<part, rest22, vars>>
  \/ part = "bridge" /\ Bridging!BNext /\ UNCHANGED <<part, rest3, vars>>
  \/ part = "executor" /\ Executing!Next /\ UNCHANGED <<part, rest2, vars>>
  \/ part = "preload" /\ Executing!PreloadNext /\ UNCHANGED <<part, rest2, vars>>
  \/ Rest({"archive", "blocks", "breaker", "tcp_rx", "tcp_tx", "udp_tx", "discovery", "raptorcast", "statesync_server", "statesync_client", "statesync_targets", "mode", "bridge", "executor", "preload"}) /\ UNCHANGED vars

AllSpec == AllInit /\ [][AllNext]_everything

FairStep(i) ==
  \/ part = "vote_pacing" /\ Fair(i) /\ UNCHANGED all
  \/ part = "archive" /\ Archive!Fair(i) /\ UNCHANGED <<part, rest6, vars>>
  \/ part = "breaker" /\ Breaker!Fair(i) /\ UNCHANGED <<part, rest6, vars>>
  \/ part = "tcp_rx" /\ Plane!RxFair(i) /\ UNCHANGED <<part, rest13, vars>>
  \/ part = "tcp_tx" /\ Plane!TxFair(i) /\ UNCHANGED <<part, rest7, vars>>
  \/ part = "udp_tx" /\ Plane!UdpFair(i) /\ UNCHANGED <<part, rest14, vars>>
  \/ part = "discovery" /\ Discovery!Fair(i) /\ UNCHANGED <<part, rest2, vars>>
  \/ part = "raptorcast" /\ Casting!Fair(i) /\ UNCHANGED <<part, rest2, vars>>
  \/ part = "statesync_server" /\ Serving!IpcFair(i) /\ UNCHANGED <<part, rest12, vars>>
  \/ part = "statesync_client" /\ Fetching(1, 1, 1, 0)!ClientFair(i) /\ UNCHANGED <<part, vars>>
  \/ part = "statesync_targets" /\ Fetching(2, 0, 0, 1)!ClientFair(i) /\ UNCHANGED <<part, vars>>
  \/ part = "bridge" /\ Bridging!BFair(i) /\ UNCHANGED <<part, rest3, vars>>
  \/ part = "executor" /\ Executing!Fair(i) /\ UNCHANGED <<part, rest2, vars>>
  \/ part = "preload" /\ Executing!PreloadFair(i) /\ UNCHANGED <<part, rest2, vars>>

LiveSpec ==
  /\ AllSpec
  /\ \A i \in 1..9 : WF_everything(FairStep(i))
  /\ WF_v9(part = "blocks" /\ Blocks!LedgerAnswers)
  /\ WF_v10(part = "blocks" /\ Blocks!PeerHasBlocks)
  /\ WF_v10(part = "mode" /\ Mode!BlockSyncEnds)
  /\ WF_v9(part = "mode" /\ Mode!LoopbackPolled)
  /\ WF_v11(part = "mode" /\ Mode!ThreadEnds)
  /\ WF_v11(part = "mode" /\ Mode!DonePolled)

(* The archive reaches every block the source finalizes, however often the *)
(* archiver was killed or the store failed.                                *)
EverythingUploaded ==
  <>[](part = "archive" => v2.latest = 1)

(* A range that is asked for is emitted, unless it is cancelled or a payload
   that is in flight appears in the block tree: its slot is not given back
   (blocksync.rs:528), and with all slots lost no payload is asked for.     *)
WantedRangeIsServed ==
  LET range == [last |-> 2, num |-> 2]
  IN (part = "blocks" /\ range \in v11) ~> (part = "blocks" /\ (range \notin v11 \/ v4 > Cardinality(Blocks!Initiated)))

(* Once the primary stays up, the breaker closes, whatever calls from the  *)
(* outage still have to be recorded: the fallback is not used for ever.    *)
PrimaryUsedAgain ==
  <>[](part = "breaker" => v1["block"].state = "Closed")

\* Every ban ends: with finitely many calls of ban, each address is eventually not banned for good.
BansEnd ==
  <>[](part = "tcp_rx" => v1["i1"].age = Plane!Never)

\* A connection that was sent a disconnect ends, also when it was waiting for room in the
\* ingress channel.
DisconnectEnds ==
  (part = "tcp_rx" /\ v6["c1"].ctl) ~> (part = "tcp_rx" /\ v6["c1"].pc = "ended")

\* Every message the node writes is eventually sent or given up; none waits for ever behind
\* a peer that does not answer.
EverySettled ==
  \A n \in 1..2 : (part = "tcp_tx" /\ v6[n] = "queued") ~> (part = "tcp_tx" /\ v6[n] # "queued")

\* Round robin: every message the channel took leaves the queue in the end. That it
\* was then sent whole or cut off is Accounted, part of UdpPaced in the network run.
EveryServed ==
  \A n \in 1..2 :
    (part = "udp_tx" /\ \E i \in DOMAIN v6 : v6[i].n = n)
      ~> (part = "udp_tx" /\ (\A i \in DOMAIN v6 : v6[i].n # n) /\ v8.n # n)

(* Nothing stays pending: every record that waits for its pong is promoted *)
(* or dropped.                                                             *)
PendingResolved ==
  (part = "discovery" /\ "v1" \in DOMAIN v1.pending)
    ~> (part = "discovery" /\ "v1" \notin DOMAIN v1.pending)

(* A request to a validator ends: it is answered or given up.              *)
RequestEnds ==
  LET waiting == "v1" \in DOMAIN v1.part /\ v1.part["v1"].status = "Pending"
  IN (part = "discovery" /\ v1.role = "FullNodeClient" /\ waiting) ~> (part = "discovery" /\ ~ waiting)

(* Every input is consumed: no source is left with an item it will not be
   polled for, whatever arrived between the steps of a poll. *)
AllConsumed ==
  <>[](part = "raptorcast" =>
         /\ v1.udp = <<>> /\ v1.tcp = <<>> /\ v1.pending_events = <<>>
         /\ v1.emit = 0 /\ v1.chan = 0)

(* A session ends, also when the client never acknowledges: waiting for
   completions, acknowledgements and space never blocks for ever.          *)
SessionsEnd ==
  (part = "statesync_server" /\ v4 # Serving!NoWip) ~> (part = "statesync_server" /\ v4 = Serving!NoWip)

(* State sync ends: after a target was set the last target is reached, with
   requests that time out, a session that a server gives up, a target that
   replaces the first, or a server that restarts with other versions. One
   case does not end: the client stops at "peer not found" when the server
   it fixed for a prefix comes back with versions it does not know.        *)
ReachesTarget ==
  LET fetching == part \in {"statesync_client", "statesync_targets"}
  IN (fetching /\ v5 > v7) ~> (fetching /\ (v7 = v5 \/ v22 = "peer not found"))

(* A node that syncs goes Live, or stops at the assertion on the database
   status when blocks have to be fetched once more (lib.rs:1020). It stops
   nowhere else.                                                           *)
SyncCompletes ==
  <>(part = "mode" => v1 = "Live" \/ v21 = "db_status")

(* A bridge that saw the node come back is connected again, unless the node
   goes down once more. *)
SeenRestartReconnects ==
  (part = "bridge" /\ v2.ipc = "BrokenPipe" /\ v2.created) ~> (part = "bridge" /\ (v2.ipc = "Ready" \/ ~ v2.up))

(* After the reset everything that arrived is dealt with. *)
AllServed ==
  []<>(part = "executor" => (v1.has_been_reset => Executing!Drained))

(* Every requested account is read, or its number is given up. *)
AllRead ==
  (part = "preload" /\ Executing!Ready(v1) # {})
    ~> (part = "preload" /\ Executing!Ready(v1) = {})

(* Bans end, a connection that was told to disconnect ends, every message
   asked for is settled or served although peers and sockets fail, every
   event of the network is consumed, and discovery resolves each pending
   peer and each request to take part. *)
TransportLive ==
  /\ BansEnd
  /\ DisconnectEnds
  /\ EverySettled
  /\ EveryServed
  /\ AllConsumed
  /\ PendingResolved
  /\ RequestEnds

(* A wanted range of blocks is served, sessions of a state sync server end, a
   state sync client reaches its target, and a node that syncs goes Live, but
   for the three cases named above in which the code stops or loses a slot. *)
SyncLive ==
  /\ WantedRangeIsServed
  /\ SessionsEnd
  /\ ReachesTarget
  /\ SyncCompletes

(* A bridge that saw the node restart reconnects, and the pool deals with all
   it was given and reads all balances it needs. *)
PoolLive ==
  /\ SeenRestartReconnects
  /\ AllServed
  /\ AllRead

(* Everything is archived although writes fail and the worker is killed, and
   readers come back to the primary archive after an outage. *)
ServicesLive ==
  /\ EverythingUploaded
  /\ PrimaryUsedAgain
=============================================================================
