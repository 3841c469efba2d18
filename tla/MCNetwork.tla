----------------------------- MODULE MCNetwork ------------------------------
(***************************************************************************)
(* The network of a node for TLC: what carries messages between nodes, part *)
(* by part.                                                                 *)
(***************************************************************************)
EXTENDS Parts

CONSTANT RunParts   \* the parts of the run

Key(author, honest, broadcast, id) ==
  [author |-> author, honest |-> honest, broadcast |-> broadcast, id |-> id]
Invite(v, start, end, size) == [v |-> v, start |-> start, end |-> end, size |-> size]
InvitesTwo == {Invite("v", 1, 3, 2), Invite("v", 3, 5, 2), Invite("w", 2, 4, 2)}
InvitesBounds ==
  {Invite("v", 1, 3, 2), Invite("w", 2, 4, 3), Invite("w", 2, 3, 2), Invite("w", 4, 4, 2)}
Rec(id, seq, addr) == [id |-> id, seq |-> seq, addr |-> addr]

DP == INSTANCE Dataplane WITH
  Ips <- {"i1"}, Conns <- {"c1", "c2"}, BanDuration <- 1, Limit <- 1, PerIpLimit <- 1,
  IngressSize <- 1, MaxBans <- 2, MaxTrust <- 1, Peers <- {"p1", "p2"}, EgressSize <- 1,
  QueueLimit <- 2, MaxMsgs <- 3, MaxTasks <- 3, Lens <- {6}, Strides <- {2, 3},
  Targets <- {2}, DefaultSegment <- 2, MaxWrite <- 5, MaxSegments <- 2, Window <- 1,
  UdpEgressSize <- 1, DirectSocket <- TRUE, MaxUdpMsgs <- 3,
  entries <- v1, expiry <- v2, queue <- v3, ticker <- v4, writer <- v5, conn <- v6,
  total <- v7, perIp <- v8, ingress <- v9, bans <- v10, trusts <- v11, expiring <- v12, egress <- v1,
  written <- v2, peer_channels <- v3, task <- v4, wire <- v5, fate <- v6, udp_egress <- v1,
  udp_call <- v2, udp_written <- v3, udp_dropped <- v4, udp_requested <- v5,
  udp_queue <- v6, udp_pc <- v7, udp_cur <- v8, udp_segment <- v9, udp_lead <- v10,
  udp_bucket <- v11, udp_out <- v12, udp_pos <- v13

Caches == INSTANCE Udp WITH
  Nodes <- 1..4, Stake <- <<1, 2, 0, 3>>, Known <- {1, 3, 4}, MessageLens <- {1, 5, 7, 20},
  DataSize <- 2, SourceSymbolsMin <- 2, SourceSymbolsMax <- 5, FracUnit <- 2,
  Redundancies <- {2, 3, 5}, MaxRedundancy <- 6, MaxNumPackets <- 15, U16 <- 16,
  Keys <- {Key("a", TRUE, TRUE, 1), Key("b", FALSE, TRUE, 2)}, Authors <- {"a", "b"},
  Self <- "self", Esis <- {0, 1, 3}, OwnEsis <- {0, 3}, Lens <- {1, 2}, Capacity <- 2, Need <- 1,
  PendingSize <- 1, RecentSize <- 1, MaxChunks <- 1, MaxForget <- 2,
  build_pc <- v1, build_target <- v2, sources <- v3, packets <- v4, todo <- v5,
  running <- v6, start <- v7, idx <- v8, packet <- v9, gso <- v10, udp <- v1

Batches == INSTANCE Udp WITH
  Nodes <- 1..4, Stake <- <<1, 2, 0, 3>>, Known <- {1, 3, 4}, MessageLens <- {1, 5, 7, 20},
  DataSize <- 2, SourceSymbolsMin <- 2, SourceSymbolsMax <- 5, FracUnit <- 2,
  Redundancies <- {2, 3, 5}, MaxRedundancy <- 6, MaxNumPackets <- 15, U16 <- 16,
  Keys <- {Key("a", TRUE, TRUE, 1), Key("a", TRUE, TRUE, 2), Key("b", TRUE, FALSE, 3)},
  Authors <- {"a", "b"}, Self <- "self", Esis <- {0}, OwnEsis <- {0}, Lens <- {1}, Capacity <- 2, Need <- 1,
  PendingSize <- 1, RecentSize <- 1, MaxChunks <- 3, MaxForget <- 2,
  build_pc <- v1, build_target <- v2, sources <- v3, packets <- v4, todo <- v5,
  running <- v6, start <- v7, idx <- v8, packet <- v9, gso <- v10, udp <- v1

Addresses == INSTANCE RaptorCast WITH
  Nodes <- {"self", "n1", "n2"}, Self <- "self", NoIp <- "NoIp", NEpochs <- 3,
  ValSet <- <<{"self", "n1"}, {"n1", "n2"}, {"self", "n2"}>>, Dynamic <- FALSE,
  Ips <- {"i0", "i1", "i2"}, Inputs <- {"Round", "Validators", "Peers"}, MaxInputs <- 4,
  s <- v1

Queues == INSTANCE RaptorCast WITH
  Nodes <- {"self", "n1", "n2"}, Self <- "self", NoIp <- "NoIp", NEpochs <- 3,
  ValSet <- <<{"self", "n1"}, {"n1", "n2"}, {"self", "n2"}>>, Dynamic <- FALSE,
  Ips <- {"i0"}, Inputs <- {"Validators", "Publish", "Control", "Udp"}, MaxInputs <- 3,
  s <- v1

Publisher == INSTANCE Groups WITH
  round_span <- 2, max_invite_wait <- 1, deadline_round_dist <- 1,
  init_empty_round_span <- 3, Me <- "me", invite_future_dist_min <- 1, V <- "v",
  Nodes <- {"a", "p"}, AlwaysAsk <- <<"p">>, max_group_size <- 2, invite_lookahead <- 4,
  MaxRound <- 5, MaxGap <- 4, Invites <- InvitesTwo,
  PeerSets <- {{"me", "a"}, {"me", "a", "b"}, {"a"}}, max_num_group <- 2,
  invite_future_dist_max <- 3, EpochOf <- [r \in 0..9 |-> IF r < 3 THEN 1 ELSE 2],
  MaxInbox <- 1,
  pub <- v1, cl <- v1, inbox <- v2, cls <- v1, answers <- v2

Steps == INSTANCE Groups WITH
  round_span <- 2, max_invite_wait <- 1, deadline_round_dist <- 1,
  init_empty_round_span <- 3, Me <- "me", invite_future_dist_min <- 1, V <- "v",
  Nodes <- {"a", "b"}, AlwaysAsk <- <<>>, max_group_size <- 1, invite_lookahead <- 4,
  MaxRound <- 5, MaxGap <- 1, Invites <- InvitesTwo,
  PeerSets <- {{"me", "a"}, {"me", "a", "b"}, {"a"}}, max_num_group <- 2,
  invite_future_dist_max <- 3, EpochOf <- [r \in 0..9 |-> IF r < 3 THEN 1 ELSE 2],
  MaxInbox <- 1,
  pub <- v1, cl <- v1, inbox <- v2, cls <- v1, answers <- v2

Cast == INSTANCE Groups WITH
  round_span <- 3, max_invite_wait <- 1, deadline_round_dist <- 1,
  init_empty_round_span <- 2, Me <- "me", invite_future_dist_min <- 1, V <- "v",
  Nodes <- {"a", "b"}, AlwaysAsk <- <<>>, max_group_size <- 2, invite_lookahead <- 3,
  MaxRound <- 2, MaxGap <- 1, Invites <- InvitesBounds, PeerSets <- {{"me", "a"}},
  max_num_group <- 1, invite_future_dist_max <- 3, EpochOf <- [r \in 0..9 |-> 1],
  MaxInbox <- 2,
  pub <- v1, cls <- v2, answers <- v3, cl <- v1, inbox <- v2

Crowd == INSTANCE Groups WITH
  round_span <- 3, max_invite_wait <- 1, deadline_round_dist <- 1,
  init_empty_round_span <- 3, Me <- "me", invite_future_dist_min <- 1, V <- "v",
  Nodes <- {"a", "b"}, AlwaysAsk <- <<>>, max_group_size <- 1, invite_lookahead <- 4,
  MaxRound <- 3, MaxGap <- 1, Invites <- {}, PeerSets <- {},
  max_num_group <- 1, invite_future_dist_max <- 4, EpochOf <- [r \in 0..9 |-> 1],
  MaxInbox <- 0,
  pub <- v1, cls <- v2, answers <- v3, cl <- v1, inbox <- v2

Pings == INSTANCE PeerDiscovery WITH
  Self <- "me", NUM_LOOKUP_PEERS <- 2, MAX_PEER_IN_RESPONSE <- 2, PruneThreshold <- 2,
  IdleThreshold <- 2, Pinned <- {}, MinPeers <- 1, MaxPeers <- 2,
  NUM_UPSTREAM_VALIDATORS <- 1, MaxEpoch <- 1, MaxRound <- 1, MaxLookups <- 1,
  Peers <- {"f1"},
  Records <- {Rec("f1", 1, "a"), Rec("f1", 1, "b"), Rec("f1", 2, "b"), Rec("none", 2, "b")},
  Bootstrap <- {}, InitRole <- "ValidatorNone",
  ValidatorsOf <- [e \in 1..5 |-> {"v1", "me"}], Inputs <- {"Ping", "Peers"},
  MaxInFlight <- 2,
  pd <- v1

Lookups == INSTANCE PeerDiscovery WITH
  Self <- "me", NUM_LOOKUP_PEERS <- 2, MAX_PEER_IN_RESPONSE <- 2, PruneThreshold <- 2,
  IdleThreshold <- 2, Pinned <- {}, MinPeers <- 1, MaxPeers <- 2,
  NUM_UPSTREAM_VALIDATORS <- 1, MaxEpoch <- 1, MaxRound <- 1, MaxLookups <- 1,
  Peers <- {"v1", "v2"}, Records <- {Rec("v1", 1, "a"), Rec("v2", 1, "a")},
  Bootstrap <- {Rec("v1", 1, "a")}, InitRole <- "ValidatorPublisher",
  ValidatorsOf <- [e \in 1..5 |-> {"v1", "v2", "me"}],
  Inputs <- {"LookupRequest", "LookupResponse", "Raptorcast"}, MaxInFlight <- 1,
  pd <- v1

Pruning == INSTANCE PeerDiscovery WITH
  Self <- "me", NUM_LOOKUP_PEERS <- 2, MAX_PEER_IN_RESPONSE <- 2, PruneThreshold <- 1,
  IdleThreshold <- 1, Pinned <- {"f1"}, MinPeers <- 0, MaxPeers <- 1,
  NUM_UPSTREAM_VALIDATORS <- 1, MaxEpoch <- 2, MaxRound <- 2, MaxLookups <- 1,
  Peers <- {"v1", "f1"}, Records <- {Rec("v1", 1, "a"), Rec("f1", 1, "a")}, Bootstrap <- {},
  InitRole <- "ValidatorPublisher",
  ValidatorsOf <- [e \in 1..5 |-> IF e >= 2 THEN {} ELSE {"v1", "me"}],
  Inputs <- {"Ping", "Round", "Group"}, MaxInFlight <- 1,
  pd <- v1

AllInit ==
  /\ part \in RunParts
  /\ \/ part = "tcp_rx" /\ DP!RxInit /\ idle13
     \/ part = "tcp_tx" /\ DP!TxInit /\ idle7
     \/ part = "udp_tx" /\ DP!UdpInit /\ idle14
     \/ part = "build" /\ Caches!BuildInit /\ idle11
     \/ part = "udp_caches" /\ Caches!Init /\ idle2
     \/ part = "udp_batches" /\ Batches!Init /\ idle2
     \/ part = "addresses" /\ Addresses!Init /\ idle2
     \/ part = "queues" /\ Queues!Init /\ idle2
     \/ part = "publisher" /\ Publisher!PublisherInit /\ idle2
     \/ part = "steps" /\ Steps!PublisherInit /\ idle2
     \/ part = "client" /\ Publisher!ClientInit /\ idle3
     \/ part = "invites" /\ Cast!ClientInit /\ idle3
     \/ part = "cast" /\ Cast!CastInit /\ idle4
     \/ part = "crowd" /\ Crowd!CastInit /\ idle4
     \/ part = "pings" /\ Pings!Init /\ idle2
     \/ part = "lookups" /\ Lookups!Init /\ idle2
     \/ part = "pruning" /\ Pruning!Init /\ idle2

AllNext ==
  \/ part = "tcp_rx" /\ DP!RxNext /\ UNCHANGED <<part, rest13>>
  \/ part = "tcp_tx" /\ DP!TxNext /\ UNCHANGED <<part, rest7>>
  \/ part = "udp_tx" /\ DP!UdpNext /\ UNCHANGED <<part, rest14>>
  \/ part = "build" /\ Caches!BuildNext /\ UNCHANGED <<part, rest11>>
  \/ part = "udp_caches" /\ Caches!Next /\ UNCHANGED <<part, rest2>>
  \/ part = "udp_batches" /\ Batches!Next /\ UNCHANGED <<part, rest2>>
  \/ part = "addresses" /\ Addresses!Next /\ UNCHANGED <<part, rest2>>
  \/ part = "queues" /\ Queues!Next /\ UNCHANGED <<part, rest2>>
  \/ part = "publisher" /\ Publisher!PublisherNext /\ UNCHANGED <<part, rest2>>
  \/ part = "steps" /\ Steps!PublisherNext /\ UNCHANGED <<part, rest2>>
  \/ part = "client" /\ Publisher!ClientNext /\ UNCHANGED <<part, rest3>>
  \/ part = "invites" /\ Cast!ClientNext /\ UNCHANGED <<part, rest3>>
  \/ part = "cast" /\ Cast!CastNext /\ UNCHANGED <<part, rest4>>
  \/ part = "crowd" /\ Crowd!CastNext /\ UNCHANGED <<part, rest4>>
  \/ part = "pings" /\ Pings!Next /\ UNCHANGED <<part, rest2>>
  \/ part = "lookups" /\ Lookups!Next /\ UNCHANGED <<part, rest2>>
  \/ part = "pruning" /\ Pruning!Next /\ UNCHANGED <<part, rest2>>
  \/ Rest({"tcp_rx", "tcp_tx", "udp_tx", "build", "udp_caches", "udp_batches", "addresses", "queues", "publisher", "steps", "client", "invites", "cast", "crowd", "pings", "lookups", "pruning"})

AllSpec == AllInit /\ [][AllNext]_all

(* TCP. A connection that was sent a disconnect delivers at most the message
   it had read, and the counters are exactly the connections admitted as
   unknown, whatever happened to their address since. A transmit task runs
   exactly while its peer has an entry; a peer gets messages in order and
   none twice across reconnections; a completion fires exactly for what is
   on the wire; and nothing is lost silently. *)
TcpExact ==
  /\ part = "tcp_rx" => DP!RxTypeOK /\ DP!AtMostOneLate /\ DP!CountersExact
  /\ part = "tcp_tx" =>
       /\ DP!TxTypeOK
       /\ DP!TaskIffEntry
       /\ DP!WireInOrder
       /\ DP!SentIsOnWire
       /\ DP!QueuedIsSomewhere

(* UDP: what leaves in any stretch of time exceeds the bandwidth by at most
   the pacing window and two writes; every call on the main socket starts
   and is cut at strides, within what the kernel aggregates; and every
   message asked for is queued, gone to its last byte, cut off by a failed
   send or counted as dropped. *)
UdpPaced ==
  part = "udp_tx" => DP!UdpTypeOK /\ DP!Paced /\ DP!SegmentsAreStrides /\ DP!Accounted

(* The chunks of a message: any set of validators is first hop for its share
   by stake less rounding; every packet gets a node and an id; ids a
   receiver combines differ and are ones it accepts; each recipient of a
   broadcast can decode alone; and the ranges on the wire are the packets
   of nodes with known addresses. *)
ChunksCover ==
  part = "build" =>
       /\ Caches!BuildTypeOK
       /\ Caches!FairShare
       /\ Caches!AllAssigned
       /\ Caches!IdsDistinct
       /\ Caches!IdsAccepted
       /\ Caches!EachCanDecode
       /\ Caches!RangesMatch

(* The decoding caches: a chunk is forwarded at most once for each time the
   caches lose its message, and each one an honest author named this node
   first hop of is forwarded, also after the message was decoded or lost; a
   message is never in both caches, is delivered once unless the caches lost
   it, and is rebroadcast in runs that do not overlap. *)
ForwardedAndDeliveredOnce ==
  /\ part = "udp_caches" => Caches!TypeOK /\ Caches!ForwardedOnce /\ Caches!FirstHopForwards
  /\ part = "udp_batches" => Batches!OneCache /\ Batches!BatchesContiguous /\ Batches!DeliveredOnce

(* RaptorCast: every validator of the running epoch whose address was known,
   and whose set was announced, when the epoch began is trusted by the data
   plane, an old address stays trusted only if its node moved, and the set
   of an epoch is kept until the next one has ended; what the node
   addresses to itself reaches it once, and no event is left with a task
   nobody will poll. *)
TrustFollowsEpochs ==
  /\ part = "addresses" =>
       /\ Addresses!TypeOK
       /\ Addresses!EnteredAreTrusted
       /\ Addresses!StaleOnlyByMove
       /\ Addresses!SetsKeptOneEpoch
  /\ part = "queues" => Queues!OwnOnce /\ Queues!NoEventAsleep

(* Full-node groups. The publisher serves spans without gap or overlap, in
   them only nodes that agreed, exactly the confirmed ones where the group
   was confirmed, and an unconfirmed group only after it skipped rounds. A
   full node rebroadcasts only in groups it was invited to and promises no
   more than it can serve. Together: both agree on the members of a group,
   also when the publisher has confirmed one that is too large, a joined
   node is broadcast to, and a chunk handed to one member reaches all. *)
GroupsServed ==
  /\ part = "publisher" =>
       /\ Publisher!PublisherTypeOK
       /\ Publisher!SpansTile
       /\ Publisher!ServedAsConfirmed
       /\ Publisher!ConfirmedUnlessSkipped
       /\ Publisher!PublishedInSpan
  /\ part = "steps" => Steps!ServedAsConfirmed /\ Steps!ConfirmedUnlessSkipped
  /\ part = "client" =>
       /\ Publisher!ClientTypeOK
       /\ Publisher!JoinedAsInvited
       /\ Publisher!ActiveIsRouted
       /\ Publisher!NothingLate
  /\ part = "invites" => Cast!FutureLoadBound
  /\ part = "cast" => Cast!GroupsAgree /\ Cast!JoinedIsServed /\ Cast!FirstHopReachesAll
  /\ part = "crowd" => Crowd!GroupsAgree /\ Crowd!JoinedIsServed /\ Crowd!FirstHopReachesAll

(* Peer discovery: an address in the routing table is signed by its node and
   answered a ping to that very record ("only promoted to routing_info upon
   a successful ping pong roundtrip"), whatever pongs are late or repeated;
   every wait has a timer armed for the last request; and every routed peer
   can be found idle. *)
RoutedAnswered ==
  /\ part = "pings" => Pings!TypeOK /\ Pings!RoutedAnswered /\ Pings!WaitsAreTimed
  /\ part = "lookups" => Lookups!RoutedAnswered /\ Lookups!WaitsAreTimed
  /\ part = "pruning" => Pruning!RoutedIsTracked

(* What no step of the network may do: free an address before a full ban
   duration since its last ban, unless that ban fell between the look and
   the unban of the expiry task (ban_expiry.rs:49-53, which a second lock
   allows), change trust when a ban ends, send part of a UDP message out of
   order or after a failed send, invite a full node to a group twice,
   replace a record by an older one, or prune a validator or a pinned node. *)
NetworkSteps == [][
  /\ part = "tcp_rx" => DP!BanLasts /\ DP!TrustSurvivesBan
  /\ part = "udp_tx" => DP!InOrder
  /\ part = "publisher" => Publisher!InvitedOnce
  /\ part = "pings" => Pings!RecordsOnlyNewer
  /\ part = "pruning" => Pruning!PinnedNeverPruned]_all
=============================================================================
