--------------------------- MODULE PeerDiscovery ---------------------------
(***************************************************************************)
(* How a node learns where its peers are (monad-peer-discovery): one node  *)
(* with its timers (driver.rs) and its routing state (discovery.rs), the   *)
(* peers being the environment.  A name record is a signer, a sequence     *)
(* number and an address; it waits in `pending` until a pong answers the   *)
(* ping sent to its address, and then moves to `routing`.  A full node     *)
(* asks validators to forward blocks to it (`part`icipation); lookups ask  *)
(* known peers for the records of missing validators.                      *)
(*                                                                         *)
(* pd is the whole state: the fields of PeerDiscovery, the timers, the     *)
(* pings that may still be answered (pinged), the commands of the last     *)
(* step (out), and the history variable answered.  A handler is a function *)
(* of pd; one that draws from the random generator returns the set of its  *)
(* results.  Random ids are modelled as unused ones.                       *)
(***************************************************************************)
EXTENDS Naturals, FiniteSets, Functions, FiniteSetsExt, TLC

CONSTANTS
    Self, Peers,            \* this node and the others
    Records,                \* the name records that circulate
    Bootstrap,              \* the records in the node's configuration
    Pinned,                 \* pinned_full_nodes
    InitRole,               \* self_role at start
    ValidatorsOf,           \* epoch -> its validators
    MinPeers, MaxPeers,
    MAX_PEER_IN_RESPONSE, NUM_LOOKUP_PEERS, NUM_UPSTREAM_VALIDATORS,
    PruneThreshold,         \* unresponsive_prune_threshold
    IdleThreshold,          \* last_participation_prune_threshold
    Inputs,                 \* the kinds of events of this instance
    MaxInFlight, MaxLookups, MaxRound, MaxEpoch  \* bounds of the instance

VARIABLE pd

Nodes == Peers \cup {Self}
Roles == {"ValidatorNone", "ValidatorPublisher", "FullNodeNone", "FullNodeClient"}
Validating == {"ValidatorNone", "ValidatorPublisher"}

Without(f, S) == Restrict(f, DOMAIN f \ S)
Unused(ids) == CHOOSE i \in 1..(Cardinality(ids) + 1) : i \notin ids
Choose(n, S) == kSubset(IF Cardinality(S) < n THEN Cardinality(S) ELSE n, S)
----------------------------------------------------------------------------
(* The timers: one per node and kind, a later one replaces the earlier.    *)

Refreshing == <<Self, "Refresh", 0>>
PingTimeout(p) == <<p, "Ping", 0>>
RaptorcastRequest(p) == <<p, "Raptorcast", 0>>
RetryPeerLookup(p, id) == <<p, "Lookup", id>>

schedule(s, key, event) == [s EXCEPT !.timers = (key :> event) @@ @]
schedule_reset(s, key) == [s EXCEPT !.timers = Without(@, {key})]
Emit(s, m) == [s EXCEPT !.out = @ \cup {m}]
----------------------------------------------------------------------------
check_validator_membership(s, p) ==
    \E e \in {s.epoch, s.epoch + 1} \cap DOMAIN s.vals : p \in s.vals[e]

is_pinned_node(s, p) == check_validator_membership(s, p) \/ p \in Pinned

(* send_ping of the ping that the pending entry of p records.              *)
send_ping(s, p) ==
    Emit([schedule(s, PingTimeout(p), [id |-> s.pending[p].ping, target |-> p])
            EXCEPT !.pinged = @ \cup {[id |-> s.pending[p].ping, to |-> p, rec |-> s.pending[p].rec]}],
         [type |-> "Ping", to |-> p])

NewPing(s) == Unused({q.id : q \in s.pinged} \cup {s.pending[p].ping : p \in DOMAIN s.pending})

insert_peer_to_pending(s, p, rec) ==
    IF \/ p = Self
       \/ p \in DOMAIN s.routing /\ rec.seq <= s.routing[p].seq
       \/ p \in DOMAIN s.pending /\ rec.seq <= s.pending[p].rec.seq
    THEN s
    ELSE send_ping([s EXCEPT !.pending = (p :> [ping |-> NewPing(s), missed |-> 0, rec |-> rec]) @@ @], p)

remove_peer_from_pending(s, p) ==
    schedule_reset([s EXCEPT !.pending = Without(@, {p})], PingTimeout(p))

(* entry(p).and_modify(last_active raised to round).or_insert(...)         *)
Active(part, p, round) ==
    (p :> IF p \in DOMAIN part
          THEN [part[p] EXCEPT !.last = IF @ < round THEN round ELSE @]
          ELSE [status |-> "None", retries |-> 0, last |-> round]) @@ part

Idle(s, p) ==
    LET last == s.part[p].last
    IN  (IF s.round > last THEN s.round ELSE last) - last >= IdleThreshold
----------------------------------------------------------------------------
(* A full node asks validators to send it blocks.                          *)

send_full_node_raptorcast_request(s, to) ==
    LET sent(t) == schedule(Emit(t, [type |-> "RaptorcastRequest", to |-> to]),
                            RaptorcastRequest(to), [id |-> 0, target |-> to])
    IN  CASE s.role # "FullNodeClient" \/ to \notin DOMAIN s.part -> s
          [] OTHER ->
             CASE s.part[to].status = "None" ->
                    sent([s EXCEPT !.part[to].status = "Pending", !.part[to].retries = 0])
               [] s.part[to].status = "Pending" ->
                    IF s.part[to].retries + 1 >= PruneThreshold
                    THEN [s EXCEPT !.part[to].status = "None", !.part[to].retries = 0]
                    ELSE sent([s EXCEPT !.part[to].retries = @ + 1])
               [] OTHER -> s

Upstream(s) == {p \in DOMAIN s.part : s.part[p].status # "None"}

DropIdleUpstream(s) ==
    [s EXCEPT !.part = [p \in DOMAIN @ |->
        IF @[p].status = "Connected" /\ Idle(s, p) THEN [@[p] EXCEPT !.status = "None"] ELSE @[p]]]

FillUpstream(s) ==
    LET slots == NUM_UPSTREAM_VALIDATORS - Cardinality(Upstream(s))
        free  == {p \in DOMAIN s.routing :
                    p \notin Upstream(s) /\ check_validator_membership(s, p) /\ p # Self}
        ask(v, t) == send_full_node_raptorcast_request(Emit(t, [type |-> "Ping", to |-> v]), v)
    IN  IF NUM_UPSTREAM_VALIDATORS <= Cardinality(Upstream(s)) THEN {s}
        ELSE {FoldSet(ask, s, new) : new \in Choose(slots, free)}

look_for_upstream_validators(s) == FillUpstream(DropIdleUpstream(s))

promote_peer_to_routing_info(s, p, rec) ==
    LET t == remove_peer_from_pending(
               [s EXCEPT !.routing = (p :> rec) @@ @, !.part = Active(@, p, s.round)], p)
    IN  IF t.role = "FullNodeClient" THEN look_for_upstream_validators(t) ELSE {t}
----------------------------------------------------------------------------
(* Pings and pongs.                                                        *)

handle_ping(s, from, rec) ==
    LET pong(t) == Emit(t, [type |-> "Pong", to |-> from])
        full == /\ Cardinality(DOMAIN s.routing) + Cardinality(DOMAIN s.pending) >= MaxPeers
                /\ ~is_pinned_node(s, from)
                /\ from \notin DOMAIN s.routing
    IN  CASE full -> pong(s)
          [] ~full /\ (from \notin DOMAIN s.routing \/ rec.seq > s.routing[from].seq) ->
                IF rec.id = from THEN pong(insert_peer_to_pending(s, from, rec)) ELSE s
          [] OTHER -> IF rec = s.routing[from] THEN pong(s) ELSE s

(* A pong answers a ping of this node, perhaps one it no longer waits for. *)
Bad_handle_pong(s, q) ==
    IF q.to \in DOMAIN s.pending
    THEN promote_peer_to_routing_info(s, q.to, s.pending[q.to].rec) ELSE {s}

handle_pong(s, q) ==
    IF q.to \in DOMAIN s.pending /\ s.pending[q.to].ping = q.id
    THEN promote_peer_to_routing_info(s, q.to, s.pending[q.to].rec) ELSE {s}

handle_ping_timeout(s, to, id) ==
    CASE to \notin DOMAIN s.pending -> s
      [] to \in DOMAIN s.pending /\ s.pending[to].ping # id -> s
      [] OTHER ->
         IF s.pending[to].missed + 1 >= PruneThreshold
         THEN remove_peer_from_pending(s, to)
         ELSE send_ping([s EXCEPT !.pending[to].missed = @ + 1, !.pending[to].ping = NewPing(s)], to)
----------------------------------------------------------------------------
(* Lookups.  A lookup id is one no lookup uses, nor a timer left behind.   *)

NewLookup(s) == Unused(DOMAIN s.lookups \cup {k[3] : k \in DOMAIN s.timers})

Ask(s, to, target, open, retries) ==
    LET id == NewLookup(s)
    IN  Emit(schedule([s EXCEPT !.lookups = (id :> [to |-> to, retries |-> retries, open |-> open]) @@ @],
                      RetryPeerLookup(to, id), [id |-> id, target |-> target]),
             [type |-> "LookupRequest", to |-> to])

send_peer_lookup_request(s, to, target, open) == Ask(s, to, target, open, 0)

(* The records a lookup request is answered with.                          *)
Answers(s, target, open) ==
    LET own   == IF target \in DOMAIN s.routing THEN {s.routing[target]} ELSE {}
        count == IF target = Self \/ own # {} THEN 1 ELSE 0
        known == {s.routing[p] : p \in {x \in DOMAIN s.routing : check_validator_membership(s, x)}}
    IN  IF ~open THEN {[n |-> count, recs |-> own]}
        ELSE {[n |-> count + Cardinality(more), recs |-> own \cup more] :
                more \in Choose(MAX_PEER_IN_RESPONSE - count, known)}

handle_peer_lookup_request(s, from, target, open) ==
    {Emit(s, [type |-> "LookupResponse", to |-> from, n |-> a.n, recs |-> a.recs]) :
        a \in Answers(s, target, open)}

handle_peer_lookup_response(s, from, id, recs) ==
    LET insert(r, t) == insert_peer_to_pending(t, r.id, r)
    IN  IF \/ id \notin DOMAIN s.lookups
           \/ s.lookups[id].to # from
           \/ Cardinality(recs) > MAX_PEER_IN_RESPONSE
        THEN s
        ELSE [FoldSet(insert, s, {r \in recs : r.id \in Nodes}) EXCEPT !.lookups = Without(@, {id})]

handle_peer_lookup_timeout(s, to, target, id) ==
    CASE id \notin DOMAIN s.lookups -> s
      [] OTHER ->
         LET info == s.lookups[id]
             t    == [s EXCEPT !.lookups = Without(@, {id})]
         IN  IF info.retries >= PruneThreshold THEN t
             ELSE Ask(t, to, target, info.open, info.retries + 1)
----------------------------------------------------------------------------
handle_full_node_raptorcast_request(s, from) ==
    IF s.role # "ValidatorPublisher" \/ from \notin DOMAIN s.part THEN s
    ELSE Emit([s EXCEPT !.part[from].status = "Connected"],
              [type |-> "RaptorcastResponse", to |-> from])

handle_full_node_raptorcast_response(s, from) ==
    IF s.role = "FullNodeClient" /\ from \in DOMAIN s.part /\ s.part[from].status = "Pending"
    THEN [s EXCEPT !.part[from].status = "Connected", !.part[from].retries = 0]
    ELSE s
----------------------------------------------------------------------------
(* The periodic refresh: forget who is idle, prune what is too many, look  *)
(* for the missing validators, fill the upstream slots.                    *)

Forget(s, S) == [s EXCEPT !.part = Without(@, S), !.routing = Without(@, S)]

ForgetIdle(s) == Forget(s, {p \in DOMAIN s.part : Idle(s, p) /\ ~is_pinned_node(s, p)})

PruneExcess(s) ==
    IF Cardinality(DOMAIN s.routing) <= MaxPeers THEN {s}
    ELSE {Forget(s, gone) : gone \in Choose(Cardinality(DOMAIN s.routing) - MaxPeers,
                                            {p \in DOMAIN s.routing : ~is_pinned_node(s, p)})}

Missing(s) ==
    UNION {s.vals[e] : e \in {s.epoch, s.epoch + 1} \cap DOMAIN s.vals} \ (DOMAIN s.routing \cup {Self})

(* missing_validators.zip(chosen_peers), both random samples.              *)
LookForMissing(s) ==
    LET open == Cardinality(DOMAIN s.routing) < MinPeers
        sizes == {NUM_LOOKUP_PEERS, Cardinality(Missing(s)), Cardinality(DOMAIN s.routing)}
        pairs == UNION {Injection(M, DOMAIN s.routing) : M \in kSubset(Min(sizes), Missing(s))}
        ask(f) == LET one(v, t) == send_peer_lookup_request(t, f[v], v, open)
                  IN  FoldSet(one, s, DOMAIN f)
    IN  {ask(f) : f \in pairs}

FillSlots(s) == IF s.role = "FullNodeClient" THEN look_for_upstream_validators(s) ELSE {s}

Restart(s) == schedule(schedule_reset(Emit(s, [type |-> "Refreshed", to |-> Self]), Refreshing),
                       Refreshing, [id |-> 0, target |-> Self])

refresh(s) ==
    {Restart(t) : t \in UNION {FillSlots(u) : u \in UNION {LookForMissing(v) : v \in PruneExcess(ForgetIdle(s))}}}
----------------------------------------------------------------------------
(* What the node is told: rounds, epochs, validator sets, peers, groups.   *)

Advertise(s) ==
    LET validators == UNION {s.vals[e] : e \in {s.epoch, s.epoch + 1} \cap DOMAIN s.vals}
        insert(v, t) == insert_peer_to_pending(t, v, t.routing[v])
    IN  FoldSet(insert, s, validators \cap DOMAIN s.routing)

ChangeRole(s) ==
    IF check_validator_membership(s, Self)
    THEN IF s.role \in Validating THEN s ELSE Advertise([s EXCEPT !.role = "ValidatorNone"])
    ELSE IF s.role \in Validating THEN [s EXCEPT !.role = "FullNodeNone"] ELSE s

update_current_round(s, round, epoch) ==
    LET r == [s EXCEPT !.round = IF round > @ THEN round ELSE @]
        t == IF epoch > r.epoch THEN ChangeRole([r EXCEPT !.epoch = epoch]) ELSE r
    IN  [t EXCEPT !.vals = Restrict(@, {e \in DOMAIN @ : e + 1 >= t.epoch})]

update_validator_set(s, epoch) == [s EXCEPT !.vals = (epoch :> ValidatorsOf[epoch]) @@ @]

update_peers(s, p, rec) == IF rec.id = p THEN insert_peer_to_pending(s, p, rec) ELSE s

update_peer_participation(s, round, peers) ==
    LET active(p, f) == Active(f, p, round)
    IN  [s EXCEPT !.part = FoldSet(active, @, peers \ {Self})]
----------------------------------------------------------------------------
NoState ==
    [role |-> InitRole, round |-> 1, epoch |-> 1,
     vals |-> [e \in {1} |-> ValidatorsOf[e]],
     routing |-> <<>>, part |-> <<>>, pending |-> <<>>, lookups |-> <<>>,
     timers |-> <<>>, pinged |-> {}, out |-> {}, answered |-> {}]

build == LET insert(r, t) == insert_peer_to_pending(t, r.id, r)
         IN  refresh(FoldSet(insert, NoState, Bootstrap))

Init == /\ InitRole \in Validating => check_validator_membership(NoState, Self)
        /\ pd \in build

Quiet == [pd EXCEPT !.out = {}]

(* Bounds of the instance on what is in flight at the same time.           *)
InBounds(s) == /\ Cardinality(s.pinged) <= MaxInFlight
               /\ Cardinality({k \in DOMAIN s.timers : k[2] = "Lookup"}) <= MaxLookups

Become(S) == \E s \in S : InBounds(s) /\ pd' = s

(* PeerDiscoveryDriver::update on what arrives from the network.           *)
Ping == \E p \in Peers, rec \in Records : Become({handle_ping(Quiet, p, rec)})

(* A ping is answered late, more than once, or never.                      *)
Pong == \E q \in pd.pinged :
            Become(handle_pong([Quiet EXCEPT !.answered = @ \cup {<<q.to, q.rec>>}], q))

Lose == \E q \in pd.pinged : pd' = [Quiet EXCEPT !.pinged = @ \ {q}]

LookupRequest == \E p, t \in Nodes, open \in BOOLEAN :
                    p # Self /\ Become(handle_peer_lookup_request(Quiet, p, t, open))

LookupResponse == \E p \in Peers, id \in 1..MaxLookups, recs \in SUBSET Records :
                    Become({handle_peer_lookup_response(Quiet, p, id, recs)})

RaptorcastRequested == \E p \in Peers : Become({handle_full_node_raptorcast_request(Quiet, p)})
RaptorcastResponse == \E p \in Peers : Become({handle_full_node_raptorcast_response(Quiet, p)})

(* ... on what the rest of the node tells it ...                           *)
Round == \E r \in 1..MaxRound, e \in {pd.epoch, pd.epoch + 1} :
            e <= MaxEpoch /\ Become({update_current_round(Quiet, r, e)})
ValidatorSet == \E e \in {pd.epoch, pd.epoch + 1} : Become({update_validator_set(Quiet, e)})
UpdatePeers == \E p \in Peers, rec \in Records : Become({update_peers(Quiet, p, rec)})
ConfirmGroup == \E r \in 1..MaxRound, peers \in SUBSET Peers :
                    Become({update_peer_participation(Quiet, r, peers)})

(* ... and on a timer that expires.                                        *)
OnTimeout(s, key, event) ==
    CASE key[2] = "Refresh" -> refresh(s)
      [] key[2] = "Ping" -> {handle_ping_timeout(s, key[1], event.id)}
      [] key[2] = "Raptorcast" -> {send_full_node_raptorcast_request(s, key[1])}
      [] OTHER -> {handle_peer_lookup_timeout(s, key[1], event.target, event.id)}

Expire(key) == /\ key \in DOMAIN pd.timers
               /\ Become(OnTimeout(schedule_reset(Quiet, key), key, pd.timers[key]))

Keys == {Refreshing} \cup UNION {{PingTimeout(p), RaptorcastRequest(p)} : p \in Peers}
        \cup {RetryPeerLookup(p, i) : p \in Peers, i \in 1..MaxLookups}

Next ==
    \/ "Ping" \in Inputs /\ Ping
    \/ Pong
    \/ Lose
    \/ "LookupRequest" \in Inputs /\ LookupRequest
    \/ "LookupResponse" \in Inputs /\ LookupResponse
    \/ "Raptorcast" \in Inputs /\ RaptorcastRequested
    \/ "Raptorcast" \in Inputs /\ RaptorcastResponse
    \/ "Round" \in Inputs /\ Round
    \/ "Round" \in Inputs /\ ValidatorSet
    \/ "Peers" \in Inputs /\ UpdatePeers
    \/ "Group" \in Inputs /\ ConfirmGroup
    \/ \E key \in Keys : Expire(key)

Spec == Init /\ [][Next]_pd

(* What is weakly fair, by number: a message in flight does not stay there for *)
(* ever, and the timers of a peer fire.                                     *)
Fair(i) ==
    \/ i = 1 /\ Lose
    \/ i = 2 /\ \E p \in Peers : Expire(PingTimeout(p))
    \/ i = 3 /\ \E p \in Peers : Expire(RaptorcastRequest(p))
----------------------------------------------------------------------------
(* Every field of the state has its type.                                  *)
TypeOK ==
    /\ pd.role \in Roles /\ pd.round \in 1..MaxRound /\ pd.epoch \in 1..MaxEpoch
    /\ DOMAIN pd.routing \subseteq Peers /\ Range(pd.routing) \subseteq Records
    /\ DOMAIN pd.pending \subseteq Peers /\ DOMAIN pd.part \subseteq Peers
    /\ \A p \in DOMAIN pd.pending : pd.pending[p].rec \in Records /\ pd.pending[p].missed < PruneThreshold
    /\ \A p \in DOMAIN pd.part :
         pd.part[p].status \in {"None", "Pending", "Connected"} /\ pd.part[p].last \in 1..MaxRound
    /\ \A i \in DOMAIN pd.lookups : pd.lookups[i].to \in Peers /\ pd.lookups[i].retries <= PruneThreshold
    /\ DOMAIN pd.timers \subseteq Keys

(* An address in the routing table is signed by its node and answered a    *)
(* ping that was sent to that very record: "a node is inserted into        *)
(* pending_queue and only promoted to routing_info upon a successful ping  *)
(* pong roundtrip", whatever pongs are late or repeated and whatever       *)
(* records replace each other while they wait.                             *)
RoutedAnswered ==
    \A p \in DOMAIN pd.routing :
        pd.routing[p].id = p /\ <<p, pd.routing[p]>> \in pd.answered

(* A node never waits for a pong, a lookup answer or a raptorcast answer   *)
(* without the timer that ends the wait, armed for the request it made     *)
(* last; and the refresh timer always runs.  Raptorcast requests are made  *)
(* by a client full node; that they end is checked as a liveness property. *)
WaitsAreTimed ==
    /\ Refreshing \in DOMAIN pd.timers
    /\ \A p \in DOMAIN pd.pending :
         PingTimeout(p) \in DOMAIN pd.timers /\ pd.timers[PingTimeout(p)].id = pd.pending[p].ping
    /\ \A i \in DOMAIN pd.lookups :
         LET key == RetryPeerLookup(pd.lookups[i].to, i)
         IN  key \in DOMAIN pd.timers /\ pd.timers[key].id = i
    /\ pd.role = "FullNodeClient" =>
         \A p \in DOMAIN pd.part :
            pd.part[p].status = "Pending" => RaptorcastRequest(p) \in DOMAIN pd.timers

(* Every routed peer has a participation entry, or the refresh could never *)
(* find it idle and the table would keep it for ever.                      *)
RoutedIsTracked == DOMAIN pd.routing \subseteq DOMAIN pd.part

(* While a peer stays in the routing table its record only gets newer: an  *)
(* older record that was pinged earlier cannot come back.                  *)
RecordsOnlyNewer ==
    \A p \in DOMAIN pd.routing \cap DOMAIN pd'.routing :
       pd'.routing[p] = pd.routing[p] \/ pd'.routing[p].seq > pd.routing[p].seq

(* "validators and pinned full nodes will not be pruned", and after a      *)
(* refresh whatever exceeds the maximum is only them.                      *)
PinnedNeverPruned ==
    /\ \A p \in DOMAIN pd.routing \ DOMAIN pd'.routing : ~is_pinned_node(pd', p)
    /\ (\E m \in pd'.out : m.type = "Refreshed") =>
         \/ Cardinality(DOMAIN pd'.routing) <= MaxPeers
         \/ \A p \in DOMAIN pd'.routing : is_pinned_node(pd', p)

=============================================================================
