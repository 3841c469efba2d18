------------------------------ MODULE BlockSync ------------------------------
(***************************************************************************)
(* Block sync of one node (monad-blocksync/src/blocksync.rs): it fetches   *)
(* ranges of blocks for consensus or for state sync, headers first and     *)
(* then the payloads, from its own ledger and, where that fails, from      *)
(* peers with a timeout; and it answers the requests of its peers.         *)
(*                                                                         *)
(* The environment: the ledger answers in order, and may or may not have   *)
(* what is asked; a peer may answer at any time, late, repeatedly, with    *)
(* headers that do not verify, or never; the timer of a request may fire   *)
(* as it is reset; blocks enter and leave the block tree, whose payloads   *)
(* serve as a cache.  Blocks are the positions of one chain.               *)
(***************************************************************************)
EXTENDS Naturals, Sequences, FiniteSets, Functions

CONSTANTS
  Blocks,                          \* positions of the chain, 1..n
  BodyId,                          \* block_body_id of each block
  SelfRanges,                      \* ranges this node may ask for
  PeerRanges, PeerPayloads,        \* what peers may ask this node for
  Peers,
  BLOCKSYNC_MAX_PAYLOAD_REQUESTS,
  MaxFetches,                      \* bound: fetches the ledger has not answered
  TreeBlocks                       \* blocks that enter and leave the tree

VARIABLES
  mode,        \* self_request_mode
  headers,     \* self_headers_requests: range -> "ledger" or "peer"
  payloads,    \* self_payload_requests: payload -> "none", "ledger" or "peer"
  in_flight,   \* self_payload_requests_in_flight
  completed,   \* self_completed_headers_requests: range -> payloads it has
  peer_headers,\* headers_requests: [range, peer, cached] triples
  peer_payloads,\* payload_requests: <<payload, peer>> pairs
  tree,        \* the blocks in the block tree, when consensus is live
  fetches,     \* LedgerFetch commands that are not answered yet
  timers,      \* requests with a scheduled timeout
  wanted       \* ranges asked for, not cancelled and not emitted

vars == <<mode, headers, payloads, in_flight, completed, peer_headers, peer_payloads,
          tree, fetches, timers, wanted>>

Headers(r) == [kind |-> "Headers", range |-> r]
Payload(p) == [kind |-> "Payload", id |-> p]

BlocksOf(r) == {b \in Blocks : b <= r.last /\ b + r.num > r.last}
BodiesOf(r) == {BodyId[b] : b \in BlocksOf(r)}

Without(f, S) == [x \in DOMAIN f \ S |-> f[x]]
With(f, S, v) == [x \in DOMAIN f \cup S |-> IF x \in S THEN v ELSE f[x]]

\* What a handler of self requests reads and changes.
State == [headers |-> headers, payloads |-> payloads, in_flight |-> in_flight,
          completed |-> completed, fetches |-> fetches, timers |-> timers, wanted |-> wanted]

Become(s) ==
  /\ headers' = s.headers
  /\ payloads' = s.payloads
  /\ in_flight' = s.in_flight
  /\ completed' = s.completed
  /\ fetches' = s.fetches
  /\ timers' = s.timers
  /\ wanted' = s.wanted

-----------------------------------------------------------------------------
(* Requests of this node *)

self_request_exists(s, r) == r \in DOMAIN s.headers \cup DOMAIN s.completed

\* clear_self_requests
clear_self_requests(s) ==
  [s EXCEPT !.headers = <<>>, !.payloads = <<>>, !.in_flight = 0, !.completed = <<>>, !.wanted = {}]

Ask(s, r) ==
  IF self_request_exists(s, r) THEN s
  ELSE [s EXCEPT !.headers = With(@, {r}, "ledger"),
                 !.fetches = Append(@, Headers(r)),
                 !.wanted = @ \cup {r}]

\* handle_self_request: consensus starts asking when state sync is done.
handle_self_request(requester, r) ==
  /\ Len(fetches) < MaxFetches
  /\ requester = "StateSync" => mode = "StateSync"
  /\ mode' = requester
  /\ Become(Ask(IF requester = mode THEN State ELSE clear_self_requests(State), r))
  /\ UNCHANGED <<peer_headers, peer_payloads, tree>>

\* Fault: the payloads that the cancelled range still needs are given up.
Bad_cancel(r) ==
  Become([State EXCEPT !.headers = Without(@, {r}), !.completed = Without(@, {r}),
                       !.payloads = IF r \in DOMAIN completed THEN Without(@, BodiesOf(r)) ELSE @,
                       !.wanted = @ \ {r}])

cancel(r) ==
  Become([State EXCEPT !.headers = Without(@, {r}), !.completed = Without(@, {r}),
                       !.wanted = @ \ {r}])

\* handle_self_cancel_request of the current requester
handle_self_cancel_request(r) ==
  /\ self_request_exists(State, r)
  /\ cancel(r)
  /\ UNCHANGED <<mode, peer_headers, peer_payloads, tree>>

-----------------------------------------------------------------------------
(* Payloads of completed headers *)

Fill(s, P) == [s EXCEPT !.completed = [r \in DOMAIN @ |-> @[r] \cup (P \cap BodiesOf(r))]]

\* get_cached_payload is Some: in the tree, or received for another range.
Cached(s) == {BodyId[b] : b \in tree} \cup UNION {s.completed[r] : r \in DOMAIN s.completed}

\* handle_completed_ranges: Emit every range that has all of its payloads.
EmitRanges(s, done) == [s EXCEPT !.completed = Without(@, done), !.wanted = @ \ done]

handle_completed_ranges(s) ==
  EmitRanges(s, {r \in DOMAIN s.completed : s.completed[r] = BodiesOf(r)})

\* try_initiate_payload_requests_for_self, first loop: requests that the cache
\* can serve.
serve_from_cache(s, P) == Fill([s EXCEPT !.payloads = Without(@, P)], P)

ServeCached(s) == serve_from_cache(s, DOMAIN s.payloads \cap Cached(s))

NotInitiated(s) == {p \in DOMAIN s.payloads : s.payloads[p] = "none"}

\* The payloads the second loop may start: as many as there are free slots.
Startable(s) ==
  LET free == IF s.in_flight < BLOCKSYNC_MAX_PAYLOAD_REQUESTS
              THEN BLOCKSYNC_MAX_PAYLOAD_REQUESTS - s.in_flight ELSE 0
  IN  {C \in SUBSET NotInitiated(s) :
         Cardinality(C) <= free /\ (C = NotInitiated(s) \/ Cardinality(C) = free)}

\* A set in some order.
Ordered(S) == CHOOSE q \in [1..Cardinality(S) -> S] : IsInjective(q)

Start(s, C) ==
  [s EXCEPT !.payloads = With(@, C, "ledger"),
            !.fetches = @ \o Ordered({Payload(p) : p \in C}),
            !.in_flight = @ + Cardinality(C)]

\* try_initiate_payload_requests_for_self
try_initiate_payload_requests_for_self(s) ==
  \E C \in Startable(s) : Become(handle_completed_ranges(Start(s, C)))

Initiate(s) == try_initiate_payload_requests_for_self(ServeCached(s))

-----------------------------------------------------------------------------
(* Responses *)

\* SendRequest to the peer that pick_peer chooses, and ScheduleTimeout
ask_peer(s, item) ==
  [s EXCEPT !.timers = @ \cup {item},
            !.headers = IF item.kind = "Headers" THEN With(@, {item.range}, "peer") ELSE @,
            !.payloads = IF item.kind = "Payload" THEN With(@, {item.id}, "peer") ELSE @]

reset_timeout(s, item, sender) == IF sender = "peer" THEN [s EXCEPT !.timers = @ \ {item}] ELSE s

\* handle_headers_response_for_self, Found with headers that verify
headers_found(s, r, sender) ==
  [reset_timeout(s, Headers(r), sender) EXCEPT
     !.headers = Without(@, {r}),
     !.payloads = With(@, BodiesOf(r) \ DOMAIN @, "none"),
     !.completed = With(@, {r}, {})]

\* NotAvailable, or headers of a peer that do not verify
headers_failed(s, r, sender) ==
  IF sender = "ledger" /\ s.headers[r] = "ledger" THEN ask_peer(s, Headers(r)) ELSE s

\* handle_headers_response_for_self
handle_headers_response_for_self(s, r, sender, found) ==
  IF r \notin DOMAIN s.headers THEN Become(s)
  ELSE Initiate(IF found THEN headers_found(s, r, sender) ELSE headers_failed(s, r, sender))

\* handle_payload_response_for_self, Found
payload_found(s, p, sender) ==
  handle_completed_ranges(Fill(
    [reset_timeout(s, Payload(p), sender) EXCEPT !.in_flight = @ - 1, !.payloads = Without(@, {p})],
    {p}))

payload_failed(s, p, sender) ==
  IF sender = "ledger" /\ s.payloads[p] = "ledger" THEN ask_peer(s, Payload(p)) ELSE s

\* handle_payload_response_for_self
handle_payload_response_for_self(s, p, sender, found) ==
  IF p \notin DOMAIN s.payloads \/ p \in NotInitiated(s) THEN Become(s)
  ELSE Initiate(IF found THEN payload_found(s, p, sender)
                ELSE handle_completed_ranges(payload_failed(s, p, sender)))

ResponseForSelf(s, item, sender, found) ==
  IF item.kind = "Headers" THEN handle_headers_response_for_self(s, item.range, sender, found)
  ELSE handle_payload_response_for_self(s, item.id, sender, found)

\* handle_ledger_response: the peers that wait for it are answered.
handle_ledger_response(found) ==
  /\ fetches # <<>>
  /\ ResponseForSelf([State EXCEPT !.fetches = Tail(@)], Head(fetches), "ledger", found)
  /\ peer_headers' = {e \in peer_headers : Headers(e.range) # Head(fetches)}
  /\ peer_payloads' = {e \in peer_payloads : Payload(e[1]) # Head(fetches)}
  /\ UNCHANGED <<mode, tree>>

Items == {Headers(r) : r \in SelfRanges} \cup {Payload(BodyId[b]) : b \in Blocks}

\* handle_peer_response
handle_peer_response(item, found) ==
  /\ item \in {Headers(r) : r \in DOMAIN headers} \cup {Payload(p) : p \in DOMAIN payloads}
  /\ ResponseForSelf(State, item, "peer", found)
  /\ UNCHANGED <<mode, peer_headers, peer_payloads, tree>>

IsAskedOfPeer(item) ==
  IF item.kind = "Headers" THEN item.range \in DOMAIN headers /\ headers[item.range] = "peer"
  ELSE item.id \in DOMAIN payloads /\ payloads[item.id] = "peer"

\* handle_timeout: the request is sent to another peer.
retry(item) ==
  Become(IF IsAskedOfPeer(item) THEN ask_peer(State, item) ELSE [State EXCEPT !.timers = @ \ {item}])

\* A timeout that has fired cannot be reset any more: it may come for a request
\* that is served, or that was made again.
handle_timeout(item) ==
  /\ retry(item)
  /\ UNCHANGED <<mode, peer_headers, peer_payloads, tree>>

-----------------------------------------------------------------------------
(* Requests of peers *)

\* The part of the range that get_parent_block_chain returns.
CachedChain(r) ==
  {b \in BlocksOf(r) : mode = "Consensus" /\ \A c \in Blocks : b <= c /\ c <= r.last => c \in tree}

\* BlockSyncCommand::FetchHeaders and FetchPayload
Fetch(item) == fetches' = Append(fetches, item)

\* handle_peer_request, Headers: the part that is not in the tree is fetched.
handle_peer_headers_request(peer, r) ==
  LET cached == CachedChain(r)
      rest   == [last |-> r.last - Cardinality(cached), num |-> r.num - Cardinality(cached)]
  IN  /\ Len(fetches) < MaxFetches
      /\ IF rest.num = 0 THEN UNCHANGED <<peer_headers, fetches>>
         ELSE /\ peer_headers' = {e \in peer_headers : e.range # rest \/ e.peer # peer}
                                   \cup {[range |-> rest, peer |-> peer, cached |-> Cardinality(cached)]}
              /\ Fetch(Headers(rest))
      /\ UNCHANGED <<mode, headers, payloads, in_flight, completed, peer_payloads, tree, timers, wanted>>

\* handle_peer_request, Payload
handle_peer_payload_request(peer, p) ==
  /\ Len(fetches) < MaxFetches
  /\ IF p \in Cached(State) THEN UNCHANGED <<peer_payloads, fetches>>
     ELSE /\ peer_payloads' = peer_payloads \cup {<<p, peer>>}
          /\ Fetch(Payload(p))
  /\ UNCHANGED <<mode, headers, payloads, in_flight, completed, peer_headers, tree, timers, wanted>>

-----------------------------------------------------------------------------
\* A proposal adds a block to the tree; a commit removes the lowest one.
ChangeTree ==
  /\ \/ \E b \in TreeBlocks \ tree : tree' = tree \cup {b}
     \/ \E b \in tree : (\A c \in tree : b <= c) /\ tree' = tree \ {b}
  /\ UNCHANGED <<mode, headers, payloads, in_flight, completed, peer_headers, peer_payloads,
                 fetches, timers, wanted>>

\* BlockSync::new
Init ==
  /\ mode = "StateSync"
  /\ headers = <<>> /\ payloads = <<>> /\ completed = <<>>
  /\ in_flight = 0
  /\ peer_headers = {} /\ peer_payloads = {}
  /\ tree = {}
  /\ fetches = <<>>
  /\ timers = {}
  /\ wanted = {}

Next ==
  \/ \E requester \in {"StateSync", "Consensus"}, r \in SelfRanges : handle_self_request(requester, r)
  \/ \E r \in SelfRanges : handle_self_cancel_request(r)
  \/ \E found \in BOOLEAN : handle_ledger_response(found)
  \/ \E item \in Items, found \in BOOLEAN : handle_peer_response(item, found)
  \/ \E item \in Items : handle_timeout(item)
  \/ \E peer \in Peers, r \in PeerRanges : handle_peer_headers_request(peer, r)
  \/ \E peer \in Peers, p \in PeerPayloads : handle_peer_payload_request(peer, p)
  \/ ChangeTree

Spec == Init /\ [][Next]_vars

\* What is weakly fair: the ledger answers, and a peer that is asked again and
\* again once has the blocks.  Each is stated by what it does to the queue it
\* serves, which says when it is enabled.
LedgerAnswers ==
  /\ fetches # <<>>
  /\ \/ fetches' = Tail(fetches)
     \/ \E n \in 0..Len(fetches') : SubSeq(fetches', 1, n) = Tail(fetches)
PeerHasBlocks ==
  \E item \in timers : IsAskedOfPeer(item) /\ (timers' = timers \ {item} \/ item \notin timers')

-----------------------------------------------------------------------------
(* Properties *)

TypeOK ==
  /\ mode \in {"StateSync", "Consensus"}
  /\ \A r \in DOMAIN headers : r \in SelfRanges /\ headers[r] \in {"ledger", "peer"}
  /\ \A p \in DOMAIN payloads : payloads[p] \in {"none", "ledger", "peer"}
  /\ \A r \in DOMAIN completed : completed[r] \subseteq BodiesOf(r)
  /\ in_flight \in Nat
  /\ timers \subseteq Items

Initiated == {p \in DOMAIN payloads : payloads[p] # "none"}

\* "If payload is None, the payload request is still in flight and should be
\* in self_payload_requests", for ranges that share payloads and are cancelled
\* or emitted one by one.
MissingPayloadIsRequested ==
  \A r \in DOMAIN completed : BodiesOf(r) \ completed[r] \subseteq DOMAIN payloads

\* A range is worked on exactly while its requester wants it: it is emitted
\* once, never after it was cancelled or its requester was replaced, and it is
\* not lost.
TracksWantedRanges == wanted = DOMAIN headers \cup DOMAIN completed

\* Every request that waits for an answer has somebody to give it: the ledger
\* has its fetch, or a timeout will send it to another peer.
EveryRequestIsDriven ==
  /\ \A r \in DOMAIN headers :
       IF headers[r] = "ledger" THEN Headers(r) \in Range(fetches) ELSE Headers(r) \in timers
  /\ \A p \in Initiated :
       IF payloads[p] = "ledger" THEN Payload(p) \in Range(fetches) ELSE Payload(p) \in timers

\* self_payload_requests_in_flight never counts less than what is in flight
\* (its decrement cannot underflow) nor more than the limit.
InFlightWithinBounds ==
  Cardinality(Initiated) <= in_flight /\ in_flight <= BLOCKSYNC_MAX_PAYLOAD_REQUESTS

\* A peer that waits for an answer waits for a fetch the ledger will answer.
PeersAreAnswered ==
  /\ \A e \in peer_headers : Headers(e.range) \in Range(fetches)
  /\ \A e \in peer_payloads : Payload(e[1]) \in Range(fetches)

=============================================================================
