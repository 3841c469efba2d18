----------------------------- MODULE StateSync -----------------------------
(***************************************************************************)
(* State sync (monad-statesync): the server that answers requests from its *)
(* execution client, and the client that fetches a state.                  *)
(***************************************************************************)
EXTENDS Integers, SequencesExt

-----------------------------------------------------------------------------
(***************************************************************************)
(* The server of state sync: StreamState of ipc.rs between the clients,    *)
(* which send requests and acknowledgements through consensus, and the     *)
(* execution client, which answers one request at a time over a socket.    *)
(* Responses leave through a bounded channel, each with a completion that  *)
(* resolves when it was written to the network or is cancelled.            *)
(*                                                                         *)
(* The range a request asks for has the upserts 1 .. U.                    *)
(***************************************************************************)

CONSTANTS
    Clients, Acks,                  \* the clients, and those of version V2 or later
    Requests,                       \* what they ask for: [prefix, target]
    U,                              \* upserts per range
    MAX_UPSERTS_PER_RESPONSE, MAX_PENDING_RESPONSES, MAX_UNACKNOWLEDGED_RESPONSES,
    RequestChannel, ResponseChannel,    \* capacities of the two channels
    MaxRequests, MaxResets,         \* bounds
    MaxEmpty                        \* bound: chunks before this index may be empty


VARIABLES
    request_tx,         \* channel of messages from clients
    response_rx,        \* channel of responses
    pending_requests,
    wip,                \* wip_response, NoWip for None
    execution,          \* the execution client: the request it answers, and how far
    nonces,             \* number of sessions so far
    net,                \* responses on the way to each client
    received,           \* what each client has put together of the latest session
    asked, resets,
    panicked

ipcVars == <<request_tx, response_rx, pending_requests, wip, execution, nonces, net, received, asked, resets, panicked>>

NoWip == [from |-> "none"]
Idle == [req |-> <<>>, read |-> 0]
Failed == <<"failed">>      \* pending_response_completions = None

IpcInit ==
    /\ request_tx = <<>> /\ response_rx = <<>> /\ pending_requests = <<>>
    /\ wip = NoWip /\ execution = Idle /\ nonces = 0
    /\ net = [c \in Clients |-> <<>>]
    /\ received = [c \in Clients |-> [nonce |-> 0, idx |-> 0, hi |-> 0, last |-> FALSE, gap |-> FALSE]]
    /\ asked = 0 /\ resets = 0 /\ panicked = "no"

-----------------------------------------------------------------------------
(* WipResponse.                                                            *)

NewWip(from, req) ==
    [from |-> from, req |-> req, nonce |-> nonces + 1, idx |-> 0,
     lo |-> 1, hi |-> 0,                \* the upserts in the buffer
     unacked |-> 0, completions |-> <<>>]

has_space(w) == w.hi - w.lo + 1 < MAX_UPSERTS_PER_RESPONSE

can_send(w) ==
    \/ w.completions = Failed
    \/ /\ Len(w.completions) < MAX_PENDING_RESPONSES
       /\ w.from \in Acks => w.unacked < MAX_UNACKNOWLEDGED_RESPONSES

Message(w, last) ==
    [nonce |-> w.nonce, idx |-> w.idx, lo |-> w.lo, hi |-> w.hi, last |-> last]

(* send_batch on the session w: the session afterwards, and the channel.
   A response that finds the channel full is dropped with its completion.  *)
Sent(w) ==
    IF w.completions = Failed THEN [w EXCEPT !.idx = @ + 1, !.lo = w.hi + 1]
    ELSE [w EXCEPT !.idx = @ + 1, !.lo = w.hi + 1, !.unacked = @ + 1,
                   !.completions = Append(@, IF Len(response_rx) < ResponseChannel THEN "wait" ELSE "cancelled")]

Written(w, last) ==
    IF w.completions = Failed \/ Len(response_rx) >= ResponseChannel THEN response_rx
    ELSE Append(response_rx, [to |-> w.from, msg |-> Message(w, last)])

send_batch(w) == wip' = Sent(w) /\ response_rx' = Written(w, FALSE)

maybe_send_batch(w) ==
    IF ~ has_space(w) /\ can_send(w) THEN send_batch(w) ELSE wip' = w /\ UNCHANGED response_rx

-----------------------------------------------------------------------------
(* Requests.                                                               *)

(* try_queue_response with the queue q: the first request that is not too
   old is written to the execution client.                                 *)
try_queue_response(q, w) ==
    IF w # NoWip THEN pending_requests' = q /\ wip' = w /\ UNCHANGED <<execution, nonces>>
    ELSE \E n \in 0 .. Len(q) :         \* the first n are stale
           IF n = Len(q) THEN /\ pending_requests' = <<>> /\ wip' = NoWip
                              /\ UNCHANGED <<execution, nonces>>
           ELSE /\ pending_requests' = SubSeq(q, n + 2, Len(q))
                /\ wip' = NewWip(q[n + 1].from, q[n + 1].req)
                /\ execution' = [req |-> q[n + 1].req, read |-> 0]
                /\ nonces' = nonces + 1

(* handle_request: replaces what the same client asked for another target,
   and an equal request that waits; one that is serviced is ignored.       *)
handle_request(from, req) ==
    LET kept == SelectSeq(pending_requests,
                    LAMBDA p : ~ (p.from = from /\ (p.req.target # req.target \/ p.req = req)))
    IN /\ IF wip # NoWip /\ wip.req = req
          THEN pending_requests' = kept /\ UNCHANGED <<wip, execution, nonces>>
          ELSE try_queue_response(Append(kept, [from |-> from, req |-> req]), wip)
       /\ UNCHANGED response_rx

(* handle_completion: the acknowledgement of a client.                     *)
handle_completion(from, nonce) ==
    /\ IF wip = NoWip THEN UNCHANGED <<wip, response_rx>>
       ELSE maybe_send_batch(IF wip.from = from /\ wip.nonce = nonce /\ wip.unacked > 0
                             THEN [wip EXCEPT !.unacked = @ - 1] ELSE wip)
    /\ UNCHANGED <<pending_requests, execution, nonces>>

(* A request that fits in the channel reaches StreamState.                 *)
ClientRequest ==
    /\ asked < MaxRequests /\ asked' = asked + 1
    /\ \E c \in Clients, r \in Requests :
          request_tx' = IF Len(request_tx) < RequestChannel
                        THEN Append(request_tx, [type |-> "Request", from |-> c, req |-> r]) ELSE request_tx
    /\ UNCHANGED <<response_rx, pending_requests, wip, execution, nonces, net, received, resets, panicked>>

HandleMessage ==
    /\ request_tx # <<>> /\ request_tx' = Tail(request_tx)
    /\ LET m == Head(request_tx)
       IN IF m.type = "Request" THEN handle_request(m.from, m.req) ELSE handle_completion(m.from, m.nonce)
    /\ UNCHANGED <<net, received, asked, resets, panicked>>

-----------------------------------------------------------------------------
(* The execution client writes upserts and then SyncDone; the server reads
   only while it has space.                                                *)

HandleUpsert ==
    /\ execution # Idle /\ execution.read < U
    /\ IF wip = NoWip
       THEN panicked' = "SyncUpsert with no pending_response" /\ UNCHANGED <<wip, response_rx>>
       ELSE has_space(wip) /\ maybe_send_batch([wip EXCEPT !.hi = @ + 1]) /\ UNCHANGED panicked
    /\ execution' = [execution EXCEPT !.read = @ + 1]
    /\ UNCHANGED <<request_tx, pending_requests, nonces, net, received, asked, resets>>

HandleDone ==
    /\ execution # Idle
    /\ IF wip = NoWip THEN panicked' = "syncdone received with no pending_response" /\ execution' = Idle
                           /\ UNCHANGED <<wip, response_rx, pending_requests, nonces>>
       ELSE /\ has_space(wip)
            /\ panicked' = IF wip.req # execution.req THEN "another prefix" ELSE panicked
            /\ \/ execution.read = U /\ response_rx' = Written(wip, TRUE)       \* success
               \/ UNCHANGED response_rx                                         \* failure
            /\ IF pending_requests = <<>>
               THEN wip' = NoWip /\ execution' = Idle /\ UNCHANGED <<pending_requests, nonces>>
               ELSE \E n \in 0 .. Len(pending_requests) :
                      IF n = Len(pending_requests)
                      THEN pending_requests' = <<>> /\ wip' = NoWip /\ execution' = Idle /\ UNCHANGED nonces
                      ELSE /\ pending_requests' = SubSeq(pending_requests, n + 2, Len(pending_requests))
                           /\ wip' = NewWip(pending_requests[n + 1].from, pending_requests[n + 1].req)
                           /\ execution' = [req |-> pending_requests[n + 1].req, read |-> 0]
                           /\ nonces' = nonces + 1
    /\ UNCHANGED <<request_tx, net, received, asked, resets>>

(* handle_timeout: MESSAGE_SCHEDULE_DURATION has passed since the last one. *)
HandleTimeout ==
    /\ wip # NoWip /\ can_send(wip)
    /\ wip.hi >= wip.lo \/ wip.idx < MaxEmpty
    /\ send_batch(wip)
    /\ UNCHANGED <<request_tx, pending_requests, execution, nonces, net, received, asked, resets, panicked>>

(* handle_tcp_completion: the oldest completion has resolved.              *)
HandleTcpCompletion ==
    /\ wip # NoWip /\ wip.completions \notin {Failed, <<>>} /\ Head(wip.completions) # "wait"
    /\ maybe_send_batch([wip EXCEPT !.completions =
                            IF Head(@) = "cancelled" THEN Failed ELSE Tail(@)])
    /\ UNCHANGED <<request_tx, pending_requests, execution, nonces, net, received, asked, resets, panicked>>

(* handle_client_timeout: nothing was acknowledged for CLIENT_TIMEOUT.     *)
HandleClientTimeout ==
    /\ wip # NoWip /\ wip.unacked > 0 /\ wip.completions # Failed /\ wip.from \in Acks
    /\ wip' = [wip EXCEPT !.completions = Failed]
    /\ UNCHANGED <<request_tx, response_rx, pending_requests, execution, nonces, net, received, asked, resets, panicked>>

(* The socket breaks: StreamState is dropped, and while the server waits
   for the execution client to connect again the requests are drained.     *)
Reconnect ==
    /\ execution # Idle /\ resets < MaxResets /\ resets' = resets + 1
    /\ request_tx' = <<>> /\ pending_requests' = <<>> /\ wip' = NoWip /\ execution' = Idle
    /\ UNCHANGED <<response_rx, nonces, net, received, asked, panicked>>

-----------------------------------------------------------------------------
(* Consensus takes a response and sends it; the completion resolves, or the
   message is lost and the completion is cancelled.                        *)

Resolved(m, how) ==
    IF wip # NoWip /\ wip.nonce = m.nonce /\ wip.completions # Failed /\ ~ m.last
    THEN LET k == Len(wip.completions) - (wip.idx - 1 - m.idx)
         IN IF k \in DOMAIN wip.completions THEN [wip EXCEPT !.completions[k] = how] ELSE wip
    ELSE wip

Forward ==
    /\ response_rx # <<>> /\ response_rx' = Tail(response_rx)
    /\ LET r == Head(response_rx)
       IN \/ wip' = Resolved(r.msg, "ok") /\ net' = [net EXCEPT ![r.to] = Append(@, r.msg)]
          \/ wip' = Resolved(r.msg, "cancelled") /\ UNCHANGED net
    /\ UNCHANGED <<request_tx, pending_requests, execution, nonces, received, asked, resets, panicked>>

(* The client puts chunks together by nonce and index (apply_response), and
   acknowledges the ones it could use.                                     *)
ClientReceive ==
    /\ \E c \in Clients :
          /\ net[c] # <<>> /\ net' = [net EXCEPT ![c] = Tail(@)]
          /\ LET m == Head(net[c])
                 have == IF m.nonce # received[c].nonce
                         THEN [nonce |-> m.nonce, idx |-> 0, hi |-> 0, last |-> FALSE, gap |-> FALSE]
                         ELSE received[c]
             IN IF m.idx # have.idx THEN UNCHANGED <<received, request_tx>>
                ELSE /\ received' = [received EXCEPT ![c] =
                              [nonce |-> m.nonce, idx |-> m.idx + 1, hi |-> m.hi, last |-> m.last,
                               gap |-> have.gap \/ m.lo # have.hi + 1]]
                     /\ request_tx' = IF c \in Acks /\ Len(request_tx) < RequestChannel
                                      THEN Append(request_tx, [type |-> "Completion", from |-> c, nonce |-> m.nonce])
                                      ELSE request_tx
    /\ UNCHANGED <<response_rx, pending_requests, wip, execution, nonces, asked, resets, panicked>>

IpcNext ==
    \/ ClientRequest \/ HandleMessage \/ HandleUpsert \/ HandleDone \/ HandleTimeout
    \/ HandleTcpCompletion \/ HandleClientTimeout \/ Reconnect \/ Forward \/ ClientReceive

IpcSpec == IpcInit /\ [][IpcNext]_ipcVars

(* What is weakly fair, by number: the task is polled, its timers run,
   consensus drains the channel and the execution client goes on while its
   socket is read.                                                         *)
IpcFair(i) ==
    \/ i = 1 /\ HandleMessage
    \/ i = 2 /\ HandleUpsert
    \/ i = 3 /\ HandleDone
    \/ i = 4 /\ HandleTimeout
    \/ i = 5 /\ HandleTcpCompletion
    \/ i = 6 /\ HandleClientTimeout
    \/ i = 7 /\ Forward

-----------------------------------------------------------------------------
(* Properties.                                                             *)

IpcTypeOK ==
    /\ Len(request_tx) <= RequestChannel /\ Len(response_rx) <= ResponseChannel
    /\ wip # NoWip => wip.hi \in 0 .. U /\ wip.lo \in 1 .. U + 1 /\ wip.unacked \in Nat
    /\ nonces \in 0 .. MaxRequests

(* What the execution client sends is always for the session at hand: a
   client that timed out or a failed send does not end the session before
   SyncDone does.                                                          *)
ExecutionMatchesSession == panicked = "no" /\ (execution # Idle => wip # NoWip)

(* A client that puts chunks of one session together by index never misses
   upserts, although full channels and failed sends drop some chunks: the
   index counts dropped chunks, too.                                       *)
NoHiddenGap ==
    \A c \in Clients : ~ received[c].gap /\ (received[c].last => received[c].hi = U)

(* "list of pending completions, max size of MAX_PENDING_RESPONSES", and a
   client that acknowledges has at most MAX_UNACKNOWLEDGED_RESPONSES ahead
   of it; the buffer never exceeds one response.                           *)
BackPressure ==
    wip # NoWip =>
        /\ wip.hi - wip.lo < MAX_UPSERTS_PER_RESPONSE
        /\ wip.completions # Failed =>
              /\ Len(wip.completions) <= MAX_PENDING_RESPONSES
              /\ wip.from \in Acks => wip.unacked <= MAX_UNACKNOWLEDGED_RESPONSES

(* A client has requests for one target, each once, among the pending ones. *)
NoDuplicateRequests ==
    \A i, j \in DOMAIN pending_requests :
        i < j /\ pending_requests[i].from = pending_requests[j].from =>
            /\ pending_requests[i].req # pending_requests[j].req
            /\ pending_requests[i].req.target = pending_requests[j].req.target

-----------------------------------------------------------------------------
(***************************************************************************)
(* The client of state sync: the executor's outbound requests, the thread  *)
(* that feeds responses into the database, and the two channels between    *)
(* them, facing servers that answer in chunks, fail, or are upgraded.      *)
(*                                                                         *)
(* The database (a C++ library) asks for one range of each prefix per      *)
(* target; the content of the range is the set 1 .. U of upserts, and the  *)
(* target is reached when every prefix is done.  Servers follow ipc.rs,    *)
(* reduced to which session answers which request with which chunks.       *)
(***************************************************************************)

CONSTANTS
    Peers,                  \* state_sync_peers
    AllPrefixes,
    MaxTarget,              \* targets are 1 .. MaxTarget
    max_parallel_requests,
    MaxTimeouts,            \* bound on request timeouts
    MaxFails,               \* bound on sessions that servers abandon
    MaxUpgrades             \* bound on servers that restart with other versions


VARIABLES
    (* OutboundRequests *)
    peers,          \* peer -> negotiated version
    pending,        \* pending_requests
    inflight,       \* in_flight_requests: request -> InFlightRequest
    prefix_peers,   \* prefix -> peer
    (* the rest of the executor *)
    target,         \* current_target of the executor, 0 for None
    mode,           \* "Sync" or "Live"
    done,           \* the last target of a DoneSync that was handed over
    (* the statesync thread *)
    toThread, fromThread,       \* response_tx and request_tx
    current_target, next_target, \* 0 for None
    ctx,            \* prefix -> [done, applied] while a SyncCtx is active, else Inactive
    (* servers and network *)
    version,        \* the versions a server supports
    inbox,          \* requests under way to a server
    queue, client_wip,     \* pending_requests and wip_response of a server
    outbox,         \* messages under way from a server
    sessions,       \* number of sessions, for fresh nonces
    timeouts, fails, upgrades,
    client_panicked        \* the assertion that failed, or "no"

client == <<peers, pending, inflight, prefix_peers>>
executor == <<target, mode, done>>
thread == <<current_target, next_target, ctx>>
servers == <<version, queue, client_wip, sessions>>
counters == <<timeouts, fails, upgrades>>
clientVars == <<client, executor, toThread, fromThread, thread, servers, inbox, outbox, counters, client_panicked>>

SELF_STATESYNC_VERSION == 2
STATESYNC_VERSION_MIN == 1
(* The oldest and the newest version of a server.                          *)
ServerVersions == {<<1, 1>>, <<1, 2>>, <<3, 3>>}

Empty == [x \in {} |-> 0]
Without(f, K) == [x \in DOMAIN f \ K |-> f[x]]
With(f, x, v) == [y \in DOMAIN f \cup {x} |-> IF y = x THEN v ELSE f[y]]
Inactive == Empty
NoClientWip == [req |-> <<>>, nonce |-> 0, idx |-> 0, sent |-> 0]

Request(p, t) == [prefix |-> p, target |-> t, version |-> SELF_STATESYNC_VERSION]

ClientInit ==
    /\ peers = [p \in Peers |-> SELF_STATESYNC_VERSION]
    /\ pending = {} /\ inflight = Empty /\ prefix_peers = Empty
    /\ target = 0 /\ mode = "Sync" /\ done = 0
    /\ toThread = <<>> /\ fromThread = <<>>
    /\ current_target = 0 /\ next_target = 0 /\ ctx = Inactive
    /\ version \in [Peers -> {<<1, 1>>, <<1, 2>>}]
    /\ inbox = [p \in Peers |-> <<>>] /\ outbox = [p \in Peers |-> <<>>]
    /\ queue = [p \in Peers |-> <<>>] /\ client_wip = [p \in Peers |-> NoClientWip]
    /\ sessions = 0 /\ timeouts = 0 /\ fails = 0 /\ upgrades = 0
    /\ client_panicked = "no"

Running == client_panicked = "no"

-----------------------------------------------------------------------------
(* The executor.                                                           *)

(* StateSyncCommand::RequestSync.                                          *)
update_target ==
    /\ Running /\ mode = "Sync" /\ target < MaxTarget
    /\ target' = target + 1
    /\ toThread' = Append(toThread, [type |-> "UpdateTarget", target |-> target + 1])
    /\ UNCHANGED <<client, mode, done, fromThread, thread, servers, inbox, outbox, counters, client_panicked>>

(* StateSyncCommand::StartExecution, once the last target was reached: the
   channel closes and the thread's loop ends.                              *)
StartExecution ==
    /\ Running /\ mode = "Sync" /\ done = target /\ target > 0
    /\ mode' = "Live"
    /\ client_panicked' = IF ctx # Inactive THEN "active ctx at exit" ELSE client_panicked
    /\ UNCHANGED <<client, target, done, toThread, fromThread, thread, servers, inbox, outbox, counters>>

(* The targets of the outstanding requests.                                *)
Outstanding == {r.target : r \in pending \cup DOMAIN inflight}
is_empty == pending = {} /\ DOMAIN inflight = {}

(* One item of poll_next's loop over the thread's requests.                *)
PollThread ==
    /\ Running /\ mode = "Sync" /\ fromThread # <<>>
    /\ fromThread' = Tail(fromThread)
    /\ LET m == Head(fromThread)
       IN CASE m.type = "Request" ->
                 /\ pending' = pending \cup {m.req}          \* queue_request
                 /\ client_panicked' = IF Outstanding \subseteq {m.req.target} THEN client_panicked ELSE "two targets"
                 /\ UNCHANGED <<prefix_peers, done>>
            [] m.type = "DoneSync" ->
                 /\ done' = m.target
                 /\ prefix_peers' = Empty
                 /\ client_panicked' = IF is_empty THEN client_panicked ELSE "requests left at DoneSync"
                 /\ UNCHANGED pending
            [] m.type = "Completion" -> UNCHANGED <<pending, prefix_peers, done, client_panicked>>
    /\ UNCHANGED <<peers, inflight, target, mode, toThread, thread, servers, inbox, outbox, counters>>

(* The peers a request may go to.                                          *)
choose_peer(prefix) ==
    IF prefix \in DOMAIN prefix_peers THEN {prefix_peers[prefix]} ELSE DOMAIN peers

(* Send req, which is taken out of the set R of pending or in-flight ones. *)
insert_request(req, flights) ==
    IF choose_peer(req.prefix) = {}
    THEN client_panicked' = "no peers" /\ inflight' = flights /\ UNCHANGED inbox
    ELSE \E p \in choose_peer(req.prefix) :
           IF p \notin DOMAIN peers
           THEN client_panicked' = "peer not found" /\ inflight' = flights /\ UNCHANGED inbox
           ELSE LET to_send == [req EXCEPT !.version = peers[p]]
                IN /\ inflight' = With(flights, to_send, [peer |-> p, idx |-> 0, buf |-> {}, seen |-> {}])
                   /\ inbox' = [inbox EXCEPT ![p] = Append(@, to_send)]
                   /\ UNCHANGED client_panicked

(* poll, when another request may be sent: the first in the order of the
   set, that is by version and then by prefix.  The model takes any.       *)
PollSend ==
    /\ Running /\ mode = "Sync" /\ fromThread = <<>>
    /\ Cardinality(DOMAIN inflight) < max_parallel_requests
    /\ \E req \in pending :
          /\ pending' = pending \ {req}
          /\ insert_request(req, inflight)
    /\ UNCHANGED <<peers, prefix_peers, executor, toThread, fromThread, thread, servers, outbox, counters>>

(* Nobody is working on a request: only a timeout can go on.               *)
Quiet ==
    /\ toThread = <<>>
    /\ \A p \in Peers : inbox[p] = <<>> /\ outbox[p] = <<>> /\ queue[p] = <<>> /\ client_wip[p] = NoClientWip

(* poll, when the request that was active longest ago has timed out.  Only
   timeouts of requests that are being worked on are bounded.              *)
PollTimeout ==
    /\ Running /\ mode = "Sync" /\ fromThread = <<>> /\ (timeouts < MaxTimeouts \/ Quiet)
    /\ Cardinality(DOMAIN inflight) >= max_parallel_requests \/ pending = {}
    /\ \E req \in DOMAIN inflight : insert_request(req, Without(inflight, {req}))
    /\ timeouts' = IF Quiet THEN timeouts ELSE timeouts + 1
    /\ UNCHANGED <<peers, pending, prefix_peers, executor, toThread, fromThread, thread, servers, outbox,
                   fails, upgrades>>

-----------------------------------------------------------------------------
(* InFlightRequest::apply_response: the flight afterwards and the responses
   that can be handed to the thread in order.                              *)

First(from, indices) == CHOOSE i \in from .. from + Cardinality(indices) :
                            i \notin indices /\ (from .. i - 1) \subseteq indices

Deliver(f, buf, m) ==
    LET next == First(f.idx + 1, {b.idx : b \in buf})
        batch == {b \in buf : b.idx < next}
    IN [flight |-> [f EXCEPT !.idx = next, !.buf = buf \ batch, !.seen = @ \cup {m.nonce}],
        out |-> <<m>> \o SetToSortSeq(batch, LAMBDA a, b : a.idx < b.idx),
        panic |-> "no"]

Keep(f, buf, m, panic) ==
    [flight |-> [f EXCEPT !.buf = buf, !.seen = @ \cup {m.nonce}], out |-> <<>>, panic |-> panic]

(* long: more than STATESYNC_CHUNKED_RESPONSE_TIMEOUT since the last.      *)
apply_response(f, m, long) ==
    LET fixed == \E b \in f.buf : b.nonce # m.nonce
        buf == IF fixed THEN {} ELSE f.buf
    IN IF fixed /\ ~ (long /\ m.nonce \notin f.seen) THEN Keep(f, f.buf, m, "no")
       ELSE IF m.idx < f.idx THEN Keep(f, buf, m, "no")
       ELSE IF m.idx = f.idx THEN Deliver(f, buf, m)
       ELSE Keep(f, buf \cup {m}, m, IF m.idx \in {b.idx : b \in buf} THEN "duplicate response_index" ELSE "no")

Accepted(p, m) ==
    ~ (m.req.prefix \in DOMAIN prefix_peers /\ prefix_peers[m.req.prefix] # p)

handle_response(p, m, long) ==
    IF ~ Accepted(p, m) THEN UNCHANGED <<inflight, prefix_peers, toThread, client_panicked>>
    ELSE /\ prefix_peers' = With(prefix_peers, m.req.prefix, p)
         /\ IF m.req \notin DOMAIN inflight THEN UNCHANGED <<inflight, toThread, client_panicked>>
            ELSE LET r == apply_response(inflight[m.req], m, long)
                 IN /\ inflight' = IF r.out # <<>> /\ Last(r.out).last
                                   THEN Without(inflight, {m.req})
                                   ELSE [inflight EXCEPT ![m.req] = r.flight]
                    /\ toThread' = toThread \o
                          [i \in DOMAIN r.out |-> [type |-> "Response", from |-> p, msg |-> r.out[i]]]
                    /\ client_panicked' = r.panic

ReceiveResponse ==
    /\ Running
    /\ \E p \in Peers, long \in BOOLEAN :
          /\ outbox[p] # <<>> /\ Head(outbox[p]).type = "Response"
          /\ outbox' = [outbox EXCEPT ![p] = Tail(@)]
          /\ IF mode = "Sync" THEN handle_response(p, Head(outbox[p]), long)
             ELSE UNCHANGED <<inflight, prefix_peers, toThread, client_panicked>>
    /\ UNCHANGED <<peers, pending, executor, fromThread, thread, servers, inbox, counters>>

Bad_handle_bad_version(p, lo, hi) ==
    LET cancelled == {r \in DOMAIN inflight : inflight[r].peer = p /\ r.version > hi}
    IN /\ peers' = IF hi < STATESYNC_VERSION_MIN \/ lo > SELF_STATESYNC_VERSION
                   THEN Without(peers, {p}) ELSE With(peers, p, hi)
       /\ pending' = pending \cup cancelled
       /\ UNCHANGED inflight

Bad_handle_bad_version_dropping(p, lo, hi) ==
    LET cancelled == {r \in DOMAIN inflight : inflight[r].peer = p /\ r.version > hi}
    IN /\ peers' = IF hi < STATESYNC_VERSION_MIN \/ lo > SELF_STATESYNC_VERSION
                   THEN Without(peers, {p}) ELSE With(peers, p, hi)
       /\ inflight' = Without(inflight, cancelled)
       /\ UNCHANGED pending

(* handle_bad_version: requests to the peer with a newer version than it
   supports are queued again.                                              *)
handle_bad_version(p, lo, hi) ==
    LET cancelled == {r \in DOMAIN inflight : inflight[r].peer = p /\ r.version > hi}
    IN /\ peers' = IF hi < STATESYNC_VERSION_MIN \/ lo > SELF_STATESYNC_VERSION
                   THEN Without(peers, {p}) ELSE With(peers, p, hi)
       /\ inflight' = Without(inflight, cancelled)
       /\ pending' = pending \cup cancelled

ReceiveBadVersion ==
    /\ Running
    /\ \E p \in Peers :
          /\ outbox[p] # <<>> /\ Head(outbox[p]).type = "BadVersion"
          /\ outbox' = [outbox EXCEPT ![p] = Tail(@)]
          /\ IF mode = "Sync" THEN handle_bad_version(p, Head(outbox[p]).min, Head(outbox[p]).max)
             ELSE UNCHANGED <<peers, inflight, pending>>
    /\ UNCHANGED <<prefix_peers, executor, toThread, fromThread, thread, servers, inbox, counters, client_panicked>>

-----------------------------------------------------------------------------
(* The statesync thread.  A new target makes the database ask for a range
   of every prefix.                                                        *)

(* get_or_create_ctx: a context with all prefixes.                         *)
NewCtx == [p \in AllPrefixes |-> [done |-> FALSE, applied |-> {}]]
ClientRequests(t) == [i \in 1 .. Cardinality(AllPrefixes) |->
                  [type |-> "Request", req |-> Request(SetToSeq(AllPrefixes)[i], t)]]

ThreadUpdateTarget ==
    /\ Running /\ toThread # <<>> /\ Head(toThread).type = "UpdateTarget"
    /\ toThread' = Tail(toThread)
    /\ LET t == Head(toThread).target
       IN IF current_target = 0
          THEN /\ current_target' = t /\ ctx' = NewCtx
               /\ fromThread' = fromThread \o ClientRequests(t)
               /\ UNCHANGED next_target
          ELSE next_target' = t /\ UNCHANGED <<current_target, ctx, fromThread>>
    /\ UNCHANGED <<client, executor, servers, inbox, outbox, counters, client_panicked>>

(* The context after the upserts of m and, if it is the last, handle_done. *)
Applied(c, m) ==
    [c EXCEPT ![m.req.prefix] = [done |-> @.done \/ m.last, applied |-> @.applied \cup (m.lo .. m.hi)]]

HasReachedTarget(c) == \A p \in AllPrefixes : c[p].done
RootMatches(c) == \A p \in AllPrefixes : c[p].applied = 1 .. U

(* A response, and try_finalize: on to the next target, or DoneSync.       *)
ThreadResponse ==
    /\ Running /\ toThread # <<>> /\ Head(toThread).type = "Response"
    /\ toThread' = Tail(toThread)
    /\ IF current_target = 0 \/ ctx = Inactive
       THEN client_panicked' = "response on inactive ctx" /\ UNCHANGED <<thread, fromThread>>
       ELSE LET m == Head(toThread).msg
                c == Applied(ctx, m)
                completion == <<[type |-> "Completion", to |-> Head(toThread).from, nonce |-> m.nonce]>>
            IN IF ~ HasReachedTarget(c)
               THEN /\ ctx' = c
                    /\ fromThread' = fromThread \o completion
                    /\ UNCHANGED <<current_target, next_target, client_panicked>>
               ELSE /\ client_panicked' = IF RootMatches(c) THEN client_panicked ELSE "state root doesn't match"
                    /\ current_target' = next_target /\ next_target' = 0
                    /\ ctx' = IF next_target # 0 THEN NewCtx ELSE Inactive
                    /\ fromThread' = fromThread \o completion
                          \o (IF next_target # 0 THEN ClientRequests(next_target)
                              ELSE <<[type |-> "DoneSync", target |-> current_target]>>)
    /\ UNCHANGED <<client, executor, servers, inbox, outbox, counters>>

-----------------------------------------------------------------------------
(* Servers.  StateSyncServer has them in full.                             *)

(* The next session of a server that services nothing.                     *)
Start(p, q) ==
    IF client_wip[p] = NoClientWip /\ q # <<>>
    THEN /\ client_wip' = [client_wip EXCEPT ![p] = [req |-> Head(q), nonce |-> sessions + 1, idx |-> 0, sent |-> 0]]
         /\ queue' = [queue EXCEPT ![p] = Tail(q)]
         /\ sessions' = sessions + 1
    ELSE queue' = [queue EXCEPT ![p] = q] /\ UNCHANGED <<client_wip, sessions>>

(* handle_request *)
ServerRequest ==
    /\ \E p \in Peers :
          /\ inbox[p] # <<>>
          /\ inbox' = [inbox EXCEPT ![p] = Tail(@)]
          /\ LET r == Head(inbox[p])
                 kept == SelectSeq(queue[p], LAMBDA x : x.target = r.target /\ x # r)
             IN IF r.version < version[p][1] \/ r.version > version[p][2]
                THEN /\ outbox' = [outbox EXCEPT ![p] = Append(@,
                              [type |-> "BadVersion", min |-> version[p][1], max |-> version[p][2]])]
                     /\ UNCHANGED <<queue, client_wip, sessions>>
                ELSE /\ IF client_wip[p].req = r THEN queue' = [queue EXCEPT ![p] = kept] /\ UNCHANGED <<client_wip, sessions>>
                        ELSE Start(p, Append(kept, r))
                     /\ UNCHANGED outbox
    /\ UNCHANGED <<client, executor, toThread, fromThread, thread, version, counters, client_panicked>>

Chunk(p, hi, last) ==
    [type |-> "Response", req |-> client_wip[p].req, nonce |-> client_wip[p].nonce, idx |-> client_wip[p].idx,
     lo |-> client_wip[p].sent + 1, hi |-> hi, last |-> last]

(* send_batch: a part of the range, as many upserts as have been read.     *)
ServerChunk ==
    /\ \E p \in Peers : \E hi \in client_wip[p].sent + 1 .. U - 1 :
          /\ client_wip[p] # NoClientWip
          /\ outbox' = [outbox EXCEPT ![p] = Append(@, Chunk(p, hi, FALSE))]
          /\ client_wip' = [client_wip EXCEPT ![p].idx = @ + 1, ![p].sent = hi]
    /\ UNCHANGED <<client, executor, toThread, fromThread, thread, version, queue, sessions, inbox, counters, client_panicked>>

(* SyncDone, with success.                                                 *)
ServerDone ==
    /\ \E p \in Peers :
          /\ client_wip[p] # NoClientWip
          /\ outbox' = [outbox EXCEPT ![p] = Append(@, Chunk(p, U, TRUE))]
          /\ client_wip' = [client_wip EXCEPT ![p] = NoClientWip]
    /\ UNCHANGED <<client, executor, toThread, fromThread, thread, version, queue, sessions, inbox, counters, client_panicked>>

(* Whenever a server services nothing, it takes the next request.          *)
ServerNext ==
    /\ \E p \in Peers : client_wip[p] = NoClientWip /\ queue[p] # <<>> /\ Start(p, queue[p])
    /\ UNCHANGED <<client, executor, toThread, fromThread, thread, version, inbox, outbox, counters, client_panicked>>

(* SyncDone without success, a failed send, or a client timeout.           *)
ServerFail ==
    /\ fails < MaxFails /\ fails' = fails + 1
    /\ \E p \in Peers : client_wip[p] # NoClientWip /\ client_wip' = [client_wip EXCEPT ![p] = NoClientWip]
    /\ UNCHANGED <<client, executor, toThread, fromThread, thread, version, queue, sessions, inbox, outbox,
                   timeouts, upgrades, client_panicked>>

(* A server restarts with other versions and forgets its requests.         *)
ServerUpgrade ==
    /\ upgrades < MaxUpgrades /\ upgrades' = upgrades + 1
    /\ \E p \in Peers, v \in ServerVersions :
          /\ v # version[p] /\ version' = [version EXCEPT ![p] = v]
          /\ client_wip' = [client_wip EXCEPT ![p] = NoClientWip] /\ queue' = [queue EXCEPT ![p] = <<>>]
    /\ UNCHANGED <<client, executor, toThread, fromThread, thread, sessions, inbox, outbox,
                   timeouts, fails, client_panicked>>

-----------------------------------------------------------------------------
ClientNext ==
    \/ update_target \/ StartExecution \/ PollThread \/ PollSend \/ PollTimeout
    \/ ReceiveResponse \/ ReceiveBadVersion \/ ThreadUpdateTarget \/ ThreadResponse
    \/ ServerRequest \/ ServerChunk \/ ServerDone \/ ServerNext \/ ServerFail \/ ServerUpgrade

ClientSpec == ClientInit /\ [][ClientNext]_clientVars

(* What is weakly fair, by number: the executor is polled and its timer runs,
   the thread runs, messages arrive, and a server that services a request
   finishes it, unless it fails.                                           *)
ClientFair(i) ==
    \/ i = 1 /\ PollThread
    \/ i = 2 /\ PollSend
    \/ i = 3 /\ Quiet /\ PollTimeout
    \/ i = 4 /\ (ReceiveResponse \/ ReceiveBadVersion)
    \/ i = 5 /\ ThreadUpdateTarget
    \/ i = 6 /\ ThreadResponse
    \/ i = 7 /\ ServerRequest
    \/ i = 8 /\ ServerDone
    \/ i = 9 /\ ServerNext

-----------------------------------------------------------------------------
(* Properties.                                                             *)

ClientTypeOK ==
    /\ DOMAIN peers \subseteq Peers /\ DOMAIN prefix_peers \subseteq AllPrefixes
    /\ \A r \in pending \cup DOMAIN inflight : r.prefix \in AllPrefixes /\ r.target \in 1 .. MaxTarget
    /\ target \in 0 .. MaxTarget /\ done \in 0 .. target /\ mode \in {"Sync", "Live"}
    /\ current_target \in 0 .. MaxTarget /\ next_target \in 0 .. MaxTarget
    /\ DOMAIN ctx \in {{}, AllPrefixes}

(* The assertions of the client hold: no request is left when DoneSync is
   emitted, requests for a new target come after it, a server's chunks are
   stored once, responses reach the database only while it syncs, and the
   thread ends only when it is idle.                                       *)
AssertionsHold ==
    client_panicked \notin {"requests left at DoneSync", "two targets", "duplicate response_index",
                     "response on inactive ctx", "active ctx at exit"}

(* Two more of its assertions do fail, when servers restart with versions the
   client does not know: choose_peer finds no peer once all of them did, and
   insert_request finds no version for a peer that the prefix stays fixed to
   after it was removed. Nothing else makes them fail: each peer that is
   missing takes a restart of its own.                                     *)
OnlyUpgradesStop ==
    /\ client_panicked = "no peers" => upgrades >= Cardinality(Peers)
    /\ client_panicked = "peer not found" =>
          \E p \in Peers \ DOMAIN peers :
             version[p][1] > SELF_STATESYNC_VERSION /\ \E x \in DOMAIN prefix_peers : prefix_peers[x] = p

(* At most max_parallel_requests requests are in flight, and never two for
   the same prefix: the version that is part of a request does not make
   another request of a retry.                                             *)
OneRequestPerPrefix ==
    /\ Cardinality(DOMAIN inflight) <= max_parallel_requests
    /\ \A q, r \in pending \cup DOMAIN inflight :
          q.prefix = r.prefix => q = r
    /\ \A r \in pending \cup DOMAIN inflight :
          ctx # Inactive /\ ~ ctx[r.prefix].done

(* "for each prefix, the node (if any) that all further responses must come
   from": the responses that wait for the thread come from the peer that is
   fixed for their prefix.                                                 *)
ResponsesFromPrefixPeer ==
    \A i \in DOMAIN toThread : toThread[i].type = "Response" =>
        LET p == toThread[i].msg.req.prefix
        IN p \in DOMAIN prefix_peers /\ prefix_peers[p] = toThread[i].from

(* "state root doesn't match, are peers trusted?": when the target is
   reached, every upsert of every range has been applied.                  *)
StateRootMatches == client_panicked # "state root doesn't match"

=============================================================================
