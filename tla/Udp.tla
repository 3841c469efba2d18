-------------------------------- MODULE Udp --------------------------------
(***************************************************************************)
(* RaptorCast over UDP (monad-raptorcast/src/udp.rs): how a message is cut *)
(* into chunks, and how chunks become messages again.                      *)
(***************************************************************************)
EXTENDS Integers, Sequences, FiniteSets, FiniteSetsExt, SequencesExt

-----------------------------------------------------------------------------
(***************************************************************************)
(* How a message is cut into RaptorCast packets: build_messages computes   *)
(* how many packets a message needs, then hands each packet a symbol id    *)
(* and the node it is sent to first.  The loop over the nodes is a state   *)
(* machine here, one node per step.                                        *)
(*                                                                         *)
(* Shares of stake are computed in floating point by the code: where the   *)
(* exact share is a whole number the computed one may fall below it.       *)
(***************************************************************************)

CONSTANTS Nodes,          \* the other nodes, as integers in their sorted order
          Stake,          \* node -> stake
          Known,          \* nodes whose address is known
          MessageLens,           \* message lengths
          DataSize,       \* payload bytes in a packet
          SourceSymbolsMin, SourceSymbolsMax,
          FracUnit,       \* 2^FRAC_BITS: redundancies are multiples of 1/FracUnit
          Redundancies, MaxRedundancy, \* as numerators over FracUnit
          MaxNumPackets,  \* MAX_NUM_PACKETS
          U16             \* 2^16


VARIABLES build_pc,      \* "idle", "assign", "encode", "sent", "dropped"
          build_target, sources, packets, \* build target, source symbols, num_packets
          todo,    \* nodes still to be given packets
          running,     \* running_stake, or nodes done
          start,   \* start_idx of the next node
          idx,     \* chunk_idx, a u16
          packet,  \* packet -> [to, id]
          gso      \* outbound ranges: [to, from, upto]
buildVars == <<build_pc, build_target, sources, packets, todo, running, start, idx, packet, gso>>

Modes == {"PointToPoint", "Broadcast", "Raptorcast", "FullNodeRaptorCast"}
Unassigned == [to |-> 0, id |-> U16]
TotalStake == SumFunctionOnSet(Stake, Nodes)
sorted == SetToSortSeq(Nodes, <)

CeilDiv(a, b) == (a + b - 1) \div b
AtLeast(a, b) == IF a < b THEN b ELSE a

\* fixed-point multiplication, rounded up
scale(r, base) == CeilDiv(r * base, FracUnit)

num_source_symbols(len) == AtLeast(CeilDiv(len, DataSize), SourceSymbolsMin)

num_packets(m, len, r) ==
    scale(r, num_source_symbols(len)) * (IF m = "Broadcast" THEN Cardinality(Nodes) ELSE 1)

\* GroupIterator: every peer once, from a random start
Rotations(seq) == {[i \in DOMAIN seq |-> seq[((i + shift - 1) % Len(seq)) + 1]] : shift \in 0..(Len(seq) - 1)}
\* the order in which nodes get packets: sorted, shuffled, or rotated
Orders(m) == CASE m = "Raptorcast" -> SetToSeqs(Nodes)
               [] m = "FullNodeRaptorCast" -> Rotations(sorted)
               [] m = "Broadcast" -> {sorted}
               [] m = "PointToPoint" -> {<<to>> : to \in Nodes}

BuildInit ==
    /\ build_pc = "idle" /\ build_target = "PointToPoint" /\ sources = 0 /\ packets = 0 /\ todo = <<>> /\ running = 0
    /\ start = 0 /\ idx = 0 /\ packet = <<>> /\ gso = {}

Oversized(p) == p > MaxNumPackets

\* a message with more packets than MAX_NUM_PACKETS, or for one node at an unknown address,
\* is dropped before any packet is assigned
Build(m, len, r) ==
    /\ build_pc = "idle"
    /\ build_target' = m /\ sources' = num_source_symbols(len) /\ packets' = num_packets(m, len, r)
    /\ \E order \in Orders(m) :
          /\ todo' = order
          /\ build_pc' = IF Oversized(packets') \/ (m = "PointToPoint" /\ order[1] \notin Known)
                   THEN "dropped" ELSE "assign"
    /\ packet' = [i \in 1..packets' |-> Unassigned]
    /\ UNCHANGED <<running, start, idx, gso>>

\* what the loop accumulates, and the end of a node's share of the packets
Weight(m, node) == IF m = "Raptorcast" THEN Stake[node] ELSE 1
Whole(m) == IF m = "Raptorcast" THEN TotalStake
            ELSE IF m = "PointToPoint" THEN 1 ELSE Cardinality(Nodes)
Bad_Share(m, w) == IF w = Whole(m) THEN {packets} ELSE {(packets \div Whole(m)) * w}
Share(m, w) ==
    {(packets * w) \div Whole(m)} \cup
    (IF m = "Raptorcast" /\ (packets * w) % Whole(m) = 0 /\ w \in 1..(Whole(m) - 1)
     THEN {((packets * w) \div Whole(m)) - 1} \ {-1} ELSE {})

\* the next node gets packets start+1..end; Raptorcast numbers symbols through, the others
\* from 0 for every node
SymbolId(i) == IF build_target \in {"Raptorcast", "FullNodeRaptorCast"} THEN (idx + i - start - 1) % U16 ELSE i - start - 1
Ranges(node, end) == IF start # end /\ node \in Known THEN {[to |-> node, from |-> start, upto |-> end]} ELSE {}

Assign ==
    /\ build_pc = "assign" /\ todo # <<>>
    /\ LET node == Head(todo)
       IN /\ running' = running + Weight(build_target, node)
          /\ \E end \in IF running' = running THEN {start} ELSE Share(build_target, running') :
                /\ packet' = [i \in DOMAIN packet |-> IF i \in (start + 1)..end
                                THEN [to |-> node, id |-> SymbolId(i)] ELSE packet[i]]
                /\ gso' = gso \cup Ranges(node, end)
                /\ idx' = idx + (end - start)
                /\ start' = end
    /\ todo' = Tail(todo)
    /\ UNCHANGED <<build_pc, build_target, sources, packets>>

\* the encoder refuses too many source symbols; then every packet gets its symbol
Encode ==
    /\ build_pc = "assign" /\ todo = <<>>
    /\ build_pc' = IF sources > SourceSymbolsMax THEN "dropped" ELSE "sent"
    /\ UNCHANGED <<build_target, sources, packets, todo, running, start, idx, packet, gso>>

BuildNext == (\E m \in Modes, len \in MessageLens, r \in Redundancies : Build(m, len, r)) \/ Assign \/ Encode
BuildSpec == BuildInit /\ [][BuildNext]_buildVars

---------------------------------------------------------------------------
(* Properties *)

BuildTypeOK ==
    /\ build_pc \in {"idle", "assign", "sent", "dropped"} /\ build_target \in Modes
    /\ packets \in Nat /\ start \in Nat /\ idx \in 0..(U16 - 1)

Of(node) == {i \in DOMAIN packet : packet[i].to = node}

\* Every packet has a node and a symbol id when the symbols are encoded: the code's
\* expect("generated chunk was not assigned an id") never fires.
AllAssigned == build_pc = "sent" => \A i \in DOMAIN packet : packet[i].to \in Nodes /\ packet[i].id < U16

\* No two packets that one receiver puts together carry the same symbol: all ids of a message
\* differ when it is raptorcast, the ids of one recipient differ otherwise.
IdsDistinct ==
    build_pc = "sent" => \A i, j \in DOMAIN packet : i # j /\ packet[i].id = packet[j].id
        => build_target = "Broadcast" /\ packet[i].to # packet[j].to

\* A receiver derives the same number of source symbols from the length of the message and of
\* a symbol, and accepts every id that was assigned.
IdsAccepted ==
    build_pc = "sent" => \A i \in DOMAIN packet : packet[i].id < scale(MaxRedundancy, sources)

\* Each recipient of a broadcast, and the one of a point-to-point message, is sent at least as
\* many symbols as there are source symbols: nobody else has to forward anything.
EachCanDecode ==
    build_pc = "sent" /\ build_target \in {"Broadcast", "PointToPoint"} =>
        \A node \in {packet[i].to : i \in DOMAIN packet} : Cardinality(Of(node)) >= sources

\* The ranges that are put on the wire are exactly the packets of the nodes with known
\* addresses, so no node gets a packet marked for another first hop.
RangesMatch ==
    build_pc = "sent" => /\ \A g \in gso : Of(g.to) = (g.from + 1)..g.upto
                         /\ \A node \in Known : Of(node) # {} => \E g \in gso : g.to = node

\* Any set of validators is first hop for its share of the packets by stake, less the packet
\* each of them can lose to rounding: what a receiver can count on when the others are silent.
FairShare ==
    build_pc = "sent" /\ build_target = "Raptorcast" =>
        \A H \in SUBSET Nodes :
            TotalStake * (Cardinality(UNION {Of(node) : node \in H}) + Cardinality(H))
                >= packets * SumFunctionOnSet(Stake, H)

-----------------------------------------------------------------------------
(***************************************************************************)
(* How a node takes RaptorCast chunks off the wire: handle_message checks  *)
(* each chunk of a payload, forwards the ones it is the first hop of, once *)
(* each, feeds a decoder per message and delivers a message when it        *)
(* decodes.  Messages being decoded and messages decoded recently are kept *)
(* in two caches that evict the least recently used entry.                 *)
(*                                                                         *)
(* Whether enough symbols decode is the codec's business: with Need or     *)
(* more symbols try_decode may or may not succeed.                         *)
(***************************************************************************)

CONSTANTS Keys,          \* messages: [author, honest, broadcast]
          Authors, Self,
          Esis, Lens,    \* symbol ids and lengths sent
          OwnEsis,       \* symbols whose first hop is this node, when the author is honest
          Capacity,      \* encoded_symbol_capacity
          Need,          \* num_source_symbols
          PendingSize, RecentSize, \* PENDING_MESSAGE_CACHE_SIZE, RECENTLY_DECODED_CACHE_SIZE
          MaxChunks,     \* chunks in a payload
          MaxForget      \* bound: times a message is forgotten


VARIABLE udp
(* udp.pending, udp.recent: keys, least recently used first; udp.seen: key -> symbol ids;  *)
(* udp.len: key -> symbol length the decoder was made with; udp.group: authors that are  *)
(* valid sources; udp.batch: chunks queued for one rebroadcast; udp.casts: rebroadcasts  *)
(* of the last payload as <<first, last>>; udp.assert: contiguity assertion held;      *)
(* ghosts: udp.fwd[key][esi] times forwarded, udp.own: chunks it is to forward,          *)
(* udp.delivered[key], udp.forgot[key] times the caches lost the message.                *)

\* the length only matters when it differs from the decoder's, and nothing of a chunk that
\* does not parse matters; an honest author cuts a message one way and names one first hop
\* for each chunk
Chunks == {c \in [key : Keys, esi : Esis, len : Lens, mine : BOOLEAN, parses : BOOLEAN] :
             /\ c.len = 2 => ~c.key.honest /\ c.esi = 0 /\ c.mine /\ c.parses
             /\ ~c.parses => c.esi = 0 /\ c.mine
             /\ c.key.honest /\ c.key.broadcast /\ c.parses => (c.mine <=> c.esi \in OwnEsis)}
NoBatch == [author |-> Self, first |-> 0, last |-> 0]

Init ==
    udp = [pending |-> <<>>, recent |-> <<>>, seen |-> [k \in Keys |-> {}], len |-> [k \in Keys |-> 0],
         group |-> Authors, batch |-> NoBatch, casts |-> <<>>, assert |-> TRUE,
         fwd |-> [k \in Keys |-> [e \in Esis |-> 0]], own |-> [k \in Keys |-> {}],
         delivered |-> [k \in Keys |-> 0], forgot |-> [k \in Keys |-> 0]]

TypeOK ==
    /\ \A i \in DOMAIN udp.pending : udp.pending[i] \in Keys
    /\ udp.seen \in [Keys -> SUBSET (0..(Capacity - 1))] /\ udp.len \in [Keys -> 0..2]
    /\ udp.group \subseteq Authors /\ udp.batch = NoBatch

\* LRU order: a key that is used moves to the end
Touch(seq, k) == Append(SelectSeq(seq, LAMBDA j : j # k), k)
Without(seq, k) == SelectSeq(seq, LAMBDA j : j # k)

---------------------------------------------------------------------------
(* BroadcastBatcher *)

flush(x) == IF x.batch = NoBatch THEN x
            ELSE [x EXCEPT !.casts = Append(@, <<x.batch.first, x.batch.last>>), !.batch = NoBatch]

\* chunk number i joins the batch of its author or starts a new one
queue_broadcast(x, i, author) ==
    IF x.batch.author = author /\ x.batch # NoBatch
    THEN [x EXCEPT !.assert = @ /\ (x.batch.last + 1 = i), !.batch.last = i]
    ELSE [flush(x) EXCEPT !.batch = [author |-> author, first |-> i, last |-> i]]

---------------------------------------------------------------------------
(* One chunk *)

\* the guard flushes the batch when the chunk was not queued
try_rebroadcast_symbol(x, c, i) ==
    IF c.key.broadcast /\ c.mine
    THEN [queue_broadcast(x, i, c.key.author) EXCEPT !.fwd[c.key][c.esi] = @ + 1]
    ELSE flush(x)

is_valid_symbol(x, c) == c.len = x.len[c.key] /\ c.esi < Capacity /\ c.esi \notin x.seen[c.key]

\* unparsable, sent by this node, from outside the group, or another node's unicast
Dropped(x, c) ==
    \/ ~c.parses \/ c.key.author = Self
    \/ c.key.broadcast /\ c.key.author \notin x.group
    \/ ~c.key.broadcast /\ ~c.mine

\* Fault: what arrives after the message was decoded is not forwarded.
Bad_Excess(x, c, i) ==
    flush([x EXCEPT !.recent = Touch(@, c.key),
                    !.seen[c.key] = IF is_valid_symbol(x, c) THEN @ \cup {c.esi} ELSE @])

\* a chunk of a message that was decoded is still forwarded, once
Excess(x, c, i) ==
    IF is_valid_symbol(x, c)
    THEN try_rebroadcast_symbol([x EXCEPT !.recent = Touch(@, c.key), !.seen[c.key] = @ \cup {c.esi}], c, i)
    ELSE flush([x EXCEPT !.recent = Touch(@, c.key)])

\* recently_decoded_cache.push evicts at its capacity
Remember(x, k) ==
    IF Len(x.recent) < RecentSize
    THEN [x EXCEPT !.recent = Append(@, k)]
    ELSE [x EXCEPT !.recent = Append(Tail(@), k), !.seen[Head(x.recent)] = {}, !.len[Head(x.recent)] = 0,
                   !.forgot[Head(x.recent)] = @ + 1]

\* the decoder is popped; a message whose hash is not the promised one is dropped
Decoded(x, k) ==
    IF k.honest THEN Remember([x EXCEPT !.pending = Without(@, k), !.delivered[k] = @ + 1], k)
    ELSE [x EXCEPT !.pending = Without(@, k), !.seen[k] = {}, !.len[k] = 0, !.forgot[k] = @ + 1]

\* a new decoder takes its symbol length from the first chunk
WithDecoder(x, c) ==
    IF c.key \in ToSet(x.pending) THEN [x EXCEPT !.pending = Touch(@, c.key)]
    ELSE [x EXCEPT !.pending = Append(@, c.key), !.len[c.key] = c.len, !.seen[c.key] = {}]

Accept(x, c, i) == try_rebroadcast_symbol([x EXCEPT !.seen[c.key] = @ \cup {c.esi}], c, i)
Fed(x, c, i) == {Accept(x, c, i)} \cup
    (IF Cardinality(x.seen[c.key] \cup {c.esi}) >= Need THEN {Decoded(Accept(x, c, i), c.key)} ELSE {})

Pending(x, c, i) == IF is_valid_symbol(x, c) THEN Fed(x, c, i) ELSE {flush(x)}

\* (ghost) the author counts on this node to forward the chunk, whatever the caches hold
Owed(x, c) ==
    IF c.key.broadcast /\ c.mine /\ c.esi < Capacity THEN [x EXCEPT !.own[c.key] = @ \cup {c.esi}] ELSE x

HandleChunk(x, c, i) ==
    IF Dropped(x, c) THEN {flush(x)}
    ELSE LET y == Owed(x, c)
         IN IF c.key \in ToSet(x.recent) THEN {Excess(y, c, i)} ELSE Pending(WithDecoder(y, c), c, i)

---------------------------------------------------------------------------
(* A whole payload *)

\* past its size the cache of unfinished decoders loses the least recently used ones
Evicted(x) == ToSet(SubSeq(x.pending, 1, Len(x.pending) - PendingSize))

Trim(x) ==
    IF Len(x.pending) <= PendingSize THEN x
    ELSE [x EXCEPT !.pending = SubSeq(@, Len(@) - PendingSize + 1, Len(@)),
                   !.seen = [k \in Keys |-> IF k \in Evicted(x) THEN {} ELSE @[k]],
                   !.len = [k \in Keys |-> IF k \in Evicted(x) THEN 0 ELSE @[k]],
                   !.forgot = [k \in Keys |-> IF k \in Evicted(x) THEN @[k] + 1 ELSE @[k]]]

\* the batcher flushes what is left when it goes out of scope
Finish(x) == Trim(flush(x))

handle_message(payload) ==
    \/ Len(payload) = 1 /\ \E x \in HandleChunk([udp EXCEPT !.casts = <<>>], payload[1], 1) : udp' = Finish(x)
    \/ /\ Len(payload) = 2
       /\ \E x \in HandleChunk([udp EXCEPT !.casts = <<>>], payload[1], 1) :
             \E y \in HandleChunk(x, payload[2], 2) : udp' = Finish(y)
    \/ /\ Len(payload) = 3
       /\ \E x \in HandleChunk([udp EXCEPT !.casts = <<>>], payload[1], 1) :
             \E y \in HandleChunk(x, payload[2], 2) : \E z \in HandleChunk(y, payload[3], 3) : udp' = Finish(z)

Payloads == UNION {[1..n -> Chunks] : n \in 1..MaxChunks}
Receive == \E payload \in Payloads : handle_message(payload)

\* validator sets and full-node groups come and go
GroupChange == \E a \in Authors : udp' = [udp EXCEPT !.casts = <<>>,
                  !.group = IF a \in @ THEN @ \ {a} ELSE @ \cup {a}]

Next == (\A k \in Keys : udp.forgot[k] < MaxForget) /\ (Receive \/ GroupChange)
Spec == Init /\ [][Next]_udp

---------------------------------------------------------------------------
(* Properties *)

\* A node forwards each chunk at most once, however often it arrives, also after the message
\* was decoded, unless the caches lost the message in between.
ForwardedOnce == \A k \in Keys : \A e \in Esis : udp.fwd[k][e] <= 1 + udp.forgot[k]

\* Every chunk of an honest author that named this node its first hop was forwarded when it
\* arrived, whether the message was being decoded, decoded or lost by the caches: the other
\* nodes depend on it (udp.rs:270).
FirstHopForwards == \A k \in Keys : k.honest => \A e \in udp.own[k] : udp.fwd[k][e] >= 1

\* A message is delivered at most once unless the cache of decoded messages lost it.
DeliveredOnce == \A k \in Keys : udp.delivered[k] <= 1 + udp.forgot[k]

\* A message is never both being decoded and decoded, and the caches keep their sizes.
OneCache ==
    /\ ToSet(udp.pending) \cap ToSet(udp.recent) = {}
    /\ Len(udp.pending) <= PendingSize /\ Len(udp.recent) <= RecentSize
    /\ \A k \in Keys : udp.seen[k] # {} => k \in ToSet(udp.pending) \cup ToSet(udp.recent)

\* The batcher's assertion holds, and one rebroadcast carries a run of adjacent chunks: the
\* rebroadcasts of a payload do not overlap and come in order.
BatchesContiguous ==
    /\ udp.assert
    /\ \A i \in DOMAIN udp.casts : udp.casts[i][1] <= udp.casts[i][2]
    /\ \A i, j \in DOMAIN udp.casts : i < j => udp.casts[i][2] < udp.casts[j][1]

=============================================================================
