------------------------------ MODULE Groups ------------------------------
(***************************************************************************)
(* Secondary raptorcast, which spreads blocks to full nodes in groups: a   *)
(* validator's side, a full node's side, and the two put together.         *)
(***************************************************************************)
EXTENDS Integers, Sequences, FiniteSets, SequencesExt, FiniteSetsExt, TLC

-----------------------------------------------------------------------------
(* A validator's side of secondary raptorcast.  It keeps a schedule of      *)
(* groups of full nodes, each serving a span of rounds; it invites full     *)
(* nodes to the groups that are still open, in waves, confirms a group      *)
(* shortly before it starts, and broadcasts to the current group.  The only *)
(* clock is the round the node enters, and a round yields at most one       *)
(* message.  Invitations and answers travel by UDP.                         *)

CONSTANTS
    Nodes,              \* full nodes peer discovery may report
    AlwaysAsk,          \* the prioritized full nodes, in order, no duplicates
    max_group_size, round_span, invite_lookahead, max_invite_wait,
    deadline_round_dist, init_empty_round_span,
    MaxRound,           \* bound: the last round entered
    MaxGap              \* bound: the most rounds a step may advance

(* Publisher::new panics otherwise.                                         *)

VARIABLE pub

publisherVars == pub

(* A locked group's next time point.                                        *)
TimePointMax == MaxRound + max_invite_wait + 1

Span(start, end, peers) == [start |-> start, end |-> end, peers |-> peers]

Msg(type, start, end, to) == [type |-> type, start |-> start, end |-> end, to |-> to]
NoMessage == Msg("none", 0, 0, {})

(* Group::default() before the first round.                                 *)
PublisherInit ==
    pub = [round |-> 0, cur |-> Span(0, 0, {}), sched |-> <<>>, disc |-> {},
           out |-> NoMessage,             \* message of the last step
           invited |-> {},              \* <<start, node>>: every invitation sent
           confirmed |-> <<>>,          \* start -> the peers of the ConfirmGroup sent
           agreed |-> {},               \* <<start, node>>: every acceptance received
           skipped |-> {}]              \* rounds never entered

upsert_peer_disc_full_nodes(p, additional) ==
    [p EXCEPT !.disc = @ \cup (additional \ ToSet(AlwaysAsk))]

new_empty_group(start) == Span(start, start + init_empty_round_span, {})

is_locked(g) == g.tp = TimePointMax
----------------------------------------------------------------------------
(* Groups being formed.                                                     *)

(* The priority nodes first, then the others shuffled.                      *)
new_randomized(start, disc) ==
    {[accepted |-> {}, candidates |-> AlwaysAsk \o perm, sent |-> 0,
      start |-> start, end |-> start + round_span, tp |-> 0] :
        perm \in SetToSeqs(disc)}

Confirms(g, t) ==
    \/ Cardinality(g.accepted) >= max_group_size
    \/ g.sent >= Len(g.candidates)
    \/ t + deadline_round_dist >= g.start

Invitees(g) ==
    SubSeq(g.candidates, g.sent + 1,
           Min({Len(g.candidates), g.sent + max_group_size - Cardinality(g.accepted)}))

(* Called when t has reached the group's time point: lock and confirm, or   *)
(* send the next wave of invitations.                                       *)
advance_invites(g, t) ==
    IF Confirms(g, t) THEN [g EXCEPT !.tp = TimePointMax]
    ELSE [g EXCEPT !.tp = t + max_invite_wait, !.sent = @ + Len(Invitees(g))]

Message(g, t) ==
    IF Confirms(g, t) THEN Msg("ConfirmGroup", g.start, g.end, g.accepted)
    ELSE Msg("PrepareGroup", g.start, g.end, ToSet(Invitees(g)))

(* The group advances and its message goes to every invitee or member.      *)
Advance(p, g, t) ==
    [p EXCEPT !.sched = (g.start :> advance_invites(g, t)) @@ @,
              !.out = Message(g, t),
              !.invited = IF Confirms(g, t) THEN @
                          ELSE @ \cup {<<g.start, n>> : n \in ToSet(Invitees(g))},
              !.confirmed = IF Confirms(g, t) THEN (g.start :> g.accepted) @@ @ ELSE @]

BadLocked_on_candidate_response(g, n, accept) ==
    IF n \in ToSet(g.candidates) /\ accept THEN [g EXCEPT !.accepted = @ \cup {n}] ELSE g

group_on_candidate_response(g, n, accept) ==
    IF ~is_locked(g) /\ n \in ToSet(g.candidates) /\ accept
    THEN [g EXCEPT !.accepted = @ \cup {n}] ELSE g
----------------------------------------------------------------------------
(* The publisher.                                                           *)

to_finalized_group(g) == Span(g.start, g.end, g.accepted)

(* Groups whose exclusive end is the new round survive.                     *)
Retained(p, r) == {s \in DOMAIN p.sched : p.sched[s].end >= r}

publisher_enter_round(p, r) ==
    LET kept  == [s \in Retained(p, r) |-> p.sched[s]]
        first == Min(DOMAIN kept)
    IN  CASE r < p.cur.end -> p
          [] r >= p.cur.end /\ (DOMAIN kept = {} \/ first > r) ->
               [p EXCEPT !.cur = new_empty_group(r), !.sched = kept]
          [] OTHER ->
               [p EXCEPT !.cur = to_finalized_group(kept[first]),
                         !.sched = [s \in DOMAIN kept \ {first} |-> kept[s]]]

schedule_end(p) ==
    IF DOMAIN p.sched = {} THEN p.cur.end ELSE p.sched[Max(DOMAIN p.sched)].end

(* The groups whose time point has come.                                    *)
Due(p, t) == {s \in DOMAIN p.sched : t >= p.sched[s].tp}

(* The earliest such group is served; with none, the schedule may grow.     *)
step_until(p, t) ==
    IF Due(p, t) # {} THEN {Advance(p, p.sched[Min(Due(p, t))], t)}
    ELSE IF schedule_end(p) < t + invite_lookahead
    THEN {Advance(p, g, t) : g \in new_randomized(schedule_end(p), p.disc)}
    ELSE {p}

enter_round_and_step_until(p, r) ==
    IF r < p.round THEN {p}
    ELSE step_until(publisher_enter_round([p EXCEPT !.round = r], r), r)

(* The executor's command: peer discovery's list is merged first.           *)
PublisherUpdateCurrentRound(r, found) ==
    /\ r \in pub.round - 1 .. pub.round + MaxGap
    /\ r \in 0 .. MaxRound
    /\ pub' \in enter_round_and_step_until(
                  upsert_peer_disc_full_nodes(
                    [pub EXCEPT !.out = NoMessage, !.skipped = @ \cup (pub.round + 1 .. r - 1)],
                    found), r)

(* An answer, perhaps late, repeated or of a node that was not invited.     *)
on_candidate_response(start, n, accept) ==
    LET p == [pub EXCEPT !.out = NoMessage, !.agreed = IF accept THEN @ \cup {<<start, n>>} ELSE @]
    IN  pub' = IF start \in DOMAIN pub.sched
               THEN [p EXCEPT !.sched[start] = group_on_candidate_response(@, n, accept)]
               ELSE p

get_current_raptorcast_group(p) ==
    IF p.cur.start <= p.round /\ p.round < p.cur.end THEN p.cur.peers ELSE {}

PublishToFullNodes ==
    /\ get_current_raptorcast_group(pub) # {}
    /\ pub' = [pub EXCEPT !.out =
                Msg("Publish", pub.cur.start, pub.cur.end, get_current_raptorcast_group(pub))]

PublisherNext ==
    \/ \E r \in 0..MaxRound, found \in SUBSET Nodes : PublisherUpdateCurrentRound(r, found)
    \/ \E start \in DOMAIN pub.sched \cup DOMAIN pub.confirmed, n \in Nodes \cup ToSet(AlwaysAsk),
          accept \in BOOLEAN : on_candidate_response(start, n, accept)
    \/ PublishToFullNodes

PublisherSpec == PublisherInit /\ [][PublisherNext]_publisherVars
----------------------------------------------------------------------------
(* Type invariant.  A group's time point is a round it will be served at,   *)
(* or the locked mark; it never has more invitations than candidates.       *)
PublisherTypeOK ==
    /\ pub.round \in 0..MaxRound
    /\ pub.disc \subseteq Nodes
    /\ pub.cur.start <= pub.cur.end /\ pub.cur.peers \subseteq Nodes \cup ToSet(AlwaysAsk)
    /\ \A s \in DOMAIN pub.sched :
         LET g == pub.sched[s]
         IN  /\ g.start = s /\ g.end = s + round_span
             /\ g.tp \in 0..TimePointMax
             /\ g.sent \in 0..Len(g.candidates)
             /\ g.accepted \subseteq ToSet(g.candidates)

(* The scheduled groups follow the current one without a gap or an overlap, *)
(* whatever rounds were skipped: so a round never falls before the first    *)
(* scheduled group, and the assertion of publisher_enter_round that a round is not    *)
(* before the current group's start holds.                                  *)
SpansTile ==
    /\ pub.cur.start <= pub.round
    /\ {pub.cur.end} \cup {pub.sched[s].end : s \in DOMAIN pub.sched}
         = DOMAIN pub.sched \cup {schedule_end(pub)}

(* A group that was confirmed serves exactly the members its ConfirmGroup   *)
(* listed, whatever answers came after it.                                  *)
ServedAsConfirmed ==
    pub.cur.start \in DOMAIN pub.confirmed /\ pub.cur.end > pub.cur.start
        => pub.cur.peers = pub.confirmed[pub.cur.start]

(* A full node is invited to a group at most once, and a wave fills only    *)
(* what the accepted ones leave open: no step invites a node it has invited *)
(* to that group before.                                                    *)
InvitedOnce ==
    pub'.sched # pub.sched /\ pub'.out.type = "PrepareGroup" =>
      \A n \in pub'.out.to : <<pub'.out.start, n>> \notin pub.invited

(* A group that serves members was confirmed to them before it started,     *)
(* unless the node skipped a round of the time in which its last invitations *)
(* are awaited and it is confirmed: after such a gap enter_round serves a   *)
(* group that is still open (publisher.rs:232-235).                         *)
ConfirmedUnlessSkipped ==
    pub.cur.peers # {} /\ pub.cur.start \notin DOMAIN pub.confirmed =>
        \E r \in pub.skipped :
            pub.cur.start - deadline_round_dist - max_invite_wait < r /\ r < pub.cur.start

(* What is published goes, in the rounds of its group only, to full nodes   *)
(* that agreed to be in that very group, whatever other groups they agreed  *)
(* to, refused or answered late.                                            *)
PublishedInSpan ==
    pub.out.type = "Publish" =>
        /\ pub.cur.start <= pub.round /\ pub.round < pub.cur.end
        /\ \A n \in pub.out.to : <<pub.cur.start, n>> \in pub.agreed

-----------------------------------------------------------------------------
(* A full node's side of secondary raptorcast.  The secondary instance       *)
(* answers a validator's invitations, remembers them, accepts the            *)
(* confirmations that match one, and hands a group to the primary instance   *)
(* over a channel when it becomes active; the primary instance looks up the  *)
(* group of a chunk's author to rebroadcast it.  Group messages reach the    *)
(* secondary instance over another channel, one per poll of the router.      *)

CONSTANTS
    Me,
    Invites,                    \* the PrepareGroups validators send: [v, start, end, size]
    PeerSets,                   \* the members a ConfirmGroup may list, Me among them
    max_num_group,
    invite_future_dist_min, invite_future_dist_max,
    EpochOf,                    \* round -> its epoch
    MaxInbox                    \* bound: group messages waiting for a poll


VARIABLES cl, inbox

clientVars == <<cl, inbox>>

(* last_round_heartbeat starts in the past: the node is not receiving        *)
(* proposals yet.                                                            *)
NewClient ==
    [round |-> 0, epoch |-> 0, receiving |-> FALSE,
     confirmed |-> {},          \* groups joined, not yet active
     pending |-> {},            \* invitations accepted, not confirmed
     chan |-> <<>>,             \* groups on their way to the primary instance
     map |-> <<>>,              \* fullnode_map: validator -> group
     joined |-> {}]             \* history: every group joined

ClientInit == cl = NewClient /\ inbox = <<>>

overlaps(a, b) == a.start < b.end /\ b.start < a.end
Covers(g, r) == g.start <= r /\ r < g.end

(* Group::new_fullnode_group: the members but this node.                     *)
new_fullnode_group(me, inv, peers) ==
    [v |-> inv.v, start |-> inv.start, end |-> inv.end, others |-> peers \ {me}]
----------------------------------------------------------------------------
(* Invitations.                                                              *)

FreeSlot(c, inv) ==
    /\ \A g \in c.confirmed : overlaps(g, inv) => g.v # inv.v
    /\ Cardinality({g \in c.confirmed : overlaps(g, inv)})
         + Cardinality({i \in c.pending : overlaps(i, inv)}) + 1 <= max_num_group

validate_prepare_group_message(c, inv) ==
    /\ inv.start < inv.end
    /\ inv.start > c.round
    /\ \/ inv.start \in c.round + invite_future_dist_min .. c.round + invite_future_dist_max
       \/ ~c.receiving
    /\ inv.size <= max_group_size
    /\ FreeSlot(c, inv)

(* pending_confirms is keyed by start round and validator.                   *)
handle_prepare_group_message(c, inv) ==
    IF validate_prepare_group_message(c, inv)
    THEN [c EXCEPT !.pending = {i \in @ : <<i.start, i.v>> # <<inv.start, inv.v>>} \cup {inv}]
    ELSE c
----------------------------------------------------------------------------
(* Confirmations.                                                            *)

(* The confirmation repeats the invitation this node accepted.               *)
ConfirmValid(c, me, inv, peers) ==
    /\ inv.start < inv.end
    /\ inv.start > c.round
    /\ inv \in c.pending
    /\ Cardinality(peers) <= inv.size
    /\ me \in peers

(* While no proposals arrive the group goes to the primary instance at once, *)
(* and a heartbeat is pulsed.                                                *)
handle_confirm_group_message(c, me, inv, peers) ==
    LET group == new_fullnode_group(me, inv, peers)
    IN  IF ConfirmValid(c, me, inv, peers)
        THEN [c EXCEPT !.chan = IF c.receiving THEN @ ELSE Append(@, group),
                       !.receiving = TRUE,
                       !.confirmed = @ \cup {group},
                       !.joined = @ \cup {group},
                       !.pending = @ \ {inv}]
        ELSE c
----------------------------------------------------------------------------
(* Rounds.                                                                   *)

ByStart(G) == SetToSortSeq(G, LAMBDA a, b : a.start < b.start)

(* The groups of this round go to the primary instance, and every group that *)
(* has started is forgotten.                                                 *)
client_enter_round(c, r) ==
    IF r < c.round THEN c
    ELSE [c EXCEPT !.round = r, !.receiving = TRUE,
                   !.pending = {i \in @ : i.start > r},
                   !.chan = @ \o ByStart({g \in c.confirmed : Covers(g, r)}),
                   !.confirmed = {g \in @ : g.start > r}]

delete_expired_groups(c, r) ==
    [c EXCEPT !.map = [v \in {w \in DOMAIN @ : r < @[w].end} |-> @[v]]]

(* The primary instance acts on a new epoch only; it runs first.             *)
PrimaryRound(c, r) ==
    IF c.epoch < EpochOf[r]
    THEN delete_expired_groups([c EXCEPT !.epoch = EpochOf[r]], r) ELSE c

(* Each of the groups on the channel replaces its validator's.               *)
push_group_fullnodes(map, g) == (g.v :> g) @@ map

DrainGroups(c) ==
    [c EXCEPT !.map = FoldLeft(push_group_fullnodes, @, c.chan), !.chan = <<>>]

check_source(c, author) == author \in DOMAIN c.map

iterate_rebroadcast_peers(c, author) == IF check_source(c, author) THEN c.map[author].others ELSE {}
----------------------------------------------------------------------------
ClientUpdateCurrentRound(r) ==
    /\ r \in 0..MaxRound
    /\ cl' = client_enter_round(PrimaryRound(cl, r), r)
    /\ UNCHANGED inbox

(* No proposal for invite_accept_heartbeat.                                  *)
Silence ==
    /\ cl.receiving
    /\ cl' = [cl EXCEPT !.receiving = FALSE]
    /\ UNCHANGED inbox

(* A poll of the primary instance: it forwards a group message, ...          *)
Receive(m) ==
    /\ Len(inbox) < MaxInbox
    /\ inbox' = Append(inbox, m)
    /\ UNCHANGED cl

(* ... or finds no message and takes the groups of the secondary instance.   *)
PollPrimary ==
    /\ cl.chan # <<>>
    /\ cl' = DrainGroups(cl)
    /\ UNCHANGED inbox

on_receive_group_message(c, me, m) ==
    IF m.type = "PrepareGroup" THEN handle_prepare_group_message(c, m.inv)
    ELSE handle_confirm_group_message(c, me, m.inv, m.peers)

(* A poll of the secondary instance handles one message.                     *)
PollSecondary ==
    /\ inbox # <<>>
    /\ cl' = on_receive_group_message(cl, Me, Head(inbox))
    /\ inbox' = Tail(inbox)

(* A validator confirms only what was accepted, perhaps twice or late, and a *)
(* confirmation may reach the node after it was dropped.                     *)
Messages ==
    [type : {"PrepareGroup"}, inv : Invites, peers : {{}}]
      \cup [type : {"ConfirmGroup"}, inv : Invites, peers : PeerSets]

ClientNext ==
    \/ \E r \in 0..MaxRound : ClientUpdateCurrentRound(r)
    \/ \E m \in Messages : Receive(m)
    \/ Silence
    \/ PollPrimary
    \/ PollSecondary

ClientSpec == ClientInit /\ [][ClientNext]_clientVars
----------------------------------------------------------------------------
(* Type invariant.                                                           *)
ClientTypeOK ==
    /\ cl.round \in 0..MaxRound /\ cl.receiving \in BOOLEAN
    /\ cl.pending \subseteq Invites
    /\ cl.confirmed \subseteq cl.joined
    /\ DOMAIN cl.map \subseteq {i.v : i \in Invites}
    /\ \A g \in cl.joined : Me \notin g.others
    /\ \A i, j \in cl.pending : <<i.start, i.v>> = <<j.start, j.v>> => i = j

(* No future round has more groups, joined or promised, than the node is     *)
(* willing to serve, however invitations, confirmations and rounds           *)
(* interleave.                                                               *)
FutureLoadBound ==
    \A r \in cl.round + 1 .. MaxRound + 2 :
        Cardinality({g \in cl.confirmed : Covers(g, r)})
          + Cardinality({i \in cl.pending : Covers(i, r)}) <= max_num_group

(* What the primary instance rebroadcasts to was agreed on: each group it    *)
(* has or will get was invited to, lists at most the promised number of      *)
(* members, and was confirmed while its start was still ahead.               *)
JoinedAsInvited ==
    \A g \in cl.joined :
        \E i \in Invites : /\ <<i.v, i.start, i.end>> = <<g.v, g.start, g.end>>
                           /\ Cardinality(g.others) + 1 <= i.size
                           /\ i.size <= max_group_size

Routed(c, v) ==
    LET mine == SelectSeq(c.chan, LAMBDA g : g.v = v)
    IN  IF mine # <<>> THEN {Last(mine)}
        ELSE IF v \in DOMAIN c.map THEN {c.map[v]} ELSE {}

(* Once a round of a joined group is entered, even in its middle after a     *)
(* gap, chunks of its validator are rebroadcast in that group, or in a later *)
(* one of the same validator.                                                *)
ActiveIsRouted ==
    \A g \in cl.joined :
        Covers(g, cl.round) => \E h \in Routed(cl, g.v) : h \in cl.joined /\ h.start >= g.start

(* An invitation whose group has started is never kept or confirmed.         *)
NothingLate ==
    /\ \A i \in cl.pending : i.start > cl.round
    /\ \A g \in cl.confirmed : g.start > cl.round


-----------------------------------------------------------------------------
(* Secondary raptorcast put together: the publisher of one validator V and   *)
(* the clients of several full nodes, over UDP.  Every message ever sent may *)
(* be delivered late, repeatedly, out of order or never.                     *)

CONSTANT V

VARIABLES
    cls,        \* full node -> its client
    answers     \* <<start, node, accept>>: every PrepareGroupResponse sent

castVars == <<pub, cls, answers>>

CastInit ==
    /\ PublisherInit
    /\ cls = [n \in Nodes |-> NewClient]
    /\ answers = {}

Prepare(start) == [v |-> V, start |-> start, end |-> start + round_span, size |-> max_group_size]

ValidatorRound(r, found) ==
    /\ PublisherUpdateCurrentRound(r, found)
    /\ UNCHANGED <<cls, answers>>

DeliverPrepare(start, n) ==
    /\ <<start, n>> \in pub.invited
    /\ cls' = [cls EXCEPT ![n] = handle_prepare_group_message(@, Prepare(start))]
    /\ answers' = answers \cup
         {<<start, n, validate_prepare_group_message(cls[n], Prepare(start))>>}
    /\ UNCHANGED pub

DeliverAnswer(a) ==
    /\ on_candidate_response(a[1], a[2], a[3])
    /\ UNCHANGED <<cls, answers>>

DeliverConfirm(start, n) ==
    /\ n \in pub.confirmed[start]
    /\ cls' = [cls EXCEPT ![n] =
                 handle_confirm_group_message(@, n, Prepare(start), pub.confirmed[start])]
    /\ UNCHANGED <<pub, answers>>

FullNodeRound(n, r) ==
    /\ r >= cls[n].round
    /\ cls' = [cls EXCEPT ![n] = DrainGroups(client_enter_round(PrimaryRound(@, r), r))]
    /\ UNCHANGED <<pub, answers>>

FullNodePoll(n) ==
    /\ cls[n].chan # <<>>
    /\ cls' = [cls EXCEPT ![n] = DrainGroups(@)]
    /\ UNCHANGED <<pub, answers>>

CastNext ==
    \/ \E r \in 0..MaxRound : ValidatorRound(r, Nodes)
    \/ \E i \in pub.invited : DeliverPrepare(i[1], i[2])
    \/ \E a \in answers : DeliverAnswer(a)
    \/ \E start \in DOMAIN pub.confirmed, n \in Nodes : DeliverConfirm(start, n)
    \/ \E n \in Nodes : \/ \E r \in 0..MaxRound : FullNodeRound(n, r)
                          \/ FullNodePoll(n)

CastSpec == CastInit /\ [][CastNext]_castVars
----------------------------------------------------------------------------
(* A full node and its validator agree on a group: who is in it is what the  *)
(* validator confirmed, the node accepted an invitation to it, and it is no  *)
(* larger than promised, although the publisher may confirm a larger one     *)
(* when answers to an earlier wave come late (publisher.rs:557).             *)
GroupsAgree ==
    \A n \in Nodes : \A g \in cls[n].joined :
        /\ g.start \in DOMAIN pub.confirmed
        /\ pub.confirmed[g.start] = g.others \cup {n}
        /\ <<g.start, n, TRUE>> \in answers
        /\ Cardinality(g.others) + 1 <= max_group_size

(* A chunk of the served group handed to a member that knows the group       *)
(* reaches every other member: the group it is rebroadcast in is the one the *)
(* publisher broadcasts to.                                                  *)
FirstHopReachesAll ==
    \A n \in get_current_raptorcast_group(pub) :
        check_source(cls[n], V) /\ cls[n].map[V].start = pub.cur.start
            => iterate_rebroadcast_peers(cls[n], V) = pub.cur.peers \ {n}

(* A full node that has joined a group the validator is serving is among the *)
(* nodes it broadcasts to.                                                   *)
JoinedIsServed ==
    \A n \in Nodes : \A g \in cls[n].joined :
        g.start = pub.cur.start /\ pub.cur.end = g.end => n \in pub.cur.peers
=============================================================================
