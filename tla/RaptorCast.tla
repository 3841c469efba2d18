----------------------------- MODULE RaptorCast -----------------------------
(***************************************************************************)
(* The primary raptorcast instance (monad-raptorcast/src/lib.rs): the      *)
(* router commands of `exec`, and `poll_next` with the wakers it leaves    *)
(* behind.  The chunks themselves are in module Udp: here a UDP input is a *)
(* message the chunks of which have just been decoded.                     *)
(*                                                                         *)
(* `exec` and `poll_next` take `&mut self`, so they do not overlap; the    *)
(* data plane's thread fills `udp` and `tcp`, the peer discovery timers    *)
(* fill `emit` and the secondary instance fills `chan` at any moment, in   *)
(* particular between two steps of a poll.                                 *)
(***************************************************************************)
EXTENDS Naturals, FiniteSets, Sequences, SequencesExt

CONSTANTS
    Nodes,        \* the nodes; Self is one of them
    Self,
    Ips,          \* addresses
    NoIp,
    NEpochs,      \* epochs 1..NEpochs; the instance starts at epoch 0
    ValSet,       \* ValSet[e]: the validators of epoch e, decided by the chain
    Dynamic,      \* is_dynamic_fullnode
    Inputs,       \* the kinds of input an instance of the model enables
    MaxInputs     \* bound: how many inputs arrive from outside

VARIABLE s

vars == s
Epochs == 0..NEpochs

UdpKinds == {"App", "PeerDisc", "Group", "Undecodable"}
TcpKinds == {"Short", "BadSignature", "Undecodable", "Unrecoverable",
             "App", "PeerDisc", "Group"}

(* The node after `new` and `bind_channel_to_secondary_raptorcast`: it has
   never been polled, and the task that polls it is runnable. *)
Init ==
    \E a \in [Nodes -> Ips \cup {NoIp}] :
        /\ \A n, m \in Nodes : n # m /\ a[n] = a[m] => a[n] = NoIp
        /\ s = [ current_epoch |-> 0, epoch_validators |-> {}, validator_map |-> {},
                 fullnode_map |-> {}, full_nodes |-> {},
                 addr |-> a, trusted |-> {}, pending_events |-> <<>>,
                 udp |-> <<>>, tcp |-> <<>>, emit |-> 0, chan |-> 0,
                 to_secondary |-> 0, waker |-> FALSE, reg |-> {}, wake |-> TRUE,
                 pc |-> "Idle", inputs |-> 0,
                 \* ghosts
                 given |-> {}, known |-> {}, moved |-> {}, self_sent |-> 0,
                 self_got |-> 0, last |-> {} ]

(***************************************************************************)
(* Wakers.                                                                 *)
(***************************************************************************)
(* waker.take() and wake(): the poll that stored the waker is repeated *)
WakeSelf(r) == [r EXCEPT !.wake = r.wake \/ r.waker, !.waker = FALSE]

(* a source that was polled to Pending wakes the task with its next item *)
WakeFrom(r, src) ==
    [r EXCEPT !.wake = r.wake \/ src \in r.reg, !.reg = @ \ {src}]

push_event(r, e) == [r EXCEPT !.pending_events = Append(@, e)]

enqueue_message_to_self(r) ==
    WakeSelf([push_event(r, "Own") EXCEPT !.self_sent = @ + 1])

(***************************************************************************)
(* exec                                                                    *)
(***************************************************************************)
(* the addresses of the validators of epoch e that peer discovery knows *)
iter_ips(r, e) ==
    {r.addr[n] : n \in {m \in (IF e \in r.epoch_validators THEN ValSet[e] ELSE {}) :
                           r.addr[m] # NoIp}}

(* (ghost) what should be trusted in epoch e: the addresses then known of its
   validators, if its set had been announced by then *)
KnownAtStart(r, e) == IF e \in r.given THEN {r.addr[n] : n \in ValSet[e]} \ {NoIp} ELSE {}

(* Addrlist::update_trusted removes first *)
update_trusted(t, added, removed) == (t \ removed) \cup added

Held(epochs, e) == {k \in epochs : k + 1 >= e}

(* The groups of full nodes are pruned by round, which module GroupCast
   models; here any of them may have ended. *)
delete_expired_groups(r, e) ==
    IF Dynamic THEN {[r EXCEPT !.fullnode_map = g] : g \in SUBSET r.fullnode_map}
               ELSE {[r EXCEPT !.validator_map = Held(@, e)]}

Bad_UpdateCurrentRound(r, e) ==
    IF r.current_epoch < e
    THEN delete_expired_groups(
           [r EXCEPT !.trusted = update_trusted(@, iter_ips(r, e), {}),
                     !.current_epoch = e,
                     !.epoch_validators = Held(@, e),
                     !.known = KnownAtStart(r, e), !.moved = @ \cap r.trusted ], e)
    ELSE {r}
UpdateCurrentRound(r, e) ==
    IF r.current_epoch < e
    THEN delete_expired_groups(
           [r EXCEPT !.trusted = update_trusted(@, iter_ips(r, e), iter_ips(r, r.current_epoch)),
                     !.current_epoch = e,
                     !.epoch_validators = Held(@, e),
                     !.known = KnownAtStart(r, e), !.moved = @ \cap r.trusted ], e)
    ELSE {r}

(* Both maps are filled; on a duplicate both asserts compare equal sets. *)
AddEpochValidatorSet(r, e) ==
    [r EXCEPT !.validator_map = @ \cup {e}, !.epoch_validators = @ \cup {e},
              !.given = @ \cup {e}]

(* the other validators of the epoch that a message of ours goes to *)
Others(e) == ValSet[e] \ {Self}
Reached(r, nodes) == {n \in nodes : r.addr[n] # NoIp}

(* RouterTarget::Broadcast and Raptorcast *)
PublishEpoch(r, e) ==
    IF e \notin r.epoch_validators THEN r
    ELSE [(IF Self \in ValSet[e] THEN enqueue_message_to_self(r) ELSE r)
            EXCEPT !.last = Reached(r, Others(e))]

(* RouterTarget::PointToPoint and TcpPointToPoint *)
PublishTo(r, n) ==
    IF n = Self THEN enqueue_message_to_self(r)
    ELSE [r EXCEPT !.last = Reached(r, {n})]

PublishToFullNodes(r) ==
    IF Dynamic \/ r.full_nodes = {} THEN r
    ELSE [r EXCEPT !.last = Reached(r, r.full_nodes)]

(* GetPeers and GetFullNodes queue their answer *)
Get(r) == WakeSelf(push_event(r, "Response"))

UpdateFullNodes(r, list) == [r EXCEPT !.full_nodes = list]

(* UpdatePeers: peer discovery takes the entry of a node it did not know, or a
   newer record that gives a known node another address. *)
UpdatePeers(r, n, ip) ==
    [r EXCEPT !.addr[n] = ip,
              !.moved = IF r.addr[n] \in r.trusted THEN @ \cup {r.addr[n]} ELSE @]

(***************************************************************************)
(* poll_next, one step for each source it drains.  Returning an event      *)
(* makes the caller poll again.                                            *)
(***************************************************************************)
Own(e) == IF e = "Own" THEN 1 ELSE 0

Return(r) ==
    [r EXCEPT !.pc = "Idle", !.wake = TRUE, !.pending_events = Tail(@),
              !.self_got = @ + Own(Head(r.pending_events))]

PollStart(r) ==
    IF r.pending_events # <<>>
    THEN Return([r EXCEPT !.waker = TRUE])
    ELSE [r EXCEPT !.waker = TRUE, !.wake = FALSE, !.pc = "Udp"]

(* the dispatch of one decoded UDP message *)
DispatchUdp(r, kind) ==
    CASE kind = "App"         -> push_event(r, "App")
      [] kind = "PeerDisc"    -> WakeFrom([r EXCEPT !.emit = @ + 1], "Emit")
      [] kind = "Group"       -> [r EXCEPT !.to_secondary = @ + 1]
      [] kind = "Undecodable" -> r

UdpTaken(r) == DispatchUdp([r EXCEPT !.udp = Tail(@)], Head(r.udp))

(* Poll::Pending: the source keeps the waker and the next one is polled *)
Drained(r, src, next) == [r EXCEPT !.reg = @ \cup {src}, !.pc = next]

PollUdp(r) ==
    IF r.udp = <<>> THEN Drained(r, "Udp", "Tcp")
    ELSE IF UdpTaken(r).pending_events # <<>> THEN Return(UdpTaken(r))
    ELSE UdpTaken(r)

(* An application message is returned at once, without passing through the
   queue; every other message disconnects its source and the loop goes on. *)
PollTcp(r) ==
    IF r.tcp = <<>> THEN Drained(r, "Tcp", "Emit")
    ELSE IF Head(r.tcp) = "App"
         THEN [r EXCEPT !.tcp = Tail(@), !.pc = "Idle", !.wake = TRUE]
    ELSE [r EXCEPT !.tcp = Tail(@)]

(* what peer discovery emits is sent, to the addresses it knows *)
BadOnce_PollEmit(r) ==
    IF r.emit = 0 THEN Drained(r, "Emit", "Chan")
    ELSE [r EXCEPT !.emit = @ - 1, !.pc = "Chan"]

PollEmit(r) ==
    IF r.emit = 0 THEN Drained(r, "Emit", "Chan")
    ELSE [r EXCEPT !.emit = @ - 1]

(* a group sent by the secondary instance replaces the one of its validator *)
push_group_fullnodes(r, v) == [r EXCEPT !.chan = @ - 1, !.fullnode_map = @ \cup {v}]

PollChan(r) ==
    IF ~Dynamic THEN {[r EXCEPT !.pc = "Idle"]}
    ELSE IF r.chan = 0 THEN {Drained(r, "Chan", "Idle")}
    ELSE {push_group_fullnodes(r, v) : v \in Nodes \ {Self}}

(***************************************************************************)
(* Next                                                                    *)
(***************************************************************************)
Allowed(kind) == kind \in Inputs /\ s.inputs < MaxInputs
Counted(r) == [r EXCEPT !.inputs = @ + 1]

ExecRound ==
    /\ Allowed("Round") /\ s.pc = "Idle"
    /\ \E e \in Epochs : e >= s.current_epoch /\ s' \in {Counted(r) : r \in UpdateCurrentRound(s, e)}

(* consensus announces the set of an epoch before or soon after it starts *)
ExecValidators ==
    /\ Allowed("Validators") /\ s.pc = "Idle"
    /\ \E e \in Epochs \ {0} :
        e + 1 >= s.current_epoch /\ s' = Counted(AddEpochValidatorSet(s, e))

ExecPublish ==
    /\ Allowed("Publish") /\ s.pc = "Idle"
    /\ \/ \E e \in Epochs \ {0} : s' = Counted(PublishEpoch(s, e))
       \/ \E n \in Nodes : s' = Counted(PublishTo(s, n))
       \/ s' = Counted(PublishToFullNodes(s))

ExecControl ==
    /\ Allowed("Control") /\ s.pc = "Idle"
    /\ \/ s' = Counted(Get(s))
       \/ \E l \in SUBSET (Nodes \ {Self}) : s' = Counted(UpdateFullNodes(s, l))

Learn ==
    /\ Allowed("Peers") /\ s.pc = "Idle"
    /\ \E n \in Nodes, ip \in Ips :
        /\ \A m \in Nodes : s.addr[m] # ip
        /\ s' = Counted(UpdatePeers(s, n, ip))

UdpArrives ==
    /\ Allowed("Udp")
    /\ \E k \in UdpKinds : s' = Counted(WakeFrom([s EXCEPT !.udp = Append(@, k)], "Udp"))

TcpArrives ==
    /\ Allowed("Tcp")
    /\ \E k \in TcpKinds : s' = Counted(WakeFrom([s EXCEPT !.tcp = Append(@, k)], "Tcp"))

DiscoveryEmits ==
    Allowed("Emit") /\ s' = Counted(WakeFrom([s EXCEPT !.emit = @ + 1], "Emit"))

SecondarySends ==
    /\ Allowed("Chan") /\ Dynamic
    /\ s' = Counted(WakeFrom([s EXCEPT !.chan = @ + 1], "Chan"))

Poll ==
    \/ s.pc = "Idle" /\ s.wake /\ s' = PollStart(s)
    \/ s.pc = "Udp" /\ s' = PollUdp(s)
    \/ s.pc = "Tcp" /\ s' = PollTcp(s)
    \/ s.pc = "Emit" /\ s' = PollEmit(s)
    \/ s.pc = "Chan" /\ s' \in PollChan(s)

Next ==
    \/ ExecRound \/ ExecValidators \/ ExecPublish \/ ExecControl \/ Learn
    \/ UdpArrives \/ TcpArrives \/ DiscoveryEmits \/ SecondarySends \/ Poll

Spec == Init /\ [][Next]_vars

(* What is weakly fair, by number: a woken task is polled. *)
Fair(i) == i = 1 /\ Poll

----------------------------------------------------------------------------
(* Types: the queues hold the kinds of message the dispatch knows. *)
TypeOK ==
    /\ s.current_epoch \in Epochs
    /\ s.epoch_validators \subseteq Epochs /\ s.validator_map \subseteq Epochs
    /\ s.addr \in [Nodes -> Ips \cup {NoIp}] /\ s.trusted \subseteq Ips
    /\ \A i \in DOMAIN s.udp : s.udp[i] \in UdpKinds
    /\ \A i \in DOMAIN s.tcp : s.tcp[i] \in TcpKinds
    /\ s.pc \in {"Idle", "Udp", "Tcp", "Emit", "Chan"}
    /\ s.reg \subseteq {"Udp", "Tcp", "Emit", "Chan"}

(* Every validator of the running epoch whose address was known when the epoch
   began is trusted by the data plane, whatever the epoch before it left there:
   update_trusted removes the old epoch's addresses before it adds the new.
   It is stated for a set announced before its epoch: trust is only updated on
   entering an epoch, so a later set's addresses stay untrusted in its epoch
   (lib.rs:364-396). *)
EnteredAreTrusted == s.known \subseteq s.trusted

(* An address stays trusted after its epoch only if its node moved away from
   it meanwhile: the removal in UpdateCurrentRound asks peer discovery for the
   address again instead of remembering the one that was added. *)
StaleOnlyByMove == s.trusted \subseteq s.known \cup s.moved

(* The set of an epoch stays available to senders and to rebroadcast until the
   epoch after it has ended, so a message of the previous epoch still finds
   its group; a validator holds no older set in either map. *)
SetsKeptOneEpoch ==
    /\ {e \in s.given : e + 1 >= s.current_epoch} \subseteq s.epoch_validators \cap s.validator_map
    /\ \A e \in s.epoch_validators : e + 1 >= s.current_epoch
    /\ ~Dynamic => s.epoch_validators = s.validator_map

(* What the node addresses to itself reaches it exactly once. *)
OwnOnce ==
    s.self_sent = s.self_got + Len(SelectSeq(s.pending_events, LAMBDA e : e = "Own"))

(* An event is never left in the queue by a task that nobody will poll. *)
NoEventAsleep == s.pending_events # <<>> => s.wake

=============================================================================
