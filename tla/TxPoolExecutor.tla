-------------------------- MODULE TxPoolExecutor --------------------------
(***************************************************************************)
(* The executor of the transaction pool (monad-eth-txpool-executor) and    *)
(* its preload manager.                                                    *)
(***************************************************************************)
EXTENDS Naturals, Sequences, FiniteSets, FiniteSetsExt, SequencesExt

-----------------------------------------------------------------------------
(***************************************************************************)
(* The task that runs the transaction pool (monad-eth-txpool-executor) and *)
(* its channels to the consensus loop (TokioTaskUpdater of                 *)
(* monad-updaters).  The task executes commands first; without one it      *)
(* polls its sources in a fixed order, hands the first event on through a  *)
(* bounded channel, waiting while it is full, and sleeps when no source    *)
(* has anything, leaving wakers behind (`reg`).                            *)
(*                                                                         *)
(* Transactions that other nodes forwarded are counted; those of clients   *)
(* and those to be sent on are their sizes.  The pool itself is TxPool.    *)
(***************************************************************************)

CONSTANTS
    CommandCap, EventCap,       \* the channels
    BatchMax,                   \* MAX_BATCH_LEN
    IngressMax, IngressChunk,   \* INGRESS_MAX_SIZE, INGRESS_CHUNK_MAX_SIZE
    EgressMax,                  \* EGRESS_MAX_SIZE_BYTES
    Inputs,
    MaxCommands, MaxTxs         \* bounds: commands, transactions of clients

VARIABLE executor

vars == executor

Init ==
    executor = [pc |-> "run", wake |-> FALSE, reg |-> {},
         commands |-> <<>>, events |-> 0, lagging |-> FALSE,
         proposals |-> 0, has_been_reset |-> FALSE,
         egress |-> <<>>, ingress |-> 0, ingress_timer |-> "fired",
         sock |-> <<>>, batch |-> <<>>, batch_timer |-> "fired", promote_timer |-> "fired",
         sent |-> 0, fed |-> 0, chunk |-> <<>>, source |-> "none", early |-> FALSE]

Wake(r, source) == [r EXCEPT !.wake = @ \/ source \in r.reg, !.reg = @ \ {source}]
Leave(r, source) == [r EXCEPT !.reg = @ \cup {source}]

(***************************************************************************)
(* exec                                                                    *)
(***************************************************************************)
add_ingress_txs(r, n) == Wake([r EXCEPT !.ingress = Min({@ + n, IngressMax})], "ingress")

add_egress_txs(r, sizes) ==
    IF r.egress \o sizes = <<>> THEN r ELSE Wake([r EXCEPT !.egress = @ \o sizes], "egress")

set_reset(r) ==
    IF r.has_been_reset THEN r ELSE Wake([r EXCEPT !.has_been_reset = TRUE], "reset")

Executed(r, c) ==
    CASE c.kind = "Reset" -> set_reset(r)
      [] c.kind = "Commit" -> add_egress_txs(r, c.sizes)
      [] c.kind = "Propose" -> Wake([r EXCEPT !.proposals = @ + 1], "events")
      [] c.kind = "Failed" -> r
      [] c.kind = "Forwarded" -> add_ingress_txs(r, c.n)

(***************************************************************************)
(* poll_next                                                               *)
(***************************************************************************)
Send(r) == [r EXCEPT !.pc = "send"]
Idle(r) == [r EXCEPT !.pc = "idle"]

(* poll_egress: as many as fit, at least one *)
Size(s) == FoldFunction(+, 0, s)

drained(s) ==
    CHOOSE n \in 1..Len(s) :
        /\ n = 1 \/ Size(SubSeq(s, 1, n)) <= EgressMax
        /\ n = Len(s) \/ Size(SubSeq(s, 1, n + 1)) > EgressMax

poll_egress(r) ==
    Send([r EXCEPT !.chunk = SubSeq(r.egress, 1, drained(r.egress)), !.source = "egress",
                   !.egress = SubSeq(@, drained(@) + 1, Len(@))])

(* poll_txs of the ipc server: fill the batch; it leaves when full or when its
   timer, started with its first transaction, has fired *)
Room(r) == Min({BatchMax - Len(r.batch), Len(r.sock)})

fill(r) ==
    [r EXCEPT !.batch = @ \o SubSeq(r.sock, 1, Room(r)), !.sock = SubSeq(@, Room(r) + 1, Len(@)),
              !.batch_timer = IF r.batch = <<>> /\ Room(r) > 0 THEN "running" ELSE @]

BatchReady(r) == r.batch # <<>> /\ (Len(r.batch) >= BatchMax \/ r.batch_timer = "fired")

(* the ingress loop: one chunk, whose completion restarts the timer; then the
   timer or the queue's waker is left *)
poll_ingress(r) ==
    IF r.ingress > 0 /\ r.ingress_timer = "fired"
    THEN Leave([r EXCEPT !.ingress = @ - Min({@, IngressChunk}), !.ingress_timer = "running"],
               IF r.ingress <= IngressChunk THEN "ingress" ELSE "ingress_timer")
    ELSE Leave(r, IF r.ingress = 0 THEN "ingress" ELSE "ingress_timer")

poll_promote(r) == Leave([r EXCEPT !.promote_timer = "running"], "promote_timer")

Rest(r) == Idle(poll_promote(poll_ingress(r)))

(* those of the batch that the pool inserts are sent on in one message *)
poll_txs(r) ==
    IF BatchReady(r)
    THEN {Send([r EXCEPT !.batch = <<>>, !.chunk = inserted, !.source = "ipc",
                         !.early = ~r.has_been_reset]) : inserted \in AllSubSeqs(r.batch)}
    ELSE {Rest(Leave(IF r.batch # <<>> THEN Leave(r, "batch_timer") ELSE r, "ipc"))}

poll_next(r) ==
    IF r.proposals > 0 THEN {Send([r EXCEPT !.proposals = @ - 1])}
    ELSE IF ~r.has_been_reset THEN {Idle(Leave(Leave(r, "events"), "reset"))}
    ELSE IF r.egress # <<>> THEN {poll_egress(r)}
    ELSE poll_txs(fill(Leave(Leave(r, "events"), "egress")))

(***************************************************************************)
(* run: select, biased to the commands                                     *)
(***************************************************************************)
Exec ==
    /\ executor.pc = "run" /\ executor.commands # <<>>
    /\ executor' = Executed([executor EXCEPT !.commands = Tail(@)], Head(executor.commands))

Poll ==
    /\ executor.pc = "run" /\ executor.commands = <<>>
    /\ executor' \in poll_next([executor EXCEPT !.wake = FALSE])

Woken ==
    /\ executor.pc = "idle" /\ (executor.wake \/ executor.commands # <<>>)
    /\ executor' = [executor EXCEPT !.pc = "run"]

(* event_tx.send().await *)
Sent ==
    /\ executor.pc = "send" /\ executor.events < EventCap
    /\ executor' = [executor EXCEPT !.pc = "run", !.events = @ + 1, !.chunk = <<>>, !.source = "none"]

Task == Exec \/ Poll \/ Woken \/ Sent

(***************************************************************************)
(* The other ends: the consensus loop, the clients, the timers.            *)
(***************************************************************************)
Commands ==
    {[kind |-> k, sizes |-> <<>>, n |-> 0] : k \in {"Reset", "Propose", "Failed"} \cap Inputs}
        \cup {[kind |-> "Commit", sizes |-> z, n |-> 0] :
                z \in IF "Commit" \in Inputs THEN {<<1>>, <<1, 1>>, <<2, 1>>, <<EgressMax + 1>>} ELSE {}}
        \cup {[kind |-> "Forwarded", sizes |-> <<>>, n |-> n] :
                n \in IF "Forwarded" \in Inputs THEN 1..2 ELSE {}}

(* TokioTaskUpdater::exec panics when the channel is full *)
Command ==
    /\ executor.sent < MaxCommands /\ ~executor.lagging
    /\ \E c \in Commands :
        executor' = IF Len(executor.commands) = CommandCap THEN [executor EXCEPT !.lagging = TRUE]
             ELSE [executor EXCEPT !.commands = Append(@, c), !.sent = @ + 1]

TakeEvent ==
    /\ executor.events > 0
    /\ executor' = [executor EXCEPT !.events = @ - 1]

Feed ==
    /\ executor.fed < MaxTxs
    /\ \E size \in 1..EgressMax :
        executor' = Wake([executor EXCEPT !.sock = Append(@, size), !.fed = @ + 1], "ipc")

Timers == {"ingress_timer", "batch_timer", "promote_timer"}
Fire(t) ==
    /\ executor[t] = "running"
    /\ executor' = Wake([executor EXCEPT ![t] = "fired"], t)

Next == Task \/ Command \/ TakeEvent \/ Feed \/ \E t \in Timers : Fire(t)

Spec == Init /\ [][Next]_vars

(* What is weakly fair, by number: a woken task is polled, consensus takes the
   events, and timers fire. *)
Fair(i) ==
    \/ i = 1 /\ Task
    \/ i = 2 /\ TakeEvent
    \/ i = 3 /\ Fire("ingress_timer")
    \/ i = 4 /\ Fire("batch_timer")
    \/ i = 5 /\ Fire("promote_timer")

----------------------------------------------------------------------------
(* Types, with the queue of forwarded transactions within its size. *)
TypeOK ==
    /\ executor.pc \in {"run", "idle", "send"} /\ Len(executor.commands) <= CommandCap /\ executor.events <= EventCap
    /\ executor.ingress \in 0..IngressMax /\ Len(executor.batch) <= BatchMax
    /\ executor.reg \subseteq Timers \cup {"events", "reset", "egress", "ipc", "ingress"}

(* A message of transactions that are sent on again is within the size that a
   message may have, unless one transaction alone exceeds it.  The message
   with what a batch of the clients brought has no such limit (lib.rs:511):
   only the number of its transactions is bounded. *)
ChunkFits ==
    /\ executor.source = "egress" /\ Len(executor.chunk) > 1 => Size(executor.chunk) <= EgressMax
    /\ executor.source = "ipc" => Len(executor.chunk) <= BatchMax

(* No transaction of a client is looked at before the reset that ends state
   sync. *)
NothingBeforeReset == ~executor.has_been_reset => executor.batch = <<>> /\ ~executor.early

(* While the task sleeps, everything undone has something that will wake it. *)
NothingAsleep ==
    executor.pc = "idle" /\ ~executor.wake /\ executor.commands = <<>> =>
        /\ executor.proposals = 0
        /\ executor.has_been_reset =>
            /\ executor.egress = <<>> /\ executor.sock = <<>>
            /\ executor.batch # <<>> => executor.batch_timer = "running" /\ "batch_timer" \in executor.reg
            /\ executor.ingress > 0 => executor.ingress_timer = "running" /\ "ingress_timer" \in executor.reg

(* Everything that arrived is dealt with. *)
Drained == executor.proposals = 0 /\ executor.egress = <<>> /\ executor.ingress = 0 /\ executor.sock = <<>> /\ executor.batch = <<>>

-----------------------------------------------------------------------------
(***************************************************************************)
(* The preload manager of the pool's executor                              *)
(* (monad-eth-txpool-executor/src/preload.rs): before this node leads, the *)
(* balances of the accounts in the pool are read ahead, for the sequence   *)
(* numbers at which it is predicted to propose, in chunks, with a pause    *)
(* after each.  The executor polls the manager; a waker is left behind     *)
(* when there is nothing to do, and only new requests take it.             *)
(*                                                                         *)
(* The timer is "fired" or "running"; `reg` holds what would wake the      *)
(* executor's task: the timer, the manager's waker.                        *)
(***************************************************************************)

CONSTANTS
    Accounts,
    Chunk,          \* PRELOAD_CHUNK_MAX_ADDRESSES
    MaxRound, MaxSeq        \* bounds

Diff == 2           \* COMMITTED_TO_PROPOSAL_SEQNUM_DIFF

VARIABLE preload

preloadVars == preload

Seqs == 0..(MaxSeq + MaxRound + Diff + 1)
Absent == [live |-> FALSE, preload |-> FALSE, pending |-> {}, done |-> {}]
New == [Absent EXCEPT !.live = TRUE, !.preload = TRUE]

PreloadInit ==
    preload = [map |-> [s \in Seqs |-> Absent], timer |-> "fired", waker |-> FALSE, reg |-> {}, wake |-> TRUE,
         \* the rest of the executor: round, last commit, senders in the pool
         round |-> 0, last |-> 0, senders |-> {},
         \* ghosts: the last chunk, and what was read ahead of each number
         chunk |-> [s |-> 0, A |-> {}], twice |-> FALSE]

split_off(r, s) == [r EXCEPT !.map = [k \in Seqs |-> IF k < s THEN Absent ELSE @[k]]]

(* retain: the pending sets are rebuilt, entries of numbers no longer
   predicted go, or stop preloading if something was read for them *)
Retained(entry, predicted) ==
    IF ~entry.live THEN entry
    ELSE IF predicted THEN [entry EXCEPT !.pending = {}]
    ELSE IF entry.done = {} THEN Absent
    ELSE [entry EXCEPT !.pending = {}, !.preload = FALSE]

retain(r, P) == [r EXCEPT !.map = [k \in Seqs |-> Retained(@[k], k \in P)]]

(* entry(..).or_insert and, for the next round, and_modify *)
this_round(r) ==
    [r EXCEPT !.map[r.last + Diff] = IF @.live THEN @ ELSE New]
next_round(r) ==
    [r EXCEPT !.map[r.last + Diff + 1] = IF @.live THEN [@ EXCEPT !.preload = TRUE] ELSE New]

Wanted(entry, A) == IF entry.preload THEN [entry EXCEPT !.pending = @ \cup (A \ entry.done)] ELSE entry

add_requests(r, A) ==
    IF \E k \in Seqs : r.map[k].preload
    THEN [r EXCEPT !.map = [k \in Seqs |-> Wanted(@[k], A)],
                   !.wake = @ \/ (r.waker /\ "waker" \in r.reg), !.waker = FALSE, !.reg = @ \ {"waker"}]
    ELSE r

(* enter_round with the rounds this node is about to lead *)
Predicted(r, leads) == {r.last + Diff + (l - r.round) : l \in {x \in leads : x >= r.round}}

Requested(r, leads) ==
    IF r.round \in leads /\ r.round + 1 \in leads THEN add_requests(next_round(this_round(r)), r.senders)
    ELSE IF r.round \in leads THEN add_requests(this_round(r), r.senders)
    ELSE IF r.round + 1 \in leads THEN add_requests(next_round(r), r.senders)
    ELSE r

enter_round(r, leads) ==
    Requested(retain(split_off(r, r.last + 1), Predicted(r, leads)), leads)

update_on_create_proposal(r, s) ==
    [r EXCEPT !.map = [k \in Seqs |-> IF k <= s THEN [@[k] EXCEPT !.preload = FALSE, !.pending = {}] ELSE @[k]]]

(***************************************************************************)
(* poll_requests, then the reading and complete_polled_requests, until     *)
(* there is nothing to do or the timer runs.                               *)
(***************************************************************************)
Ready(r) == {k \in Seqs : r.map[k].preload /\ r.map[k].pending # {}}

Chunks(entry) ==
    IF Cardinality(entry.pending) <= Chunk THEN {entry.pending} ELSE kSubset(Chunk, entry.pending)

complete(r, k, A) ==
    [r EXCEPT !.map[k] = [@ EXCEPT !.pending = @ \ A, !.done = @ \cup A],
              !.timer = "running", !.reg = @ \cup {"timer"},
              !.chunk = [s |-> k, A |-> A], !.twice = (A \cap r.map[k].done # {})]

poll_requests(r) ==
    IF r.waker THEN {[r EXCEPT !.reg = @ \cup {"waker"}]}
    ELSE IF r.timer = "running" THEN {[r EXCEPT !.reg = @ \cup {"timer"}]}
    ELSE IF Ready(r) = {} THEN {[r EXCEPT !.waker = TRUE, !.reg = @ \cup {"waker"}]}
    ELSE {complete(r, Min(Ready(r)), A) : A \in Chunks(r.map[Min(Ready(r))])}

(* the executor's task runs when it was woken, or after a command *)
PreloadPoll ==
    /\ preload.wake
    /\ preload' \in poll_requests([preload EXCEPT !.wake = FALSE])

Timer ==
    /\ preload.timer = "running"
    /\ preload' = [preload EXCEPT !.timer = "fired", !.wake = @ \/ "timer" \in preload.reg, !.reg = @ \ {"timer"}]

(* Commands are executed by the task that polls, which polls afterwards. *)
EnterRound ==
    /\ preload.round < MaxRound
    /\ \E leads \in SUBSET {preload.round + 1, preload.round + 2} :
        preload' = enter_round([preload EXCEPT !.round = @ + 1, !.wake = TRUE], leads)

BlockCommit ==
    /\ preload.last < MaxSeq
    /\ preload' = split_off([preload EXCEPT !.last = @ + 1, !.wake = TRUE], preload.last + 2)

CreateProposal ==
    \E s \in {preload.last + 1, preload.last + 2} :
        preload' = update_on_create_proposal([preload EXCEPT !.wake = TRUE], s)

Insert ==
    \E a \in Accounts \ preload.senders :
        preload' = add_requests([preload EXCEPT !.senders = @ \cup {a}, !.wake = TRUE], {a})

PreloadNext == PreloadPoll \/ Timer \/ EnterRound \/ BlockCommit \/ CreateProposal \/ Insert

PreloadSpec == PreloadInit /\ [][PreloadNext]_preloadVars

(* What is weakly fair, by number: a woken task is polled and the timer fires. *)
PreloadFair(i) ==
    \/ i = 1 /\ PreloadPoll
    \/ i = 2 /\ Timer

----------------------------------------------------------------------------
(* Types; a number without an entry has no requests. *)
PreloadTypeOK ==
    /\ \A k \in Seqs : preload.map[k].pending \subseteq Accounts /\ preload.map[k].done \subseteq Accounts
    /\ \A k \in Seqs : preload.map[k].live \/ preload.map[k] = Absent
    /\ preload.reg \subseteq {"timer", "waker"} /\ preload.timer \in {"fired", "running"}

(* Nothing is read ahead for a number that has been committed. *)
ReadsAhead == \A k \in Ready(preload) : k > preload.last

(* A balance is read once for a number, though every round asks for all
   accounts again. *)
ReadOnce == ~preload.twice

(* Requests never sleep: with the task asleep, the timer that will wake it
   runs, or there is nothing to do. *)
PreloadNothingAsleep == ~preload.wake /\ Ready(preload) # {} => preload.timer = "running" /\ "timer" \in preload.reg

=============================================================================
