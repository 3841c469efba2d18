---------------------------- MODULE TxPoolBridge ----------------------------
(***************************************************************************)
(* The pool and the RPC server's picture of it: the bridge                 *)
(* (monad-rpc/src/txpool) keeps a status per transaction, fed by a         *)
(* snapshot when it connects and by the events of every call afterwards.   *)
(* The pool's side drops a connection whose event queue is full, the node  *)
(* may crash and restart, and the bridge notices a broken connection only  *)
(* when it next sends a transaction.                                       *)
(***************************************************************************)
EXTENDS TxPool, SequencesExt

CONSTANTS
    QueueCap,       \* capacity of a connection's event channel
    EvictAfter,     \* TX_EVICT_DURATION_SECONDS, in ticks
    MaxSubmits, MaxCrashes      \* bounds

VARIABLE b

bvars == <<p, b>>

Alive == {"Pending", "Tracked"}
Known == {t \in TxSet : b.status[t] # "None"}

(* EthTxPoolSnapshot of a pool *)
Snapshot(r) ==
    [t \in TxSet |->
        IF t \in UNION {Txs(r.pending[a]) : a \in Accounts} THEN "Pending"
        ELSE IF t \in UNION {Txs(r.tracked[a]) : a \in Accounts} THEN "Tracked" ELSE "None"]

BInit ==
    /\ Init
    /\ b = [status |-> [t \in TxSet |-> "None"], reply |-> {}, eviction |-> <<>>,
            hash_address |-> {}, address_hashes |-> {},
            ipc |-> "Start", created |-> FALSE,
            open |-> FALSE, snap |-> [t \in TxSet |-> "None"], events |-> <<>>, sock |-> <<>>,
            up |-> TRUE, submits |-> 0, crashes |-> 0]

(***************************************************************************)
(* The bridge's state.                                                     *)
(***************************************************************************)
Entry(t) == [t |-> t, age |-> 0]

add_tx(m, t) ==
    [m EXCEPT !.status[t] = "Unknown", !.reply = @ \cup {t}, !.eviction = Append(@, Entry(t))]

(* the eviction queue is rebuilt; the order of the new entries is immaterial,
   they have one age *)
apply_snapshot(m, snap) ==
    [m EXCEPT !.status = snap, !.reply = {},
              !.eviction = SetToSeq({Entry(t) : t \in {u \in TxSet : snap[u] # "None"}}),
              !.hash_address = {t \in @ : m.status[t] = "None" \/ snap[t] # "None"},
              !.address_hashes =
                  {t \in @ : m.status[t] = "None" \/ snap[t] # "None" \/ t \notin m.hash_address}]

StatusOf(e) ==
    CASE e = "InsertPending" -> "Pending" [] e = "InsertTracked" -> "Tracked"
      [] e = "Drop" -> "Dropped" [] e = "Evict" -> "Evicted" [] e = "Commit" -> "Committed"

Touched(ev) == {t \in TxSet : ev[t] # "None"}
Insertions(ev) == {t \in TxSet : ev[t] \in {"InsertPending", "InsertTracked"}}

handle_events(m, ev) ==
    [m EXCEPT !.status = [t \in Touched(ev) |-> StatusOf(ev[t])] @@ @,
              !.reply = @ \ Touched(ev),
              !.eviction = @ \o SetToSeq({Entry(t) : t \in {u \in Touched(ev) : m.status[u] = "None"}}),
              !.hash_address = @ \cup Insertions(ev),
              !.address_hashes = @ \cup Insertions(ev)]

(* cleanup pops the entries that are old enough; an entry removes its
   transaction whatever happened to it since *)
Old(m) == {m.eviction[i].t : i \in {j \in DOMAIN m.eviction :
             m.eviction[j].age >= EvictAfter /\ m.status[m.eviction[j].t] # "None"}}

cleanup(m) ==
    [m EXCEPT !.status = [t \in Old(m) |-> "None"] @@ @, !.reply = @ \ Old(m),
              !.eviction = SelectSeq(@, LAMBDA e : e.age < EvictAfter),
              !.hash_address = @ \ Old(m),
              !.address_hashes = @ \ (Old(m) \cap m.hash_address)]

(***************************************************************************)
(* The run loop of the bridge.  A flush that meets a closed connection     *)
(* keeps the loop until it has reconnected.  When the connection attempt   *)
(* fails, the loop goes on with the finished attempt in its state, and the *)
(* next flush polls it again, which ends the task.                         *)
(***************************************************************************)
Looping == b.ipc \in {"Ready", "Failed"}

Submit(t) ==
    /\ Looping /\ b.submits < MaxSubmits
    /\ b' = IF b.ipc = "Failed" THEN [add_tx(b, t) EXCEPT !.submits = @ + 1, !.ipc = "Dead"]
            ELSE IF b.open
            THEN [add_tx(b, t) EXCEPT !.submits = @ + 1, !.sock = Append(@, t)]
            ELSE [add_tx(b, t) EXCEPT !.submits = @ + 1, !.ipc = "BrokenPipe", !.created = FALSE]
    /\ UNCHANGED p

(* what is left in the channel of a connection that the pool dropped still
   arrives *)
Receive ==
    /\ Looping /\ b.events # <<>>
    /\ b' = [handle_events(b, Head(b.events)) EXCEPT !.events = Tail(@)]
    /\ UNCHANGED p

Cleanup ==
    /\ Looping /\ b.eviction # <<>>
    /\ b' = cleanup([b EXCEPT !.eviction =
                        [i \in DOMAIN @ |-> [@[i] EXCEPT !.age = Min({@ + 1, EvictAfter})]]])
    /\ UNCHANGED p

(* SocketWatcher reports the creation of the socket while it watches *)
Bad_Watch ==
    /\ b.ipc = "BrokenPipe" /\ b.created /\ b.open
    /\ b' = [b EXCEPT !.ipc = "Reconnect"]
    /\ UNCHANGED p
Watch ==
    /\ b.ipc = "BrokenPipe" /\ b.created
    /\ b' = [b EXCEPT !.ipc = "Reconnect"]
    /\ UNCHANGED p

(* EthTxPoolIpcClient::new: the pool's executor accepts the connection, after
   the reset, and sends the snapshot of that moment first *)
Accept ==
    /\ b.ipc \in {"Start", "Reconnect"} /\ b.up /\ p.ready /\ ~b.open
    /\ b' = [b EXCEPT !.open = TRUE, !.snap = Snapshot(p), !.events = <<>>, !.sock = <<>>]
    /\ UNCHANGED p

Reconnected ==
    /\ b.ipc \in {"Start", "Reconnect"} /\ b.open
    /\ b' = [apply_snapshot(b, b.snap) EXCEPT !.ipc = "Ready"]
    /\ UNCHANGED p

(***************************************************************************)
(* The pool's side: broadcast_tx_events after every call.                  *)
(***************************************************************************)
Bad_broadcast(m, ev) ==
    IF ~m.open \/ Touched(ev) = {} \/ Len(m.events) = QueueCap THEN m
    ELSE [m EXCEPT !.events = Append(@, ev)]
broadcast(m, ev) ==
    IF ~m.open \/ Touched(ev) = {} THEN m
    ELSE IF Len(m.events) = QueueCap THEN [m EXCEPT !.open = FALSE, !.sock = <<>>]
    ELSE [m EXCEPT !.events = Append(@, ev)]

PoolReset == b.up /\ Reset /\ b' = broadcast(b, p'.ev)

PoolStep ==
    /\ b.up
    /\ Promote \/ BlockCommit \/ CreateProposal \/ Tick
    /\ b' = broadcast(b, p'.ev)

Ingest ==
    /\ b.up /\ p.ready /\ b.sock # <<>>
    /\ p' \in insert_txs(Start(p), <<Head(b.sock)>>, TRUE)
    /\ b' = broadcast([b EXCEPT !.sock = Tail(@)], p'.ev)

(* a crash loses the pool and what was under way; the restarted node creates
   the socket anew *)
Crash ==
    /\ b.up /\ b.crashes < MaxCrashes
    /\ b' = [b EXCEPT !.up = FALSE, !.open = FALSE, !.events = <<>>, !.sock = <<>>, !.crashes = @ + 1,
                      !.ipc = CASE @ = "Reconnect" -> "Failed" [] @ = "Start" -> "Dead" [] OTHER -> @,
                      !.created = FALSE]
    /\ p' = [Start(p) EXCEPT !.pending = [a \in Accounts |-> {}], !.num_txs = 0,
                             !.tracked = [a \in Accounts |-> {}], !.last_commit = 0, !.ready = FALSE]

Restart ==
    /\ ~b.up
    /\ b' = [b EXCEPT !.up = TRUE, !.created = (b.ipc = "BrokenPipe")]
    /\ UNCHANGED p

BNext ==
    \/ \E t \in TxSet : Submit(t)
    \/ Receive \/ Cleanup \/ Watch \/ Accept \/ Reconnected
    \/ PoolReset \/ PoolStep \/ Ingest \/ Crash \/ Restart

BSpec == BInit /\ [][BNext]_bvars

(* What is weakly fair, by number: the tasks of the bridge and of the node that
   are ready to go on do. *)
BFair(i) ==
    \/ i = 1 /\ Watch
    \/ i = 2 /\ Accept
    \/ i = 3 /\ Reconnected
    \/ i = 4 /\ PoolReset

----------------------------------------------------------------------------
Caught == Looping /\ b.open /\ b.events = <<>>

(* What the server shows as alive is in the pool, once the events have
   arrived: through replacement, commits, expiry, a full queue, a crash and
   the snapshot of a reconnection. *)
ShownIsHeld == Caught => \A t \in TxSet : b.status[t] \in Alive => Snapshot(p)[t] # "None"

(* No status stays for ever: each has an entry in the eviction queue. *)
StatusExpires == Looping => \A t \in Known : \E i \in DOMAIN b.eviction : b.eviction[i].t = t

(* The list of an account names only transactions that have a status. *)
IndexCurrent == Looping => b.address_hashes \subseteq Known

=============================================================================
