------------------------------- MODULE TxPool -------------------------------
(***************************************************************************)
(* The transaction pool (monad-eth-txpool/src): transactions of accounts   *)
(* whose nonce has not been looked up are pending, the others are tracked  *)
(* next to the account's nonce; commits, expiry, replacement, promotion    *)
(* and proposals move them.  Every call also fills a map from transaction  *)
(* to the event that the clients of the pool are sent (`ev`, of the last   *)
(* call).                                                                  *)
(*                                                                         *)
(* A transaction is [a, n, tip, gas, val]: signer, nonce, effective tip,   *)
(* gas limit, the most it can cost.  The pool holds instances of them,     *)
(* with their age and how they were forwarded.  The executor               *)
(* (monad-eth-txpool-executor) inserts nothing before the reset that ends  *)
(* state sync.                                                             *)
(***************************************************************************)
EXTENDS Naturals, FiniteSets, Sequences, FiniteSetsExt, TLC

CONSTANTS
    Accounts,       \* 1..n, in the order of the addresses
    TxSet,          \* the transactions that exist
    Balance,        \* base balance of each account
    GasLimit, ByteLimit, TxLimit,       \* limits of a proposal
    MaxTracked,     \* tracked::MAX_ADDRESSES
    MaxPending,     \* pending::MAX_ADDRESSES
    MaxTxs,         \* pending::MAX_TXS
    SoftMark,       \* SOFT_EVICT_ADDRESSES_WATERMARK
    SoftExpiry, HardExpiry,             \* in ticks
    MinSeqDiff, MaxRetries,             \* EGRESS_MIN_COMMITTED_SEQ_NUM_DIFF, EGRESS_MAX_RETRIES
    Inputs,         \* the kinds of call an instance of the model enables
    MaxBatch,       \* most transactions inserted in one call
    MaxCommits      \* bound: committed blocks

VARIABLE p

vars == p

NoEvents == [t \in TxSet |-> "None"]
Event(r, t, e) == [r EXCEPT !.ev[t] = e]
Events(r, T, e) == [r EXCEPT !.ev = [t \in T |-> e] @@ @]

Init ==
    p = [pending |-> [a \in Accounts |-> {}], num_txs |-> 0,
         tracked |-> [a \in Accounts |-> {}], nonce |-> [a \in Accounts |-> 0],
         last_commit |-> 0,                     \* 0: None
         ready |-> FALSE,                       \* EthTxPoolResetTrigger
         ev |-> NoEvents,
         \* the committed chain, and a ghost
         chain |-> [a \in Accounts |-> 0], sends |-> [t \in TxSet |-> 0]]

Txs(list) == {i.tx : i \in list}
TrackedAddresses(r) == {a \in Accounts : r.tracked[a] # {}}
PendingAddresses(r) == {a \in Accounts : r.pending[a] # {}}
TrackedTxs(r) == SumFunctionOnSet([a \in Accounts |-> Cardinality(r.tracked[a])], Accounts)

(* ValidEthTransaction::cmp *)
Above(t, u) == t.tip > u.tip \/ (t.tip = u.tip /\ t.gas > u.gas)

Fresh(t, owned) == [tx |-> t, owned |-> owned, since |-> 0, retries |-> 0, age |-> 0]
At(list, n) == {i \in list : i.tx.n = n}

(***************************************************************************)
(* Insertion.                                                              *)
(***************************************************************************)
Inserted(r, t, owned) == [r EXCEPT !.sends[t] = IF owned THEN 1 ELSE 0]

(* An instance takes the place of the one with the same nonce. *)
Put(list, i) == (list \ At(list, i.tx.n)) \cup {i}

(* TrackedTxList::try_insert_tx: an existing transaction gives way to a better
   one, or to any once it has expired.  Both cases announce the transaction:
   the first as pending, the second as tracked. *)
Expired(i, expiry) == i.age > expiry

try_insert_tracked(r, t, owned) ==
    IF t.n < r.nonce[t.a] THEN Event(r, t, "Drop")
    ELSE IF At(r.tracked[t.a], t.n) = {}
    THEN Event(Inserted([r EXCEPT !.tracked[t.a] = Put(@, Fresh(t, owned))], t, owned), t, "InsertPending")
    ELSE IF \A i \in At(r.tracked[t.a], t.n) : ~Expired(i, HardExpiry) /\ ~Above(t, i.tx)
    THEN Event(r, t, "Drop")
    ELSE Event(Events(Inserted([r EXCEPT !.tracked[t.a] = Put(@, Fresh(t, owned))], t, owned),
                      Txs(At(r.tracked[t.a], t.n)), "Drop"), t, "InsertTracked")

(* PendingTxMap::try_insert_tx *)
try_insert_pending(r, t, owned) ==
    IF r.num_txs >= MaxTxs \/ (r.pending[t.a] = {} /\ Cardinality(PendingAddresses(r)) = MaxPending)
    THEN Event(r, t, "Drop")
    ELSE IF \E i \in At(r.pending[t.a], t.n) : ~Above(t, i.tx)
    THEN Event(r, t, "Drop")
    ELSE Event(Events(Inserted(
            [r EXCEPT !.pending[t.a] = Put(@, Fresh(t, owned)),
                      !.num_txs = @ + (IF At(r.pending[t.a], t.n) = {} THEN 1 ELSE 0)], t, owned),
                 Txs(At(r.pending[t.a], t.n)), "Drop"), t, "InsertPending")

insert_tx(r, t, owned) ==
    IF t.gas > GasLimit \/ t.val > Balance[t.a] THEN Event(r, t, "Drop")
    ELSE IF r.tracked[t.a] # {} THEN try_insert_tracked(r, t, owned)
    ELSE try_insert_pending(r, t, owned)

RECURSIVE insert_all(_, _, _)
insert_all(r, txs, owned) ==
    IF txs = <<>> THEN r ELSE insert_all(insert_tx(r, Head(txs), owned), Tail(txs), owned)

(***************************************************************************)
(* Promotion.                                                              *)
(***************************************************************************)
(* PendingTxMap::split_off and remove: the counter follows *)
Taken(r, S) ==
    [r EXCEPT !.pending = [a \in Accounts |-> IF a \in S THEN {} ELSE @[a]],
              !.num_txs = @ - SumFunctionOnSet([a \in Accounts |-> Cardinality(r.pending[a])], S)]

Renewed(list) == {[i EXCEPT !.age = 0] : i \in list}
Low(list, nonce) == {i \in list : i.tx.n < nonce}

(* TrackedTxList::new_from_promote_pending, for a list taken from pending *)
new_from_promote_pending(r, a, list, nonce) ==
    Events(Events([r EXCEPT !.tracked[a] = Renewed(list \ Low(list, nonce)), !.nonce[a] = nonce],
                  Txs(Low(list, nonce)), "Drop"),
           Txs(list \ Low(list, nonce)), "InsertTracked")

RECURSIVE promote(_, _, _)
promote(r, lists, S) ==
    IF S = {} THEN r
    ELSE promote(new_from_promote_pending(r, Min(S), lists[Min(S)], r.chain[Min(S)]),
                 lists, S \ {Min(S)})

(* try_promote_pending: any insertable number of addresses, in the map's
   order; the nonces come from the block policy, whose last commit is the
   pool's, or the lookup fails and the transactions are dropped. *)
Insertable(r, max) == Min({max, MaxTracked - Cardinality(TrackedAddresses(r))})

Chosen(r, max) ==
    {S \in SUBSET PendingAddresses(r) :
        Cardinality(S) = Min({Insertable(r, max), Cardinality(PendingAddresses(r))})}

Dropped(r, S) == Events(Taken(r, S), UNION {Txs(r.pending[a]) : a \in S}, "Drop")

try_promote_pending(r, max) ==
    UNION {IF S = {} THEN {r}
           ELSE IF r.last_commit = 0 THEN {Dropped(r, S)}
           ELSE {promote(Taken(r, S), r.pending, S), Dropped(r, S)} : S \in Chosen(r, max)}

(***************************************************************************)
(* Expiry, commits, reset.                                                 *)
(***************************************************************************)
tx_expiry(r) == IF TrackedTxs(r) < SoftMark THEN HardExpiry ELSE SoftExpiry

Aside(r, expiry) == UNION {Txs({i \in r.tracked[a] : Expired(i, expiry)}) : a \in Accounts}

evict_expired_txs(r) ==
    Events([r EXCEPT !.tracked = [a \in Accounts |-> {i \in @[a] : ~Expired(i, tx_expiry(r))}]],
           Aside(r, tx_expiry(r)), "Evict")

(* update_committed_account_nonce *)
Bad_commit_tracked(r, a, nonce) ==
    Events([r EXCEPT !.tracked[a] = @ \ Low(@, nonce),
                     !.nonce[a] = IF Low(r.tracked[a], nonce) = {} THEN @ ELSE nonce],
           Txs(Low(r.tracked[a], nonce)), "Commit")
commit_tracked(r, a, nonce) ==
    Events([r EXCEPT !.tracked[a] = @ \ Low(@, nonce), !.nonce[a] = nonce],
           Txs(Low(r.tracked[a], nonce)), "Commit")

commit_pending(r, a, nonce, room) ==
    IF room = 0 \/ r.pending[a] = {} THEN r
    ELSE new_from_promote_pending(Taken(r, {a}), a, r.pending[a], nonce)

(* the loop over the nonces of the block; `room` counts the new addresses *)
RECURSIVE commit_accounts(_, _, _)
commit_accounts(r, S, room) ==
    IF S = {} THEN r
    ELSE IF r.tracked[Min(S)] # {}
    THEN commit_accounts(commit_tracked(r, Min(S), r.chain[Min(S)]), S \ {Min(S)}, room)
    ELSE commit_accounts(commit_pending(r, Min(S), r.chain[Min(S)], room), S \ {Min(S)},
             IF room > 0 /\ commit_pending(r, Min(S), r.chain[Min(S)], room).tracked[Min(S)] # {}
             THEN room - 1 ELSE room)

Older(list) == {[i EXCEPT !.since = Min({@ + 1, MinSeqDiff})] : i \in list}
Seen(r) == [r EXCEPT !.tracked = [a \in Accounts |-> Older(@[a])],
                     !.pending = [a \in Accounts |-> Older(@[a])]]

update_committed_block(r, block) ==
    evict_expired_txs(commit_accounts(
        Seen([r EXCEPT !.last_commit = @ + 1,
                       !.chain = [a \in Accounts |-> @[a] + Cardinality({t \in block : t.a = a})]]),
        {t.a : t \in block}, MaxTracked - Cardinality(TrackedAddresses(r))))

(* add_egress_txs and get_if_forwardable, after a batch of commits *)
Forwardable(i) == i.owned /\ i.retries < MaxRetries /\ i.since >= MinSeqDiff

Forwarded(list) ==
    {IF Forwardable(i) THEN [i EXCEPT !.since = 0, !.retries = @ + 1] ELSE i : i \in list}

add_egress_txs(r) ==
    [r EXCEPT !.pending = [a \in Accounts |-> Forwarded(@[a])],
              !.tracked = [a \in Accounts |-> Forwarded(@[a])],
              !.sends = [t \in TxSet |-> @[t] + Cardinality(
                  {i \in r.pending[t.a] \cup r.tracked[t.a] : i.tx = t /\ Forwardable(i)})]]

(* reset, once, when state sync is done; a chain without committed blocks
   leaves the pool without a last commit *)
reset(r, seq) ==
    [r EXCEPT !.tracked = [a \in Accounts |-> {}], !.last_commit = seq, !.ready = TRUE]

(***************************************************************************)
(* Proposals.                                                              *)
(***************************************************************************)
(* get_queued: the unbroken run of nonces from the account's, or from where
   the extending blocks leave it (ext[a]; the committed nonce if they do not
   touch the account) *)
Queued(r, ext, a) ==
    {i.tx : i \in {j \in r.tracked[a] :
        j.tx.n >= ext[a] /\ \A n \in ext[a]..j.tx.n : At(r.tracked[a], n) # {}}}

Heads(q) == UNION {{t \in q[a] : \A u \in q[a] : t.n <= u.n} : a \in Accounts}

Gas(l) == FoldSet(LAMBDA i, acc : acc + l[i].gas, 0, DOMAIN l)
Spent(l, a) == FoldSet(LAMBDA i, acc : acc + (IF l[i].a = a THEN l[i].val ELSE 0), 0, DOMAIN l)

Fits(l, t) ==
    Gas(l) + t.gas <= GasLimit /\ Len(l) < ByteLimit /\ Spent(l, t.a) + t.val <= Balance[t.a]

(* drain_in_order_while: of the first transactions of all accounts the best is
   taken (the order among equals is left open); one that does not fit takes
   its account out, one that is included is followed by the next. *)
Best(H) == {t \in H : \A u \in H : ~Above(u, t)}

RECURSIVE create_proposal_tx_list(_, _)
create_proposal_tx_list(q, l) ==
    IF Heads(q) = {} \/ Len(l) = TxLimit THEN {l}
    ELSE UNION {IF Fits(l, t) THEN create_proposal_tx_list([q EXCEPT ![t.a] = @ \ {t}], Append(l, t))
                ELSE create_proposal_tx_list([q EXCEPT ![t.a] = {}], l) : t \in Best(Heads(q))}

Proposals(r, ext) ==
    create_proposal_tx_list([a \in Accounts |-> Queued(r, ext, a)], <<>>)

(***************************************************************************)
(* Next                                                                    *)
(***************************************************************************)
Start(r) == [r EXCEPT !.ev = NoEvents]

Reset ==
    /\ ~p.ready
    /\ \E seq \in 0..1 : p' = reset(Start(p), seq)

(* what insert_txs does with the transactions of a batch: drops all of them
   when the pool is not ready or the balances cannot be read *)
insert_txs(r, txs, owned) ==
    IF r.last_commit = 0
    THEN {Events(r, {txs[i] : i \in DOMAIN txs}, "Drop")}
    ELSE {Events(r, {txs[i] : i \in DOMAIN txs}, "Drop")}
            \cup try_promote_pending(insert_all(r, txs, owned), MaxTracked)

Insert ==
    /\ "Insert" \in Inputs /\ p.ready
    /\ \E k \in 1..MaxBatch : \E txs \in [1..k -> TxSet], owned \in {TRUE} \cup (IF "Foreign" \in Inputs THEN {FALSE} ELSE {}) :
        p' \in insert_txs(Start(p), txs, owned)

Promote ==
    /\ "Promote" \in Inputs /\ p.ready
    /\ p' \in try_promote_pending(Start(p), 1)

(* a block takes any transactions that continue the committed nonces *)
Blocks ==
    {B \in SUBSET {t \in TxSet : t.n >= p.chain[t.a]} :
        \A t \in B : /\ \A u \in B : u.a = t.a /\ u.n = t.n => u = t
                     /\ \A n \in p.chain[t.a]..t.n : \E u \in B : u.a = t.a /\ u.n = n}

BlockCommit ==
    /\ "Commit" \in Inputs /\ p.ready
    /\ p.last_commit < MaxCommits
    /\ \E B \in Blocks : p' = add_egress_txs(update_committed_block(Start(p), B))

CreateProposal ==
    /\ "Propose" \in Inputs /\ p.ready
    /\ p' \in IF p.last_commit = 0 THEN {evict_expired_txs(Start(p))}
              ELSE try_promote_pending(evict_expired_txs(Start(p)), MaxTracked)

Aged(list) == {[i EXCEPT !.age = Min({@ + 1, HardExpiry + 1})] : i \in list}
Tick ==
    /\ "Tick" \in Inputs /\ TrackedAddresses(p) # {}
    /\ p' = [Start(p) EXCEPT !.tracked = [a \in Accounts |-> Aged(@[a])]]

Next == Reset \/ Insert \/ Promote \/ BlockCommit \/ CreateProposal \/ Tick

Spec == Init /\ [][Next]_vars

----------------------------------------------------------------------------
(* Types: one transaction per nonce in every list. *)
TypeOK ==
    /\ p.num_txs \in 0..Cardinality(TxSet)
    /\ \A a \in Accounts : \A list \in {p.tracked[a], p.pending[a]} :
        \A i, j \in list : i.tx.a = a /\ (i.tx.n = j.tx.n => i = j)

(* "guaranteed to be the correct account_nonce for the seqnum stored in
   last_commit_seq_num": the nonce kept with a tracked account is the one of
   the committed chain, and no tracked transaction is below it. *)
TrackedNonceCurrent ==
    \A a \in TrackedAddresses(p) :
        p.nonce[a] = p.chain[a] /\ \A i \in p.tracked[a] : i.tx.n >= p.nonce[a]

(* An account is pending or tracked, never both: promotion calls the other
   case unreachable. *)
PendingNotTracked == PendingAddresses(p) \cap TrackedAddresses(p) = {}

(* The pending counter is the number of pending transactions, and both maps
   stay within their sizes, through replacement, promotion and commits. *)
Bounded ==
    /\ p.num_txs = SumFunctionOnSet([a \in Accounts |-> Cardinality(p.pending[a])], Accounts)
    /\ p.num_txs <= MaxTxs /\ Cardinality(PendingAddresses(p)) <= MaxPending
    /\ Cardinality(TrackedAddresses(p)) <= MaxTracked

(* the nonces that a branch of uncommitted blocks may leave an account at *)
Exts == {e \in [Accounts -> 0..3] : \A a \in Accounts : e[a] >= p.chain[a] /\ e[a] <= p.chain[a] + 1}

(* A proposal is one that the block policy accepts: for each account the next
   nonces in order, and no more than it can pay; and within the limits. *)
ProposalValid ==
    \A ext \in Exts : \A l \in Proposals(p, ext) :
        /\ \A i \in DOMAIN l :
            l[i].n = ext[l[i].a] + Cardinality({j \in 1..i - 1 : l[j].a = l[i].a})
        /\ Gas(l) <= GasLimit /\ Len(l) <= TxLimit
        /\ \A a \in Accounts : Spent(l, a) <= Balance[a]

(* Nothing that fits is left out: if the proposal has room, the next
   transaction of each account does not fit in it. *)
ProposalMaximal ==
    \A ext \in Exts : \A l \in Proposals(p, ext) :
        Len(l) < TxLimit =>
            \A a \in Accounts :
                \A t \in {u \in Queued(p, ext, a) :
                            u.n = ext[a] + Cardinality({j \in DOMAIN l : l[j].a = a})} :
                    \/ Gas(l) + t.gas > GasLimit \/ Len(l) >= ByteLimit
                    \/ Spent(l, a) + t.val > Balance[a]

(* A transaction taken from a client is sent on at most once at insertion and
   MaxRetries times later, however it moves between the maps; a forwarded one
   is never sent on. *)
ForwardedBoundedly ==
    \A t \in TxSet : \A i \in p.pending[t.a] \cup p.tracked[t.a] :
        i.tx = t => p.sends[t] <= (IF i.owned THEN 1 + MaxRetries ELSE 0)

=============================================================================
