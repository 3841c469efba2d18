--------------------------- MODULE EthBlockPolicy ---------------------------
(***************************************************************************)
(* The block policy (monad-eth-block-policy/src/lib.rs) and the body check *)
(* of the block validator (monad-eth-block-validator/src/lib.rs).          *)
(*                                                                         *)
(* Consensus runs ahead of execution: the transactions of block n are      *)
(* checked against the executed state of block n - Delay, minus the        *)
(* largest fees that the blocks in between could have cost.  The blocks in *)
(* between are the committed ones, which the policy caches, and the        *)
(* uncommitted ones of the branch being extended.                          *)
(*                                                                         *)
(* `chain` is the branch; its first `last_commit` blocks are committed and *)
(* `st` of a block is the state after executing it, or NotExecuted.        *)
(***************************************************************************)
EXTENDS Naturals, FiniteSets, Sequences

CONSTANTS
    Addresses,
    Delay,        \* execution_delay
    Fees,         \* the largest amounts a transaction can cost its sender
    Genesis,      \* the balances of the genesis state
    TxLimit,      \* most transactions of a block
    MaxBlocks,    \* bound: length of the branch
    MaxBalance    \* bound: balances credited beyond it are not explored

VARIABLE b

vars == b

NotExecuted == [nonce |-> [a \in Addresses |-> 0], balance |-> [a \in Addresses |-> 0],
                done |-> FALSE]
GenesisState == [nonce |-> [a \in Addresses |-> 0], balance |-> Genesis, done |-> TRUE]

Init ==
    b = [chain |-> <<>>, last_commit |-> 0,
         first |-> 1,           \* the cache holds the blocks first..last_commit
         insolvent |-> FALSE]   \* ghost: execution met a sender who could not pay

StateAt(n) == IF n = 0 THEN GenesisState ELSE b.chain[n].st
Txs(n) == b.chain[n].txs

(* get_nonces: the nonce of the last transaction of an account in a block *)
Sent(txs, a) == {i \in DOMAIN txs : txs[i].a = a}
Newest(S) == CHOOSE x \in S : \A y \in S : y <= x
BlockNonce(txs, a) == txs[Newest(Sent(txs, a))].n
RECURSIVE TotalOf(_, _)
TotalOf(txs, a) ==
    IF txs = <<>> THEN 0
    ELSE TotalOf(Tail(txs), a) + (IF Head(txs).a = a THEN Head(txs).fee ELSE 0)

(***************************************************************************)
(* validate_block_body: the number of transactions, and nonces without a   *)
(* gap for each sender.  Well-formedness of a transaction, gas and size    *)
(* are limits on one block that no other state depends on.                 *)
(***************************************************************************)
validate_block_body(txs) ==
    /\ Len(txs) <= TxLimit
    /\ \A i, j \in DOMAIN txs :
        /\ i < j /\ txs[i].a = txs[j].a
        /\ \A k \in i + 1..j - 1 : txs[k].a # txs[i].a
        => txs[j].n = txs[i].n + 1

(***************************************************************************)
(* Lookups.                                                                *)
(***************************************************************************)
base_seq_num(n) == IF n <= Delay THEN 0 ELSE n - Delay

(* get_block_index finds the block whose state is asked for: in the committed
   cache, or on the branch when one is given; otherwise it panics. *)
get_block_index(n, extending) ==
    CASE n = 0             -> "Found"
      [] n <= b.last_commit /\ n > 0 ->
            (IF n >= b.first THEN "Found" ELSE "Panic")
      [] n > b.last_commit ->
            (IF ~extending THEN "NotAvailableYet"
             ELSE IF n <= Len(b.chain) THEN "Found" ELSE "Panic")

(* the state backend answers for executed blocks only *)
Available(n, extending) == get_block_index(n, extending) = "Found" /\ StateAt(n).done

(* CommittedBlkBuffer::get_nonce and the nonces of the extending blocks: the
   newest block that holds a transaction of the account *)
cached_nonce(a, from, to) ==
    BlockNonce(Txs(Newest({n \in from..to : Sent(Txs(n), a) # {}})), a) + 1

HasNonce(a, from, to) == \E n \in from..to : Sent(Txs(n), a) # {}

get_account_base_nonce(n, extending, a) ==
    IF extending /\ HasNonce(a, b.last_commit + 1, Len(b.chain))
    THEN cached_nonce(a, b.last_commit + 1, Len(b.chain))
    ELSE IF HasNonce(a, b.first, b.last_commit)
    THEN cached_nonce(a, b.first, b.last_commit)
    ELSE StateAt(base_seq_num(n)).nonce[a]

RECURSIVE FeesOf(_, _, _)
FeesOf(a, from, to) ==
    IF from > to THEN 0 ELSE TotalOf(Txs(from), a) + FeesOf(a, from + 1, to)

(* the fees of the committed blocks after the base: compute_txn_fee *)
compute_txn_fee(base, a) ==
    FeesOf(a, (IF base + 1 > b.first THEN base + 1 ELSE b.first), b.last_commit)

(* the fees of the extending blocks after the committed ones and the base *)
Bad_pending_fee(base, a) == 0
pending_fee(base, a) ==
    FeesOf(a, (IF base > b.last_commit THEN base ELSE b.last_commit) + 1, Len(b.chain))

Coherent(base, extending, a) ==
    StateAt(base).balance[a] >=
        compute_txn_fee(base, a) + (IF extending THEN pending_fee(base, a) ELSE 0)

compute_account_base_balance(n, extending, a) ==
    StateAt(base_seq_num(n)).balance[a] - compute_txn_fee(base_seq_num(n), a)
        - (IF extending THEN pending_fee(base_seq_num(n), a) ELSE 0)

(***************************************************************************)
(* check_coherency of a block that extends the whole branch.  The executed *)
(* state is read for the delayed execution result, for the nonces and for  *)
(* the balances; until it is there the block is refused.                   *)
(***************************************************************************)
NextSeq == Len(b.chain) + 1

NoncesFollow(txs, a) ==
    \A i \in Sent(txs, a) :
        txs[i].n = get_account_base_nonce(NextSeq, TRUE, a)
                     + Cardinality({j \in Sent(txs, a) : j < i})

check_coherency(txs) ==
    /\ Available(base_seq_num(NextSeq), TRUE)
    /\ \A a \in Addresses : Sent(txs, a) # {} =>
        /\ NoncesFollow(txs, a)
        /\ TotalOf(txs, a) <= compute_account_base_balance(NextSeq, TRUE, a)

(* Panics are met while the base balances are computed for the senders *)
Panics(n, extending, senders) ==
    \/ get_block_index(base_seq_num(n), extending) = "Panic"
    \/ /\ Available(base_seq_num(n), extending)
       /\ \E a \in senders : ~Coherent(base_seq_num(n), extending, a)

(***************************************************************************)
(* Actions.                                                                *)
(***************************************************************************)
Candidates == {x \in [a : Addresses, n : 0..MaxBlocks * TxLimit, fee : Fees] :
                    \* only nonces near the account's are worth proposing
                    LET known == IF HasNonce(x.a, 1, Len(b.chain))
                                 THEN cached_nonce(x.a, 1, Len(b.chain)) ELSE 0
                    IN  x.n + 1 >= known /\ x.n <= known + TxLimit}

Extend ==
    /\ Len(b.chain) < MaxBlocks
    /\ \E k \in 0..TxLimit : \E txs \in [1..k -> Candidates] :
        /\ validate_block_body(txs)
        /\ check_coherency(txs)
        /\ b' = [b EXCEPT !.chain = Append(@, [txs |-> txs, st |-> NotExecuted])]

(* another branch wins: uncommitted blocks are given up *)
Abandon ==
    \E n \in b.last_commit..Len(b.chain) - 1 :
        b' = [b EXCEPT !.chain = SubSeq(@, 1, n)]

(* update_committed_block; the cache is cut to Delay blocks when it holds
   twice as many *)
Purged(first, commit) ==
    IF commit - first + 1 >= 2 * Delay THEN first + Delay ELSE first

update_committed_block ==
    /\ b.last_commit < Len(b.chain)
    /\ b' = [b EXCEPT !.last_commit = @ + 1, !.first = Purged(@, b.last_commit)]

(* reset: the cache is refilled with the last Delay committed blocks, after a
   restart, which forgets the uncommitted ones *)
ResetFirst == IF b.last_commit >= Delay THEN b.last_commit + 1 - Delay ELSE 1
reset ==
    /\ b.last_commit > 0
    /\ b' = [b EXCEPT !.chain = SubSeq(@, 1, b.last_commit), !.first = ResetFirst]

(* Execution (external) runs the blocks in order.  A transaction that is not
   skipped costs its sender at most its fee, and accounts are credited. *)
RECURSIVE Run(_, _)
Run(st, txs) ==
    IF txs = <<>> THEN {[st |-> st, short |-> FALSE]}
    ELSE IF st.balance[Head(txs).a] < Head(txs).fee \/ st.nonce[Head(txs).a] # Head(txs).n
    THEN {[st |-> st, short |-> TRUE]}
    ELSE UNION {Run([st EXCEPT !.balance[Head(txs).a] = @ - c,
                               !.nonce[Head(txs).a] = @ + 1], Tail(txs)) :
                   c \in {0, Head(txs).fee}}

Credited(st) ==
    {st} \cup {[st EXCEPT !.balance[a] = @ + 1] : a \in {x \in Addresses : st.balance[x] < MaxBalance}}

Execute ==
    \E n \in 1..Len(b.chain) :
        /\ ~b.chain[n].st.done /\ StateAt(n - 1).done
        /\ \E r \in Run(StateAt(n - 1), Txs(n)) : \E st \in Credited(r.st) :
            b' = [b EXCEPT !.chain[n].st = [st EXCEPT !.done = TRUE],
                           !.insolvent = @ \/ r.short]

Next == Extend \/ Abandon \/ update_committed_block \/ reset \/ Execute

Spec == Init /\ [][Next]_vars

----------------------------------------------------------------------------
(* Types: the committed blocks are a prefix of the branch, and the cache is a
   suffix of them no longer than twice the delay. *)
TypeOK ==
    /\ b.last_commit \in 0..Len(b.chain)
    /\ b.first \in 1..b.last_commit + 1
    /\ b.last_commit - b.first + 1 <= 2 * Delay
    /\ \A n \in DOMAIN b.chain : Len(Txs(n)) <= TxLimit

(* A transaction of a coherent block can always be executed: with its nonce,
   and by a sender who can pay the whole of its fee, whatever the blocks
   executed in the meantime really cost. *)
SolventExecution == ~b.insolvent

(* The nonce the policy expects next is the number of transactions the account
   has on the branch, wherever it finds it: branch, cache or executed state. *)
NonceExact ==
    \A a \in Addresses :
        Available(base_seq_num(NextSeq), TRUE) =>
            get_account_base_nonce(NextSeq, TRUE, a)
              = Cardinality({<<n, i>> \in (1..Len(b.chain)) \X (1..TxLimit) :
                                i \in Sent(Txs(n), a)})

(* None of the panics of the lookups is reachable: the next block of the
   branch finds its base state, and so does the pool, which looks one block
   past the last commit without a branch; the fees never exceed the balance. *)
NoPanic ==
    /\ ~Panics(NextSeq, TRUE, Addresses)
    /\ ~Panics(b.last_commit + 1, FALSE, Addresses)
=============================================================================
