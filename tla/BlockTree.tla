------------------------------ MODULE BlockTree ------------------------------
(***************************************************************************)
(* The pending block tree of one node (monad-blocktree) and the part of    *)
(* the consensus handlers that grows it, commits from it and asks block    *)
(* sync for the blocks it lacks (monad-consensus-state/src/lib.rs).        *)
(*                                                                         *)
(* Blocks arrive in any order: by a proposal, by a block sync response     *)
(* (late, or for a request that has been cancelled), or not at all.        *)
(* Whether a block passes block_policy.check_coherency depends on          *)
(* execution, which may lag: each handler is given the set `ok` of blocks  *)
(* that pass while it runs.  The constants Qcs, Tcs and Proposals are the  *)
(* certificates and proposals that exist; how the validators come to make  *)
(* them is modelled in MonadBFT.                                           *)
(***************************************************************************)
EXTENDS Certificates, SequencesExt

CONSTANTS
  Qcs,                         \* quorum certificates that exist
  Tcs,                         \* timeout certificates that exist
  Proposals,                   \* proposal messages that exist
  BodyId,                      \* header.block_body_id of each block
  ValidBlocks,                 \* blocks that block_validator.validate accepts
  Verdicts,                    \* sets of blocks that may pass check_coherency at a time
  LeaderRounds,                \* rounds this node leads
  live_to_statesync_threshold

VARIABLES
  bt,         \* ConsensusState::pending_block_tree
  high,       \* pacemaker.high_certificate
  requests,   \* ConsensusState::block_sync_requests, by last_block_id
  committed,  \* the blocks of the CommitBlocks(Finalized) commands, in order
  panicked    \* where the node stopped, or None

vars == <<bt, high, requests, committed, panicked>>

\* The handlers work on the whole state as one record.
State == [bt |-> bt, high |-> high, requests |-> requests,
          committed |-> committed, panicked |-> panicked]

Parent(b) == BlockQc[b].id

RoundOf(b) == IF b = Genesis THEN GENESIS_ROUND ELSE BlockRound[b]

\* The ancestors of a block, and header.seq_num.
Ancestors[b \in Block \cup {Genesis}] ==
  IF b = Genesis THEN {} ELSE {Parent(b)} \cup Ancestors[Parent(b)]

SeqNum(b) == Cardinality(Ancestors[b])

\* The chain that ends in b.
Chain(b) == {b} \cup Ancestors[b]

Higher(S) == CHOOSE b \in S : \A x \in S : RoundOf(x) <= RoundOf(b)

-----------------------------------------------------------------------------
(* BlockTree *)

\* BlockTree::new
new(root) ==
  [root |-> root, root_children |-> {}, tree |-> {}, coherent |-> {},
   children |-> [b \in Block |-> {}], payloads |-> [p \in {BodyId[b] : b \in Block} |-> {}]]

is_coherent(t, b) == b = t.root \/ b \in t.coherent

is_valid_to_insert(t, b) == b \notin t.tree /\ BlockRound[b] > RoundOf(t.root)

\* Tree::insert: the children of b that are already there, and b as a child of
\* its parent if that is there.
insert(t, b) ==
  [t EXCEPT !.tree     = @ \cup {b},
            !.children = [x \in Block |-> IF x = b THEN {c \in t.tree : Parent(c) = b}
                                          ELSE IF x = Parent(b) /\ x \in t.tree THEN @[x] \cup {b}
                                          ELSE @[x]],
            !.payloads[BodyId[b]] = @ \cup {b}]

\* Tree::remove of each block of S: a payload goes with its last block.
remove(t, S) ==
  [t EXCEPT !.tree     = @ \ S,
            !.coherent = @ \ S,
            !.children = [x \in Block |-> IF x \in S THEN {} ELSE @[x]],
            !.payloads = [p \in DOMAIN @ |-> @[p] \ S]]

\* BlockTree::add
add(t, b) ==
  IF ~ is_valid_to_insert(t, b) THEN t
  ELSE LET u == insert(t, b) IN
       IF Parent(b) = t.root THEN [u EXCEPT !.root_children = @ \cup {b}] ELSE u

\* The blocks above the root on the chain that ends in b.
AboveRoot(t, b) == {x \in Chain(b) : t.root \in Ancestors[x]}

\* get_blocks_on_path_from_root(b) is Some
has_path_to_root(t, b) == t.root \in Chain(b) /\ AboveRoot(t, b) \subseteq t.tree

\* The blocks the queue of try_update_coherency marks from b on: those that
\* pass and are reached through blocks that pass.
Passing(t, b, ok) ==
  {x \in t.tree : b \in Chain(x) /\ (Chain(x) \ Ancestors[b]) \subseteq (ok \cap t.tree)}

First(S) == CHOOSE x \in S : \A y \in S : RoundOf(x) <= RoundOf(y)

MarkFrom(t, S, ok) == IF S = {} THEN t ELSE [t EXCEPT !.coherent = @ \cup Passing(t, First(S), ok)]

\* Fault: the block itself is checked, though an ancestor is not coherent.
Bad_try_update_coherency(t, b, ok) ==
  IF has_path_to_root(t, b) THEN MarkFrom(t, {b} \cap t.tree, ok) ELSE t

\* BlockTree::try_update_coherency: from the first block on the path to b
\* that is not coherent.
try_update_coherency(t, b, ok) ==
  IF has_path_to_root(t, b) THEN MarkFrom(t, AboveRoot(t, b) \ t.coherent, ok) ELSE t

\* The QCs among the blocks that get_high_committable_qc visits that commit a
\* coherent block above the root.
Committable(t) ==
  {qc \in {BlockQc[b] : b \in {x \in t.tree : has_path_to_root(t, x)}} :
     /\ qc.id \in t.tree
     /\ get_committable_id(qc) \notin {None, t.root}
     /\ is_coherent(t, get_committable_id(qc))}

\* BlockTree::get_high_committable_qc
get_high_committable_qc(S) == CHOOSE qc \in S : \A x \in S : x.round <= qc.round

\* The blocks that prune collects: those that extend a round below new_root.
garbage(t, new_root) == {b \in t.tree : BlockQc[b].round < RoundOf(new_root)}

\* The blocks that prune returns, in increasing round.
commit(t, new_root) ==
  SetToSortSeq(AboveRoot(t, new_root), LAMBDA x, y : RoundOf(x) < RoundOf(y))

\* BlockTree::prune
prune(t, new_root) ==
  IF new_root = t.root THEN t
  ELSE [remove(t, AboveRoot(t, new_root) \cup garbage(t, new_root)) EXCEPT
          !.root = new_root, !.root_children = t.children[new_root]]

\* The assertions of prune.
prunable(t, new_root) == t.root \in Chain(new_root) /\ AboveRoot(t, new_root) \subseteq t.coherent

\* The number of blocks from the root to the unknown parent of a known block.
gap(t, unknown) == SeqNum(unknown) - SeqNum(t.root)

Fill(t, qc, unknown) ==
  [last |-> unknown, num |-> IF unknown = qc.id \/ gap(t, unknown) < 1 THEN 1 ELSE gap(t, unknown)]

\* BlockTree::maybe_fill_path_to_root: from the certified block up to the
\* first block that is not in the tree.
maybe_fill_path_to_root(t, qc) ==
  IF RoundOf(t.root) >= qc.round \/ has_path_to_root(t, qc.id) THEN None
  ELSE Fill(t, qc, Higher(Chain(qc.id) \ t.tree))

\* get_seq_num_of_qc
get_seq_num_of_qc(t, qc) == IF qc.id = t.root \/ qc.id \in t.tree THEN SeqNum(qc.id) ELSE None

-----------------------------------------------------------------------------
(* Requests and commits of the consensus handlers.  A panic ends the handler: *)
(* the steps that follow leave the state as it is.                            *)

high_qc(c) == c.high.high_extend.qc

current_round(c) == c.high.round + 1

Stopped(c) == c.panicked # None

Request(c, range, cancel_round) ==
  IF range = None \/ range.last \in DOMAIN c.requests THEN c
  ELSE [c EXCEPT !.requests =
          [x \in DOMAIN @ \cup {range.last} |->
             IF x = range.last THEN [num |-> range.num, cancel_round |-> cancel_round] ELSE @[x]]]

Forget(c, S) == [c EXCEPT !.requests = [x \in DOMAIN @ \ S |-> @[x]]]

\* request_blocks_if_missing_ancestor
request_blocks_if_missing_ancestor(c) ==
  IF Stopped(c) THEN c
  ELSE Request(c, maybe_fill_path_to_root(c.bt, high_qc(c)), high_qc(c).round)

\* request_tip_if_missing
request_tip_if_missing(c, tip) ==
  IF tip = None \/ tip \in c.bt.tree THEN c
  ELSE Request(c, [last |-> tip, num |-> 1], BlockRound[tip])

Commit(c, id) ==
  [c EXCEPT !.bt = prune(@, id), !.committed = @ \o commit(c.bt, id),
            !.panicked = IF prunable(c.bt, id) THEN @ ELSE "prune"]

\* try_commit
try_commit(c, qc) ==
  IF \/ qc.id \notin c.bt.tree
     \/ get_committable_id(qc) = None
     \/ ~ is_coherent(c.bt, get_committable_id(qc))
  THEN c
  ELSE Commit(c, get_committable_id(qc))

commit_from_tree(c, qcs) == IF qcs = {} THEN c ELSE try_commit(c, get_high_committable_qc(qcs))

CommitCoherent(c) == commit_from_tree(c, Committable(c.bt))

\* ConsensusStateWrapper::try_update_coherency
update_coherency(c, b, ok) == CommitCoherent([c EXCEPT !.bt = try_update_coherency(@, b, ok)])

\* maybe_statesync
maybe_statesync(c) ==
  IF \/ Stopped(c)
     \/ get_seq_num_of_qc(c.bt, high_qc(c)) = None
     \/ SeqNum(c.bt.root) + live_to_statesync_threshold > get_seq_num_of_qc(c.bt, high_qc(c))
  THEN c ELSE [c EXCEPT !.panicked = "statesync"]

\* try_propose of the leader of a round: the tip of a TC is requested, and
\* checked again in case execution has caught up.
propose_tip(c, tip, ok) ==
  IF tip = None THEN c ELSE update_coherency(request_tip_if_missing(c, tip), tip, ok)

\* The part of try_propose that reads or changes the tree.
try_propose(c, ok) ==
  IF Stopped(c) \/ current_round(c) \notin LeaderRounds THEN c
  ELSE propose_tip(c, c.high.high_extend.tip, ok)

\* process_qc: the requests that the new root makes obsolete
cancel_obsolete(c) ==
  Forget(c, {x \in DOMAIN c.requests : c.requests[x].cancel_round <= RoundOf(c.bt.root)})

\* pacemaker.process_certificate
process_certificate(c, cert) == IF Stopped(c) THEN c ELSE [c EXCEPT !.high = cert]

\* process_qc
process_qc(c, qc, ok) ==
  IF qc.round < current_round(c) THEN c
  ELSE try_propose(request_blocks_if_missing_ancestor(
         process_certificate(maybe_statesync(cancel_obsolete(try_commit(c, qc))), QcCert(qc))), ok)

\* process_tc
process_tc(c, tc, ok) ==
  IF Stopped(c) \/ tc = None \/ tc.round < current_round(c) THEN c
  ELSE try_propose(process_certificate(c, tc), ok)

\* try_add_and_commit_blocktree
try_add_and_commit_blocktree(c, b, ok) ==
  request_blocks_if_missing_ancestor(maybe_statesync(
    try_propose(update_coherency([c EXCEPT !.bt = add(@, b)], b, ok), ok)))

-----------------------------------------------------------------------------
(* Handlers *)

Become(c) ==
  /\ bt' = c.bt
  /\ high' = c.high
  /\ requests' = c.requests
  /\ committed' = c.committed
  /\ panicked' = c.panicked

Running == panicked = None

\* The block of a proposal is dropped if its author is not the leader, if its
\* round was handled before (then validate is FALSE), or if it is not valid.
accept_proposal(c, p, validate, ok) ==
  IF Stopped(c) \/ p.proposal_round > current_round(c) \/ ~ validate \/ p.tip \notin ValidBlocks
  THEN c
  ELSE try_add_and_commit_blocktree(c, p.tip, ok)

\* handle_proposal_message
handle_proposal_message(p, validate, ok) ==
  /\ Running
  /\ p.proposal_round > RoundOf(bt.root)
  /\ Become(accept_proposal(
       process_tc(process_qc(State, BlockQc[p.tip], ok), p.last_round_tc, ok), p, validate, ok))

\* A QC from votes, from a timeout or from handle_advance_round_message
HandleQc(qc, ok) ==
  /\ Running
  /\ qc.round >= current_round(State)
  /\ Become(process_qc(State, qc, ok))

\* A TC from timeouts, from a recovery request or from handle_advance_round_message
HandleTc(tc, ok) ==
  /\ Running
  /\ tc.round >= current_round(State)
  /\ Become(process_tc(State, tc, ok))

\* One block of a response: the loop ends at a block that is not valid.
sync_block(acc, b, ok) ==
  IF acc.break \/ Stopped(acc.c) \/ ~ is_valid_to_insert(acc.c.bt, b) THEN acc
  ELSE IF b \notin ValidBlocks THEN [acc EXCEPT !.break = TRUE]
  ELSE [acc EXCEPT !.c = try_add_and_commit_blocktree(@, b, ok)]

\* handle_block_sync for num blocks that end in last.  The response may be to
\* an earlier request for the same block.
handle_block_sync(last, num, ok) ==
  LET blocks == {b \in Chain(last) \ {Genesis} : SeqNum(last) - SeqNum(b) < num}
      synced == FoldLeft(LAMBDA acc, b : sync_block(acc, b, ok), [c |-> State, break |-> FALSE],
                         SetToSortSeq(blocks, LAMBDA x, y : RoundOf(x) < RoundOf(y)))
  IN  /\ Running
      /\ Become(Forget(synced.c, {last}))

Init ==
  /\ bt = new(Genesis)
  /\ high = QcCert(genesis_qc)
  /\ requests = [x \in {} |-> None]
  /\ committed = <<>>
  /\ panicked = None

Next ==
  \E ok \in Verdicts :
    \/ \E p \in Proposals, validate \in BOOLEAN : handle_proposal_message(p, validate, ok)
    \/ \E qc \in Qcs : HandleQc(qc, ok)
    \/ \E tc \in Tcs : HandleTc(tc, ok)
    \/ \E last \in DOMAIN requests : \E num \in 1..SeqNum(last) : handle_block_sync(last, num, ok)

Spec == Init /\ [][Next]_vars

-----------------------------------------------------------------------------
(* Properties *)

\* The state is well typed: coherent blocks are in the tree, the root is not,
\* and every block in the tree is above it (is_valid_to_insert).
TypeOK ==
  /\ bt.coherent \subseteq bt.tree
  /\ bt.root \in Block \cup {Genesis}
  /\ bt.tree \subseteq {b \in Block : BlockRound[b] > RoundOf(bt.root)}
  /\ \A b \in DOMAIN requests :
       b \in Block /\ requests[b] \in [num: 1..Cardinality(Block), cancel_round: Nat]
  /\ panicked \in {None, "prune", "statesync"}

\* What is committed, over all the calls of prune, is the chain from genesis to
\* the root, each block once and after its parent.
CommittedIsChain ==
  /\ Range(committed) = Chain(bt.root) \ {Genesis}
  /\ \A i \in 1..Len(committed) :
       Parent(committed[i]) = IF i = 1 THEN Genesis ELSE committed[i - 1]

\* The child lists, the list at the root and the payload index name exactly
\* the blocks in the tree, in whatever order they came: get_high_committable_qc
\* ("block in tree") and Tree::remove ("payload_index must exist") rely on it.
IndexesExact ==
  /\ bt.root_children = {b \in bt.tree : Parent(b) = bt.root}
  /\ \A b \in bt.tree : bt.children[b] = {c \in bt.tree : Parent(c) = b}
  /\ \A p \in DOMAIN bt.payloads : bt.payloads[p] = {b \in bt.tree : BodyId[b] = p}

\* A block is coherent only if all of its ancestors down to the root are:
\* check_coherency is called with coherent extending blocks only, and prune
\* finds the path it commits.
CoherentPathToRoot ==
  \A b \in bt.coherent : Parent(b) = bt.root \/ Parent(b) \in bt.coherent

\* No handler ends with a block that could have been committed from the tree.
NothingLeftToCommit == Running => Committable(bt) = {}

\* A request for the ancestors of a certified block reaches down to the root
\* when it starts below a known block, and never below the root.
RangeReachesRoot ==
  \A qc \in Qcs :
    LET range == maybe_fill_path_to_root(bt, qc) IN
    range # None /\ bt.root \in Ancestors[qc.id] =>
      /\ range.num <= SeqNum(range.last) - SeqNum(bt.root)
      /\ range.last # qc.id => range.num = SeqNum(range.last) - SeqNum(bt.root)

\* When the high certificate is a QC, the first missing ancestor of its block
\* is being requested: the node does not wait for a block nobody sends.
MissingIsRequested ==
  Running /\ high.kind = "Qc" =>
    LET range == maybe_fill_path_to_root(bt, high_qc(State)) IN
    range # None => range.last \in DOMAIN requests

\* The node gives up on its tree (maybe_statesync) only if a block below the
\* high QC is missing or waits for execution.
StatesyncOnlyIfStuck ==
  panicked = "statesync" =>
    LET parent == Parent(high_qc(State).id) IN
    ~ has_path_to_root(bt, parent) \/ ~ (AboveRoot(bt, parent) \subseteq bt.coherent)
=============================================================================
