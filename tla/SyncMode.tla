------------------------------ MODULE SyncMode ------------------------------
(***************************************************************************)
(* A node that starts, or falls behind: monad-state in ConsensusMode::Sync. *)
(* It collects the last Delay committed blocks below its root, waits for    *)
(* the state of the block Delay before the root, and keeps the proposals    *)
(* that pass by; when they finalize a block far above the root, the root    *)
(* moves.  With blocks and state complete, the node goes Live: it commits   *)
(* the blocks it collected, then replays the proposals it kept.             *)
(*                                                                         *)
(* The events come from the executors in the order in which ParentExecutor  *)
(* polls them: the loopback before the router, the router before the state  *)
(* sync thread.  A block is named by its sequence number; block Fork is a   *)
(* proposal that was never certified, next to block ForkSeq.  A node whose  *)
(* root is genesis needs neither blocks nor state and is Live when built,   *)
(* so the roots here are at least Delay.                                    *)
(***************************************************************************)
EXTENDS Naturals, SequencesExt

CONSTANTS
  Length,       \* bound: the blocks the network decides on
  Delay,        \* execution_delay: the state of block n is in block n + Delay
  Threshold,    \* statesync_to_live_threshold
  ForkSeq,
  Skips,        \* the blocks whose round does not follow that of their parent
  Roots,        \* the roots of the forkpoints a node may start with
  MaxCrashes    \* bound

VARIABLES
  mode,             \* ConsensusMode
  root,             \* block_buffer.root
  high,             \* the block of high_certificate
  full_blocks, block_headers,
  proposal_buffer,  \* a sequence of the blocks proposed
  db_status, updating_target,
  loopback,         \* the events the loopback executor holds
  requested,        \* ranges the block sync works on for state sync
  thread,           \* the state sync thread: its target, the next one, the results
  latest,           \* raw_read_latest_finalized_block
  ledger,           \* the blocks finalized since the node went Live, in order
  tree,             \* the blocks of the block tree above the root
  round,            \* the round after that of high_certificate, or the current one
  highest_vote,     \* of Safety, once Live
  votes,            \* the blocks the node has sent a vote for, restarts included
  received,         \* the highest proposal so far
  forkpoint,        \* what a restart finds: the root and the high certificate
  crashes,
  panicked          \* the assertion that failed, "no" if none has

vars == <<mode, root, high, full_blocks, block_headers, proposal_buffer, db_status,
          updating_target, loopback, requested, thread, latest, ledger, tree,
          round, highest_vote, votes, received, forkpoint, crashes, panicked>>

None == Length + 2
Fork == Length + 1
Blocks == 1..Fork

SeqNum(b) == IF b = Fork THEN ForkSeq ELSE b
Parent(b) == SeqNum(b) - 1

\* get_committable_id: the QC of block b finalizes its parent if their rounds
\* are consecutive; the answer 0 stands for none (genesis is never asked for).
get_committable_id(b) == IF b \in Skips THEN 0 ELSE Parent(b)

\* One more round than blocks for each round that ended with a timeout.
Round(b) == SeqNum(b) + Cardinality({k \in Skips : k <= SeqNum(b)})

Monus(n, m) == IF n > m THEN n - m ELSE 0

-----------------------------------------------------------------------------
\* The state as a record, for handlers that call one another.
State == [mode |-> mode, root |-> root, high |-> high, full |-> full_blocks,
          headers |-> block_headers, buffer |-> proposal_buffer, db |-> db_status,
          updating |-> updating_target, loopback |-> loopback, requested |-> requested,
          thread |-> thread, ledger |-> ledger, tree |-> tree,
          round |-> round, highest |-> highest_vote, votes |-> votes, panicked |-> panicked]

Become(s) ==
  /\ mode' = s.mode /\ root' = s.root /\ high' = s.high /\ full_blocks' = s.full
  /\ block_headers' = s.headers /\ proposal_buffer' = s.buffer /\ db_status' = s.db
  /\ updating_target' = s.updating /\ loopback' = s.loopback
  /\ requested' = s.requested /\ thread' = s.thread /\ ledger' = s.ledger
  /\ tree' = s.tree /\ round' = s.round /\ highest_vote' = s.highest
  /\ votes' = s.votes /\ panicked' = s.panicked

Fail(s, what) == [s EXCEPT !.panicked = IF @ = "no" THEN what ELSE @]

-----------------------------------------------------------------------------
\* The block buffer.

RootKnown(s) == s.root \in s.full     \* root_seq_num is Some

\* root_parent_chain: how many blocks, from the root down, are held.
Held(s) == {n \in 0..Length : \A k \in 1..n : s.root - k + 1 \in s.full}
root_parent_chain(s) == Max(Held(s))

\* needs_blocksync: the first missing block and how many are missing from there.
needs_blocksync(s) ==
  IF root_parent_chain(s) >= Delay THEN {}
  ELSE {[last |-> s.root - root_parent_chain(s), num |-> Delay - root_parent_chain(s)]}

RangeBlocks(r) == {b \in 1..r.last : b + r.num > r.last}

\* handle_blocksync: a block above a known root is dropped.
handle_blocksync(s, bs) ==
  [s EXCEPT !.full = @ \cup {b \in bs : RootKnown(s) => SeqNum(b) <= s.root}]

\* The first half of handle_proposal: the header and the proposal are kept.
Buffered(s, b) ==
  [s EXCEPT !.headers = @ \cup {b},
            !.buffer = LET q == Append(@, b)
                       IN  IF Len(q) > Threshold THEN Tail(q) ELSE q]

\* handle_proposal: the new sync target, if the QC of proposal b finalizes a
\* block more than Threshold above the root, both known by their headers.
NewTarget(s, b) ==
  LET f == get_committable_id(Parent(b))
  IN  IF Parent(b) \in s.headers /\ f \in s.headers /\ f > s.root + Threshold
      THEN {[type |-> "RequestSync", root |-> f, qc |-> Parent(b)]} ELSE {}

\* The Sync half of ConsensusChildState::update: one target at a time.
request_state_sync(s, b) ==
  IF NewTarget(s, b) = {} \/ s.updating THEN s
  ELSE [s EXCEPT !.updating = TRUE, !.loopback = @ \o SetToSeq(NewTarget(s, b))]

handle_proposal(s, b) ==
  IF ~ RootKnown(s) \/ SeqNum(b) < s.root THEN s
  ELSE request_state_sync(Buffered(s, b), b)

\* re_root: blocks that are too old go, blocks of buffered proposals come in.
re_root(s, r) ==
  [s EXCEPT !.root = r,
            !.full = {b \in @ : SeqNum(b) + Delay >= r}
                     \cup {b \in Range(s.buffer) : SeqNum(b) <= r},
            !.headers = {b \in @ : SeqNum(b) >= r}]

-----------------------------------------------------------------------------
\* Going Live: ConsensusState::new and the replay of the buffered proposals.

\* The blocks of the tree on the way from the root to block b, b included.
Path(s, b) == (s.root + 1)..b

\* A proposal replayed: its QC first, which may finalize a path of the tree;
\* then its block, which joins the tree if it is above the root.
commit(s, f) ==
  IF f <= s.root \/ ~ Path(s, f) \subseteq s.tree THEN s
  ELSE [s EXCEPT !.ledger = @ \o [i \in 1..(f - s.root) |-> s.root + i],
                 !.root = f, !.tree = {b \in @ : SeqNum(b) > f}]
process_qc(s, q) == [commit(s, get_committable_id(q)) EXCEPT !.high = IF q > @ THEN q ELSE @]
Inserted(s, b) == [s EXCEPT !.tree = IF SeqNum(b) > s.root THEN @ \cup {b} ELSE @,
                            !.round = IF Round(b) > @ THEN Round(b) ELSE @]
\* try_vote: for a proposal of the current round whose path to the root is
\* there.  A vote that follows a timeout is sent at once; another one waits
\* for a timer that is not armed yet.
try_vote(s, b) ==
  IF \/ ~ Path(s, Parent(b)) \subseteq s.tree \/ SeqNum(b) <= s.root
     \/ Round(b) < s.round \/ Round(b) <= s.highest
  THEN s
  ELSE [s EXCEPT !.highest = Round(b),
                 !.votes = IF SeqNum(b) \in Skips THEN @ \cup {b} ELSE @]
handle_validated_proposal(s, b) == try_vote(Inserted(process_qc(s, Parent(b)), b), b)
replay(s) == FoldLeft(handle_validated_proposal, s, s.buffer)

\* StartExecution drops the channel to the state sync thread, which asserts
\* that it has no target.
StartExecution(s) == IF s.thread.target # None THEN Fail(s, "active_ctx") ELSE s

\* The blocks (root - Delay, root] go to the ledger, lowest first; the node
\* times out of the round after its certificate.
CommitRoot(s) ==
  [s EXCEPT !.mode = "Live", !.highest = s.round,
            !.ledger = [i \in 1..(s.root - Monus(s.root, Delay)) |-> Monus(s.root, Delay) + i]]
go_live(s) == replay(StartExecution(CommitRoot(s)))

-----------------------------------------------------------------------------
\* maybe_start_consensus and the state sync events.

Target(s) == Monus(s.root, Delay)

\* DoneSync: the assertion on db_status comes first; a result below the target,
\* or one for a root that is not known yet, is dropped.
done_sync(s, n) ==
  IF s.mode = "Live" THEN Fail(s, "done_when_live")
  ELSE IF s.db # "Started" THEN Fail(s, "db_status")
  ELSE IF ~ RootKnown(s) \/ n < Target(s) THEN s
  ELSE IF n > Target(s) \/ latest < n THEN Fail(s, "target")
  ELSE IF needs_blocksync(s) # {} THEN [s EXCEPT !.db = "Done", !.requested = @ \cup needs_blocksync(s)]
  ELSE go_live([s EXCEPT !.db = "Done"])

\* StateSync::update_target and the channel to its thread; targets increase.
update_target(s, n) ==
  IF s.thread.last # None /\ n <= s.thread.last THEN Fail(s, "target_order")
  ELSE [s EXCEPT !.thread = [@ EXCEPT !.last = n,
          !.target = IF @ = None THEN n ELSE @,
          !.next = IF s.thread.target = None THEN @ ELSE n]]

\* The database part of maybe_start_consensus, the blocks being complete.
request_state(s) ==
  IF latest > s.root THEN Fail(s, "backwards")
  ELSE IF latest < Target(s) THEN update_target([s EXCEPT !.db = "Started"], Target(s))
  ELSE done_sync([s EXCEPT !.db = "Started"], Target(s))

maybe_start_consensus(s) ==
  CASE s.mode = "Live" -> Fail(s, "start_when_live")
    [] s.mode = "Sync" /\ needs_blocksync(s) # {} ->
         [s EXCEPT !.requested = @ \cup needs_blocksync(s)]
    [] s.mode = "Sync" /\ needs_blocksync(s) = {} /\ s.db = "Waiting" -> request_state(s)
    [] s.mode = "Sync" /\ needs_blocksync(s) = {} /\ s.db = "Started" -> s
    [] OTHER -> go_live(s)

\* RequestSync: the new certificate and root, then from the start.
Retargeted(s, e) ==
  [re_root(s, e.root) EXCEPT !.high = e.qc, !.round = Round(e.qc) + 1,
                            !.db = "Waiting", !.updating = FALSE]

request_sync(s, e) ==
  IF s.mode = "Live" THEN Fail(s, "request_when_live")
  ELSE maybe_start_consensus(Retargeted(s, e))

block_sync(s, e) ==
  IF s.mode = "Live" THEN s
  ELSE maybe_start_consensus(handle_blocksync(s, e.blocks))

-----------------------------------------------------------------------------
\* ConsensusMode::start_sync with an empty buffer, then maybe_start_consensus.
Started(f, vs) ==
  [mode |-> "Sync", root |-> f.root, high |-> f.high, full |-> {}, headers |-> {}, buffer |-> <<>>,
   db |-> "Waiting", updating |-> FALSE, loopback |-> <<>>,
   requested |-> needs_blocksync([root |-> f.root, full |-> {}]),
   thread |-> [target |-> None, next |-> None, last |-> None, done |-> <<>>],
   ledger |-> <<>>, tree |-> {}, round |-> f.round, highest |-> 0, votes |-> vs, panicked |-> "no"]

Init ==
  /\ forkpoint \in {[root |-> r, high |-> r, round |-> Round(r) + 1] : r \in Roots}
  /\ mode = "Sync" /\ root = forkpoint.root /\ high = forkpoint.high
  /\ full_blocks = {} /\ block_headers = {} /\ proposal_buffer = <<>>
  /\ db_status = "Waiting" /\ updating_target = FALSE /\ loopback = <<>>
  /\ requested = Started(forkpoint, {}).requested
  /\ thread = Started(forkpoint, {}).thread
  /\ latest \in {0, Monus(forkpoint.root, Delay), forkpoint.root}
  /\ ledger = <<>> /\ tree = {} /\ panicked = "no"
  /\ round = forkpoint.round /\ highest_vote = 0 /\ votes = {}
  /\ received = forkpoint.root /\ crashes = 0

Running == panicked = "no"

\* ParentExecutor::poll_next: the router is asked when the loopback is empty,
\* the state sync executor after it.  (The router may have nothing at hand.)
RouterPolled == loopback = <<>>
StateSyncPolled == loopback = <<>>

\* A validated proposal while the node is syncing.  Proposals may be lost and
\* one may overtake another.
Proposal(b) ==
  /\ Running /\ mode = "Sync" /\ RouterPolled
  /\ SeqNum(b) + 1 >= received /\ SeqNum(b) # received
  /\ ~ b \in block_headers
  /\ Become(handle_proposal(State, b))
  /\ received' = IF SeqNum(b) > received THEN SeqNum(b) ELSE received
  /\ UNCHANGED <<latest, forkpoint, crashes>>

\* The block sync found the blocks of a range, here or at a peer: Emit.
BlockSyncEmits(r) ==
  /\ Running /\ r \in requested
  /\ requested' = requested \ {r}
  /\ loopback' = Append(loopback, [type |-> "BlockSync", blocks |-> RangeBlocks(r)])
  /\ UNCHANGED <<mode, root, high, full_blocks, block_headers, proposal_buffer, db_status,
                 updating_target, thread, latest, ledger, tree, round, highest_vote, votes,
                 received, forkpoint, crashes, panicked>>

LoopbackBlockSync ==
  /\ Running /\ loopback # <<>> /\ Head(loopback).type = "BlockSync"
  /\ Become(block_sync([State EXCEPT !.loopback = Tail(@)], Head(loopback)))
  /\ UNCHANGED <<latest, received, forkpoint, crashes>>

LoopbackRequestSync ==
  /\ Running /\ loopback # <<>> /\ Head(loopback).type = "RequestSync"
  /\ Become(request_sync([State EXCEPT !.loopback = Tail(@)], Head(loopback)))
  /\ UNCHANGED <<latest, received, forkpoint, crashes>>

\* The thread has the state of its target: it starts on the next target, or
\* reports that it is done.
ThreadFinalizes ==
  /\ Running /\ mode = "Sync" /\ thread.target # None
  /\ latest' = thread.target
  /\ thread' = [thread EXCEPT !.target = thread.next, !.next = None,
                  !.done = IF thread.next = None THEN Append(@, thread.target) ELSE @]
  /\ UNCHANGED <<mode, root, high, full_blocks, block_headers, proposal_buffer, db_status,
                 updating_target, loopback, requested, ledger, tree, round, highest_vote,
                 votes, received, forkpoint, crashes, panicked>>

DoneSync ==
  /\ Running /\ StateSyncPolled /\ thread.done # <<>>
  /\ Become(done_sync([State EXCEPT !.thread.done = Tail(@)], Head(thread.done)))
  /\ UNCHANGED <<latest, received, forkpoint, crashes>>

\* A proposal once the node is Live: a round entered or a block finalized by
\* it is checkpointed.
LiveProposal(b) ==
  /\ Running /\ mode = "Live" /\ RouterPolled
  /\ SeqNum(b) > root /\ SeqNum(b) <= received + 1 /\ ~ b \in tree
  /\ Become(handle_validated_proposal(State, b))
  /\ received' = IF SeqNum(b) > received THEN SeqNum(b) ELSE received
  /\ forkpoint' = IF round' # round \/ root' # root
                  THEN [root |-> root', high |-> high', round |-> round'] ELSE forkpoint
  /\ UNCHANGED <<latest, crashes>>

\* The process ends and starts again from its forkpoint; the database stays.
Restart ==
  /\ Running /\ crashes < MaxCrashes
  /\ crashes' = crashes + 1
  /\ Become(Started(forkpoint, votes))
  /\ received' = forkpoint.root
  /\ UNCHANGED <<latest, forkpoint>>

Next ==
  \/ \E b \in Blocks : Proposal(b)
  \/ \E r \in requested : BlockSyncEmits(r)
  \/ LoopbackBlockSync
  \/ LoopbackRequestSync
  \/ ThreadFinalizes
  \/ DoneSync
  \/ \E b \in Blocks : LiveProposal(b)
  \/ Restart

Spec == Init /\ [][Next]_vars

\* What is weakly fair: the executors are polled again and again; the thread and
\* the block sync finish what they started.  Each is stated by what it does to
\* the queue it serves, which says when it is enabled.
BlockSyncEnds == Running /\ \E r \in requested : requested' = requested \ {r}
LoopbackPolled ==
  /\ Running /\ loopback # <<>>
  /\ loopback' = Tail(loopback) \/ IsPrefix(Tail(loopback), loopback')
ThreadEnds ==
  /\ Running /\ mode = "Sync" /\ thread.target # None
  /\ thread' = [thread EXCEPT !.target = None] \/ thread'.target # thread.target
DonePolled ==
  /\ Running /\ StateSyncPolled /\ thread.done # <<>>
  /\ thread' = [thread EXCEPT !.done = Tail(@)] \/ IsPrefix(Tail(thread.done), thread'.done)

-----------------------------------------------------------------------------
\* Types.
TypeOK ==
  /\ mode \in {"Sync", "Live"} /\ root \in 0..Length /\ high \in 0..Length
  /\ full_blocks \subseteq Blocks /\ block_headers \subseteq Blocks
  /\ Range(proposal_buffer) \subseteq Blocks /\ Len(proposal_buffer) <= Threshold
  /\ db_status \in {"Waiting", "Started", "Done"}
  /\ updating_target \in BOOLEAN
  /\ latest \in 0..Length

\* The assertions of DoneSync, RequestSync and maybe_start_consensus on the
\* mode: no target is set, and no result arrives, once the node is Live.  It
\* rests on the order in which the executors are polled.
ModesMatch == panicked \notin {"request_when_live", "done_when_live", "start_when_live"}

\* The targets given to the thread increase, the result that counts is the one
\* asked for, and it is in the database.
TargetsIncrease == panicked \notin {"target_order", "target"}

\* The thread has no work left when execution takes over the database.
ThreadIdleWhenLive == panicked # "active_ctx"

\* The two assertions that do fail.  "db_status" (lib.rs:1020): the thread was
\* done with a target while a later one was already decided on, whose blocks
\* are still missing.  "backwards" (lib.rs:1207): the database is ahead of the
\* root, which takes a restart from a forkpoint older than the state that was
\* synced.  Nothing else brings them about.
StopsExplained ==
  /\ panicked = "db_status" =>
       db_status = "Waiting" /\ needs_blocksync(State) # {} /\ latest < Target(State)
  /\ panicked = "backwards" => latest > root /\ crashes > 0

\* updating_target says that a new target is on its way through the loopback;
\* it may neither be lost nor stay set, or the node would not move any more.
FlagMatches ==
  updating_target <=> \E i \in DOMAIN loopback : loopback[i].type = "RequestSync"

\* What the node finalizes when it goes Live and in the replay of the buffered
\* proposals is one gapless chain, each block once.
LedgerContiguous ==
  \A i \in 1..(Len(ledger) - 1) : ledger[i + 1] = ledger[i] + 1

\* Execution can go on from the database: no block is missing between the
\* state it holds and the first block given to the ledger, and it is not ahead.
ExecutionCanContinue ==
  ledger # <<>> => latest + 1 >= Head(ledger) /\ latest <= Last(ledger)

\* The certificate consensus starts with is at or above the root, and the tree
\* holds only blocks above it.
HighExtendsRoot ==
  mode = "Live" => high >= root /\ \A b \in tree : SeqNum(b) > root

\* "This makes sure that we don't double vote": the node votes for one block
\* of a round, also for the proposals it replays.
VoteOnce == \A b, c \in votes : SeqNum(b) = SeqNum(c) => b = c

=============================================================================
