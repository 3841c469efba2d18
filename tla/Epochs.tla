------------------------------- MODULE Epochs -------------------------------
(***************************************************************************)
(* How a node learns when an epoch starts and who its validators are:      *)
(* EpochManager, ValidatorsEpochMapping, the updater that emits validator  *)
(* sets (ValSetUpdater), and the locked epochs of a checkpoint.            *)
(*                                                                         *)
(* One node follows a finalized chain (block b is proposed in rounds[b])   *)
(* that the other validators already agree on.  Committing the last block  *)
(* of an epoch schedules the next epoch in the same update; the validator  *)
(* set of that epoch arrives in a later event.  A checkpoint is taken in   *)
(* between, and a crash keeps nothing but the checkpoint.                  *)
(***************************************************************************)
EXTENDS Naturals, FiniteSetsExt

CONSTANTS
    EpochLength,      \* epoch_length, in blocks
    EpochStartDelay,  \* epoch_start_delay, in rounds
    ExecutionDelay,   \* blocks committed again when consensus restarts
    NumLeaders,       \* rounds ahead whose leader is computed
    Chains,           \* the rounds of the blocks, one function per chain
    MaxLag,           \* bound: rounds a block may take to be committed
    MaxCrashes        \* bound: restarts of the node

VARIABLES
    rounds,         \* the chain of this behaviour: block -> round
    root,           \* the last committed block
    started,        \* the root that consensus was started with
    round,          \* the current round of the pacemaker
    epoch_starts,   \* EpochManager: epoch -> first round
    validator_map,  \* ValidatorsEpochMapping: the epochs with a validator set
    next_val_data,  \* ValSetUpdater: the epochs waiting to be emitted (0 or 1)
    last_emitted,   \* ValSetUpdater: the boundary blocks emitted last (0 or 1)
    forkpoint,      \* the last checkpoint written
    crashes

node == <<root, started, round, epoch_starts, validator_map, next_val_data, last_emitted>>
vars == <<rounds, node, forkpoint, crashes>>

Blocks == DOMAIN rounds
Last(S) == {x \in S : \A y \in S : y <= x}

-----------------------------------------------------------------------------
(* Block numbers and epochs (SeqNum).                                      *)

to_epoch(b) == (b \div EpochLength) + 1
is_epoch_end(b) == b % EpochLength = EpochLength - 1
Bad_get_locked_epoch(b) == to_epoch(b)
get_locked_epoch(b) == to_epoch(b) + 1

-----------------------------------------------------------------------------
(* EpochManager.                                                           *)

get_epoch(starts, r) == Max({0} \cup {e \in DOMAIN starts : starts[e] <= r})

(* An epoch that is already there keeps its start: the code asserts that
   both are the same, which StartsAgree states.                            *)
insert_epoch_start(starts, e, r) ==
    [x \in DOMAIN starts \cup {e} |-> IF x \in DOMAIN starts THEN starts[x] ELSE r]

schedule_epoch_start(starts, b) ==
    IF is_epoch_end(b)
    THEN insert_epoch_start(starts, to_epoch(b) + 1, rounds[b] + EpochStartDelay)
    ELSE starts

(* An update commits at most one epoch boundary (see NewRoots).            *)
Scheduled(starts, S) ==
    IF \E b \in S : is_epoch_end(b)
    THEN schedule_epoch_start(starts, CHOOSE b \in S : is_epoch_end(b))
    ELSE starts

(* The epochs as the chain itself defines them.                            *)
TrueStarts ==
    [e \in {1} \cup {to_epoch(b) + 1 : b \in {x \in Blocks : is_epoch_end(x)}} |->
        IF e = 1 THEN 0 ELSE rounds[(e - 1) * EpochLength - 1] + EpochStartDelay]
TrueEpoch(r) == get_epoch(TrueStarts, r)

-----------------------------------------------------------------------------
(* ValSetUpdater: the blocks S are finalized in one batch of commands.     *)

valset_update(S) ==
    LET new == {b \in S : is_epoch_end(b) /\ b \notin last_emitted}
    IN /\ next_val_data' = IF new = {} THEN next_val_data
                           ELSE {get_locked_epoch(b) : b \in Last(new)}
       /\ last_emitted' = IF new = {} THEN last_emitted ELSE Last(new)

-----------------------------------------------------------------------------
(* Checkpoints.                                                            *)

Locked(starts, e) == e \in validator_map /\ e \in DOMAIN starts

checkpoint(newRoot, newRound, starts) ==
    LET base == TrueEpoch(rounds[newRoot])
    IN [root |-> newRoot, high |-> newRound - 1,
        validator_sets |->
            [e \in {x \in {base, base + 1} : Locked(starts, x)} |-> starts[e]]]

(* Forkpoint::validate: one or two consecutive epochs, with growing start
   rounds, the epoch of the high certificate among them.                   *)
validate(f) ==
    LET D == DOMAIN f.validator_sets
    IN /\ Cardinality(D) \in 1 .. 2
       /\ \A d, e \in D : d < e => /\ e = d + 1
                                  /\ f.validator_sets[d] < f.validator_sets[e]
       /\ TrueEpoch(f.high) \in D

-----------------------------------------------------------------------------
(* A certificate of round r is accepted only if the node gives r the epoch *)
(* its signers gave it and knows the validators of that epoch.             *)

epoch_to_validators(r) ==
    /\ get_epoch(epoch_starts, r) = TrueEpoch(r)
    /\ TrueEpoch(r) \in validator_map

(* compute_upcoming_leader_round_pairs: the rounds whose leader is computed
   whenever consensus commands are wrapped or transactions forwarded.      *)
compute_upcoming == round .. round + NumLeaders

(* The blocks the chain of certificates seen so far can finalize: a block
   whose child was proposed in the next round and is certified.            *)
NewRoots ==
    {b \in Blocks : /\ b > root
                    /\ b <= root + EpochLength
                    /\ b + 1 \in Blocks
                    /\ rounds[b + 1] = rounds[b] + 1
                    /\ rounds[b + 1] < round}

(* A quorum or timeout certificate of the current round arrives.           *)
EnterRound ==
    /\ next_val_data = {}            \* polled before the router
    /\ root + 1 \in Blocks
    /\ round + 1 <= rounds[root + 1] + MaxLag
    /\ epoch_to_validators(round)
    /\ round' = round + 1
    /\ forkpoint' = checkpoint(root, round + 1, epoch_starts)
    /\ UNCHANGED <<rounds, root, started, epoch_starts, validator_map, next_val_data,
                   last_emitted, crashes>>

(* A block is committed, with its uncommitted ancestors.                   *)
try_commit ==
    /\ next_val_data = {}
    /\ \E b \in NewRoots :
        /\ epoch_to_validators(rounds[b + 1])
        /\ root' = b
        /\ epoch_starts' = Scheduled(epoch_starts, root + 1 .. b)
        /\ valset_update(root + 1 .. b)
        /\ forkpoint' = checkpoint(b, round, epoch_starts')
    /\ UNCHANGED <<rounds, started, round, validator_map, crashes>>

(* ValidatorEvent::UpdateValidators reaches EpochChildState.               *)
UpdateValidators ==
    /\ next_val_data # {}
    /\ validator_map' = validator_map \cup next_val_data
    /\ next_val_data' = {}
    /\ UNCHANGED <<rounds, root, started, round, epoch_starts, last_emitted, forkpoint, crashes>>

(* The node restarts from its checkpoint and goes live: the last blocks up
   to the root are finalized again, but not through try_commit.            *)
Restart ==
    /\ crashes < MaxCrashes
    /\ crashes' = crashes + 1
    /\ root' = forkpoint.root
    /\ started' = forkpoint.root
    /\ round' = forkpoint.high + 1
    /\ epoch_starts' = forkpoint.validator_sets
    /\ validator_map' = DOMAIN forkpoint.validator_sets
    /\ LET again == {b \in Blocks : /\ b <= forkpoint.root
                                    /\ forkpoint.root < b + ExecutionDelay
                                    /\ is_epoch_end(b)}
       IN /\ next_val_data' = {get_locked_epoch(b) : b \in Last(again)}
          /\ last_emitted' = Last(again)
    /\ UNCHANGED <<rounds, forkpoint>>

Init ==
    /\ rounds \in Chains
    /\ root = 0
    /\ started = 0
    /\ round = 1
    /\ epoch_starts = [e \in {1} |-> 0]
    /\ validator_map = {1}
    /\ next_val_data = {}
    /\ last_emitted = {}
    /\ forkpoint = [root |-> 0, high |-> 0, validator_sets |-> [e \in {1} |-> 0]]
    /\ crashes = 0

Next == EnterRound \/ try_commit \/ UpdateValidators \/ Restart

Spec == Init /\ [][Next]_vars

-----------------------------------------------------------------------------
(* Properties.                                                             *)

Epochs == DOMAIN TrueStarts

(* Types; at most one validator set waits to be emitted (valset_update logs
   an error when it overwrites one).                                       *)
TypeOK ==
    /\ root \in Blocks /\ started \in 0..root /\ round \in Nat
    /\ DOMAIN epoch_starts \subseteq Epochs
    /\ validator_map \subseteq Epochs
    /\ next_val_data \subseteq Epochs /\ Cardinality(next_val_data) <= 1
    /\ forkpoint.root \in Blocks

(* "Conflicting epoch start round" never fires, and the node never enters a
   round under another epoch than the chain gives it: every start it holds
   is the one the committed boundary block fixes.                          *)
StartsAgree ==
    \A e \in DOMAIN epoch_starts : epoch_starts[e] = TrueStarts[e]

(* The leader of the current round and of the next NumLeaders rounds can be
   computed: their epoch is known and its validator set has arrived (else
   compute_upcoming_leader_round_pairs reaches its todo!).                  *)
ValidatorsReady == \A r \in compute_upcoming : get_epoch(epoch_starts, r) \in validator_map

(* Forkpoint::validate accepts every checkpoint, and its sets include the
   epoch of the root and the epoch of the high certificate.                *)
ForkpointValid ==
    /\ validate(forkpoint)
    /\ TrueEpoch(rounds[forkpoint.root]) \in DOMAIN forkpoint.validator_sets

(* A node that has committed the last block of an epoch since it was started
   has scheduled the next epoch, however many blocks it commits at once.
   A boundary block that is not above the root it was started with is not
   committed again: its epoch is scheduled only if the checkpoint has it,
   and a checkpoint written before the validator set arrived has not.      *)
NextEpochScheduled ==
    \A b \in started + 1 .. root : is_epoch_end(b) => to_epoch(b) + 1 \in DOMAIN epoch_starts
=============================================================================
