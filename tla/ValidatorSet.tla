---------------------------- MODULE ValidatorSet ----------------------------
(***************************************************************************)
(* Weighted validators and the two thresholds on their stake               *)
(* (monad-validator/src/validator_set.rs).                                 *)
(*                                                                         *)
(* A stake of n is n units, and the stake of a set of validators is the    *)
(* number of their units.  The callers pass the keys of a map, so that the *)
(* addresses they pass are distinct: a set.                                *)
(***************************************************************************)
EXTENDS Naturals, FiniteSets

CONSTANTS
  Validator,   \* the keys of ValidatorSet::validators
  Stake,       \* and its values
  MaxStake     \* bound on the stake of a validator

ASSUME StakeAssumption ==
  /\ IsFiniteSet(Validator)
  /\ MaxStake \in Nat
  /\ Stake \in [Validator -> 0..MaxStake]

Units(addrs) == {u \in Validator \X (1..MaxStake) : u[1] \in addrs /\ u[2] <= Stake[u[1]]}

\* ValidatorSet::calculate_current_stake: other addresses count for nothing.
calculate_current_stake(addrs) == Cardinality(Units(addrs))

\* ValidatorSetFactory::create
total_stake == calculate_current_stake(Validator)

has_threshold_votes(addrs, threshold) == calculate_current_stake(addrs) >= threshold

has_super_majority_votes(addrs) == has_threshold_votes(addrs, (total_stake * 2) \div 3 + 1)

has_honest_vote(addrs) == has_threshold_votes(addrs, total_stake \div 3 + 1)
=============================================================================
