----------------------------- MODULE VoteProofs -----------------------------
(***************************************************************************)
(* The votes and no-endorsements of a round.  What the thresholds of       *)
(* ValidatorSet guarantee for every assignment of stakes, including totals *)
(* that three does not divide; the invariants of VoteState, which collects *)
(* the votes of others, for any validators, stakes, blocks, number of      *)
(* rounds and bound on future votes; and of NoEndorsementState, for any    *)
(* rounds the node leads and any number of crashes.  Last, which rounds    *)
(* the epochs of those validators start in: Epochs, for any chain.         *)
(***************************************************************************)
EXTENDS VoteState, Integers, FiniteSetTheorems, TLAPS

LEMMA UnitsFinite ==
  ASSUME NEW P
  PROVE  IsFiniteSet(Units(P)) /\ calculate_current_stake(P) \in Nat
<1>1. IsFiniteSet(1..MaxStake)
  BY StakeAssumption, FS_Interval
<1>2. IsFiniteSet(Validator \X (1..MaxStake))
  BY ZenonT(30), <1>1, StakeAssumption, FS_Product
<1>3. Units(P) \subseteq Validator \X (1..MaxStake)
  BY DEF Units
<1> QED BY <1>2, <1>3, FS_Subset, FS_CardinalityType DEF calculate_current_stake

\* A larger set has no less stake.
LEMMA StakeMonotone ==
  ASSUME NEW P, NEW Q, P \subseteq Q
  PROVE  calculate_current_stake(P) <= calculate_current_stake(Q)
<1>1. Units(P) \subseteq Units(Q)
  BY DEF Units
<1> QED BY <1>1, UnitsFinite, FS_Subset DEF calculate_current_stake

\* Stakes add up.
LEMMA StakeUnion ==
  ASSUME NEW P, NEW Q
  PROVE  calculate_current_stake(P \cup Q)
           = calculate_current_stake(P) + calculate_current_stake(Q)
             - calculate_current_stake(P \cap Q)
<1>1. Units(P \cup Q) = Units(P) \cup Units(Q) /\ Units(P \cap Q) = Units(P) \cap Units(Q)
  BY DEF Units
<1>2. IsFiniteSet(Units(P)) /\ IsFiniteSet(Units(Q))
  BY UnitsFinite
<1>3. Cardinality(Units(P) \cup Units(Q))
        = Cardinality(Units(P)) + Cardinality(Units(Q)) - Cardinality(Units(P) \cap Units(Q))
  BY <1>2, FS_Union
<1> QED BY SMTT(20), <1>1, <1>3 DEF calculate_current_stake

LEMMA TotalStake ==
  ASSUME NEW P
  PROVE  calculate_current_stake(P) <= total_stake
<1>1. Units(P) \subseteq Units(Validator)
  BY DEF Units
<1> QED BY <1>1, UnitsFinite, FS_Subset DEF calculate_current_stake, total_stake

\* Any two sets with has_super_majority_votes share more stake than a set
\* without has_honest_vote can have, hence a validator outside it.
THEOREM SuperMajoritiesOverlap ==
  ASSUME NEW P, NEW Q, NEW F,
         has_super_majority_votes(P), has_super_majority_votes(Q), ~ has_honest_vote(F)
  PROVE  (P \cap Q) \ F # {}
<1> DEFINE t == total_stake
           p == calculate_current_stake(P)
           q == calculate_current_stake(Q)
           f == calculate_current_stake(F)
           pq == calculate_current_stake(P \cap Q)
           u == calculate_current_stake(P \cup Q)
<1>1. t \in Nat /\ p \in Nat /\ q \in Nat /\ f \in Nat /\ pq \in Nat /\ u \in Nat
  BY UnitsFinite DEF total_stake
<1>2. p >= (t * 2) \div 3 + 1 /\ q >= (t * 2) \div 3 + 1 /\ ~ (f >= t \div 3 + 1)
  BY DEF has_super_majority_votes, has_honest_vote, has_threshold_votes
<1>3. u <= t /\ u = p + q - pq
  BY TotalStake, StakeUnion
<1> HIDE DEF t, p, q, f, pq, u
<1>4. pq > f
  BY <1>1, <1>2, <1>3
<1>5. SUFFICES ASSUME (P \cap Q) \subseteq F PROVE FALSE
  OBVIOUS
<1>6. pq <= f
  BY <1>5, StakeMonotone DEF pq, f
<1> QED BY <1>1, <1>4, <1>6

\* A set with has_honest_vote is not within a set without it.
THEOREM HonestVoteIsHonest ==
  ASSUME NEW P, NEW F, has_honest_vote(P), ~ has_honest_vote(F)
  PROVE  P \ F # {}
<1>1. SUFFICES ASSUME P \subseteq F PROVE FALSE
  OBVIOUS
<1>2. calculate_current_stake(P) <= calculate_current_stake(F)
  BY <1>1, StakeMonotone
<1>3. calculate_current_stake(P) \in Nat /\ calculate_current_stake(F) \in Nat /\ total_stake \div 3 + 1 \in Nat
  BY UnitsFinite DEF total_stake
<1> QED BY <1>2, <1>3 DEF has_honest_vote, has_threshold_votes

\* If a supermajority times out, its honest members alone make every other
\* node time out (process_remote_timeout).
THEOREM SuperMajorityHasHonestVote ==
  ASSUME NEW Q, NEW F, has_super_majority_votes(Q), ~ has_honest_vote(F)
  PROVE  has_honest_vote(Q \ F)
<1> DEFINE t == total_stake
           q == calculate_current_stake(Q)
           f == calculate_current_stake(F)
           r == calculate_current_stake(Q \ F)
           qf == calculate_current_stake(F \cup (Q \ F))
           e == calculate_current_stake(F \cap (Q \ F))
<1>1. t \in Nat /\ q \in Nat /\ f \in Nat /\ r \in Nat /\ qf \in Nat /\ e \in Nat
  BY UnitsFinite DEF total_stake
<1>2. q >= (t * 2) \div 3 + 1 /\ ~ (f >= t \div 3 + 1)
  BY DEF has_super_majority_votes, has_honest_vote, has_threshold_votes
<1>3. q <= qf /\ qf = f + r - e
  BY StakeMonotone, StakeUnion
<1> HIDE DEF t, q, f, r, qf, e
<1>4. r >= t \div 3 + 1
  BY <1>1, <1>2, <1>3
<1> QED BY <1>4 DEF has_honest_vote, has_threshold_votes, r, t

\* The thresholds satisfy what MonadBFT assumes of them (QuorumAssumption) as
\* long as the faulty validators F have too little stake for has_honest_vote.
THEOREM QuorumsFromStake ==
  ASSUME NEW F \in SUBSET Validator, ~ has_honest_vote(F)
  PROVE  LET honest == Validator \ F IN
         /\ \A P, Q \in {S \in SUBSET Validator : has_super_majority_votes(S)} : P \cap Q \cap honest # {}
         /\ \A P \in {S \in SUBSET Validator : has_honest_vote(S)} : P \cap honest # {}
<1>1. ASSUME NEW P \in SUBSET Validator, NEW Q \in SUBSET Validator,
             has_super_majority_votes(P), has_super_majority_votes(Q)
      PROVE  P \cap Q \cap (Validator \ F) # {}
  <2>1. (P \cap Q) \ F # {}
    BY <1>1, SuperMajoritiesOverlap
  <2> QED BY <2>1
<1>2. ASSUME NEW P \in SUBSET Validator, has_honest_vote(P)
      PROVE  P \cap (Validator \ F) # {}
  <2>1. P \ F # {}
    BY <1>2, HonestVoteIsHonest
  <2> QED BY <2>1
<1> QED BY <1>1, <1>2

-----------------------------------------------------------------------------
\* earliest_round is above every certificate built and never above
\* current_round; and from earliest_round on, what was received from correct
\* validators is exactly what is pending of them, unaltered.
Order ==
  /\ earliest_round <= current_round
  /\ \A q \in qcs : q.round < earliest_round

PendingIsAccepted ==
  /\ \A v \in pending_votes : v.author \in Honest => v \in accepted
  /\ \A v \in accepted : v.author \in Honest /\ v.valid
  /\ \A v \in accepted : v.round >= earliest_round => v \in pending_votes

CollectInv ==
  TypeOK /\ Order /\ PendingIsAccepted /\ OneQcPerRound /\ QcSound /\ NoQcMissed

\* A subset of validators without a supermajority has none either.
LEMMA SuperMajorityMonotone ==
  ASSUME NEW P, NEW Q, P \subseteq Q, has_super_majority_votes(P)
  PROVE  has_super_majority_votes(Q)
<1>1. calculate_current_stake(P) <= calculate_current_stake(Q)
  BY StakeMonotone
<1>2. /\ calculate_current_stake(P) \in Nat
      /\ calculate_current_stake(Q) \in Nat
      /\ (total_stake * 2) \div 3 + 1 \in Nat
  BY UnitsFinite DEF total_stake
<1> QED BY <1>1, <1>2 DEF has_super_majority_votes, has_threshold_votes

\* Nobody is no supermajority.
LEMMA NoVotersNoMajority == ~ has_super_majority_votes({})
<1>1. Units({}) = {}
  BY DEF Units
<1>2. calculate_current_stake({}) = 0
  BY <1>1, FS_EmptySet DEF calculate_current_stake
<1>3. total_stake \in Nat
  BY UnitsFinite DEF total_stake
<1> QED BY <1>2, <1>3 DEF has_super_majority_votes, has_threshold_votes

LEMMA CollectInit == Init => CollectInv
<1> SUFFICES ASSUME Init PROVE CollectInv
  OBVIOUS
<1>1. TypeOK
  <2>1. 1 \in 1..(MaxRound + 1)
    BY VoteStateAssumption
  <2> QED BY <2>1 DEF Init, TypeOK
<1>2. Order /\ PendingIsAccepted /\ OneQcPerRound /\ QcSound
  BY DEF Init, Order, PendingIsAccepted, OneQcPerRound, QcSound
<1>3. NoQcMissed
  <2> SUFFICES ASSUME NEW round \in Round, NEW id \in BlockId
               PROVE  ~ has_super_majority_votes({n \in Honest :
                         \E v \in accepted : v.author = n /\ v.round = round /\ v.id = id})
    BY DEF NoQcMissed
  <2>1. {n \in Honest : \E v \in accepted : v.author = n /\ v.round = round /\ v.id = id} = {}
    BY DEF Init
  <2> QED BY <2>1, NoVotersNoMajority
<1> QED BY <1>1, <1>2, <1>3 DEF CollectInv

\* What process_vote keeps of the pending votes: all of them but entries that
\* the vote replaces or whose signature is invalid.
LEMMA KeptVotes ==
  ASSUME TypeOK, PendingIsAccepted, NEW vote \in Votes, MaySend(vote)
  PROVE  LET pending == insert(pending_votes, vote)
             entry   == RoundPendingVotes(pending, vote)
             checked == Checked(entry)
             kept    == (pending \ entry) \cup checked
             acc     == accepted \cup {v \in {vote} : v.author \in Honest}
         IN  /\ kept \subseteq Votes
             /\ checked \subseteq Votes
             /\ \A v \in checked : v.round = vote.round /\ v.id = vote.id
             /\ \A v \in kept : v.author \in Honest => v \in acc
             /\ \A v \in acc : v.author \in Honest /\ v.valid
             /\ \A v \in acc : v.round >= earliest_round => v \in kept
             /\ checked \subseteq kept
             /\ \A v \in acc : /\ v.round >= earliest_round
                               /\ v.round = vote.round
                               /\ v.id = vote.id
                               => v \in checked
<1> DEFINE pending == insert(pending_votes, vote)
           entry   == RoundPendingVotes(pending, vote)
           checked == Checked(entry)
           kept    == (pending \ entry) \cup checked
           acc     == accepted \cup {v \in {vote} : v.author \in Honest}
<1>1. pending \subseteq Votes /\ entry \subseteq pending
  BY DEF TypeOK, insert, RoundPendingVotes
<1>2. checked \subseteq entry /\ \A v \in entry : v.valid => v \in checked
  BY DEF Checked, handle_invalid_vote
<1>3. \A v \in pending : v.author \in Honest => v \in acc
  BY DEF PendingIsAccepted, insert
<1>4. \A v \in acc : v \in Votes /\ v.author \in Honest /\ v.valid
  BY DEF PendingIsAccepted, MaySend, TypeOK
<1>5. ASSUME NEW v \in acc, v.round >= earliest_round
      PROVE  v \in pending
  <2>1. CASE v = vote
    BY <2>1 DEF insert
  <2>2. CASE v # vote
    <3>1. v \in accepted /\ v \in pending_votes
      BY <1>5, <2>2 DEF PendingIsAccepted
    <3>2. SUFFICES ASSUME SameEntry(v, vote) PROVE FALSE
      BY <3>1 DEF insert
    <3>3. v.author \in Honest /\ v.valid
      BY <3>1 DEF PendingIsAccepted
    <3>4. vote.author \in Honest /\ vote.valid
      BY <3>2, <3>3 DEF SameEntry, MaySend
    <3>5. v \in Votes
      BY <3>1 DEF TypeOK
    <3>6. v = vote
      BY <3>2, <3>3, <3>4, <3>5 DEF SameEntry, Votes
    <3> QED BY <3>6, <2>2
  <2> QED BY <2>1, <2>2
<1>6. \A v \in acc : v.round >= earliest_round => v \in kept
  BY <1>2, <1>4, <1>5
<1>7. \A v \in acc : v.round >= earliest_round /\ v.round = vote.round /\ v.id = vote.id
                     => v \in checked
  BY <1>2, <1>4, <1>5 DEF RoundPendingVotes
<1>8. \A v \in checked : v.round = vote.round /\ v.id = vote.id
  BY <1>2 DEF RoundPendingVotes
<1>9. kept \subseteq pending
  BY <1>1, <1>2
<1> QED BY <1>1, <1>2, <1>3, <1>4, <1>6, <1>7, <1>8, <1>9

\* A certificate from elsewhere: process_qc.
LEMMA QcStep ==
  ASSUME CollectInv, NEW round \in Round, ProcessQc(round)
  PROVE  CollectInv'
<1> USE DEF ProcessQc, process_qc, EnterRoundByQc
<1>1. round \in Nat /\ current_round \in Nat /\ earliest_round \in Nat
  BY VoteStateAssumption DEF CollectInv, TypeOK, Round
<1>2. round + 1 \in 1..(MaxRound + 1)
  BY VoteStateAssumption DEF Round
<1>3. TypeOK'
  BY <1>2 DEF CollectInv, TypeOK, start_new_round
<1>4. Order'
  <2>1. \A q \in qcs : q.round \in Nat
    BY VoteStateAssumption DEF CollectInv, TypeOK, Round
  <2> QED BY <1>1, <2>1 DEF CollectInv, Order
<1>5. PendingIsAccepted'
  <2>1. \A v \in accepted : v.round \in Nat
    BY VoteStateAssumption DEF CollectInv, TypeOK, Votes, Round
  <2>2. \A v \in accepted : v.round >= round + 1 => v.round >= earliest_round
    BY <1>1, <2>1 DEF CollectInv, Order
  <2> QED BY <2>2 DEF CollectInv, PendingIsAccepted, start_new_round
<1>6. OneQcPerRound' /\ QcSound'
  BY DEF CollectInv, OneQcPerRound, QcSound
<1>7. NoQcMissed'
  <2>1. \A r \in Round : r >= round + 1 => r >= current_round
    BY <1>1, VoteStateAssumption DEF Round
  <2> QED BY <2>1 DEF CollectInv, NoQcMissed
<1> QED BY <1>3, <1>4, <1>5, <1>6, <1>7 DEF CollectInv

LEMMA TcStep ==
  ASSUME CollectInv, NEW round \in Round, ProcessTc(round)
  PROVE  CollectInv'
<1> USE DEF ProcessTc
<1>1. round \in Nat /\ current_round \in Nat /\ earliest_round \in Nat
  BY VoteStateAssumption DEF CollectInv, TypeOK, Round
<1>2. round + 1 \in 1..(MaxRound + 1)
  BY VoteStateAssumption DEF Round
<1>3. TypeOK'
  BY <1>2 DEF CollectInv, TypeOK
<1>4. Order'
  BY <1>1 DEF CollectInv, Order
<1>5. PendingIsAccepted' /\ OneQcPerRound' /\ QcSound'
  BY DEF CollectInv, PendingIsAccepted, OneQcPerRound, QcSound
<1>6. NoQcMissed'
  <2>1. \A r \in Round : r >= round + 1 => r >= current_round
    BY <1>1, VoteStateAssumption DEF Round
  <2> QED BY <2>1 DEF CollectInv, NoQcMissed
<1> QED BY <1>3, <1>4, <1>5, <1>6 DEF CollectInv

\* A vote: the new certificate is the only one of its round because the round
\* is not below earliest_round, its correct signers are accepted votes, and
\* without one the checked votes, hence the correct ones, are too few.
LEMMA VoteStep ==
  ASSUME CollectInv, NEW vote \in Votes, MaySend(vote), HandleVote(vote)
  PROVE  CollectInv'
<1> DEFINE pending == insert(pending_votes, vote)
           entry   == RoundPendingVotes(pending, vote)
           checked == Checked(entry)
           kept    == (pending \ entry) \cup checked
           acc     == accepted \cup {v \in {vote} : v.author \in Honest}
           Voters(S, r, i) == {n \in Honest : \E v \in S : v.author = n /\ v.round = r /\ v.id = i}
<1>1. /\ kept \subseteq Votes
      /\ checked \subseteq Votes
      /\ \A v \in checked : v.round = vote.round /\ v.id = vote.id
      /\ \A v \in kept : v.author \in Honest => v \in acc
      /\ \A v \in acc : v.author \in Honest /\ v.valid
      /\ \A v \in acc : v.round >= earliest_round => v \in kept
      /\ checked \subseteq kept
      /\ \A v \in acc : v.round >= earliest_round /\ v.round = vote.round /\ v.id = vote.id
                        => v \in checked
  BY KeptVotes DEF CollectInv
<1>2. /\ vote.round >= current_round
      /\ vote.round >= earliest_round
      /\ accepted' = acc
      /\ \/ /\ has_super_majority_votes(Authors(checked))
            /\ qcs' = qcs \cup {[round |-> vote.round, id |-> vote.id, signers |-> Authors(checked)]}
            /\ process_qc(vote.round, kept)
         \/ /\ ~ has_super_majority_votes(Authors(checked))
            /\ pending_votes' = kept
            /\ UNCHANGED <<current_round, earliest_round, qcs>>
  BY DEF HandleVote
<1>3. /\ vote.round \in Round /\ vote.id \in BlockId /\ vote.author \in Validator
      /\ vote.round \in Nat /\ current_round \in Nat /\ earliest_round \in Nat
  BY VoteStateAssumption DEF CollectInv, TypeOK, Votes, Round
<1>4. acc \subseteq Votes
  BY DEF CollectInv, TypeOK
<1> HIDE DEF pending, entry, checked, kept
<1>5. \A r \in Round, i \in BlockId : r # vote.round \/ i # vote.id => Voters(acc, r, i) = Voters(accepted, r, i)
  OBVIOUS
<1>6. CASE /\ has_super_majority_votes(Authors(checked))
           /\ qcs' = qcs \cup {[round |-> vote.round, id |-> vote.id, signers |-> Authors(checked)]}
           /\ process_qc(vote.round, kept)
  <2> DEFINE qc == [round |-> vote.round, id |-> vote.id, signers |-> Authors(checked)]
  <2>1. /\ current_round' = vote.round + 1
        /\ earliest_round' = vote.round + 1
        /\ pending_votes' = start_new_round(kept, vote.round + 1)
    BY <1>6 DEF process_qc, EnterRoundByQc
  <2>2. Authors(checked) \subseteq Validator
    BY <1>1 DEF Authors, Votes
  <2>3. TypeOK'
    <3>1. vote.round + 1 \in 1..(MaxRound + 1)
      BY <1>3, VoteStateAssumption DEF Round
    <3>2. qc \in [round : Round, id : BlockId, signers : SUBSET Validator]
      BY <1>3, <2>2
    <3>3. qcs' \subseteq [round : Round, id : BlockId, signers : SUBSET Validator]
      BY <3>2, <1>6 DEF CollectInv, TypeOK
    <3>4. pending_votes' \subseteq Votes
      BY <1>1, <2>1 DEF start_new_round
    <3> QED BY <3>1, <3>3, <3>4, <1>2, <1>4, <2>1 DEF TypeOK
  <2>4. Order'
    <3>1. \A q \in qcs : q.round \in Nat /\ q.round < vote.round + 1
      BY <1>2, <1>3, VoteStateAssumption DEF CollectInv, TypeOK, Round, Order
    <3> QED BY <3>1, <1>3, <1>6, <2>1 DEF Order
  <2>5. PendingIsAccepted'
    <3>1. \A v \in acc : v.round >= vote.round + 1 => v.round >= earliest_round
      BY <1>2, <1>3, <1>4, VoteStateAssumption DEF Votes, Round
    <3> QED BY <3>1, <1>1, <1>2, <2>1 DEF PendingIsAccepted, start_new_round
  <2>6. OneQcPerRound'
    <3>1. \A q \in qcs : q.round # vote.round
      BY <1>2, <1>3, VoteStateAssumption DEF CollectInv, TypeOK, Round, Order
    <3> QED BY <3>1, <1>6 DEF CollectInv, OneQcPerRound
  <2>7. QcSound'
    <3>1. has_honest_vote(Authors(checked) \cap Honest)
      <4>1. has_honest_vote(Authors(checked) \ (Validator \ Honest))
        BY <1>6, VoteStateAssumption, SuperMajorityHasHonestVote
      <4>2. Authors(checked) \ (Validator \ Honest) = Authors(checked) \cap Honest
        BY <2>2
      <4> QED BY <4>1, <4>2
    <3>2. \A n \in Authors(checked) \cap Honest :
             \E v \in acc : v.author = n /\ v.round = vote.round /\ v.id = vote.id
      BY <1>1 DEF Authors
    <3>3. \A q \in qcs : /\ has_honest_vote(q.signers \cap Honest)
                         /\ \A n \in q.signers \cap Honest :
                               \E v \in acc : v.author = n /\ v.round = q.round /\ v.id = q.id
      BY DEF CollectInv, QcSound
    <3>4. \A q \in qcs' : /\ has_honest_vote(q.signers \cap Honest)
                          /\ \A n \in q.signers \cap Honest :
                                \E v \in acc : v.author = n /\ v.round = q.round /\ v.id = q.id
      BY <3>1, <3>2, <3>3, <1>6
    <3> QED BY <3>4, <1>2 DEF QcSound
  <2>8. NoQcMissed'
    <3> SUFFICES ASSUME NEW r \in Round, NEW i \in BlockId, r >= vote.round + 1
                 PROVE  ~ has_super_majority_votes(Voters(acc, r, i))
      BY <1>2, <2>1 DEF NoQcMissed
    <3>1. r # vote.round /\ r >= current_round
      BY <1>2, <1>3, VoteStateAssumption DEF Round
    <3>2. ~ has_super_majority_votes(Voters(accepted, r, i))
      BY <3>1 DEF CollectInv, NoQcMissed
    <3> QED BY <3>1, <3>2, <1>5
  <2> QED BY <2>3, <2>4, <2>5, <2>6, <2>7, <2>8 DEF CollectInv
<1>7. CASE /\ ~ has_super_majority_votes(Authors(checked))
           /\ pending_votes' = kept
           /\ UNCHANGED <<current_round, earliest_round, qcs>>
  <2>1. TypeOK'
    BY <1>1, <1>2, <1>4, <1>7 DEF CollectInv, TypeOK
  <2>2. Order' /\ OneQcPerRound'
    BY <1>7 DEF CollectInv, Order, OneQcPerRound
  <2>3. PendingIsAccepted'
    BY <1>1, <1>2, <1>7 DEF PendingIsAccepted
  <2>4. QcSound'
    BY <1>2, <1>7 DEF CollectInv, QcSound
  <2>5. NoQcMissed'
    <3> SUFFICES ASSUME NEW r \in Round, NEW i \in BlockId, r >= current_round
                 PROVE  ~ has_super_majority_votes(Voters(acc, r, i))
      BY <1>2, <1>7 DEF NoQcMissed
    <3>1. CASE r = vote.round /\ i = vote.id
      <4>1. Voters(acc, r, i) \subseteq Authors(checked)
        BY <3>1, <1>1, <1>2 DEF Authors
      <4> QED BY <4>1, <1>7, SuperMajorityMonotone
    <3>2. CASE r # vote.round \/ i # vote.id
      <4>1. ~ has_super_majority_votes(Voters(accepted, r, i))
        BY DEF CollectInv, NoQcMissed
      <4> QED BY ZenonT(30), <4>1, <3>2, <1>5
    <3> QED BY <3>1, <3>2
  <2> QED BY <2>1, <2>2, <2>3, <2>4, <2>5 DEF CollectInv
<1> QED BY <1>2, <1>6, <1>7

LEMMA CollectStep == CollectInv /\ [Next]_vars => CollectInv'
<1> SUFFICES ASSUME CollectInv, [Next]_vars PROVE CollectInv'
  OBVIOUS
<1>1. CASE UNCHANGED vars
  <2> USE <1>1 DEF vars, CollectInv
  <2>1. TypeOK' /\ Order' /\ PendingIsAccepted'
    BY DEF TypeOK, Order, PendingIsAccepted
  <2>2. OneQcPerRound' /\ QcSound'
    BY DEF OneQcPerRound, QcSound
  <2>3. NoQcMissed'
    BY DEF NoQcMissed
  <2> QED BY <2>1, <2>2, <2>3
<1>2. CASE \E vote \in Votes : MaySend(vote) /\ HandleVote(vote)
  BY <1>2, VoteStep
<1>3. CASE \E vote \in Votes : IgnoreVote(vote)
  <2>1. UNCHANGED vars
    BY <1>3 DEF IgnoreVote
  <2> QED BY <2>1, <1>1
<1>4. CASE \E round \in Round : ProcessQc(round)
  BY <1>4, QcStep
<1>5. CASE \E round \in Round : ProcessTc(round)
  BY <1>5, TcStep
<1> QED BY <1>1, <1>2, <1>3, <1>4, <1>5 DEF Next

LEMMA CollectInvariance == Spec => []CollectInv
BY CollectInit, CollectStep, PTL DEF Spec

\* A node builds at most one certificate for a round, whatever votes and
\* certificates it receives in whatever order.
THEOREM OneCertificatePerRound == Spec => []OneQcPerRound
<1>1. CollectInv => OneQcPerRound
  BY DEF CollectInv
<1> QED BY <1>1, CollectInvariance, PTL

\* A certificate built by process_vote has the votes of correct validators
\* with more than a third of the stake.
THEOREM CertificatesAreSound == Spec => []QcSound
<1>1. CollectInv => QcSound
  BY DEF CollectInv
<1> QED BY <1>1, CollectInvariance, PTL

\* Once a supermajority of correct validators' votes for a block has been
\* received, in rounds up to FUTURE_VOTE_BOUND early and mixed with invalid
\* ones, the certificate has been built or its round is over.
THEOREM CertificatesAreNotMissed == Spec => []NoQcMissed
<1>1. CollectInv => NoQcMissed
  BY DEF CollectInv
<1> QED BY <1>1, CollectInvariance, PTL

-----------------------------------------------------------------------------
(* The no-endorsements a leader collects: NoEndorsementState, for the same *)
(* validators, any rounds and, where it says so, any number of crashes.    *)
CONSTANTS QcRounds, TcRounds, LedRounds, TipQcRounds, MaxCrashes

VARIABLES saved_round, no_endorsements, necs, recoveries, received, crashes, panicked

Nec == INSTANCE NoEndorsementState WITH pending <- no_endorsements, certificates <- necs

\* The rounds are rounds.
Led ==
  QcRounds \subseteq Nat /\ TcRounds \subseteq Nat /\ LedRounds \subseteq Nat /\ MaxCrashes \in Nat

\* A correct validator answers one request per round, with one tip, and from
\* the current round on its answer is pending, unaltered.
AnswersKept ==
  /\ received \subseteq Nec!Messages
  /\ \A m \in received : m.author \in Honest /\ m.valid /\ m.round \in recoveries
  /\ \A m \in no_endorsements : m.author \in Honest => m \in received
  /\ \A m \in received : m.round >= current_round => m \in no_endorsements

\* NecNotMissed for every round that is not over.
AnswersCounted ==
  \A r \in LedRounds, q \in TipQcRounds :
    /\ r >= current_round
    /\ has_super_majority_votes(
         {m.author : m \in {n \in received : n.round = r /\ n.tip_qc_round = q}})
    => \E c \in necs : c.round = r

\* Without a crash no request was sent for a round that is still to come, and
\* earliest_round is above every certificate.
BuiltBefore ==
  crashes = 0 =>
    /\ \A r \in recoveries : r <= current_round
    /\ \A c \in necs : c.round < earliest_round
    /\ ~ panicked

NecInv == Nec!TypeOK /\ crashes \in Nat /\ AnswersKept /\ AnswersCounted
            /\ Nec!NecAnswersRecovery /\ BuiltBefore

LEMMA NecCardinality ==
  ASSUME NEW S PROVE Nec!Cardinality(S) = Cardinality(S)
BY Zenon DEF Nec!Cardinality, Cardinality

LEMMA NecMajority ==
  ASSUME NEW P PROVE Nec!has_super_majority_votes(P) <=> has_super_majority_votes(P)
<1>1. \A Q : Nec!Units(Q) = Units(Q)
  BY DEF Nec!Units, Units
<1>2. \A Q : Nec!calculate_current_stake(Q) = calculate_current_stake(Q)
  BY <1>1, NecCardinality DEF Nec!calculate_current_stake, calculate_current_stake
<1>3. Nec!total_stake = total_stake
  BY <1>2 DEF Nec!total_stake, total_stake
<1> QED BY <1>2, <1>3 DEF Nec!has_super_majority_votes, has_super_majority_votes,
                          Nec!has_threshold_votes, has_threshold_votes

LEMMA RoundsNat == ASSUME Led PROVE Nec!Rounds \subseteq Nat
BY DEF Led, Nec!Rounds

LEMMA NecInit == ASSUME Led PROVE Nec!Init => NecInv
<1> SUFFICES ASSUME Nec!Init PROVE NecInv
  OBVIOUS
<1>1. Nec!TypeOK
  BY ZenonT(30) DEF Nec!Init, Nec!TypeOK, Nec!Rounds
<1>2. AnswersKept /\ Nec!NecAnswersRecovery /\ BuiltBefore
  BY DEF Nec!Init, AnswersKept, Nec!NecAnswersRecovery, BuiltBefore
<1>3. AnswersCounted
  <2>1. \A r, q : {m.author : m \in {n \in received : n.round = r /\ n.tip_qc_round = q}} = {}
    BY DEF Nec!Init
  <2> QED BY <2>1, NoVotersNoMajority DEF AnswersCounted
<1> QED BY <1>1, <1>2, <1>3 DEF NecInv, Nec!Init

\* A quorum certificate: process_qc drops what is of earlier rounds.
LEMMA NecQcStep ==
  ASSUME Led, NecInv, NEW r \in QcRounds, Nec!process_qc(r) PROVE NecInv'
<1> USE DEF Nec!process_qc, Nec!start_new_round
<1>1. r \in Nat /\ current_round \in Nat /\ earliest_round \in Nat /\ r + 1 \in Nec!Rounds
  BY RoundsNat DEF Led, NecInv, Nec!TypeOK, Nec!Rounds
<1>2. no_endorsements \subseteq Nec!Messages /\ \A m \in Nec!Messages : m.round \in Nat
  BY ZenonT(30) DEF NecInv, Nec!TypeOK, Nec!Messages, Led
<1>3. Nec!TypeOK' /\ crashes' \in Nat
  BY <1>1 DEF NecInv, Nec!TypeOK
<1>4. AnswersKept'
  BY <1>1, <1>2 DEF NecInv, AnswersKept
<1>5. AnswersCounted'
  <2>1. \A s \in LedRounds : s >= r + 1 => s >= current_round
    BY <1>1 DEF Led
  <2>2. \A c \in necs : c.round >= r + 1 => c \in necs'
    OBVIOUS
  <2> QED BY <2>1, <2>2 DEF NecInv, AnswersCounted
<1>6. Nec!NecAnswersRecovery'
  BY DEF NecInv, Nec!NecAnswersRecovery
<1>7. BuiltBefore'
  <2> SUFFICES ASSUME crashes = 0 PROVE BuiltBefore'
    BY DEF BuiltBefore
  <2>1. /\ \A s \in recoveries : s \in Nat /\ s <= current_round
        /\ \A c \in necs : c.round \in Nat /\ c.round \in recoveries
        /\ ~ panicked
    BY ZenonT(30) DEF NecInv, BuiltBefore, Nec!NecAnswersRecovery, Nec!TypeOK, Led
  <2>2. \A s \in recoveries : s <= r + 1
    BY <1>1, <2>1
  <2>3. \A c \in necs : c.round < r + 1
    BY <1>1, <2>1
  <2> QED BY <2>1, <2>2, <2>3 DEF BuiltBefore
<1> QED BY <1>3, <1>4, <1>5, <1>6, <1>7 DEF NecInv

\* A timeout certificate: process_tc may ask for recovery and drops nothing.
LEMMA NecTcStep ==
  ASSUME Led, NecInv, NEW r \in TcRounds, Nec!process_tc(r) PROVE NecInv'
<1> USE DEF Nec!process_tc
<1>1. r \in Nat /\ current_round \in Nat /\ earliest_round \in Nat /\ r + 1 \in Nec!Rounds
  BY RoundsNat DEF Led, NecInv, Nec!TypeOK, Nec!Rounds
<1>2. Nec!TypeOK' /\ crashes' \in Nat
  BY <1>1 DEF NecInv, Nec!TypeOK
<1>3. AnswersKept'
  <2>1. \A m \in Nec!Messages : m.round \in Nat
    BY ZenonT(30) DEF Nec!Messages, Led
  <2> QED BY <1>1, <2>1 DEF NecInv, AnswersKept
<1>4. AnswersCounted'
  <2>1. \A s \in LedRounds : s >= r + 1 => s >= current_round
    BY <1>1 DEF Led
  <2> QED BY <2>1 DEF NecInv, AnswersCounted
<1>5. Nec!NecAnswersRecovery'
  BY DEF NecInv, Nec!NecAnswersRecovery
<1>6. BuiltBefore'
  <2> SUFFICES ASSUME crashes = 0 PROVE BuiltBefore'
    BY DEF BuiltBefore
  <2>1. /\ \A s \in recoveries : s \in Nat /\ s <= current_round
        /\ \A c \in necs : c.round < earliest_round
        /\ ~ panicked
    BY DEF NecInv, BuiltBefore, Nec!TypeOK, Led
  <2>2. \A s \in recoveries' : s <= r + 1
    BY <1>1, <2>1
  <2> QED BY <2>1, <2>2 DEF BuiltBefore
<1> QED BY <1>2, <1>3, <1>4, <1>5, <1>6 DEF NecInv

\* A crash: what was collected is lost, and so is what was received.
LEMMA NecCrashStep ==
  ASSUME Led, NecInv, Nec!Crash PROVE NecInv'
<1> USE DEF Nec!Crash
<1>1. Nec!TypeOK' /\ crashes' \in Nat /\ crashes' # 0
  BY RoundsNat DEF NecInv, Nec!TypeOK
<1>2. AnswersKept' /\ Nec!NecAnswersRecovery' /\ BuiltBefore'
  BY <1>1 DEF AnswersKept, Nec!NecAnswersRecovery, BuiltBefore
<1>3. AnswersCounted'
  <2>1. \A r, q : {m.author : m \in {n \in received' : n.round = r /\ n.tip_qc_round = q}} = {}
    OBVIOUS
  <2> QED BY <2>1, NoVotersNoMajority DEF AnswersCounted
<1> QED BY <1>1, <1>2, <1>3 DEF NecInv

\* What process_no_endorsement keeps of the pending messages: all of them but
\* entries that the message replaces or whose signature is invalid.
LEMMA KeptAnswers ==
  ASSUME Nec!TypeOK, AnswersKept, NEW m \in Nec!Messages, Nec!MaySend(m)
  PROVE  LET inserted == Nec!insert(no_endorsements, m)
             entry    == Nec!RoundPending(inserted, m)
             checked  == Nec!Checked(entry)
             kept     == (inserted \ entry) \cup checked
             recv     == received \cup {n \in {m} : n.author \in Honest}
         IN  /\ kept \subseteq Nec!Messages /\ checked \subseteq kept
             /\ recv \subseteq Nec!Messages
             /\ \A n \in checked : n.round = m.round /\ n.tip_qc_round = m.tip_qc_round
             /\ \A n \in recv : n.author \in Honest /\ n.valid /\ n.round \in recoveries
             /\ \A n \in kept : n.author \in Honest => n \in recv
             /\ m.round >= current_round =>
                  \A n \in recv : n.round >= current_round =>
                    /\ n \in kept
                    /\ n.round = m.round /\ n.tip_qc_round = m.tip_qc_round => n \in checked
<1> DEFINE inserted == Nec!insert(no_endorsements, m)
           entry    == Nec!RoundPending(inserted, m)
           checked  == Nec!Checked(entry)
           kept     == (inserted \ entry) \cup checked
           recv     == received \cup {n \in {m} : n.author \in Honest}
<1>1. inserted \subseteq Nec!Messages /\ entry \subseteq inserted
  BY DEF Nec!TypeOK, Nec!insert, Nec!RoundPending
<1>2. checked \subseteq entry /\ \A n \in entry : n.valid => n \in checked
  BY DEF Nec!Checked, Nec!handle_invalid_no_endorsement
<1>3. \A n \in inserted : n.author \in Honest => n \in recv
  BY DEF AnswersKept, Nec!insert
<1>4. recv \subseteq Nec!Messages /\ \A n \in recv : n.author \in Honest /\ n.valid /\ n.round \in recoveries
  BY DEF AnswersKept, Nec!MaySend
<1>5. ASSUME NEW n \in recv, n.round >= current_round, m.round >= current_round
      PROVE  n \in inserted
  <2>1. CASE n = m
    BY <2>1 DEF Nec!insert
  <2>2. CASE n # m
    <3>1. n \in received /\ n \in no_endorsements
      BY <1>5, <2>2 DEF AnswersKept
    <3>2. SUFFICES ASSUME Nec!SameEntry(m, n) PROVE FALSE
      BY <3>1 DEF Nec!insert
    <3>3. n.author \in Honest /\ n.author = m.author /\ n.round = m.round
      BY <3>1, <3>2 DEF AnswersKept, Nec!SameEntry
    <3> QED BY <3>1, <3>3, <2>2 DEF Nec!MaySend
  <2> QED BY <2>1, <2>2
<1>6. \A n \in entry : n.round = m.round /\ n.tip_qc_round = m.tip_qc_round
  BY DEF Nec!RoundPending
<1>7. \A n \in inserted : n.round = m.round /\ n.tip_qc_round = m.tip_qc_round => n \in entry
  BY DEF Nec!RoundPending
<1> QED BY <1>1, <1>2, <1>3, <1>4, <1>5, <1>6, <1>7

\* A no-endorsement: process_no_endorsement.
LEMMA NecMessageStep ==
  ASSUME Led, NecInv, NEW m \in Nec!Messages, Nec!handle_no_endorsement_message(m)
  PROVE  NecInv'
<1> DEFINE inserted == Nec!insert(no_endorsements, m)
           entry    == Nec!RoundPending(inserted, m)
           checked  == Nec!Checked(entry)
           kept     == (inserted \ entry) \cup checked
           recv     == received \cup {n \in {m} : n.author \in Honest}
           cert     == Nec!Certificate(m, checked)
           Answers(S, r, q) == {n.author : n \in {k \in S : k.round = r /\ k.tip_qc_round = q}}
<1>1. /\ kept \subseteq Nec!Messages /\ checked \subseteq kept
      /\ recv \subseteq Nec!Messages
      /\ \A n \in checked : n.round = m.round /\ n.tip_qc_round = m.tip_qc_round
      /\ \A n \in recv : n.author \in Honest /\ n.valid /\ n.round \in recoveries
      /\ \A n \in kept : n.author \in Honest => n \in recv
      /\ m.round >= current_round =>
           \A n \in recv : n.round >= current_round =>
             /\ n \in kept
             /\ n.round = m.round /\ n.tip_qc_round = m.tip_qc_round => n \in checked
  BY KeptAnswers DEF NecInv, Nec!handle_no_endorsement_message
<1>2. /\ current_round \in Nat /\ earliest_round \in Nat /\ m.round \in Nat
      /\ m.round \in LedRounds /\ m.tip_qc_round \in TipQcRounds
      /\ recoveries \subseteq Nat
  BY ZenonT(30), RoundsNat DEF NecInv, Nec!TypeOK, Nec!Messages, Led
<1>3. /\ m.round >= current_round /\ m.round >= earliest_round
      /\ received' = recv /\ saved_round' = current_round /\ no_endorsements' = kept
      /\ UNCHANGED <<current_round, recoveries, crashes>>
      /\ \/ /\ has_super_majority_votes(Nec!Authors(checked))
            /\ earliest_round' = m.round + 1
            /\ necs' = necs \cup {cert}
            /\ panicked' => \E c \in necs : c.round = m.round
         \/ /\ ~ has_super_majority_votes(Nec!Authors(checked))
            /\ UNCHANGED <<earliest_round, necs, panicked>>
      /\ panicked' \in BOOLEAN
  <2>1. /\ m.round >= current_round /\ m.round >= earliest_round
        /\ received' = recv /\ saved_round' = current_round
        /\ UNCHANGED <<current_round, recoveries, crashes>>
        /\ Nec!Collect(m, entry, checked)
    BY <1>2 DEF Nec!handle_no_endorsement_message, Nec!process_no_endorsement
  <2> HIDE DEF inserted, entry, checked, recv, cert
  <2>2. CASE has_super_majority_votes(Nec!Authors(checked))
    <3>1. /\ no_endorsements' = kept /\ earliest_round' = m.round + 1
          /\ necs' = necs \cup {cert}
          /\ panicked' = \E c \in necs : c.round = m.round
      BY <2>1, <2>2, NecMajority, Zenon DEF Nec!Collect, Nec!Enough, Nec!Build, cert, inserted
    <3>2. (panicked' => \E c \in necs : c.round = m.round) /\ panicked' \in BOOLEAN
      BY <3>1, Zenon
    <3> HIDE DEF kept
    <3> QED BY <2>1, <2>2, <3>1, <3>2, Zenon
  <2>3. CASE ~ has_super_majority_votes(Nec!Authors(checked))
    <3>1. no_endorsements' = kept /\ UNCHANGED <<earliest_round, necs, panicked>>
      BY <2>1, <2>3, NecMajority, Zenon DEF Nec!Collect, Nec!Enough, inserted
    <3>2. panicked' \in BOOLEAN
      BY <3>1, Zenon DEF NecInv, Nec!TypeOK
    <3> HIDE DEF kept
    <3> QED BY <2>1, <2>3, <3>1, <3>2, Zenon
  <2> QED BY <2>2, <2>3
<1>4. cert.round = m.round /\ cert.tip_qc_round = m.tip_qc_round
      /\ cert.signers = Nec!Authors(checked)
  BY DEF Nec!Certificate
<1> HIDE DEF inserted, entry, checked, kept, recv, cert
<1>5. Nec!TypeOK' /\ crashes' \in Nat
  BY <1>1, <1>2, <1>3, <1>4 DEF NecInv, Nec!TypeOK
<1>6. AnswersKept'
  BY <1>1, <1>3 DEF AnswersKept
<1>7. AnswersCounted'
  <2> SUFFICES ASSUME NEW r \in LedRounds, NEW q \in TipQcRounds, r >= current_round,
                      has_super_majority_votes(Answers(recv, r, q))
               PROVE  \E c \in necs' : c.round = r
    BY <1>3 DEF AnswersCounted
  <2>1. CASE r = m.round /\ q = m.tip_qc_round
    <3>1. Answers(recv, r, q) \subseteq Nec!Authors(checked)
      BY <1>1, <1>3, <2>1 DEF Nec!Authors
    <3>2. has_super_majority_votes(Nec!Authors(checked))
      BY <3>1, SuperMajorityMonotone
    <3> QED BY <1>3, <1>4, <2>1, <3>2
  <2>2. CASE ~ (r = m.round /\ q = m.tip_qc_round)
    <3>1. Answers(recv, r, q) = Answers(received, r, q)
      BY <2>2 DEF recv
    <3>2. \E c \in necs : c.round = r
      BY <3>1 DEF NecInv, AnswersCounted
    <3> QED BY <1>3, <3>2
  <2> QED BY <2>1, <2>2
\* Among the signers is a correct validator, and its message was received.
<1>8. ASSUME has_super_majority_votes(Nec!Authors(checked))
      PROVE  \E n \in recv : n.round = m.round /\ n.tip_qc_round = m.tip_qc_round
  <2>1. has_honest_vote(Nec!Authors(checked) \ (Validator \ Honest))
    BY <1>8, SuperMajorityHasHonestVote, VoteStateAssumption
  <2>2. (Nec!Authors(checked) \ (Validator \ Honest)) \ (Validator \ Honest) # {}
    BY <2>1, HonestVoteIsHonest, VoteStateAssumption
  <2>3. PICK n \in checked : n.author \notin Validator \ Honest
    BY <2>2 DEF Nec!Authors
  <2>4. n.author \in Honest
    BY <1>1, <2>3 DEF Nec!Messages
  <2> QED BY <1>1, <2>3, <2>4
<1>9. Nec!NecAnswersRecovery'
  <2> SUFFICES ASSUME NEW c \in necs'
               PROVE  /\ Nec!has_super_majority_votes(c.signers)
                      /\ \E n \in recv : n.round = c.round /\ n.tip_qc_round = c.tip_qc_round
                      /\ c.round \in recoveries
    BY <1>3 DEF Nec!NecAnswersRecovery
  <2>1. CASE c \in necs
    BY <2>1 DEF NecInv, Nec!NecAnswersRecovery, recv
  <2>2. CASE c \notin necs
    <3>1. c = cert /\ has_super_majority_votes(Nec!Authors(checked))
      BY <1>3, <2>2
    <3> QED BY <1>1, <1>4, <1>8, <3>1, NecMajority
  <2> QED BY <2>1, <2>2
<1>10. BuiltBefore'
  <2> SUFFICES ASSUME crashes = 0 PROVE BuiltBefore'
    BY <1>3 DEF BuiltBefore
  <2>1. /\ \A r \in recoveries : r <= current_round
        /\ \A c \in necs : c.round \in Nat /\ c.round < earliest_round
        /\ ~ panicked
    BY ZenonT(30) DEF NecInv, BuiltBefore, Nec!TypeOK, Led
  <2>2. ~ panicked' /\ \A c \in necs' : c.round < earliest_round'
    BY <1>2, <1>3, <1>4, <2>1
  <2> QED BY <1>3, <2>1, <2>2 DEF BuiltBefore
<1> QED BY <1>5, <1>6, <1>7, <1>9, <1>10 DEF NecInv

LEMMA NecStep == ASSUME Led PROVE NecInv /\ [Nec!Next]_(Nec!vars) => NecInv'
<1> SUFFICES ASSUME NecInv, [Nec!Next]_(Nec!vars) PROVE NecInv'
  OBVIOUS
<1>1. CASE UNCHANGED Nec!vars
  <2> USE <1>1 DEF Nec!vars, NecInv
  <2>1. Nec!TypeOK' /\ crashes' \in Nat /\ AnswersKept' /\ Nec!NecAnswersRecovery' /\ BuiltBefore'
    BY DEF Nec!TypeOK, AnswersKept, Nec!NecAnswersRecovery, BuiltBefore
  <2>2. AnswersCounted'
    BY DEF AnswersCounted
  <2> QED BY <2>1, <2>2
<1>2. CASE \E m \in Nec!Messages : Nec!handle_no_endorsement_message(m)
  BY <1>2, NecMessageStep
<1>3. CASE \E r \in QcRounds : Nec!process_qc(r)
  BY <1>3, NecQcStep
<1>4. CASE \E r \in TcRounds : Nec!process_tc(r)
  BY <1>4, NecTcStep
<1>5. CASE Nec!Crash
  BY <1>5, NecCrashStep
<1> QED BY <1>1, <1>2, <1>3, <1>4, <1>5 DEF Nec!Next

LEMMA NecInvariance == ASSUME Led PROVE Nec!Spec => []NecInv
BY NecInit, NecStep, PTL DEF Nec!Spec

\* A NEC is built only from answers to the leader's own recovery request, a
\* correct validator's among them, also when the leader restarts in between.
THEOREM NecsAnswerRecovery == ASSUME Led PROVE Nec!Spec => []Nec!NecAnswersRecovery
<1>1. NecInv => Nec!NecAnswersRecovery
  BY DEF NecInv
<1> QED BY <1>1, NecInvariance, PTL

\* Once enough correct validators have answered for the current round, which
\* the node leads, it has the certificate, whatever faulty ones have sent.
THEOREM NecsAreNotMissed == ASSUME Led PROVE Nec!Spec => []Nec!NecNotMissed
<1>1. NecInv => Nec!NecNotMissed
  <2> SUFFICES ASSUME NecInv, NEW q \in TipQcRounds,
                      Nec!has_super_majority_votes({m.author : m \in
                        {n \in received : n.round = current_round /\ n.tip_qc_round = q}})
               PROVE  Nec!get_nec(current_round) # {}
    BY DEF Nec!NecNotMissed
  <2> DEFINE S == {n \in received : n.round = current_round /\ n.tip_qc_round = q}
  <2>1. has_super_majority_votes({m.author : m \in S})
    BY NecMajority
  <2>2. S # {}
    <3> SUFFICES ASSUME S = {} PROVE FALSE
      OBVIOUS
    <3>1. {m.author : m \in S} = {}
      OBVIOUS
    <3> QED BY <2>1, <3>1, NoVotersNoMajority
  <2>3. current_round \in LedRounds /\ current_round \in Nat
    BY <2>2, RoundsNat DEF NecInv, AnswersKept, Nec!Messages, Nec!TypeOK
  <2>4. \E c \in necs : c.round = current_round
    BY <2>1, <2>3 DEF NecInv, AnswersCounted
  <2> QED BY <2>4 DEF Nec!get_nec
<1> QED BY <1>1, NecInvariance, PTL

\* Both and type correctness, also if the node crashes between events.
THEOREM NecsAreBuilt == ASSUME Led PROVE Nec!Spec => []Nec!CertificatesBuilt
<1>1. NecInv => Nec!TypeOK
  BY DEF NecInv
<1>2. Nec!TypeOK /\ Nec!NecAnswersRecovery /\ Nec!NecNotMissed => Nec!CertificatesBuilt
  BY DEF Nec!CertificatesBuilt
<1> QED BY <1>1, <1>2, NecInvariance, NecsAnswerRecovery, NecsAreNotMissed, PTL

\* As long as the leader does not crash the assertion that a round's NEC is
\* built once holds.
THEOREM NecsAreBuiltOnce == ASSUME Led, MaxCrashes = 0 PROVE Nec!Spec => []Nec!NecBuiltOnce
<1> DEFINE NoCrash == crashes = 0
<1>1. Nec!Init => NoCrash
  BY DEF Nec!Init
<1>2. NoCrash /\ [Nec!Next]_(Nec!vars) => NoCrash'
  BY DEF Nec!Next, Nec!vars, Nec!handle_no_endorsement_message, Nec!process_qc, Nec!process_tc,
         Nec!Crash
<1>3. NecInv /\ NoCrash => Nec!NecBuiltOnce
  BY DEF NecInv, BuiltBefore, Nec!NecBuiltOnce
<1> HIDE DEF NoCrash
<1> QED BY <1>1, <1>2, <1>3, NecInvariance, PTL DEF Nec!Spec

-----------------------------------------------------------------------------
(* When epochs start: Epochs, for any chain, length of epochs, delays and  *)
(* number of crashes.                                                      *)

CONSTANTS EpochLength, EpochStartDelay, ExecutionDelay, NumLeaders, Chains, MaxLag
VARIABLES rounds, root, started, round, epoch_starts, validator_map, next_val_data, last_emitted,
          forkpoint

Epoch == INSTANCE Epochs

\* Chains are sequences of blocks, numbered from genesis.
Chained ==
  /\ EpochLength \in Nat \ {0}
  /\ \A c \in Chains : \E n \in Nat : DOMAIN c = 0..n

\* Starts that are those of the chain.
OfTheChain(starts) ==
  /\ DOMAIN starts \subseteq DOMAIN Epoch!TrueStarts
  /\ \A e \in DOMAIN starts : starts[e] = Epoch!TrueStarts[e]

EpochInv ==
  /\ rounds \in Chains /\ root \in Epoch!Blocks /\ forkpoint.root \in Epoch!Blocks
  /\ OfTheChain(epoch_starts) /\ OfTheChain(forkpoint.validator_sets)

\* The last block of an epoch is the one that TrueStarts looks up.
LEMMA BoundaryBlock ==
  ASSUME Chained, NEW b \in Nat, Epoch!is_epoch_end(b), NEW e, e = Epoch!to_epoch(b) + 1
  PROVE  e # 1 /\ (e - 1) * EpochLength - 1 = b
<1> DEFINE q == b \div EpochLength
<1>1. EpochLength \in Nat /\ EpochLength > 0
  BY DEF Chained
<1>2. q \in Nat /\ b = EpochLength * q + (b % EpochLength)
  BY <1>1
<1>3. b = EpochLength * q + EpochLength - 1
  BY <1>1, <1>2 DEF Epoch!is_epoch_end
<1>4. (q + 1) * EpochLength = EpochLength * q + EpochLength
  BY <1>1, <1>2
<1>5. Epoch!to_epoch(b) = q + 1
  BY DEF Epoch!to_epoch
<1> HIDE DEF q
<1> QED BY <1>1, <1>2, <1>3, <1>4, <1>5

LEMMA ScheduleStep ==
  ASSUME Chained, EpochInv, NEW b \in Epoch!Blocks, NEW starts, OfTheChain(starts)
  PROVE  OfTheChain(Epoch!schedule_epoch_start(starts, b))
<1> DEFINE e == Epoch!to_epoch(b) + 1
           x == Epoch!schedule_epoch_start(starts, b)
<1>1. CASE ~ Epoch!is_epoch_end(b)
  BY <1>1 DEF Epoch!schedule_epoch_start
<1>2. CASE Epoch!is_epoch_end(b)
  <2>1. b \in Nat
    BY DEF Chained, EpochInv, Epoch!Blocks
  <2>2. e # 1 /\ (e - 1) * EpochLength - 1 = b
    BY Zenon, <1>2, <2>1, BoundaryBlock
  <2>3. /\ DOMAIN x = DOMAIN starts \cup {e}
        /\ \A d \in DOMAIN starts : x[d] = starts[d]
        /\ e \notin DOMAIN starts => x[e] = rounds[b] + EpochStartDelay
    BY <1>2 DEF Epoch!schedule_epoch_start, Epoch!insert_epoch_start
  <2>4. e \in DOMAIN Epoch!TrueStarts
    BY <1>2 DEF Epoch!TrueStarts
  <2> HIDE DEF e, x
  <2>5. Epoch!TrueStarts[e] = rounds[b] + EpochStartDelay
    BY <2>2, <2>4 DEF Epoch!TrueStarts
  <2>6. OfTheChain(x)
    BY <2>3, <2>4, <2>5 DEF OfTheChain
  <2> QED BY <2>6 DEF x
<1> QED BY <1>1, <1>2

LEMMA CheckpointStep ==
  ASSUME NEW b \in Epoch!Blocks, NEW r, NEW starts, OfTheChain(starts)
  PROVE  /\ OfTheChain(Epoch!checkpoint(b, r, starts).validator_sets)
         /\ Epoch!checkpoint(b, r, starts).root \in Epoch!Blocks
BY DEF OfTheChain, Epoch!checkpoint, Epoch!Locked

LEMMA CommitStep ==
  ASSUME Chained, EpochInv, Epoch!try_commit
  PROVE  EpochInv'
<1>1. PICK b \in Epoch!NewRoots :
        /\ root' = b
        /\ epoch_starts' = Epoch!Scheduled(epoch_starts, root + 1 .. b)
        /\ forkpoint' = Epoch!checkpoint(b, round, epoch_starts')
  BY DEF Epoch!try_commit
<1>2. rounds' = rounds
  BY DEF Epoch!try_commit
<1>3. PICK n \in Nat : Epoch!Blocks = 0..n
  BY DEF Chained, EpochInv, Epoch!Blocks
<1>4. b \in Epoch!Blocks /\ root + 1 .. b \subseteq Epoch!Blocks
  BY <1>3 DEF EpochInv, Epoch!NewRoots
<1>5. OfTheChain(epoch_starts')
  <2> DEFINE S == root + 1 .. b
             c == CHOOSE x \in S : Epoch!is_epoch_end(x)
  <2>1. CASE \E x \in S : Epoch!is_epoch_end(x)
    <3>1. c \in Epoch!Blocks
      BY <1>4, <2>1
    <3>2. epoch_starts' = Epoch!schedule_epoch_start(epoch_starts, c)
      BY <1>1, <2>1 DEF Epoch!Scheduled
    <3> HIDE DEF c
    <3> QED BY <3>1, <3>2, ScheduleStep DEF EpochInv
  <2>2. CASE ~ \E x \in S : Epoch!is_epoch_end(x)
    BY <1>1, <2>2 DEF Epoch!Scheduled, EpochInv
  <2> QED BY <2>1, <2>2
<1>6. OfTheChain(forkpoint'.validator_sets) /\ forkpoint'.root \in Epoch!Blocks
  BY <1>1, <1>4, <1>5, CheckpointStep
<1>7. /\ (Epoch!Blocks)' = Epoch!Blocks /\ (Epoch!TrueStarts)' = Epoch!TrueStarts
  BY <1>2 DEF Epoch!Blocks, Epoch!TrueStarts
<1> QED BY <1>1, <1>2, <1>4, <1>5, <1>6, <1>7 DEF EpochInv, OfTheChain

LEMMA EpochStep == ASSUME Chained PROVE EpochInv /\ [Epoch!Next]_(Epoch!vars) => EpochInv'
<1> SUFFICES ASSUME EpochInv, [Epoch!Next]_(Epoch!vars) PROVE EpochInv'
  OBVIOUS
<1>1. ASSUME rounds' = rounds
      PROVE  (Epoch!Blocks)' = Epoch!Blocks /\ (Epoch!TrueStarts)' = Epoch!TrueStarts
  BY <1>1 DEF Epoch!Blocks, Epoch!TrueStarts
<1>2. CASE Epoch!EnterRound
  <2>1. /\ UNCHANGED <<rounds, root, epoch_starts>>
        /\ forkpoint' = Epoch!checkpoint(root, round + 1, epoch_starts)
    BY <1>2 DEF Epoch!EnterRound
  <2>2. OfTheChain(forkpoint'.validator_sets) /\ forkpoint'.root \in Epoch!Blocks
    BY <2>1, CheckpointStep DEF EpochInv
  <2> QED BY <1>1, <2>1, <2>2 DEF EpochInv, OfTheChain
<1>3. CASE Epoch!UpdateValidators
  BY <1>1, <1>3 DEF Epoch!UpdateValidators, EpochInv, OfTheChain
<1>4. CASE Epoch!Restart
  BY <1>1, <1>4 DEF Epoch!Restart, EpochInv, OfTheChain
<1>5. CASE UNCHANGED Epoch!vars
  BY <1>1, <1>5 DEF Epoch!vars, Epoch!node, EpochInv, OfTheChain
<1> QED BY <1>2, <1>3, <1>4, <1>5, CommitStep DEF Epoch!Next

LEMMA EpochInit == ASSUME Chained PROVE Epoch!Init => EpochInv
<1> SUFFICES ASSUME Epoch!Init PROVE EpochInv
  OBVIOUS
<1>1. 1 \in DOMAIN Epoch!TrueStarts /\ Epoch!TrueStarts[1] = 0
  BY DEF Epoch!TrueStarts
<1>2. 0 \in Epoch!Blocks
  BY DEF Chained, Epoch!Init, Epoch!Blocks
<1> QED BY <1>1, <1>2 DEF Epoch!Init, EpochInv, OfTheChain

\* "Conflicting epoch start round" never fires: whatever the chain, and however
\* often the node restarts from a checkpoint, the starts it holds are those the
\* boundary blocks fix.
THEOREM EpochStartsAgree == ASSUME Chained PROVE Epoch!Spec => []Epoch!StartsAgree
<1>1. EpochInv => Epoch!StartsAgree
  BY DEF EpochInv, OfTheChain, Epoch!StartsAgree
<1> QED BY <1>1, EpochInit, EpochStep, PTL DEF Epoch!Spec

LEMMA Multiples ==
  ASSUME NEW l \in Nat, NEW a \in Nat, NEW b \in Nat, a <= b
  PROVE  l * a <= l * b
<1> DEFINE d == b - a
<1>1. d \in Nat /\ b = a + d
  OBVIOUS
<1> HIDE DEF d
<1>2. l * (a + d) = l * a + l * d /\ l * a \in Nat /\ l * d \in Nat
  BY <1>1
<1> QED BY <1>1, <1>2

\* An update does not commit the last blocks of two epochs.
LEMMA OneBoundary ==
  ASSUME Chained, NEW a \in Nat, NEW b \in Nat, Epoch!is_epoch_end(a), Epoch!is_epoch_end(b),
         a <= b, b < a + EpochLength
  PROVE  a = b
<1> DEFINE p == a \div EpochLength
           q == b \div EpochLength
<1>1. EpochLength \in Nat /\ EpochLength > 0
  BY DEF Chained
<1>2. p \in Nat /\ a = EpochLength * p + EpochLength - 1
  BY <1>1 DEF Epoch!is_epoch_end
<1>3. q \in Nat /\ b = EpochLength * q + EpochLength - 1
  BY <1>1 DEF Epoch!is_epoch_end
<1> HIDE DEF p, q
<1>4. EpochLength * p \in Nat /\ EpochLength * q \in Nat
  BY <1>1, <1>2, <1>3
<1>5. CASE q <= p
  <2>1. EpochLength * q <= EpochLength * p
    BY <1>1, <1>2, <1>3, <1>5, Multiples
  <2> QED BY <1>1, <1>2, <1>3, <1>4, <2>1
<1>6. CASE p + 1 <= q
  <2>1. EpochLength * (p + 1) <= EpochLength * q
    BY <1>1, <1>2, <1>3, <1>6, Multiples
  <2>2. EpochLength * (p + 1) = EpochLength * p + EpochLength
    BY <1>1, <1>2
  <2> QED BY <1>1, <1>2, <1>3, <1>4, <2>1, <2>2
<1> QED BY <1>2, <1>3, <1>5, <1>6

\* The next epoch of every boundary block committed since the start is scheduled.
ScheduledUpTo(b, starts) ==
  \A x \in started + 1 .. b : Epoch!is_epoch_end(x) => Epoch!to_epoch(x) + 1 \in DOMAIN starts

NextInv == EpochInv /\ started \in Nat /\ ScheduledUpTo(root, epoch_starts)

LEMMA CommitSchedules ==
  ASSUME Chained, NextInv, NEW b \in Epoch!NewRoots
  PROVE  ScheduledUpTo(b, Epoch!Scheduled(epoch_starts, root + 1 .. b))
<1> DEFINE S == root + 1 .. b
           starts == Epoch!Scheduled(epoch_starts, S)
<1>1. root \in Nat /\ b \in Nat /\ root < b /\ b <= root + EpochLength /\ EpochLength \in Nat
  BY DEF Chained, NextInv, EpochInv, Epoch!Blocks, Epoch!NewRoots
<1> SUFFICES ASSUME NEW x \in started + 1 .. b, Epoch!is_epoch_end(x)
             PROVE  Epoch!to_epoch(x) + 1 \in DOMAIN starts
  BY DEF ScheduledUpTo
<1>2. DOMAIN epoch_starts \subseteq DOMAIN starts
  BY DEF Epoch!Scheduled, Epoch!schedule_epoch_start, Epoch!insert_epoch_start
<1>3. CASE x \in started + 1 .. root
  BY <1>2, <1>3 DEF NextInv, ScheduledUpTo
<1>4. CASE x \in S
  <2> DEFINE c == CHOOSE y \in S : Epoch!is_epoch_end(y)
  <2>1. c \in S /\ Epoch!is_epoch_end(c)
    BY Zenon, <1>4
  <2>2. starts = Epoch!schedule_epoch_start(epoch_starts, c)
    BY Zenon, <1>4 DEF Epoch!Scheduled
  <2> HIDE DEF c, starts
  <2>3. c \in Nat /\ x \in Nat /\ c < x + EpochLength /\ x < c + EpochLength
    BY <1>1, <1>4, <2>1
  <2>4. c = x
    BY <2>1, <2>3, OneBoundary
  <2> QED BY <2>1, <2>2, <2>4 DEF Epoch!schedule_epoch_start, Epoch!insert_epoch_start
<1> QED BY <1>1, <1>3, <1>4 DEF NextInv

\* A node has scheduled the next epoch as soon as it has committed the last
\* block of an epoch above the root it was started with, however many blocks
\* it commits at once and however often it restarts.
THEOREM NextEpochsAreScheduled ==
  ASSUME Chained
  PROVE  Epoch!Spec => []Epoch!NextEpochScheduled
<1>1. Epoch!Init => NextInv
  <2> SUFFICES ASSUME Epoch!Init PROVE NextInv
    OBVIOUS
  <2>1. root = 0 /\ started = 0
    BY DEF Epoch!Init
  <2>2. ScheduledUpTo(root, epoch_starts)
    BY <2>1 DEF ScheduledUpTo
  <2> QED BY <2>1, <2>2, EpochInit DEF NextInv
<1>2. NextInv /\ [Epoch!Next]_(Epoch!vars) => NextInv'
  <2> SUFFICES ASSUME NextInv, [Epoch!Next]_(Epoch!vars) PROVE NextInv'
    OBVIOUS
  <2>1. EpochInv'
    BY EpochStep DEF NextInv
  <2>2. CASE Epoch!try_commit
    <3>1. PICK b \in Epoch!NewRoots :
            root' = b /\ epoch_starts' = Epoch!Scheduled(epoch_starts, root + 1 .. b)
      BY <2>2 DEF Epoch!try_commit
    <3>2. ScheduledUpTo(b, epoch_starts')
      BY <3>1, CommitSchedules
    <3>3. started' = started
      BY <2>2 DEF Epoch!try_commit
    <3> QED BY <2>1, <3>1, <3>2, <3>3 DEF NextInv, ScheduledUpTo
  <2>3. CASE Epoch!EnterRound \/ Epoch!UpdateValidators \/ UNCHANGED Epoch!vars
    <3>1. UNCHANGED <<root, started, epoch_starts>>
      BY <2>3 DEF Epoch!EnterRound, Epoch!UpdateValidators, Epoch!vars, Epoch!node
    <3> QED BY <2>1, <3>1 DEF NextInv, ScheduledUpTo
  <2>4. CASE Epoch!Restart
    <3>1. root' = forkpoint.root /\ started' = forkpoint.root
      BY <2>4 DEF Epoch!Restart
    <3>2. started' \in Nat
      BY <3>1 DEF Chained, NextInv, EpochInv, Epoch!Blocks
    <3> QED BY <2>1, <3>1, <3>2 DEF NextInv, ScheduledUpTo
  <2> QED BY <2>2, <2>3, <2>4 DEF Epoch!Next
<1>3. NextInv => Epoch!NextEpochScheduled
  BY DEF NextInv, ScheduledUpTo, Epoch!NextEpochScheduled
<1> QED BY <1>1, <1>2, <1>3, PTL DEF Epoch!Spec
=============================================================================
