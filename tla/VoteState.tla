----------------------------- MODULE VoteState ------------------------------
(***************************************************************************)
(* Collection of votes into quorum certificates at one node:               *)
(* monad-consensus/src/vote_state.rs, driven by handle_vote_message,       *)
(* process_qc and process_tc of monad-consensus-state/src/lib.rs.          *)
(*                                                                         *)
(* The author of a message is authenticated when it is received, the vote  *)
(* signature inside only when a certificate is built: a faulty validator   *)
(* may send votes with an invalid one.  Correct validators send valid      *)
(* votes, for one block per round (VoteOnce of MonadBFT), in any order and *)
(* repeatedly.                                                             *)
(***************************************************************************)
EXTENDS ValidatorSet

CONSTANTS
  Honest,             \* validators that follow the code
  BlockId,
  FUTURE_VOTE_BOUND,
  MaxRound            \* bound: no vote or certificate is of a later round

ASSUME VoteStateAssumption ==
  /\ Honest \subseteq Validator
  /\ ~ has_honest_vote(Validator \ Honest)
  /\ FUTURE_VOTE_BOUND \in Nat
  /\ MaxRound \in Nat

VARIABLES
  current_round,   \* pacemaker.get_current_round()
  earliest_round,  \* VoteState::earliest_round
  pending_votes,   \* VoteState::pending_votes
  accepted,        \* votes of correct validators that reached process_vote
  qcs              \* certificates built here

vars == <<current_round, earliest_round, pending_votes, accepted, qcs>>

Round == 1..MaxRound

Votes == [round : Round, id : BlockId, author : Validator, valid : BOOLEAN]

-----------------------------------------------------------------------------
(* VoteState *)

\* One entry per vote and author: a later one replaces an earlier one.
SameEntry(v, w) == v.round = w.round /\ v.id = w.id /\ v.author = w.author

insert(pending, vote) == {v \in pending : ~ SameEntry(v, vote)} \cup {vote}

\* round_pending_votes
RoundPendingVotes(pending, vote) == {v \in pending : v.round = vote.round /\ v.id = vote.id}

Authors(votes) == {v.author : v \in votes}

\* Fault: an invalid signature discards the votes it was collected with.
Bad_handle_invalid_vote(entry) == IF \A v \in entry : v.valid THEN entry ELSE {}

handle_invalid_vote(entry) == {v \in entry : v.valid}

start_new_round(pending, new_round) == {v \in pending : v.round >= new_round}

\* The entries of the vote, once the invalid ones are removed: which happens
\* only when all of them together are enough for a certificate.
Checked(entry) ==
  IF has_super_majority_votes(Authors(entry)) THEN handle_invalid_vote(entry) ELSE entry

-----------------------------------------------------------------------------
(* The handlers *)

Init ==
  /\ current_round = 1
  /\ earliest_round = 1
  /\ pending_votes = {}
  /\ accepted = {}
  /\ qcs = {}

\* Pacemaker::process_certificate and VoteState::start_new_round, in process_qc.
EnterRoundByQc(round, pending) ==
  /\ current_round' = round + 1
  /\ earliest_round' = round + 1
  /\ pending_votes' = start_new_round(pending, round + 1)

process_qc(round, pending) == round >= current_round /\ EnterRoundByQc(round, pending)

\* handle_vote_message and process_vote
HandleVote(vote) ==
  LET pending == insert(pending_votes, vote)
      entry   == RoundPendingVotes(pending, vote)
      checked == Checked(entry)
      kept    == (pending \ entry) \cup checked
  IN  /\ vote.round \in current_round..(current_round + FUTURE_VOTE_BOUND)
      /\ vote.round >= earliest_round
      /\ accepted' = accepted \cup {v \in {vote} : v.author \in Honest}
      /\ \/ /\ has_super_majority_votes(Authors(checked))
            /\ qcs' = qcs \cup {[round |-> vote.round, id |-> vote.id, signers |-> Authors(checked)]}
            /\ process_qc(vote.round, kept)
         \/ /\ ~ has_super_majority_votes(Authors(checked))
            /\ pending_votes' = kept
            /\ UNCHANGED <<current_round, earliest_round, qcs>>

\* handle_vote_message returns early: the round is over, or too far ahead.
IgnoreVote(vote) ==
  /\ vote.round \notin current_round..(current_round + FUTURE_VOTE_BOUND)
  /\ UNCHANGED vars

\* What a validator may send: see the head of the module.
MaySend(vote) ==
  vote.author \in Honest =>
    /\ vote.valid
    /\ \A v \in accepted : v.author = vote.author /\ v.round = vote.round => v.id = vote.id

\* A certificate that was built elsewhere, in any message.
ProcessQc(round) ==
  /\ process_qc(round, pending_votes)
  /\ UNCHANGED <<accepted, qcs>>

\* process_tc leaves vote_state alone.
ProcessTc(round) ==
  /\ round >= current_round
  /\ current_round' = round + 1
  /\ UNCHANGED <<earliest_round, pending_votes, accepted, qcs>>

Next ==
  \/ \E vote \in Votes : MaySend(vote) /\ (HandleVote(vote) \/ IgnoreVote(vote))
  \/ \E round \in Round : ProcessQc(round)
  \/ \E round \in Round : ProcessTc(round)

Spec == Init /\ [][Next]_vars

-----------------------------------------------------------------------------
(* Properties *)

TypeOK ==
  /\ current_round \in 1..(MaxRound + 1)
  /\ earliest_round \in 1..(MaxRound + 1)
  /\ pending_votes \subseteq Votes
  /\ accepted \subseteq Votes
  /\ qcs \subseteq [round : Round, id : BlockId, signers : SUBSET Validator]

\* "Only one QC should be created in a round using the first supermajority of
\* votes received" (vote_state.rs:37), whatever arrives later or again, after
\* timeouts and QCs in between.
OneQcPerRound == \A p, q \in qcs : p.round = q.round => p = q

\* The correct validators among the signers of a certificate have more than a
\* third of the stake (has_honest_vote), and each has really voted for the block: no vote with
\* an invalid signature, for another block or for another round is counted.
QcSound ==
  \A q \in qcs :
    LET voters == q.signers \cap Honest IN
    /\ has_honest_vote(voters)
    /\ \A n \in voters : \E v \in accepted : v.author = n /\ v.round = q.round /\ v.id = q.id

\* No certificate is missed: while a round can still be certified, the correct
\* validators whose votes for one block were received are not a supermajority.
\* Votes that came rounds early, and votes collected together with invalid
\* ones, are not forgotten.
NoQcMissed ==
  \A round \in Round, id \in BlockId : round >= current_round =>
    ~ has_super_majority_votes({n \in Honest :
         \E v \in accepted : v.author = n /\ v.round = round /\ v.id = id})
=============================================================================
