------------------------------- MODULE Safety -------------------------------
(***************************************************************************)
(* The stateful safety checks of one validator                             *)
(* (monad-consensus/src/validation/safety.rs): which rounds it has voted,  *)
(* no-endorsed and proposed in, and the highest tip it voted for.  A       *)
(* Safety value is a record; each method of struct Safety is an operator   *)
(* that returns the updated record.  What a method asserts is the          *)
(* corresponding is_safe_to_ operator: its callers test it first.          *)
(***************************************************************************)
EXTENDS Certificates, FiniteSets

CONSTANT HANDLED_PROPOSAL_CACHE_SIZE

ASSUME CacheSizeAssumption == HANDLED_PROPOSAL_CACHE_SIZE \in Nat \ {0}

HighNoEndorse == [round: Nat, tip: Block \cup {Genesis}]

\* struct Safety
SafetyState ==
  [maybe_high_tip:            Block \cup {None},
   high_certificate_qc_round: Nat,
   highest_vote:              Nat,
   highest_no_endorse:        HighNoEndorse,
   highest_propose:           Nat,
   highest_recovery_request:  Nat,
   handled_proposals:         SUBSET Nat]

\* Safety::new(high_certificate, None), as ConsensusState::new calls it:
\* nothing is signed in the round the node starts in, and the tip is gone.
NewSafety(cert) ==
  LET current_round == cert.round + 1 IN
  [maybe_high_tip            |-> None,
   high_certificate_qc_round |-> cert.high_extend.qc.round,
   highest_vote              |-> current_round,
   highest_no_endorse        |-> [round |-> current_round, tip |-> Genesis],
   highest_propose           |-> current_round,
   highest_recovery_request  |-> current_round,
   handled_proposals         |-> {}]

\* Safety::process_certificate: the QC round only rises, and a tip it reaches
\* is dropped.
SafetyProcessCertificate(s, cert) ==
  LET qr == IF cert.high_extend.qc.round > s.high_certificate_qc_round
            THEN cert.high_extend.qc.round
            ELSE s.high_certificate_qc_round
      keep == s.maybe_high_tip # None /\ BlockRound[s.maybe_high_tip] > qr
  IN  [s EXCEPT !.high_certificate_qc_round = qr,
                !.maybe_high_tip = IF keep THEN @ ELSE None]

\* Fault: a second vote in the round.
Bad_vote_twice(s, round, last_round_tc_tip) == round >= s.highest_vote

\* Safety::is_safe_to_vote
is_safe_to_vote(s, round, last_round_tc_tip) ==
  /\ round = s.highest_no_endorse.round => last_round_tc_tip = s.highest_no_endorse.tip
  /\ round > s.highest_vote

\* Fault: an older tip is kept.
Bad_vote_keeps_tip(s, round, tip) ==
  [s EXCEPT !.highest_vote = round, !.maybe_high_tip = IF @ = None THEN tip ELSE @]

\* Fault: the tip that is voted for is not remembered.
Bad_vote_forgets_tip(s, round, tip) ==
  [s EXCEPT !.highest_vote = round, !.maybe_high_tip = None]

\* Safety::vote
SafetyVote(s, round, tip) ==
  [s EXCEPT !.highest_vote = round,
            !.maybe_high_tip =
               IF BlockRound[tip] > s.high_certificate_qc_round THEN tip ELSE None]

\* Safety::is_safe_to_no_endorse
is_safe_to_no_endorse(s, round) ==
  round > s.highest_no_endorse.round /\ round > s.highest_vote

\* Fault: the tip is not remembered.
Bad_no_endorse(s, round, tip) ==
  [s EXCEPT !.highest_no_endorse = [round |-> round, tip |-> None]]

\* Safety::no_endorse
SafetyNoEndorse(s, round, tip) ==
  [s EXCEPT !.highest_no_endorse = [round |-> round, tip |-> tip]]

\* Safety::timeout; the assertion is is_safe_to_timeout
is_safe_to_timeout(s, round) == round >= s.highest_vote

\* Fault: a timeout does not end voting in its round.
Bad_timeout(s, round) == s

SafetyTimeout(s, round) == [s EXCEPT !.highest_vote = round]

\* Fault: only a vote ends proposing in a round.
Bad_is_safe_to_propose(s, round) == round > s.highest_vote

\* Safety::is_safe_to_propose
is_safe_to_propose(s, round) == round > s.highest_propose /\ round > s.highest_vote

\* Safety::propose
SafetyPropose(s, round) == [s EXCEPT !.highest_propose = round]

\* Safety::is_safe_to_recovery_request
is_safe_to_recovery_request(s, round) == round > s.highest_recovery_request

\* Safety::recovery_request
SafetyRecoveryRequest(s, round) == [s EXCEPT !.highest_recovery_request = round]

\* Safety::is_safe_to_handle_proposal
is_safe_to_handle_proposal(s, round) == round \notin s.handled_proposals

\* Safety::handle_proposal: the highest HANDLED_PROPOSAL_CACHE_SIZE rounds are
\* kept; one round is added per call, so at most one is evicted.
SafetyHandleProposal(s, round) ==
  LET handled == s.handled_proposals \cup {round} IN
  [s EXCEPT !.handled_proposals =
     IF Cardinality(handled) > HANDLED_PROPOSAL_CACHE_SIZE
     THEN {r \in handled : \E q \in handled : q < r}
     ELSE handled]
=============================================================================
