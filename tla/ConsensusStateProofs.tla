------------------------ MODULE ConsensusStateProofs ------------------------
(***************************************************************************)
(* The handlers of ConsensusState, one node at a time.  They are put       *)
(* together from a few steps.  The first part gives what each step changes *)
(* of a node, the second shows that a set of node states that is closed    *)
(* under the steps is closed under every handler, the third that every     *)
(* step preserves NodeInv, and the last that every handler does.           *)
(***************************************************************************)
EXTENDS ConsensusState, TLAPS

-----------------------------------------------------------------------------
(* What the steps of the handlers change *)

\* A QC of the current round or a later one is processed.
EnterQc(ns, qc) ==
  LET x == PacemakerProcessCertificate(ns, QcCert(qc)) IN
  [x EXCEPT !.no_endorsement_state = start_new_round(@, get_current_round(x))]

Handled(ns, p) == [ns EXCEPT !.safety = SafetyHandleProposal(@, p.proposal_round)]

\* A no-endorsement certificate is built.
Built(ns, ne) ==
  [ns EXCEPT !.no_endorsement_state =
     [earliest_round |-> ne.round + 1, certificates |-> @.certificates \cup {ne}]]

\* A supermajority of no-endorsements is complete: there must not be a
\* certificate of the round yet.
Collected(ns, ne) ==
  IF \E c \in ns.no_endorsement_state.certificates : c.round = ne.round THEN Panic(ns) ELSE Built(ns, ne)

VoteFor(r, b) == [round |-> r, id |-> b]

\* What votes and timeouts depend on is the same.
SameVoter(y, x) ==
  /\ x.high_certificate = y.high_certificate
  /\ x.safety.maybe_high_tip = y.safety.maybe_high_tip
  /\ x.safety.high_certificate_qc_round = y.safety.high_certificate_qc_round
  /\ x.safety.highest_vote = y.safety.highest_vote
  /\ x.votes = y.votes /\ x.timeouts = y.timeouts

\* What a leader depends on is the same.
SameLeader(y, x) ==
  /\ x.proposals = y.proposals /\ x.recoveries = y.recoveries
  /\ x.no_endorsement_state = y.no_endorsement_state
  /\ x.safety.highest_propose = y.safety.highest_propose

Proposes(y, x, p) ==
  /\ x \in NodeState /\ SameVoter(y, x) /\ x.panicked = y.panicked
  /\ x.no_endorsements = y.no_endorsements /\ x.recoveries = y.recoveries
  /\ x.no_endorsement_state = y.no_endorsement_state
  /\ p \in ProposalMessage /\ x.proposals = y.proposals \cup {p}
  /\ x.safety.highest_propose = p.proposal_round

Requests(y, x, tc) ==
  /\ x \in NodeState /\ SameVoter(y, x) /\ x.panicked = y.panicked
  /\ x.no_endorsements = y.no_endorsements /\ x.proposals = y.proposals
  /\ x.no_endorsement_state = y.no_endorsement_state
  /\ x.recoveries = y.recoveries \cup {tc}
  /\ x.safety.highest_propose = y.safety.highest_propose

Marks(y, x) ==
  /\ x \in NodeState /\ SameVoter(y, x) /\ SameLeader(y, x)
  /\ x.no_endorsements = y.no_endorsements

Collects(y, x, ne) ==
  /\ x \in NodeState /\ SameVoter(y, x)
  /\ x.no_endorsements = y.no_endorsements
  /\ x.proposals = y.proposals /\ x.recoveries = y.recoveries
  /\ x.safety.highest_propose = y.safety.highest_propose
  /\ x.no_endorsement_state.certificates \subseteq y.no_endorsement_state.certificates \cup {ne}

TimesOut(y, x, m) ==
  LET r    == get_current_round(y)
      tip  == y.safety.maybe_high_tip
      cert == y.high_certificate
  IN  /\ m \in TimeoutMessage /\ m.round = r /\ m.high_extend.tip = tip
      /\ m.high_extend.qc = IF tip = None THEN cert.high_extend.qc ELSE BlockQc[tip]
      /\ m.last_round_certificate = IF m.high_extend.qc.round + 1 = r THEN None ELSE cert
      /\ x \in NodeState /\ SameLeader(y, x) /\ x.panicked = y.panicked
      /\ x.high_certificate = cert /\ x.no_endorsements = y.no_endorsements
      /\ x.safety.highest_vote = r /\ x.safety.maybe_high_tip = tip
      /\ x.safety.high_certificate_qc_round = y.safety.high_certificate_qc_round
      /\ x.timeouts = y.timeouts \cup {m}
      /\ x.votes = IF tip = None THEN y.votes ELSE y.votes \cup {VoteFor(r, tip)}

Votes(y, x, b) ==
  LET r == get_current_round(y) IN
  /\ y.safety.highest_vote < r
  /\ x \in NodeState /\ SameLeader(y, x) /\ x.panicked = y.panicked
  /\ x.high_certificate = y.high_certificate /\ x.no_endorsements = y.no_endorsements
  /\ x.safety.highest_vote = r /\ x.safety.maybe_high_tip \in {b, None}
  /\ BlockRound[b] > y.safety.high_certificate_qc_round => x.safety.maybe_high_tip = b
  /\ x.safety.high_certificate_qc_round = y.safety.high_certificate_qc_round
  /\ x.timeouts = y.timeouts /\ x.votes = y.votes \cup {VoteFor(r, b)}

DoesNotEndorse(y, x, ne) ==
  /\ x \in NodeState /\ SameVoter(y, x) /\ SameLeader(y, x) /\ x.panicked = y.panicked
  /\ ne \in NoEndorsement /\ x.no_endorsements = y.no_endorsements \cup {ne}

Enters(y, x, cert) ==
  /\ x \in NodeState /\ x.high_certificate = cert /\ x.panicked = y.panicked
  /\ x.safety.highest_vote = y.safety.highest_vote
  /\ x.safety.highest_propose = y.safety.highest_propose
  /\ x.safety.maybe_high_tip \in {y.safety.maybe_high_tip, None}
  /\ x.safety.high_certificate_qc_round
       \in {y.safety.high_certificate_qc_round, cert.high_extend.qc.round}
  /\ x.votes = y.votes /\ x.timeouts = y.timeouts /\ x.no_endorsements = y.no_endorsements
  /\ x.proposals = y.proposals /\ x.recoveries = y.recoveries
  /\ x.no_endorsement_state.certificates \subseteq y.no_endorsement_state.certificates

\* What a node has sent stays sent.
Kept(ns, y) ==
  /\ ns.votes \subseteq y.votes /\ ns.timeouts \subseteq y.timeouts
  /\ ns.no_endorsements \subseteq y.no_endorsements /\ ns.proposals \subseteq y.proposals
  /\ ns.recoveries \subseteq y.recoveries

\* What is used of the order of the rounds.
LEMMA NextRound ==
  ASSUME NEW a \in Nat
  PROVE  a <= a /\ a < a + 1 /\ (a + 1) - 1 = a /\ \A b \in Nat : b < a => b < a + 1
OBVIOUS

LEMMA LaterRound ==
  ASSUME NEW a \in Nat, NEW b \in Nat, NEW c \in Nat, ~ (c < b)
  PROVE  /\ a < b => a < c + 1 /\ a + 1 # c + 1
         /\ a <= b => a <= c + 1
OBVIOUS

LEMMA OrderOfRounds ==
  ASSUME NEW a \in Nat, NEW b \in Nat, NEW c \in Nat, a <= b, b <= c
  PROVE  ~ (c < a) /\ (a < c \/ a = c)
OBVIOUS

\* The types of the fields of a node.
LEMMA StateTypes ==
  ASSUME NEW y \in NodeState
  PROVE  /\ y.high_certificate \in RoundCertificate /\ y.high_certificate.round \in Nat
         /\ y.high_certificate.high_extend.qc.round \in Nat
         /\ get_current_round(y) \in Nat /\ 0 < get_current_round(y)
         /\ y.safety \in SafetyState /\ y.safety.highest_vote \in Nat /\ y.safety.highest_propose \in Nat
         /\ y.safety.high_certificate_qc_round \in Nat
         /\ y.safety.maybe_high_tip \in Block \cup {None}
         /\ y.votes \subseteq Vote /\ y.timeouts \subseteq TimeoutMessage
         /\ y.no_endorsements \subseteq NoEndorsement
         /\ y.proposals \subseteq ProposalMessage /\ y.recoveries \subseteq RoundCertificate
         /\ y.no_endorsement_state \in NoEndorsementState
<1>1. /\ y.high_certificate \in RoundCertificate /\ y.safety \in SafetyState
      /\ y.votes \subseteq Vote /\ y.timeouts \subseteq TimeoutMessage
      /\ y.no_endorsements \subseteq NoEndorsement
      /\ y.proposals \subseteq ProposalMessage /\ y.recoveries \subseteq RoundCertificate
      /\ y.no_endorsement_state \in NoEndorsementState
  BY DEF NodeState
<1> QED BY <1>1 DEF RoundCertificate, HighExtend, QuorumCertificate, SafetyState, get_current_round

LEMMA BlockTypes ==
  ASSUME NEW b \in Block
  PROVE  /\ BlockRound[b] \in Nat /\ 0 < BlockRound[b]
         /\ BlockQc[b] \in QuorumCertificate /\ BlockQc[b].round \in Nat
BY BlockAssumption DEF QuorumCertificate

LEMMA QcCertType ==
  ASSUME NEW qc \in QuorumCertificate
  PROVE  /\ QcCert(qc) \in RoundCertificate /\ WellFormed(QcCert(qc))
         /\ QcCert(qc).round = qc.round /\ QcCert(qc).high_extend.qc = qc
         /\ QcCert(qc).high_extend.tip = None /\ QcCert(qc).kind = "Qc" /\ qc.round \in Nat
BY DEF QuorumCertificate, RoundCertificate, HighExtend, QcCert, ExtendQc, WellFormed

LEMMA PanicEffect ==
  ASSUME NEW y \in NodeState
  PROVE  Marks(y, Panic(y))
<1> DEFINE x == Panic(y)
<1>1. x \in NodeState
  BY ZenonT(30) DEF NodeState, Panic
<1>2. /\ x.high_certificate = y.high_certificate /\ x.safety = y.safety
      /\ x.votes = y.votes /\ x.timeouts = y.timeouts /\ x.no_endorsements = y.no_endorsements
      /\ x.proposals = y.proposals /\ x.recoveries = y.recoveries
      /\ x.no_endorsement_state = y.no_endorsement_state
  BY DEF Panic, NodeState
<1> HIDE DEF x
<1> QED BY <1>1, <1>2 DEF Marks, SameVoter, SameLeader, x

\* Pacemaker::local_timeout_round, where its assertion (safety.rs:173) holds.
LEMMA LocalTimeoutEffect ==
  ASSUME NEW y \in NodeState, y.safety.highest_vote <= get_current_round(y)
  PROVE  TimesOut(y, LocalTimeout(y), TimeoutOf(y))
<1> DEFINE m == TimeoutOf(y)
           r == get_current_round(y)
           tip == y.safety.maybe_high_tip
           cert == y.high_certificate
           he == IF tip = None THEN ExtendQc(cert.high_extend.qc) ELSE ExtendTip(tip)
           x == LocalTimeout(y)
           s == SafetyTimeout(y.safety, m.round)
           votes == IF m.high_extend.tip = None THEN y.votes
                    ELSE y.votes \cup {[round |-> m.round, id |-> m.high_extend.tip]}
<1>1. /\ r \in Nat /\ tip \in Block \cup {None} /\ cert \in RoundCertificate
      /\ y.safety \in SafetyState /\ y.safety.highest_vote \in Nat
      /\ y.votes \subseteq Vote
  BY StateTypes
<1>2. /\ he \in HighExtend /\ he.tip = tip
      /\ he.qc = IF tip = None THEN cert.high_extend.qc ELSE BlockQc[tip]
  BY <1>1, BlockAssumption DEF RoundCertificate, HighExtend, ExtendQc, ExtendTip
<1>3. m = [round |-> r, high_extend |-> he,
           last_round_certificate |-> IF he.qc.round + 1 = r THEN None ELSE cert]
  BY DEF TimeoutOf
<1>4. x = IF ~ is_safe_to_timeout(y.safety, m.round) THEN Panic(y)
          ELSE [y EXCEPT !.safety = s, !.timeouts = y.timeouts \cup {m}, !.votes = votes]
  BY DEF LocalTimeout
<1> HIDE DEF m, he, x
<1>5. /\ m \in TimeoutMessage /\ m.round = r /\ m.high_extend.tip = tip
      /\ m.high_extend.qc = IF tip = None THEN cert.high_extend.qc ELSE BlockQc[tip]
      /\ m.last_round_certificate = IF m.high_extend.qc.round + 1 = r THEN None ELSE cert
  BY <1>1, <1>2, <1>3 DEF TimeoutMessage
<1>6. is_safe_to_timeout(y.safety, m.round)
  BY <1>1, <1>5 DEF is_safe_to_timeout
<1>7. /\ s \in SafetyState /\ s.highest_vote = r /\ s.maybe_high_tip = tip
      /\ s.highest_propose = y.safety.highest_propose
      /\ s.high_certificate_qc_round = y.safety.high_certificate_qc_round
  BY <1>1, <1>5 DEF SafetyState, SafetyTimeout
<1>8. votes = IF tip = None THEN y.votes ELSE y.votes \cup {VoteFor(r, tip)}
  BY <1>5 DEF VoteFor
<1>9. votes \in SUBSET Vote
  BY <1>1, <1>8 DEF Vote, VoteFor
<1> HIDE DEF s, votes
<1>10. x = [y EXCEPT !.safety = s, !.timeouts = y.timeouts \cup {m}, !.votes = votes]
  BY <1>4, <1>6
<1>11. x \in NodeState
  BY ZenonT(30), <1>5, <1>7, <1>9, <1>10 DEF NodeState
<1>12. /\ x.safety = s /\ x.high_certificate = cert /\ x.votes = votes
       /\ x.timeouts = y.timeouts \cup {m} /\ x.proposals = y.proposals
       /\ x.no_endorsements = y.no_endorsements /\ x.recoveries = y.recoveries
       /\ x.no_endorsement_state = y.no_endorsement_state /\ x.panicked = y.panicked
  BY <1>10 DEF NodeState
<1> QED BY <1>5, <1>7, <1>8, <1>11, <1>12 DEF TimesOut, SameLeader, m, x

LEMMA ProposeEffect ==
  ASSUME NEW y \in NodeState, NEW b \in Block, NEW tc \in RoundCertificate \cup {None}
  PROVE  LET p == [proposal_round |-> get_current_round(y), tip |-> b, last_round_tc |-> tc]
         IN  Proposes(y, Propose(y, b, tc), p) /\ p.proposal_round = get_current_round(y)
<1> DEFINE r == get_current_round(y)
           p == [proposal_round |-> r, tip |-> b, last_round_tc |-> tc]
           s == SafetyPropose(y.safety, r)
           x == Propose(y, b, tc)
<1>1. r \in Nat /\ y.safety \in SafetyState
  BY StateTypes
<1>2. p \in ProposalMessage /\ p.proposal_round = r
  BY <1>1 DEF ProposalMessage
<1>3. /\ s \in SafetyState /\ s.highest_vote = y.safety.highest_vote /\ s.highest_propose = r
      /\ s.maybe_high_tip = y.safety.maybe_high_tip
      /\ s.high_certificate_qc_round = y.safety.high_certificate_qc_round
  BY <1>1 DEF SafetyState, SafetyPropose
<1>4. x = [y EXCEPT !.safety = s, !.proposals = y.proposals \cup {p}]
  BY DEF Propose
<1> HIDE DEF p, s, x
<1>5. x \in NodeState
  BY ZenonT(30), <1>2, <1>3, <1>4 DEF NodeState
<1>6. /\ x.safety = s /\ x.high_certificate = y.high_certificate
      /\ x.votes = y.votes /\ x.timeouts = y.timeouts /\ x.proposals = y.proposals \cup {p}
      /\ x.recoveries = y.recoveries /\ x.no_endorsements = y.no_endorsements
      /\ x.no_endorsement_state = y.no_endorsement_state /\ x.panicked = y.panicked
  BY <1>4 DEF NodeState
<1> QED BY <1>2, <1>3, <1>5, <1>6 DEF Proposes, SameVoter, p, x

LEMMA RequestEffect ==
  ASSUME NEW y \in NodeState, NEW tc \in RoundCertificate
  PROVE  Requests(y, RequestRecovery(y, tc), tc)
<1> DEFINE s == SafetyRecoveryRequest(y.safety, get_current_round(y))
           x == RequestRecovery(y, tc)
<1>1. get_current_round(y) \in Nat /\ y.safety \in SafetyState
  BY StateTypes
<1>2. /\ s \in SafetyState /\ s.highest_vote = y.safety.highest_vote
      /\ s.highest_propose = y.safety.highest_propose
      /\ s.maybe_high_tip = y.safety.maybe_high_tip
      /\ s.high_certificate_qc_round = y.safety.high_certificate_qc_round
  BY <1>1 DEF SafetyState, SafetyRecoveryRequest
<1>3. x = [y EXCEPT !.safety = s, !.recoveries = y.recoveries \cup {tc}]
  BY DEF RequestRecovery
<1> HIDE DEF s, x
<1>4. x \in NodeState
  BY ZenonT(30), <1>2, <1>3 DEF NodeState
<1>5. /\ x.safety = s /\ x.high_certificate = y.high_certificate
      /\ x.votes = y.votes /\ x.timeouts = y.timeouts /\ x.proposals = y.proposals
      /\ x.recoveries = y.recoveries \cup {tc} /\ x.no_endorsements = y.no_endorsements
      /\ x.no_endorsement_state = y.no_endorsement_state /\ x.panicked = y.panicked
  BY <1>3 DEF NodeState
<1> QED BY <1>2, <1>4, <1>5 DEF Requests, SameVoter, x

LEMMA HandledEffect ==
  ASSUME NEW y \in NodeState, NEW p \in ProposalMessage
  PROVE  Marks(y, Handled(y, p)) /\ Handled(y, p).panicked = y.panicked
<1> DEFINE s == SafetyHandleProposal(y.safety, p.proposal_round)
           x == Handled(y, p)
<1>1. y.safety \in SafetyState /\ p.proposal_round \in Nat
  BY StateTypes DEF ProposalMessage
<1>2. /\ s \in SafetyState /\ s.highest_vote = y.safety.highest_vote
      /\ s.highest_propose = y.safety.highest_propose
      /\ s.maybe_high_tip = y.safety.maybe_high_tip
      /\ s.high_certificate_qc_round = y.safety.high_certificate_qc_round
  BY <1>1 DEF SafetyState, SafetyHandleProposal
<1>3. x = [y EXCEPT !.safety = s]
  BY DEF Handled
<1> HIDE DEF s, x
<1>4. x \in NodeState
  BY ZenonT(30), <1>2, <1>3 DEF NodeState
<1>5. /\ x.safety = s /\ x.high_certificate = y.high_certificate
      /\ x.votes = y.votes /\ x.timeouts = y.timeouts /\ x.proposals = y.proposals
      /\ x.recoveries = y.recoveries /\ x.no_endorsements = y.no_endorsements
      /\ x.no_endorsement_state = y.no_endorsement_state /\ x.panicked = y.panicked
  BY <1>3 DEF NodeState
<1> QED BY <1>2, <1>4, <1>5 DEF Marks, SameVoter, SameLeader, x

LEMMA BuiltEffect ==
  ASSUME NEW y \in NodeState, NEW ne \in NoEndorsement
  PROVE  LET x == Built(y, ne) IN
         /\ Collects(y, x, ne) /\ x.panicked = y.panicked
         /\ x.no_endorsement_state.earliest_round = ne.round + 1
<1> DEFINE x == Built(y, ne)
           nes == [earliest_round |-> ne.round + 1,
                   certificates |-> y.no_endorsement_state.certificates \cup {ne}]
<1>1. /\ nes \in NoEndorsementState /\ nes.earliest_round = ne.round + 1
      /\ nes.certificates = y.no_endorsement_state.certificates \cup {ne}
  BY StateTypes DEF NoEndorsementState, NoEndorsement
<1>2. x = [y EXCEPT !.no_endorsement_state = nes]
  BY DEF Built
<1> HIDE DEF nes, x
<1>3. x \in NodeState
  BY ZenonT(30), <1>1, <1>2 DEF NodeState
<1>4. /\ x.safety = y.safety /\ x.high_certificate = y.high_certificate
      /\ x.votes = y.votes /\ x.timeouts = y.timeouts /\ x.proposals = y.proposals
      /\ x.recoveries = y.recoveries /\ x.no_endorsements = y.no_endorsements
      /\ x.no_endorsement_state = nes /\ x.panicked = y.panicked
  BY <1>2 DEF NodeState
<1> QED BY <1>1, <1>3, <1>4 DEF Collects, SameVoter, x

LEMMA CollectedEffect ==
  ASSUME NEW y \in NodeState, NEW ne \in NoEndorsement
  PROVE  Collects(y, Collected(y, ne), ne)
<1>1. Collects(y, Panic(y), ne)
  BY PanicEffect DEF Marks, SameLeader, Collects
<1>2. Collects(y, Built(y, ne), ne)
  BY BuiltEffect
<1> QED BY <1>1, <1>2 DEF Collected

LEMMA TryVoteEffect ==
  ASSUME NEW y \in NodeState, NEW p, p.tip \in Block
  PROVE  try_vote(y, p) = y \/ Votes(y, try_vote(y, p), p.tip)
<1> DEFINE r == get_current_round(y)
           s == SafetyVote(y.safety, r, p.tip)
           x == try_vote(y, p)
<1>1. CASE ~ is_safe_to_vote(y.safety, r, TcTip(p.last_round_tc))
  BY <1>1 DEF try_vote
<1>2. CASE is_safe_to_vote(y.safety, r, TcTip(p.last_round_tc))
  <2>1. r \in Nat /\ y.safety \in SafetyState /\ y.safety.highest_vote \in Nat
    BY StateTypes
  <2>2. y.safety.highest_vote < r
    BY <1>2, <2>1 DEF is_safe_to_vote
  <2>3. x = [y EXCEPT !.safety = s, !.votes = y.votes \cup {VoteFor(r, p.tip)}]
    BY <1>2 DEF try_vote, VoteFor
  <2>4. /\ s \in SafetyState /\ s.highest_vote = r /\ s.maybe_high_tip \in {p.tip, None}
        /\ BlockRound[p.tip] > y.safety.high_certificate_qc_round => s.maybe_high_tip = p.tip
        /\ s.highest_propose = y.safety.highest_propose
        /\ s.high_certificate_qc_round = y.safety.high_certificate_qc_round
    BY ZenonT(30), <2>1 DEF SafetyVote, SafetyState
  <2>5. VoteFor(r, p.tip) \in Vote
    BY <2>1 DEF Vote, VoteFor
  <2> HIDE DEF s, x
  <2>6. x \in NodeState
    BY ZenonT(30), <2>3, <2>4, <2>5 DEF NodeState
  <2>7. /\ x.safety = s /\ x.high_certificate = y.high_certificate
        /\ x.votes = y.votes \cup {VoteFor(r, p.tip)} /\ x.timeouts = y.timeouts
        /\ x.proposals = y.proposals /\ x.no_endorsements = y.no_endorsements
        /\ x.recoveries = y.recoveries
        /\ x.no_endorsement_state = y.no_endorsement_state /\ x.panicked = y.panicked
    BY <2>3 DEF NodeState
  <2> QED BY <2>2, <2>4, <2>6, <2>7 DEF Votes, SameLeader, x
<1> QED BY <1>1, <1>2

LEMMA NoEndorseEffect ==
  ASSUME NEW y \in NodeState, NEW tip \in Block
  PROVE  LET ne == [round |-> get_current_round(y), tip_qc_round |-> BlockQc[tip].round]
         IN  /\ DoesNotEndorse(y, no_endorse(y, tip), ne)
             /\ ne.round = get_current_round(y) /\ ne.tip_qc_round = BlockQc[tip].round
<1> DEFINE r  == get_current_round(y)
           ne == [round |-> r, tip_qc_round |-> BlockQc[tip].round]
           s  == SafetyNoEndorse(y.safety, r, tip)
           x  == no_endorse(y, tip)
<1>1. r \in Nat /\ y.safety \in SafetyState
  BY StateTypes
<1>2. ne \in NoEndorsement /\ ne.round = r /\ ne.tip_qc_round = BlockQc[tip].round
  BY <1>1, BlockTypes DEF NoEndorsement
<1>3. /\ s \in SafetyState /\ s.highest_vote = y.safety.highest_vote
      /\ s.highest_propose = y.safety.highest_propose
      /\ s.maybe_high_tip = y.safety.maybe_high_tip
      /\ s.high_certificate_qc_round = y.safety.high_certificate_qc_round
  BY <1>1 DEF SafetyState, HighNoEndorse, SafetyNoEndorse
<1>4. x = [y EXCEPT !.safety = s, !.no_endorsements = y.no_endorsements \cup {ne}]
  BY DEF no_endorse
<1> HIDE DEF ne, s, x
<1>5. x \in NodeState
  BY ZenonT(30), <1>2, <1>3, <1>4 DEF NodeState
<1>6. /\ x.safety = s /\ x.high_certificate = y.high_certificate
      /\ x.votes = y.votes /\ x.timeouts = y.timeouts /\ x.proposals = y.proposals
      /\ x.no_endorsements = y.no_endorsements \cup {ne} /\ x.recoveries = y.recoveries
      /\ x.no_endorsement_state = y.no_endorsement_state /\ x.panicked = y.panicked
  BY <1>4 DEF NodeState
<1> QED BY <1>2, <1>3, <1>5, <1>6 DEF DoesNotEndorse, SameVoter, SameLeader, ne, x

\* Pacemaker::process_certificate with a certificate of the current round or a
\* later one.
LEMMA EnterEffect ==
  ASSUME NEW y \in NodeState, NEW cert \in RoundCertificate, ~ (cert.round < get_current_round(y))
  PROVE  /\ Enters(y, PacemakerProcessCertificate(y, cert), cert)
         /\ PacemakerProcessCertificate(y, cert).no_endorsement_state = y.no_endorsement_state
<1> DEFINE x == PacemakerProcessCertificate(y, cert)
           s == SafetyProcessCertificate(y.safety, cert)
<1>1. /\ cert.round \in Nat /\ cert.high_extend.qc.round \in Nat /\ y.high_certificate.round \in Nat
      /\ y.safety \in SafetyState
  BY StateTypes DEF RoundCertificate, HighExtend, QuorumCertificate
<1>2. x = [y EXCEPT !.safety = s, !.high_certificate = cert]
  BY <1>1 DEF PacemakerProcessCertificate, get_current_round
<1>3. /\ s \in SafetyState
      /\ s.highest_vote = y.safety.highest_vote /\ s.highest_propose = y.safety.highest_propose
      /\ s.maybe_high_tip \in {y.safety.maybe_high_tip, None}
      /\ s.high_certificate_qc_round
           \in {y.safety.high_certificate_qc_round, cert.high_extend.qc.round}
  BY ZenonT(30), <1>1 DEF SafetyProcessCertificate, SafetyState
<1> HIDE DEF s, x
<1>4. x \in NodeState
  BY ZenonT(30), <1>2, <1>3 DEF NodeState
<1>5. /\ x.safety = s /\ x.high_certificate = cert
      /\ x.votes = y.votes /\ x.timeouts = y.timeouts /\ x.proposals = y.proposals
      /\ x.no_endorsements = y.no_endorsements /\ x.recoveries = y.recoveries
      /\ x.no_endorsement_state = y.no_endorsement_state /\ x.panicked = y.panicked
  BY <1>2 DEF NodeState
<1> QED BY <1>3, <1>4, <1>5 DEF Enters, x

LEMMA EnterQcEffect ==
  ASSUME NEW y \in NodeState, NEW qc \in QuorumCertificate, ~ (qc.round < get_current_round(y))
  PROVE  Enters(y, EnterQc(y, qc), QcCert(qc))
<1> DEFINE w == PacemakerProcessCertificate(y, QcCert(qc))
           nes == start_new_round(w.no_endorsement_state, get_current_round(w))
           x == EnterQc(y, qc)
<1>1. Enters(y, w, QcCert(qc)) /\ w.no_endorsement_state = y.no_endorsement_state
  BY QcCertType, EnterEffect
<1>2. x = [w EXCEPT !.no_endorsement_state = nes]
  BY DEF EnterQc
<1> HIDE DEF w, x
<1>3. w \in NodeState /\ get_current_round(w) \in Nat
  BY <1>1, StateTypes DEF Enters
<1>4. nes \in NoEndorsementState /\ nes.certificates \subseteq y.no_endorsement_state.certificates
  BY <1>1, <1>3 DEF NodeState, NoEndorsementState, start_new_round
<1> HIDE DEF nes
<1>5. x \in NodeState
  BY ZenonT(30), <1>2, <1>3, <1>4 DEF NodeState
<1>6. /\ x.safety = w.safety /\ x.high_certificate = w.high_certificate
      /\ x.votes = w.votes /\ x.timeouts = w.timeouts /\ x.proposals = w.proposals
      /\ x.no_endorsements = w.no_endorsements /\ x.recoveries = w.recoveries
      /\ x.no_endorsement_state = nes /\ x.panicked = w.panicked
  BY <1>2, <1>3 DEF NodeState
<1> QED BY <1>1, <1>4, <1>5, <1>6 DEF Enters, x

-----------------------------------------------------------------------------
(* Sets of states that are closed under the steps *)

\* The certificate, if there is one, is a QC in qcs or a TC in tcs.
Known(cert, qcs, tcs) ==
  cert # None => IF cert.kind = "Qc" THEN cert.high_extend.qc \in qcs ELSE cert \in tcs

\* S is closed under the steps that node n may take when it processes the QCs
\* in qcs, the TCs in tcs and the proposals in props, answers the recovery
\* requests in recs and collects the no-endorsements in nes.
Closed(S, n, qcs, tcs, props, recs, nes) ==
  /\ \A y \in S : LocalTimeout(y) \in S
  /\ \A y \in S : try_propose(n, y) \subseteq S
  /\ \A y \in S, qc \in qcs : ~ (qc.round < get_current_round(y)) => EnterQc(y, qc) \in S
  /\ \A y \in S, tc \in tcs :
       ~ (tc.round < get_current_round(y)) => PacemakerProcessCertificate(y, tc) \in S
  /\ \A y \in S, p \in props : Handled(y, p) \in S
  /\ \A y \in S, p \in props : p.proposal_round = get_current_round(y) => try_vote(y, p) \in S
  /\ \A y \in S, tc \in recs :
       tc.round + 1 = get_current_round(y) => no_endorse(y, tc.high_extend.tip) \in S
  /\ \A y \in S, ne \in nes :
       ~ (ne.round < get_current_round(y)) /\ ~ (ne.round < y.no_endorsement_state.earliest_round)
         => Collected(y, ne) \in S

LEMMA ClosedQc ==
  ASSUME NEW S, NEW n, NEW qcs, NEW tcs, NEW props, NEW recs, NEW nes,
         Closed(S, n, qcs, tcs, props, recs, nes), NEW y \in S, NEW qc \in qcs
  PROVE  process_qc(n, y, qc) \subseteq S
<1>1. CASE qc.round < get_current_round(y)
  BY <1>1 DEF process_qc
<1>2. CASE ~ (qc.round < get_current_round(y))
  <2>1. process_qc(n, y, qc) = try_propose(n, EnterQc(y, qc))
    BY <1>2 DEF process_qc, EnterQc
  <2>2. EnterQc(y, qc) \in S
    BY <1>2 DEF Closed
  <2> QED BY <2>1, <2>2 DEF Closed
<1> QED BY <1>1, <1>2

LEMMA ClosedTc ==
  ASSUME NEW S, NEW n, NEW qcs, NEW tcs, NEW props, NEW recs, NEW nes,
         Closed(S, n, qcs, tcs, props, recs, nes), NEW y \in S, NEW tc \in tcs
  PROVE  process_tc(n, y, tc) \subseteq S
<1>1. CASE tc.round < get_current_round(y)
  BY <1>1 DEF process_tc
<1>2. CASE ~ (tc.round < get_current_round(y))
  <2>1. process_tc(n, y, tc) = try_propose(n, PacemakerProcessCertificate(y, tc))
    BY <1>2 DEF process_tc
  <2>2. PacemakerProcessCertificate(y, tc) \in S
    BY <1>2 DEF Closed
  <2> QED BY <2>1, <2>2 DEF Closed
<1> QED BY <1>1, <1>2

LEMMA ClosedOptional ==
  ASSUME NEW S, NEW n, NEW qcs, NEW tcs, NEW props, NEW recs, NEW nes,
         Closed(S, n, qcs, tcs, props, recs, nes), NEW y \in S, NEW cert,
         Known(cert, qcs, tcs)
  PROVE  process_optional(n, y, cert) \subseteq S
BY ClosedQc, ClosedTc DEF process_optional, Known

LEMMA ClosedVote ==
  ASSUME NEW S, NEW n, NEW qcs, NEW tcs, NEW props, NEW recs, NEW nes,
         Closed(S, n, qcs, tcs, props, recs, nes), NEW y \in S, NEW round, NEW formed \in SUBSET qcs
  PROVE  handle_vote_message(n, y, round, formed) \subseteq S
<1>1. \A qc \in formed : process_qc(n, y, qc) \subseteq S
  BY ClosedQc
<1>2. \A qc \in formed : UNION {try_propose(n, x) : x \in process_qc(n, y, qc)} \subseteq S
  BY <1>1 DEF Closed
<1> QED BY <1>2 DEF handle_vote_message

LEMMA ClosedProposal ==
  ASSUME NEW S, NEW n, NEW qcs, NEW tcs, NEW props, NEW recs, NEW nes,
         Closed(S, n, qcs, tcs, props, recs, nes), NEW y \in S, NEW p \in props, NEW author,
         BlockQc[p.tip] \in qcs,
         Known(p.last_round_tc, qcs, tcs)
  PROVE  handle_proposal_message(n, y, author, p) \subseteq S
<1> DEFINE afterQc == process_qc(n, y, BlockQc[p.tip])
           afterTc == UNION {process_optional(n, x, p.last_round_tc) : x \in afterQc}
<1>1. afterQc \subseteq S
  BY ClosedQc
<1> HIDE DEF afterQc
<1>2. \A x \in afterQc : process_optional(n, x, p.last_round_tc) \subseteq S
  BY <1>1, ClosedOptional
<1>3. afterTc \subseteq S
  BY <1>2
<1> HIDE DEF afterTc
<1>4. ASSUME NEW x \in S PROVE accept_proposal(n, x, author, p) \subseteq S
  <2>1. Handled(x, p) \in S
    BY DEF Closed
  <2> DEFINE h == Handled(x, p)
             voted == IF p.proposal_round = get_current_round(h) THEN {try_vote(h, p)} ELSE {}
  <2>2. voted \subseteq S
    BY <2>1 DEF Closed
  <2> HIDE DEF voted
  <2>3. \A z \in {h} \cup voted : try_propose(n, z) \subseteq S
    BY <2>1, <2>2 DEF Closed
  <2>4. try_add_and_vote(n, h, p) = UNION {try_propose(n, z) : z \in {h} \cup voted}
    BY DEF try_add_and_vote, voted
  <2>5. accept_proposal(n, x, author, p) \subseteq {x} \cup {h} \cup try_add_and_vote(n, h, p)
    BY DEF accept_proposal, Handled
  <2> HIDE DEF h
  <2> QED BY <2>1, <2>3, <2>4, <2>5 DEF h
<1> QED BY <1>3, <1>4 DEF handle_proposal_message, afterTc, afterQc

LEMMA ClosedRecovery ==
  ASSUME NEW S, NEW n, NEW qcs, NEW tcs, NEW props, NEW recs, NEW nes,
         Closed(S, n, qcs, tcs, props, recs, nes), NEW y \in S, NEW author,
         NEW tc, tc \in tcs, tc \in recs
  PROVE  handle_round_recovery_message(n, y, author, tc) \subseteq S
<1> DEFINE Respond(x) ==
             IF /\ tc.round + 1 = get_current_round(x)
                /\ author = Leader[get_current_round(x)]
                /\ is_safe_to_no_endorse(x.safety, tc.round + 1)
             THEN {x, no_endorse(x, tc.high_extend.tip)}
             ELSE {x}
<1>1. process_tc(n, y, tc) \subseteq S
  BY ClosedTc
<1>2. ASSUME NEW x \in S PROVE Respond(x) \subseteq S
  BY DEF Closed
<1>3. handle_round_recovery_message(n, y, author, tc) = UNION {Respond(x) : x \in process_tc(n, y, tc)}
  BY DEF handle_round_recovery_message
<1> QED BY <1>1, <1>2, <1>3

LEMMA ClosedNoEndorsement ==
  ASSUME NEW S, NEW n, NEW qcs, NEW tcs, NEW props, NEW recs, NEW nes,
         Closed(S, n, qcs, tcs, props, recs, nes), NEW y \in S, NEW ne \in nes
  PROVE  handle_no_endorsement_message(n, y, ne) \subseteq S
<1> DEFINE late == ne.round < get_current_round(y) \/ ne.round < y.no_endorsement_state.earliest_round
<1>1. CASE late
  BY <1>1 DEF handle_no_endorsement_message
<1>2. CASE ~ late
  <2>1. handle_no_endorsement_message(n, y, ne) \subseteq {Collected(y, ne)} \cup try_propose(n, Collected(y, ne))
    BY <1>2 DEF handle_no_endorsement_message, Collected, Built
  <2>2. Collected(y, ne) \in S
    BY <1>2 DEF Closed
  <2> QED BY <2>1, <2>2 DEF Closed
<1> QED BY <1>1, <1>2

\* Pacemaker::process_remote_timeout, where its assertion (pacemaker.rs:313)
\* holds.
LEMMA ClosedRemoteTimeout ==
  ASSUME NEW S, NEW n, NEW qcs, NEW tcs, NEW props, NEW recs, NEW nes,
         Closed(S, n, qcs, tcs, props, recs, nes), NEW y \in S, y.high_certificate.round \in Nat,
         NEW t, t.round \in Nat, t.round <= get_current_round(y),
         NEW honest, NEW formed \in SUBSET tcs, \A tc \in formed : tc.round = t.round
  PROVE  RemoteTimeout(y, t, honest, formed) \subseteq S
<1>1. CASE t.round < get_current_round(y)
  BY <1>1 DEF RemoteTimeout, get_current_round
<1>2. CASE t.round = get_current_round(y)
  <2> DEFINE amplified == {y} \cup (IF honest /\ ~ TimedOut(y) THEN {LocalTimeout(y)} ELSE {})
             certified(x) == {PacemakerProcessCertificate(x, tc) : tc \in formed}
  <2>1. RemoteTimeout(y, t, honest, formed)
          = amplified \cup UNION {certified(x) : x \in {w \in amplified : TimedOut(w)}}
    <3>1. ~ (t.round < get_current_round(y)) /\ ~ (t.round > get_current_round(y))
      BY <1>2
    <3> QED BY <3>1 DEF RemoteTimeout
  <2>2. \A x \in amplified : x \in S /\ x.high_certificate.round = y.high_certificate.round
    <3>1. LocalTimeout(y) \in S
      BY DEF Closed
    <3>2. LocalTimeout(y).high_certificate = y.high_certificate
      BY DEF LocalTimeout, Panic
    <3> QED BY <3>1, <3>2
  <2> HIDE DEF amplified
  <2>3. ASSUME NEW x \in amplified, NEW tc \in formed PROVE PacemakerProcessCertificate(x, tc) \in S
    <3>1. ~ (tc.round < get_current_round(x))
      BY <1>2, <2>2 DEF get_current_round
    <3> QED BY <2>2, <3>1 DEF Closed
  <2>4. \A x \in amplified : certified(x) \subseteq S
    BY <2>3
  <2> QED BY <2>1, <2>2, <2>4
<1> QED BY <1>1, <1>2 DEF get_current_round

\* No step takes a node back to an earlier round.
LEMMA ClosedAbove ==
  ASSUME NEW S \in SUBSET NodeState, NEW n, NEW qcs \in SUBSET QuorumCertificate,
         NEW tcs \in SUBSET RoundCertificate, NEW props, NEW recs, NEW nes,
         Closed(S, n, qcs, tcs, props, recs, nes), NEW k \in Nat
  PROVE  Closed({y \in S : k < get_current_round(y)}, n, qcs, tcs, props, recs, nes)
<1> DEFINE A == {y \in S : k < get_current_round(y)}
<1>1. ASSUME NEW y \in A, NEW x \in S, x.high_certificate = y.high_certificate
      PROVE  x \in A
  BY <1>1 DEF get_current_round
<1>2. ASSUME NEW y \in A, NEW x \in S, NEW cert \in RoundCertificate,
             x.high_certificate = cert, ~ (cert.round < get_current_round(y))
      PROVE  x \in A
  <2>1. y \in NodeState /\ get_current_round(y) \in Nat /\ cert.round \in Nat /\ k < get_current_round(y)
    BY StateTypes DEF RoundCertificate
  <2>2. k < get_current_round(x)
    BY <1>2, <2>1 DEF get_current_round
  <2> QED BY <2>2
<1>3. A \subseteq S /\ A \subseteq NodeState
  OBVIOUS
<1> HIDE DEF A
<1>4. \A y \in A : LocalTimeout(y) \in A
  <2> SUFFICES ASSUME NEW y \in A PROVE LocalTimeout(y) \in A
    OBVIOUS
  <2>1. LocalTimeout(y).high_certificate = y.high_certificate
    BY DEF LocalTimeout, Panic
  <2>2. LocalTimeout(y) \in S
    BY <1>3 DEF Closed
  <2> QED BY <1>1, <2>1, <2>2
<1>5. ASSUME NEW y \in A, NEW x \in try_propose(n, y) PROVE x \in A
  <2>1. x.high_certificate = y.high_certificate
    <3> DEFINE tc == IF y.high_certificate.kind = "Tc" THEN y.high_certificate ELSE None
    <3>1. \/ x = y \/ x = RequestRecovery(y, tc) \/ \E b : x = Propose(y, b, tc)
      BY ZenonT(30) DEF try_propose
    <3>2. RequestRecovery(y, tc).high_certificate = y.high_certificate
      BY DEF RequestRecovery
    <3>3. \A b : Propose(y, b, tc).high_certificate = y.high_certificate
      BY DEF Propose
    <3> HIDE DEF tc
    <3> QED BY <3>1, <3>2, <3>3
  <2>2. x \in S
    BY <1>3 DEF Closed
  <2> QED BY <1>1, <2>1, <2>2
<1>6. ASSUME NEW y \in A, NEW qc \in qcs, ~ (qc.round < get_current_round(y))
      PROVE  EnterQc(y, qc) \in A
  <2>1. EnterQc(y, qc).high_certificate = QcCert(qc)
    BY <1>3, <1>6, EnterQcEffect DEF Enters
  <2>2. EnterQc(y, qc) \in S
    BY <1>3, <1>6 DEF Closed
  <2>3. QcCert(qc) \in RoundCertificate /\ QcCert(qc).round = qc.round
    BY QcCertType
  <2> QED BY <1>2, <1>6, <2>1, <2>2, <2>3
<1>7. ASSUME NEW y \in A, NEW tc \in tcs, ~ (tc.round < get_current_round(y))
      PROVE  PacemakerProcessCertificate(y, tc) \in A
  <2>1. PacemakerProcessCertificate(y, tc).high_certificate = tc
    BY <1>3, <1>7, EnterEffect DEF Enters
  <2>2. PacemakerProcessCertificate(y, tc) \in S
    BY <1>3, <1>7 DEF Closed
  <2> QED BY <1>2, <1>7, <2>1, <2>2
<1>8. ASSUME NEW y \in A, NEW p \in props PROVE Handled(y, p) \in A
  <2>1. Handled(y, p).high_certificate = y.high_certificate
    BY DEF Handled
  <2>2. Handled(y, p) \in S
    BY <1>3 DEF Closed
  <2> QED BY <1>1, <2>1, <2>2
<1>9. ASSUME NEW y \in A, NEW p \in props, p.proposal_round = get_current_round(y)
      PROVE  try_vote(y, p) \in A
  <2>1. try_vote(y, p).high_certificate = y.high_certificate
    BY DEF try_vote
  <2>2. try_vote(y, p) \in S
    BY <1>3, <1>9 DEF Closed
  <2> QED BY <1>1, <2>1, <2>2
<1>10. ASSUME NEW y \in A, NEW tc \in recs, tc.round + 1 = get_current_round(y)
       PROVE  no_endorse(y, tc.high_extend.tip) \in A
  <2>1. no_endorse(y, tc.high_extend.tip).high_certificate = y.high_certificate
    BY DEF no_endorse
  <2>2. no_endorse(y, tc.high_extend.tip) \in S
    BY <1>3, <1>10 DEF Closed
  <2> QED BY <1>1, <2>1, <2>2
<1>11. ASSUME NEW y \in A, NEW ne \in nes, ~ (ne.round < get_current_round(y)),
              ~ (ne.round < y.no_endorsement_state.earliest_round)
       PROVE  Collected(y, ne) \in A
  <2>1. Collected(y, ne).high_certificate = y.high_certificate
    BY DEF Collected, Built, Panic
  <2>2. Collected(y, ne) \in S
    BY <1>3, <1>11 DEF Closed
  <2> QED BY <1>1, <2>1, <2>2
<1>12. Closed(A, n, qcs, tcs, props, recs, nes)
  BY <1>4, <1>5, <1>6, <1>7, <1>8, <1>9, <1>10, <1>11 DEF Closed
<1> QED BY <1>12 DEF A

\* A processed certificate takes the node above its round.
LEMMA QcAbove ==
  ASSUME NEW S \in SUBSET NodeState, NEW n, NEW qcs \in SUBSET QuorumCertificate,
         NEW tcs \in SUBSET RoundCertificate, NEW props, NEW recs, NEW nes,
         Closed(S, n, qcs, tcs, props, recs, nes), NEW y \in S, NEW qc \in qcs
  PROVE  process_qc(n, y, qc) \subseteq {x \in S : qc.round < get_current_round(x)}
<1> DEFINE A == {x \in S : qc.round < get_current_round(x)}
<1>1. QcCert(qc).round = qc.round /\ qc.round \in Nat
  BY QcCertType
<1>2. CASE qc.round < get_current_round(y)
  BY <1>2 DEF process_qc
<1>3. CASE ~ (qc.round < get_current_round(y))
  <2>1. process_qc(n, y, qc) = try_propose(n, EnterQc(y, qc))
    BY <1>3 DEF process_qc, EnterQc
  <2>2. EnterQc(y, qc) \in S /\ EnterQc(y, qc).high_certificate = QcCert(qc)
    BY <1>3, EnterQcEffect DEF Closed, Enters
  <2>3. EnterQc(y, qc) \in A
    BY <1>1, <2>2 DEF get_current_round
  <2>4. Closed(A, n, qcs, tcs, props, recs, nes)
    BY <1>1, ClosedAbove
  <2> HIDE DEF A
  <2>5. try_propose(n, EnterQc(y, qc)) \subseteq A
    BY <2>3, <2>4 DEF Closed
  <2> QED BY <2>1, <2>5 DEF A
<1> QED BY <1>2, <1>3

LEMMA TcAbove ==
  ASSUME NEW S \in SUBSET NodeState, NEW n, NEW qcs \in SUBSET QuorumCertificate,
         NEW tcs \in SUBSET RoundCertificate, NEW props, NEW recs, NEW nes,
         Closed(S, n, qcs, tcs, props, recs, nes), NEW y \in S, NEW tc \in tcs
  PROVE  process_tc(n, y, tc) \subseteq {x \in S : tc.round < get_current_round(x)}
<1> DEFINE A == {x \in S : tc.round < get_current_round(x)}
           w == PacemakerProcessCertificate(y, tc)
<1>1. tc.round \in Nat
  BY DEF RoundCertificate
<1>2. CASE tc.round < get_current_round(y)
  BY <1>2 DEF process_tc
<1>3. CASE ~ (tc.round < get_current_round(y))
  <2>1. process_tc(n, y, tc) = try_propose(n, w)
    BY <1>3 DEF process_tc
  <2>2. w \in S /\ w.high_certificate = tc
    BY <1>3, EnterEffect DEF Closed, Enters
  <2> HIDE DEF w
  <2>3. w \in A
    BY <1>1, <2>2 DEF get_current_round
  <2>4. Closed(A, n, qcs, tcs, props, recs, nes)
    BY <1>1, ClosedAbove
  <2> HIDE DEF A
  <2>5. try_propose(n, w) \subseteq A
    BY <2>3, <2>4 DEF Closed
  <2> QED BY <2>1, <2>5 DEF A
<1> QED BY <1>2, <1>3

\* A timeout that passes well_formed_timeout: the certificate it comes with is
\* of the round before its own.
Accompanied(t) ==
  IF t.last_round_certificate = None THEN t.round = t.high_extend.qc.round + 1
  ELSE WellFormed(t.last_round_certificate) /\ t.round = t.last_round_certificate.round + 1

\* By the time a timeout is collected, the node is at least in its round.
LEMMA ClosedTimeout ==
  ASSUME NEW S \in SUBSET NodeState, NEW n, NEW qcs \in SUBSET QuorumCertificate,
         NEW tcs \in SUBSET RoundCertificate, NEW props, NEW recs, NEW nes,
         Closed(S, n, qcs, tcs, props, recs, nes), NEW y \in S,
         NEW t, t.round \in Nat, t.high_extend.qc \in qcs, Accompanied(t),
         NEW honest, NEW fqcs \in SUBSET qcs, NEW ftcs \in SUBSET tcs,
         \A tc \in ftcs : tc.round = t.round, Known(t.last_round_certificate, qcs, tcs)
  PROVE  handle_timeout_message(n, y, t, fqcs, honest, ftcs) \subseteq S
<1> DEFINE qc        == t.high_extend.qc
           rc        == t.last_round_certificate
           A         == {x \in S : qc.round < get_current_round(x)}
           afterQc   == process_qc(n, y, qc)
           afterVote == IF t.high_extend.tip = None THEN afterQc
                        ELSE UNION {handle_vote_message(n, x, t.round, fqcs) : x \in afterQc}
           afterRc   == UNION {process_optional(n, x, rc) : x \in afterVote}
           collected == UNION {RemoteTimeout(x, t, honest, ftcs) : x \in afterRc}
<1>1. qc.round \in Nat
  BY DEF QuorumCertificate
<1>2. afterQc \subseteq A
  BY QcAbove
<1>3. Closed(A, n, qcs, tcs, props, recs, nes) /\ A \subseteq S
  BY <1>1, ClosedAbove
<1>4. handle_timeout_message(n, y, t, fqcs, honest, ftcs)
        \subseteq {y} \cup UNION {try_propose(n, x) : x \in collected}
  BY DEF handle_timeout_message
<1> HIDE DEF afterQc, A
<1>5. \A x \in afterQc : handle_vote_message(n, x, t.round, fqcs) \subseteq A
  BY <1>2, <1>3, ClosedVote
<1>6. afterVote \subseteq A
  BY <1>2, <1>5
<1> HIDE DEF afterVote
<1>7. ASSUME NEW x \in afterVote, NEW z \in process_optional(n, x, rc)
      PROVE  z \in S /\ t.round <= get_current_round(z)
  <2>1. x \in A /\ x \in S
    BY <1>3, <1>6
  <2>2. CASE rc = None
    <3>1. z = x /\ t.round = qc.round + 1
      BY <1>7, <2>2 DEF process_optional, Accompanied
    <3>2. qc.round < get_current_round(x) /\ get_current_round(x) \in Nat
      BY <2>1, StateTypes DEF A
    <3> QED BY <1>1, <2>1, <3>1, <3>2
  <2>3. CASE rc # None
    <3>1. z \in S /\ rc.round < get_current_round(z)
      <4>1. CASE rc.kind = "Qc"
        <5>1. rc.high_extend.qc \in qcs /\ rc.round = rc.high_extend.qc.round
          BY <2>3, <4>1 DEF Known, Accompanied, WellFormed, QcCert
        <5>2. z \in process_qc(n, x, rc.high_extend.qc)
          BY <1>7, <2>3, <4>1 DEF process_optional
        <5> QED BY <2>1, <5>1, <5>2, QcAbove
      <4>2. CASE rc.kind # "Qc"
        <5>1. rc \in tcs /\ z \in process_tc(n, x, rc)
          BY <1>7, <2>3, <4>2 DEF Known, process_optional
        <5> QED BY <2>1, <5>1, TcAbove
      <4> QED BY <4>1, <4>2
    <3>2. t.round = rc.round + 1
      BY <2>3 DEF Accompanied
    <3>3. rc.round \in Nat
      BY <2>3 DEF Known, Accompanied, WellFormed, QcCert, QuorumCertificate, RoundCertificate
    <3>4. get_current_round(z) \in Nat
      BY <3>1, StateTypes
    <3> QED BY <3>1, <3>2, <3>3, <3>4
  <2> QED BY <2>2, <2>3
<1>8. ASSUME NEW x \in afterRc PROVE RemoteTimeout(x, t, honest, ftcs) \subseteq S
  <2>1. x \in S /\ t.round <= get_current_round(x)
    BY <1>7
  <2>2. x.high_certificate.round \in Nat
    BY <2>1, StateTypes
  <2> QED BY <2>1, <2>2, ClosedRemoteTimeout
<1> HIDE DEF afterRc
<1>9. collected \subseteq S
  BY <1>8
<1> HIDE DEF collected
<1>10. \A x \in collected : try_propose(n, x) \subseteq S
  BY <1>9 DEF Closed
<1> QED BY <1>4, <1>10

-----------------------------------------------------------------------------
(* The steps preserve NodeInv *)

\* A handler leads from ns only to states that satisfy the invariant and come
\* after ns.
Preserves(ns, after, R) == \A x \in after : NodeInv(x) /\ Grows(ns, x, R)

LEMMA GrowsReflexive ==
  ASSUME NEW ns, NodeInv(ns), NEW R
  PROVE  Grows(ns, ns, R)
BY DEF Grows, NodeInv, NodeState, RoundCertificate, get_current_round

LEMMA GrowsTransitive ==
  ASSUME NEW ns, NEW x, NEW y, NEW R,
         NodeInv(ns), NodeInv(x), NodeInv(y), Grows(ns, x, R), Grows(x, y, R)
  PROVE  Grows(ns, y, R)
<1>1. get_current_round(ns) <= get_current_round(y)
  BY DEF Grows, NodeInv, NodeState, RoundCertificate, get_current_round
<1>2. /\ ns.votes \subseteq y.votes
      /\ ns.timeouts \subseteq y.timeouts
      /\ \A v \in y.votes \ ns.votes : \A t \in ns.timeouts : t.round # v.round
      /\ \A ne \in y.no_endorsements \ ns.no_endorsements : ne.round \in R
  BY DEF Grows
<1> QED BY <1>1, <1>2 DEF Grows

\* A later round is entered.
LEMMA EnterStep ==
  ASSUME NEW ns, NodeInv(ns), NEW cert \in RoundCertificate, WellFormed(cert),
         ~ (cert.round < get_current_round(ns)), NEW x, Enters(ns, x, cert), NEW R
  PROVE  NodeInv(x) /\ Grows(ns, x, R)
<1>1. ns \in NodeState /\ x \in NodeState
  BY DEF NodeInv, Enters
<1>2. /\ get_current_round(ns) \in Nat /\ get_current_round(x) \in Nat
      /\ get_current_round(ns) < get_current_round(x)
  <2>1. cert.round \in Nat /\ get_current_round(ns) \in Nat /\ x.high_certificate = cert
    BY <1>1, StateTypes DEF RoundCertificate, Enters
  <2> QED BY <2>1 DEF get_current_round
<1>3. VoteInv(x)
  BY <1>1, <1>2, StateTypes DEF NodeInv, VoteInv, Vote, Enters
<1>4. TimeoutInv(x)
  <2>1. \A t \in ns.timeouts : t.round \in Nat /\ t.round <= ns.safety.highest_vote
    BY <1>1, StateTypes DEF NodeInv, TimeoutInv, TimeoutMessage
  <2>2. ns.safety.highest_vote \in Nat /\ ns.safety.highest_vote <= get_current_round(ns)
    BY <1>1, StateTypes DEF NodeInv, VoteInv
  <2> QED BY <1>2, <2>1, <2>2 DEF TimeoutInv, Enters
<1>5. ProposeInv(x)
  BY <1>1, <1>2, StateTypes DEF NodeInv, ProposeInv, Enters
<1>6. RecoveryInv(x)
  <2>1. \A c \in x.no_endorsement_state.certificates : c.round \in Nat /\ c.round <= get_current_round(ns)
    BY <1>1, StateTypes DEF NodeInv, RecoveryInv, NoEndorsementState, NoEndorsement, Enters
  <2>2. \A tc \in x.recoveries : tc.round \in Nat /\ tc.round < get_current_round(ns)
    BY <1>1, StateTypes DEF NodeInv, RecoveryInv, RoundCertificate, Enters
  <2> QED BY <1>2, <2>1, <2>2 DEF RecoveryInv
<1>7. Grows(ns, x, R)
  BY <1>2 DEF Grows, Enters
<1> QED BY <1>1, <1>3, <1>4, <1>5, <1>6, <1>7 DEF NodeInv, Enters

\* Pacemaker::local_timeout_round preserves the invariant, and its assertion
\* (safety.rs:173) holds.
LEMMA LocalTimeoutStep ==
  ASSUME NEW ns, NodeInv(ns), NEW R
  PROVE  NodeInv(LocalTimeout(ns)) /\ Grows(ns, LocalTimeout(ns), R)
<1> DEFINE m == TimeoutOf(ns)
           r == get_current_round(ns)
           tip == ns.safety.maybe_high_tip
           x == LocalTimeout(ns)
<1>1. ns \in NodeState /\ ns.safety.highest_vote <= r
  BY DEF NodeInv, VoteInv
<1>2. r \in Nat /\ 0 < r /\ ns.safety.highest_vote \in Nat /\ ns.votes \subseteq Vote
      /\ ns.timeouts \subseteq TimeoutMessage
  BY <1>1, StateTypes
<1>3. TimesOut(ns, x, m)
  BY <1>1, LocalTimeoutEffect
<1> HIDE DEF m, x
<1>4. /\ x \in NodeState /\ x.high_certificate = ns.high_certificate /\ get_current_round(x) = r
      /\ x.timeouts = ns.timeouts \cup {m} /\ m.round = r
      /\ x.votes = IF tip = None THEN ns.votes ELSE ns.votes \cup {VoteFor(r, tip)}
      /\ x.safety.highest_vote = r /\ x.safety.maybe_high_tip = tip
      /\ x.safety.highest_propose = ns.safety.highest_propose
      /\ x.no_endorsements = ns.no_endorsements /\ x.panicked = ns.panicked
      /\ x.proposals = ns.proposals /\ x.recoveries = ns.recoveries
      /\ x.no_endorsement_state = ns.no_endorsement_state
  BY <1>3 DEF TimesOut, SameLeader, get_current_round
<1>5. VoteInv(x)
  <2>1. \A v \in ns.votes : v.round \in Nat /\ GENESIS_ROUND < v.round /\ v.round <= r
    BY <1>1, <1>2 DEF NodeInv, VoteInv, Vote
  <2>2. \A v, w \in ns.votes : v.round = w.round => v = w
    BY DEF NodeInv, VoteInv
  <2>3. tip # None => \A v \in ns.votes : v.round = r => v.id = tip
    BY DEF NodeInv, VoteInv
  <2>4. tip # None => \A v \in ns.votes : v.round = r => v = VoteFor(r, tip)
    BY <1>2, <2>3 DEF Vote, VoteFor
  <2>5. VoteFor(r, tip).round = r /\ VoteFor(r, tip).id = tip
    BY DEF VoteFor
  <2> QED BY <1>2, <1>4, <2>1, <2>2, <2>3, <2>4, <2>5 DEF VoteInv, GENESIS_ROUND
<1>6. TimeoutInv(x)
  <2>1. \A t \in ns.timeouts : t.round \in Nat /\ t.round <= r
    BY <1>1, <1>2 DEF NodeInv, TimeoutInv, TimeoutMessage
  <2>2. tip # None => [round |-> r, id |-> tip] \in x.votes
    BY <1>4 DEF VoteFor
  <2> QED BY <1>2, <1>4, <2>1, <2>2 DEF TimeoutInv
<1>7. ProposeInv(x) /\ RecoveryInv(x) /\ WellFormed(x.high_certificate)
  BY <1>4 DEF NodeInv, ProposeInv, RecoveryInv
<1>8. Grows(ns, x, R)
  BY <1>2, <1>4 DEF NodeInv, TimeoutInv, Grows, VoteFor
<1> QED BY <1>4, <1>5, <1>6, <1>7, <1>8 DEF NodeInv, x

\* A change of the fields that votes and timeouts do not depend on.
LEMMA LeaderStep ==
  ASSUME NEW ns, NEW x, NodeInv(ns), NEW R, x \in NodeState, SameVoter(ns, x),
         \A ne \in x.no_endorsements \ ns.no_endorsements : ne.round \in R,
         x.panicked = ns.panicked, ProposeInv(x), RecoveryInv(x)
  PROVE  NodeInv(x) /\ Grows(ns, x, R)
<1>1. get_current_round(x) = get_current_round(ns) /\ get_current_round(x) \in Nat
  BY StateTypes DEF SameVoter, get_current_round
<1>2. VoteInv(x) /\ TimeoutInv(x) /\ WellFormed(x.high_certificate)
  BY <1>1 DEF NodeInv, VoteInv, TimeoutInv, SameVoter
<1>3. Grows(ns, x, R)
  BY <1>1 DEF Grows, SameVoter
<1> QED BY <1>2, <1>3 DEF NodeInv

\* Nor does anything of the leader.
LEMMA SameStep ==
  ASSUME NEW ns, NEW x, NodeInv(ns), NEW R, x \in NodeState, SameVoter(ns, x), SameLeader(ns, x),
         \A ne \in x.no_endorsements \ ns.no_endorsements : ne.round \in R,
         x.panicked = ns.panicked
  PROVE  NodeInv(x) /\ Grows(ns, x, R)
<1>1. get_current_round(x) = get_current_round(ns)
  BY ZenonT(30) DEF SameVoter, get_current_round
<1>2. ProposeInv(x) /\ RecoveryInv(x)
  BY ZenonT(30), <1>1 DEF NodeInv, ProposeInv, RecoveryInv, SameLeader
<1> QED BY <1>2, LeaderStep

LEMMA ProposeStep ==
  ASSUME NEW ns, NodeInv(ns), NEW b \in Block, NEW tc \in RoundCertificate \cup {None}, NEW R,
         is_safe_to_propose(ns.safety, get_current_round(ns))
  PROVE  NodeInv(Propose(ns, b, tc)) /\ Grows(ns, Propose(ns, b, tc), R)
<1> DEFINE r == get_current_round(ns)
           p == [proposal_round |-> r, tip |-> b, last_round_tc |-> tc]
           x == Propose(ns, b, tc)
<1>1. ns \in NodeState
  BY DEF NodeInv
<1>2. Proposes(ns, x, p) /\ p.proposal_round = r
  BY <1>1, ProposeEffect
<1> HIDE DEF p, x
<1>3. get_current_round(x) = r /\ r \in Nat /\ ns.safety.highest_propose \in Nat
  BY <1>1, <1>2, StateTypes DEF Proposes, SameVoter, get_current_round
<1>4. ProposeInv(x)
  <2>1. \A q \in ns.proposals : q.proposal_round \in Nat /\ q.proposal_round < r
    BY <1>1, <1>3, StateTypes DEF NodeInv, ProposeInv, ProposalMessage, is_safe_to_propose
  <2> QED BY <1>2, <1>3, <2>1 DEF NodeInv, ProposeInv, Proposes
<1>5. RecoveryInv(x)
  BY <1>2, <1>3 DEF NodeInv, RecoveryInv, Proposes
<1> QED BY <1>2, <1>4, <1>5, LeaderStep DEF Proposes, x

LEMMA RequestRecoveryStep ==
  ASSUME NEW ns, NodeInv(ns), NEW tc \in RoundCertificate, tc.round < get_current_round(ns), NEW R
  PROVE  NodeInv(RequestRecovery(ns, tc)) /\ Grows(ns, RequestRecovery(ns, tc), R)
<1> DEFINE x == RequestRecovery(ns, tc)
<1>1. Requests(ns, x, tc)
  BY RequestEffect DEF NodeInv
<1> HIDE DEF x
<1>2. get_current_round(x) = get_current_round(ns)
  BY <1>1 DEF Requests, SameVoter, get_current_round
<1>3. ProposeInv(x) /\ RecoveryInv(x)
  BY <1>1, <1>2 DEF NodeInv, ProposeInv, RecoveryInv, Requests
<1> QED BY <1>1, <1>3, LeaderStep DEF Requests, x

\* try_propose preserves the invariant.
LEMMA TryPropose ==
  ASSUME NEW n, NEW ns, NodeInv(ns), NEW R
  PROVE  Preserves(ns, try_propose(n, ns), R)
<1> DEFINE r    == get_current_round(ns)
           cert == ns.high_certificate
           nec  == \E c \in ns.no_endorsement_state.certificates : c.round = r
           tc   == IF cert.kind = "Tc" THEN cert ELSE None
           fresh == {x \in Block : BlockRound[x] = r /\ BlockQc[x] = cert.high_extend.qc}
<1>1. Grows(ns, ns, R)  BY GrowsReflexive
<1>2. CASE Leader[r] # n \/ ~ is_safe_to_propose(ns.safety, r)
  BY <1>1, <1>2 DEF try_propose, Preserves
<1>3. CASE ~ (Leader[r] # n \/ ~ is_safe_to_propose(ns.safety, r))
  <2>1. /\ cert \in RoundCertificate /\ tc \in RoundCertificate \cup {None}
        /\ cert.high_extend.tip \in Block \cup {None}
        /\ cert.high_extend.tip # None => tc = cert
        /\ cert.round < r
    <3>1. cert \in RoundCertificate
      BY DEF NodeInv, NodeState
    <3>2. cert.round \in Nat /\ cert.high_extend.tip \in Block \cup {None}
      BY <3>1 DEF RoundCertificate, HighExtend
    <3>3. cert.high_extend.tip # None => cert.kind = "Tc"
      BY <3>1 DEF NodeInv, WellFormed, RoundCertificate, QcCert, ExtendQc
    <3>4. cert.round < r
      BY <3>2 DEF get_current_round
    <3> QED BY ZenonT(30), <3>1, <3>2, <3>3, <3>4
  <2>2. CASE cert.high_extend.tip # None /\ ~ nec
    <3>1. try_propose(n, ns) \subseteq
            {Propose(ns, cert.high_extend.tip, tc), RequestRecovery(ns, tc), ns}
      BY <1>3, <2>2 DEF try_propose
    <3>2. /\ NodeInv(Propose(ns, cert.high_extend.tip, tc))
          /\ Grows(ns, Propose(ns, cert.high_extend.tip, tc), R)
      BY <1>3, <2>1, <2>2, ProposeStep
    <3>3. NodeInv(RequestRecovery(ns, tc)) /\ Grows(ns, RequestRecovery(ns, tc), R)
      BY <2>1, <2>2, RequestRecoveryStep
    <3> QED BY <1>1, <3>1, <3>2, <3>3 DEF Preserves
  <2>3. CASE ~ (cert.high_extend.tip # None /\ ~ nec)
    <3>1. try_propose(n, ns) = {ns} \cup {Propose(ns, b, tc) : b \in fresh}
      BY <1>3, <2>3 DEF try_propose
    <3>2. ASSUME NEW b \in fresh
          PROVE  NodeInv(Propose(ns, b, tc)) /\ Grows(ns, Propose(ns, b, tc), R)
      BY <1>3, <2>1, ProposeStep
    <3> QED BY <1>1, <3>1, <3>2 DEF Preserves
  <2> QED BY ZenonT(30), <2>2, <2>3
<1> QED BY <1>2, <1>3

\* try_vote preserves the invariant: is_safe_to_vote excludes the rounds that
\* were voted in or timed out.
LEMMA TryVote ==
  ASSUME NEW ns, NodeInv(ns), NEW p \in ProposalMessage, NEW R
  PROVE  NodeInv(try_vote(ns, p)) /\ Grows(ns, try_vote(ns, p), R)
<1> DEFINE r == get_current_round(ns)
           v == VoteFor(r, p.tip)
           x == try_vote(ns, p)
<1>1. ns \in NodeState /\ p.tip \in Block
  BY DEF NodeInv, ProposalMessage
<1>2. x = ns \/ Votes(ns, x, p.tip)
  BY <1>1, TryVoteEffect
<1> HIDE DEF x
<1>3. CASE x = ns
  BY ZenonT(30), <1>3, GrowsReflexive DEF x
<1>4. CASE Votes(ns, x, p.tip)
  <2>1. /\ r \in Nat /\ 0 < r /\ ns.safety.highest_vote \in Nat
        /\ ns.votes \subseteq Vote /\ ns.timeouts \subseteq TimeoutMessage
    BY <1>1, StateTypes
  <2>2. /\ ns.safety.highest_vote < r /\ get_current_round(x) = r
        /\ x \in NodeState /\ SameLeader(ns, x) /\ x.panicked = ns.panicked
        /\ x.high_certificate = ns.high_certificate /\ x.no_endorsements = ns.no_endorsements
        /\ x.safety.highest_vote = r /\ x.safety.maybe_high_tip \in {p.tip, None}
        /\ x.timeouts = ns.timeouts /\ x.votes = ns.votes \cup {v}
    BY <1>4 DEF Votes, get_current_round
  <2>3. v.round = r /\ v.id = p.tip
    BY DEF VoteFor
  <2> HIDE DEF v
  <2>4. VoteInv(x)
    <3>1. \A w \in ns.votes : w.round \in Nat /\ GENESIS_ROUND < w.round /\ w.round < r
      BY <2>1, <2>2 DEF NodeInv, VoteInv, Vote
    <3> QED BY <2>1, <2>2, <2>3, <3>1 DEF NodeInv, VoteInv, GENESIS_ROUND
  <2>5. \A t \in ns.timeouts : t.round \in Nat /\ t.round < r
    BY <2>1, <2>2 DEF NodeInv, TimeoutInv, TimeoutMessage
  <2>6. TimeoutInv(x)
    BY SMTT(20), <2>1, <2>2, <2>5 DEF TimeoutInv
  <2>7. ProposeInv(x) /\ RecoveryInv(x)
    BY <2>2 DEF NodeInv, ProposeInv, RecoveryInv, SameLeader
  <2>8. Grows(ns, x, R)
    BY SMTT(20), <2>1, <2>2, <2>3, <2>5 DEF Grows
  <2> QED BY <2>2, <2>4, <2>6, <2>7, <2>8 DEF NodeInv, x
<1> QED BY <1>2, <1>3, <1>4

\* NoEndorsementState::process_msg preserves the invariant; its assertion
\* (no_endorsement_state.rs:155) holds as long as no-endorsements come for
\* rounds the leader has entered.
LEMMA CollectedStep ==
  ASSUME NEW ns, NodeInv(ns), NEW ne \in NoEndorsement, ne.round = get_current_round(ns),
         ~ (ne.round < ns.no_endorsement_state.earliest_round), NEW R
  PROVE  NodeInv(Collected(ns, ne)) /\ Grows(ns, Collected(ns, ne), R)
<1> DEFINE x == Built(ns, ne)
<1>1. Collected(ns, ne) = x
  BY DEF NodeInv, RecoveryInv, Collected
<1>2. /\ Collects(ns, x, ne) /\ x.panicked = ns.panicked
      /\ x.no_endorsement_state.earliest_round = ne.round + 1
  BY BuiltEffect DEF NodeInv
<1> HIDE DEF x
<1>3. get_current_round(x) = get_current_round(ns) /\ ne.round \in Nat
  BY <1>2 DEF Collects, SameVoter, get_current_round, NoEndorsement
<1>4. ProposeInv(x)
  BY <1>2, <1>3 DEF NodeInv, ProposeInv, Collects
<1>5. RecoveryInv(x)
  BY <1>2, <1>3 DEF NodeInv, RecoveryInv, Collects
<1> QED BY ZenonT(30), <1>1, <1>2, <1>4, <1>5, LeaderStep DEF Collects

-----------------------------------------------------------------------------
(* Every handler preserves NodeInv *)

\* The states a handler may lead to from ns.
Reach(ns, R) == {x \in NodeState : NodeInv(x) /\ Grows(ns, x, R)}

\* The TCs, and the TCs of recovery requests when no-endorsements may be added
\* for the rounds in R.
Tcs == {tc \in RoundCertificate : WellFormed(tc)}
Recoveries(R) == {tc \in RoundCertificate : tc.high_extend.tip \in Block /\ tc.round + 1 \in R}

LEMMA ReachClosed ==
  ASSUME NEW ns, NodeInv(ns), NEW n, NEW R
  PROVE  /\ ns \in Reach(ns, R) /\ Reach(ns, R) \in SUBSET NodeState
         /\ Closed(Reach(ns, R), n, QuorumCertificate, Tcs, ProposalMessage, Recoveries(R),
                   {ne \in NoEndorsement : ne.round <= get_current_round(ns)})
<1> DEFINE S == Reach(ns, R)
<1>1. ns \in S /\ S \in SUBSET NodeState
  BY GrowsReflexive DEF Reach, NodeInv
<1>2. \A y \in S : NodeInv(y) /\ y \in NodeState /\ get_current_round(ns) <= get_current_round(y)
  BY DEF Reach, Grows
<1>3. ASSUME NEW y \in S, NEW x, NodeInv(x), Grows(y, x, R) PROVE x \in S
  <2>1. NodeInv(y) /\ Grows(ns, y, R)
    BY DEF Reach
  <2>2. Grows(ns, x, R)
    BY <1>3, <2>1, GrowsTransitive
  <2> QED BY <1>3, <2>2 DEF Reach, NodeInv
<1> HIDE DEF S
<1>4. \A y \in S : LocalTimeout(y) \in S
  BY <1>2, <1>3, LocalTimeoutStep
<1>5. \A y \in S : try_propose(n, y) \subseteq S
  BY <1>2, <1>3, TryPropose DEF Preserves
<1>6. ASSUME NEW y \in S, NEW qc \in QuorumCertificate, ~ (qc.round < get_current_round(y))
      PROVE  EnterQc(y, qc) \in S
  BY <1>2, <1>3, <1>6, QcCertType, EnterQcEffect, EnterStep
<1>7. ASSUME NEW y \in S, NEW tc \in Tcs, ~ (tc.round < get_current_round(y))
      PROVE  PacemakerProcessCertificate(y, tc) \in S
  BY ZenonT(30), <1>2, <1>3, <1>7, EnterEffect, EnterStep DEF Tcs
<1>8. ASSUME NEW y \in S, NEW p \in ProposalMessage PROVE Handled(y, p) \in S
  <2>1. Marks(y, Handled(y, p)) /\ Handled(y, p).panicked = y.panicked
    BY <1>2, HandledEffect
  <2> QED BY <1>2, <1>3, <2>1, SameStep DEF Marks
<1>9. \A y \in S, p \in ProposalMessage : try_vote(y, p) \in S
  BY <1>2, <1>3, TryVote
<1>10. ASSUME NEW y \in S, NEW tc \in Recoveries(R), tc.round + 1 = get_current_round(y)
       PROVE  no_endorse(y, tc.high_extend.tip) \in S
  <2> DEFINE tip == tc.high_extend.tip
             ne  == [round |-> get_current_round(y), tip_qc_round |-> BlockQc[tip].round]
  <2>1. tip \in Block /\ get_current_round(y) \in R
    BY <1>10 DEF Recoveries
  <2>2. DoesNotEndorse(y, no_endorse(y, tip), ne) /\ ne.round = get_current_round(y)
    BY <1>2, <2>1, NoEndorseEffect
  <2> HIDE DEF ne, tip
  <2>3. no_endorse(y, tip) \in S
    BY <1>2, <1>3, <2>1, <2>2, SameStep DEF DoesNotEndorse
  <2> QED BY <2>3 DEF tip
<1>11. ASSUME NEW y \in S, NEW ne \in NoEndorsement, ne.round <= get_current_round(ns),
              ~ (ne.round < get_current_round(y)), ~ (ne.round < y.no_endorsement_state.earliest_round)
       PROVE  Collected(y, ne) \in S
  <2>1. /\ get_current_round(ns) \in Nat /\ get_current_round(y) \in Nat /\ ne.round \in Nat
        /\ get_current_round(ns) <= get_current_round(y)
    BY <1>1, <1>2, StateTypes DEF NoEndorsement
  <2>2. ne.round = get_current_round(y)
    BY ZenonT(30), <1>11, <2>1, OrderOfRounds
  <2> QED BY <1>2, <1>3, <1>11, <2>2, CollectedStep
<1>12. Closed(S, n, QuorumCertificate, Tcs, ProposalMessage, Recoveries(R),
              {ne \in NoEndorsement : ne.round <= get_current_round(ns)})
  BY <1>4, <1>5, <1>6, <1>7, <1>8, <1>9, <1>10, <1>11 DEF Closed
<1> QED BY <1>1, <1>12 DEF S

LEMMA ReachPreserves ==
  ASSUME NEW ns, NEW R, NEW after \in SUBSET Reach(ns, R)
  PROVE  Preserves(ns, after, R)
BY DEF Preserves, Reach

\* handle_timeout_expiry preserves the invariant.
LEMMA HandleTimeoutExpiryStep ==
  ASSUME NEW ns, NodeInv(ns), NEW R
  PROVE  Preserves(ns, handle_timeout_expiry(ns), R)
BY LocalTimeoutStep DEF Preserves, handle_timeout_expiry

\* handle_proposal_message preserves the invariant.
LEMMA HandleProposalStep ==
  ASSUME NEW n, NEW ns, NodeInv(ns), NEW author, NEW p \in ProposalMessage,
         p.last_round_tc # None => WellFormed(p.last_round_tc), NEW R
  PROVE  Preserves(ns, handle_proposal_message(n, ns, author, p), R)
<1>1. BlockQc[p.tip] \in QuorumCertificate /\ p.last_round_tc \in RoundCertificate \cup {None}
  BY BlockAssumption DEF ProposalMessage
<1>2. Known(p.last_round_tc, QuorumCertificate, Tcs)
  BY <1>1 DEF Known, Tcs, RoundCertificate, HighExtend
<1>3. handle_proposal_message(n, ns, author, p) \subseteq Reach(ns, R)
  BY ZenonT(30), <1>1, <1>2, ReachClosed, ClosedProposal
<1> QED BY <1>3, ReachPreserves

\* handle_vote_message preserves the invariant.
LEMMA HandleVoteStep ==
  ASSUME NEW n, NEW ns, NodeInv(ns), NEW round, NEW qcs \in SUBSET QuorumCertificate, NEW R
  PROVE  Preserves(ns, handle_vote_message(n, ns, round, qcs), R)
<1>1. handle_vote_message(n, ns, round, qcs) \subseteq Reach(ns, R)
  BY ZenonT(30), ReachClosed, ClosedVote
<1> QED BY <1>1, ReachPreserves

\* handle_timeout_message preserves the invariant, for a timeout that passes
\* well_formed_timeout.
LEMMA HandleTimeoutStep ==
  ASSUME NEW n, NEW ns, NodeInv(ns), NEW t \in TimeoutMessage, Accompanied(t), NEW R,
         NEW qcs \in SUBSET QuorumCertificate, NEW honest,
         NEW tcs \in SUBSET Tcs, \A tc \in tcs : tc.round = t.round
  PROVE  Preserves(ns, handle_timeout_message(n, ns, t, qcs, honest, tcs), R)
<1>1. /\ t.round \in Nat /\ t.high_extend.qc \in QuorumCertificate
      /\ t.last_round_certificate \in RoundCertificate \cup {None}
  BY DEF TimeoutMessage, HighExtend
<1>2. Known(t.last_round_certificate, QuorumCertificate, Tcs)
  BY <1>1 DEF Known, Tcs, Accompanied, RoundCertificate, HighExtend
<1>3. Tcs \in SUBSET RoundCertificate
  BY DEF Tcs
<1>4. handle_timeout_message(n, ns, t, qcs, honest, tcs) \subseteq Reach(ns, R)
  BY ZenonT(30), <1>1, <1>2, <1>3, ReachClosed, ClosedTimeout
<1> QED BY <1>4, ReachPreserves

\* handle_round_recovery_message preserves the invariant, and no-endorses only
\* in the round after the TC.
LEMMA HandleRoundRecoveryStep ==
  ASSUME NEW n, NEW ns, NodeInv(ns), NEW author, NEW tc \in Tcs, tc.high_extend.tip \in Block
  PROVE  Preserves(ns, handle_round_recovery_message(n, ns, author, tc), {tc.round + 1})
<1> DEFINE R == {tc.round + 1}
<1>1. tc \in Recoveries(R)
  BY DEF Recoveries, Tcs
<1> HIDE DEF R
<1> DEFINE nes == {ne \in NoEndorsement : ne.round <= get_current_round(ns)}
<1>2. /\ ns \in Reach(ns, R)
      /\ Closed(Reach(ns, R), n, QuorumCertificate, Tcs, ProposalMessage, Recoveries(R), nes)
  BY ReachClosed
<1> HIDE DEF nes
<1>3. handle_round_recovery_message(n, ns, author, tc) \subseteq Reach(ns, R)
  BY <1>1, <1>2, ClosedRecovery
<1>4. Preserves(ns, handle_round_recovery_message(n, ns, author, tc), R)
  BY <1>3, ReachPreserves
<1> QED BY <1>4 DEF R

\* handle_no_endorsement_message preserves the invariant, if the leader has
\* entered the round.
LEMMA HandleNoEndorsementStep ==
  ASSUME NEW n, NEW ns, NodeInv(ns), NEW ne \in NoEndorsement,
         ne.round <= get_current_round(ns), NEW R
  PROVE  Preserves(ns, handle_no_endorsement_message(n, ns, ne), R)
<1> DEFINE nes == {c \in NoEndorsement : c.round <= get_current_round(ns)}
<1>1. /\ ns \in Reach(ns, R) /\ ne \in nes
      /\ Closed(Reach(ns, R), n, QuorumCertificate, Tcs, ProposalMessage, Recoveries(R), nes)
  BY ReachClosed
<1> HIDE DEF nes
<1>2. handle_no_endorsement_message(n, ns, ne) \subseteq Reach(ns, R)
  BY <1>1, ClosedNoEndorsement
<1> QED BY <1>2, ReachPreserves

\* handle_advance_round_message preserves the invariant.
LEMMA HandleAdvanceRoundStep ==
  ASSUME NEW n, NEW ns, NodeInv(ns), NEW cert \in RoundCertificate, WellFormed(cert), NEW R
  PROVE  Preserves(ns, handle_advance_round_message(n, ns, cert), R)
<1>1. Known(cert, QuorumCertificate, Tcs)
  BY DEF Known, Tcs, RoundCertificate, HighExtend
<1>2. handle_advance_round_message(n, ns, cert) \subseteq Reach(ns, R)
  BY ZenonT(30), <1>1, ReachClosed, ClosedOptional DEF handle_advance_round_message
<1> QED BY <1>2, ReachPreserves

\* maybe_start_consensus, from a checkpoint with the certificate of the current
\* round, preserves the invariant: Safety::new bars the round it starts in.
LEMMA StartConsensusStep ==
  ASSUME NEW ns, NodeInv(ns), NEW R
  PROVE  LET x == StartConsensus(ns, ns.high_certificate) IN NodeInv(x) /\ Grows(ns, x, R)
<1> DEFINE cert == ns.high_certificate
           r == get_current_round(ns)
           s == NewSafety(cert)
           nes == [earliest_round |-> cert.round + 1, certificates |-> {}]
           x == [ns EXCEPT !.high_certificate = cert, !.safety = s, !.no_endorsement_state = nes]
<1>1. cert \in RoundCertificate /\ r \in Nat /\ cert.round + 1 = r
  <2>1. cert \in RoundCertificate /\ r = cert.round + 1
    BY DEF NodeInv, NodeState, get_current_round
  <2>2. cert.round \in Nat
    BY <2>1 DEF RoundCertificate
  <2> QED BY <2>1, <2>2
<1>2. /\ s \in SafetyState /\ s.highest_vote = r /\ s.highest_propose = r
      /\ s.maybe_high_tip = None
  BY <1>1 DEF NewSafety, SafetyState, HighNoEndorse, RoundCertificate, HighExtend, QuorumCertificate
<1>3. nes \in NoEndorsementState /\ nes.certificates = {}
  BY <1>1 DEF NoEndorsementState
<1>4. StartConsensus(ns, cert) = LocalTimeout(x)
  BY DEF StartConsensus
<1> HIDE DEF s, nes
<1>5. /\ x \in NodeState
      /\ x.safety = s /\ x.high_certificate = cert
      /\ x.votes = ns.votes /\ x.timeouts = ns.timeouts /\ x.proposals = ns.proposals
      /\ x.recoveries = ns.recoveries /\ x.no_endorsements = ns.no_endorsements
      /\ x.no_endorsement_state = nes /\ x.panicked = ns.panicked
      /\ get_current_round(x) = r
  BY ZenonT(30), <1>1, <1>2, <1>3 DEF NodeInv, NodeState, get_current_round
<1> HIDE DEF x
<1>a. ns.safety.highest_vote \in Nat /\ ns.safety.highest_vote <= r
  BY ZenonT(30), StateTypes DEF NodeInv, VoteInv
<1>6. VoteInv(x)
  <2>1. \A v \in ns.votes : v.round \in Nat /\ GENESIS_ROUND < v.round /\ v.round <= r
    BY <1>1, <1>a, StateTypes DEF NodeInv, VoteInv, Vote
  <2>2. \A v, w \in ns.votes : v.round = w.round => v = w
    BY DEF NodeInv, VoteInv
  <2> QED BY <1>1, <1>2, <1>5, <2>1, <2>2 DEF VoteInv
<1>7. TimeoutInv(x)
  <2>1. \A t \in ns.timeouts : t.round \in Nat /\ t.round <= r
    BY <1>1, <1>a, StateTypes, SMTT(20) DEF NodeInv, TimeoutInv, TimeoutMessage
  <2> QED BY ZenonT(30), <1>2, <1>5, <2>1 DEF TimeoutInv
<1>8. ProposeInv(x)
  <2>1. \A p \in ns.proposals : p.proposal_round \in Nat /\ p.proposal_round <= r
    BY <1>1, StateTypes DEF NodeInv, ProposeInv, ProposalMessage
  <2>2. \A p, q \in ns.proposals : p.proposal_round = q.proposal_round => p = q
    BY ZenonT(30) DEF NodeInv, ProposeInv
  <2> QED BY <1>1, <1>2, <1>5, <2>1, <2>2 DEF ProposeInv
<1>9. RecoveryInv(x) /\ Grows(ns, x, R)
  BY <1>1, <1>3, <1>5, SMTT(20) DEF NodeInv, RecoveryInv, Grows
<1>10. NodeInv(x)
  BY <1>5, <1>6, <1>7, <1>8, <1>9 DEF NodeInv
<1> QED BY <1>4, <1>9, <1>10, LocalTimeoutStep, GrowsTransitive

\* The state a node starts from.
LEMMA UnstartedInv == NodeInv(Unstarted) /\ Unstarted.high_certificate = QcCert(genesis_qc)
<1> DEFINE cert == QcCert(genesis_qc)
           nes == [earliest_round |-> 1, certificates |-> {}]
<1>1. /\ genesis_qc \in QuorumCertificate /\ genesis_qc.round = 0
      /\ cert \in RoundCertificate /\ WellFormed(cert) /\ cert.round = 0
  <2>1. genesis_qc \in QuorumCertificate /\ genesis_qc.round = 0
    BY DEF genesis_qc, QuorumCertificate, GENESIS_ROUND
  <2> QED BY <2>1, QcCertType
<1>2. /\ NewSafety(cert) \in SafetyState /\ NewSafety(cert).highest_vote = 1
      /\ NewSafety(cert).highest_propose = 1
  <2>1. cert.high_extend.qc.round \in Nat
    BY <1>1 DEF RoundCertificate, HighExtend, QuorumCertificate
  <2> HIDE DEF cert
  <2> QED BY <1>1, <2>1, SMTT(20) DEF NewSafety, SafetyState, HighNoEndorse
<1>3. nes \in NoEndorsementState /\ nes.certificates = {}
  BY ZenonT(30) DEF NoEndorsementState
<1>4. Unstarted =
        [high_certificate |-> cert, safety |-> NewSafety(cert), no_endorsement_state |-> nes,
         votes |-> {}, timeouts |-> {}, no_endorsements |-> {}, proposals |-> {},
         recoveries |-> {}, panicked |-> FALSE]
  BY DEF Unstarted
<1> HIDE DEF cert, nes
<1>5. /\ Unstarted.high_certificate = cert /\ Unstarted.safety = NewSafety(cert)
      /\ Unstarted.no_endorsement_state = nes /\ Unstarted.votes = {}
      /\ Unstarted.timeouts = {} /\ Unstarted.proposals = {} /\ Unstarted.recoveries = {}
      /\ Unstarted.no_endorsements = {} /\ Unstarted.panicked = FALSE
  BY <1>4
<1>6. get_current_round(Unstarted) = 1
  BY <1>1, <1>5 DEF get_current_round
<1>7. Unstarted \in NodeState
  BY ZenonT(30), <1>1, <1>2, <1>3, <1>4 DEF NodeState
<1>8. VoteInv(Unstarted) /\ TimeoutInv(Unstarted)
  BY <1>2, <1>5, <1>6 DEF VoteInv, TimeoutInv
<1>9. ProposeInv(Unstarted) /\ RecoveryInv(Unstarted)
  BY <1>2, <1>3, <1>5, <1>6 DEF ProposeInv, RecoveryInv
<1>10. WellFormed(Unstarted.high_certificate) /\ Unstarted.panicked = FALSE
  BY <1>1, <1>5
<1> QED BY <1>5, <1>7, <1>8, <1>9, <1>10 DEF NodeInv, cert
=============================================================================
