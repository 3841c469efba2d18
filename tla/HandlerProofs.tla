--------------------------- MODULE HandlerProofs ----------------------------
(***************************************************************************)
(* Two more sets of node states that are closed under the steps of the     *)
(* handlers.  The first is about what a node keeps: its votes and timeouts *)
(* do not fall back behind a block that may be certified.  The second is   *)
(* about what a node has sent, in terms of the certificates, tips and      *)
(* recovery requests that exist.                                           *)
(***************************************************************************)
EXTENDS ConsensusStateProofs

-----------------------------------------------------------------------------
(* What the steps keep of a node *)

\* Block b is proposed on the QC of the round before its own: a QC for it in
\* its own round commits its parent.
Consecutive(b) == BlockRound[b] = BlockQc[b].round + 1

\* x extends a QC that is not older than that of b, and is not older than b.
NotBelow(x, b) == BlockRound[b] <= BlockQc[x].round + 1 /\ BlockRound[b] <= BlockRound[x]

\* What timeout m reports is not below b.
ReportsNotBelow(m, b) ==
  IF m.high_extend.tip = None THEN BlockRound[b] <= m.high_extend.qc.round + 1
  ELSE NotBelow(m.high_extend.tip, b)

\* A node that voted for b in its round does not fall back behind b: neither
\* in its later votes nor in what its timeouts report.
Keeps(ns, b) ==
  LET r == BlockRound[b]
      tip == ns.safety.maybe_high_tip
  IN  VoteFor(r, b) \in ns.votes =>
        /\ \A v \in ns.votes : r <= v.round => NotBelow(v.id, b)
        /\ tip # None => NotBelow(tip, b)
        /\ r < get_current_round(ns) => r <= ns.high_certificate.high_extend.qc.round + 1
        /\ r = get_current_round(ns) => tip = b
        /\ \A m \in ns.timeouts : r <= m.round => ReportsNotBelow(m, b)

\* No later no-endorsement lets a block be proposed on an older QC.
NeKeeps(ns, b) ==
  \A ne \in ns.no_endorsements : BlockRound[b] < ne.round => BlockRound[b] <= ne.tip_qc_round + 1

\* What holds of every node, tips being the tips that exist.
NodeBase(ns, tips) ==
  LET r == get_current_round(ns)
      tip == ns.safety.maybe_high_tip
      hv == ns.safety.highest_vote
  IN  /\ ns \in NodeState
      /\ WellFormed(ns.high_certificate)
      /\ hv <= r
      /\ \A v \in ns.votes : v.round <= hv /\ v.id \in tips
      /\ \A m \in ns.timeouts : m.round <= hv
      /\ tip # None => tip \in tips
      /\ hv = r /\ tip # None => VoteFor(r, tip) \in ns.votes
      /\ ns.safety.high_certificate_qc_round < r
      /\ \A ne \in ns.no_endorsements : ne.tip_qc_round < ne.round

\* x comes after ns: new votes are above highest_vote, and new
\* no-endorsements are of the rounds in R.
After(ns, x, R) ==
  /\ ns.safety.highest_vote <= x.safety.highest_vote
  /\ ns.votes \subseteq x.votes /\ ns.timeouts \subseteq x.timeouts
  /\ ns.no_endorsements \subseteq x.no_endorsements /\ ns.proposals \subseteq x.proposals
  /\ \A v \in x.votes \ ns.votes : ns.safety.highest_vote < v.round
  /\ \A ne \in x.no_endorsements \ ns.no_endorsements : ne.round \in R

\* The states that follow ns when the tips are tips and the blocks that may
\* yet be certified in their own round are in open.
Follows(ns, tips, open, R) ==
  {x \in NodeState : /\ NodeBase(x, tips) /\ After(ns, x, R)
                     /\ \A b \in open : Keeps(x, b) /\ NeKeeps(x, b)}

LEMMA BaseTypes ==
  ASSUME NEW tips, NEW ns, NodeBase(ns, tips)
  PROVE  /\ ns \in NodeState /\ get_current_round(ns) \in Nat /\ 0 < get_current_round(ns)
         /\ ns.safety \in SafetyState /\ ns.safety.highest_vote \in Nat
         /\ ns.safety.high_certificate_qc_round \in Nat
         /\ ns.safety.maybe_high_tip \in Block \cup {None}
         /\ ns.high_certificate \in RoundCertificate
         /\ ns.votes \subseteq Vote /\ ns.timeouts \subseteq TimeoutMessage
         /\ ns.no_endorsements \subseteq NoEndorsement
BY DEF NodeBase, NodeState, SafetyState, RoundCertificate, get_current_round

\* What a node has signed or may sign is the same; it may have proposed more.
SameSigner(y, x) ==
  /\ x \in NodeState /\ SameVoter(y, x)
  /\ x.no_endorsements = y.no_endorsements /\ y.proposals \subseteq x.proposals

LEMMA SameSignerFollows ==
  ASSUME NEW ns, NEW tips, NEW open, NEW R, NEW y \in Follows(ns, tips, open, R), NEW x, SameSigner(y, x)
  PROVE  x \in Follows(ns, tips, open, R)
<1>1. get_current_round(x) = get_current_round(y)
  BY DEF SameSigner, SameVoter, get_current_round
<1>2. NodeBase(x, tips)
  BY <1>1 DEF Follows, NodeBase, SameSigner, SameVoter
<1>3. After(ns, x, R)
  BY DEF Follows, After, SameSigner, SameVoter
<1>4. \A b \in open : Keeps(x, b) /\ NeKeeps(x, b)
  BY <1>1 DEF Follows, Keeps, NeKeeps, SameSigner, SameVoter
<1> QED BY <1>2, <1>3, <1>4 DEF Follows, SameSigner

LEMMA TryProposeSame ==
  ASSUME NEW n, NEW y \in NodeState, WellFormed(y.high_certificate)
  PROVE  \A x \in try_propose(n, y) : SameSigner(y, x)
<1> DEFINE cert == y.high_certificate
           tc   == IF cert.kind = "Tc" THEN cert ELSE None
<1>1. SameSigner(y, y)
  BY DEF SameSigner, SameVoter
<1>2. /\ cert \in RoundCertificate /\ tc \in RoundCertificate \cup {None}
      /\ cert.high_extend.tip \in Block \cup {None}
      /\ cert.high_extend.tip # None => tc = cert
  BY DEF NodeState, RoundCertificate, HighExtend, WellFormed, QcCert, ExtendQc
<1>3. try_propose(n, y) \subseteq
        {y} \cup {Propose(y, b, tc) : b \in Block}
            \cup (IF cert.high_extend.tip # None THEN {RequestRecovery(y, tc)} ELSE {})
  BY <1>2 DEF try_propose
<1> HIDE DEF tc
<1>4. \A b \in Block : SameSigner(y, Propose(y, b, tc))
  BY ZenonT(30), <1>2, ProposeEffect DEF Proposes, SameSigner
<1>5. cert.high_extend.tip # None => SameSigner(y, RequestRecovery(y, tc))
  BY <1>2, RequestEffect DEF Requests, SameSigner
<1> QED BY <1>1, <1>3, <1>4, <1>5

\* A later round is entered, with a certificate whose QC is of an earlier round
\* than the next and is not below an open block of a round that it ends.
LEMMA EnterFollows ==
  ASSUME NEW ns, NEW tips, NEW open \in SUBSET Block, NEW R, NEW y \in Follows(ns, tips, open, R),
         NEW cert \in RoundCertificate, WellFormed(cert), ~ (cert.round < get_current_round(y)),
         cert.high_extend.qc.round <= cert.round,
         \A b \in open : BlockRound[b] <= cert.round => BlockRound[b] <= cert.high_extend.qc.round + 1,
         NEW x, Enters(y, x, cert)
  PROVE  x \in Follows(ns, tips, open, R)
<1> DEFINE r == get_current_round(y)
           hv == y.safety.highest_vote
<1>1. NodeBase(y, tips) /\ After(ns, y, R) /\ \A b \in open : Keeps(y, b) /\ NeKeeps(y, b)
  BY DEF Follows
<1>2. /\ cert.round \in Nat /\ cert.high_extend.qc.round \in Nat /\ r \in Nat
      /\ hv \in Nat /\ hv <= r /\ x \in NodeState
  BY <1>1, BaseTypes DEF RoundCertificate, HighExtend, QuorumCertificate, NodeBase, Enters
<1>3. /\ x.high_certificate = cert /\ x.safety.highest_vote = hv
      /\ x.safety.maybe_high_tip \in {y.safety.maybe_high_tip, None}
      /\ x.votes = y.votes /\ x.timeouts = y.timeouts /\ x.proposals = y.proposals
      /\ x.no_endorsements = y.no_endorsements
  BY DEF Enters
<1>4. get_current_round(x) = cert.round + 1 /\ r < get_current_round(x)
  BY <1>2, <1>3 DEF get_current_round
<1>5. NodeBase(x, tips)
  <2>1. x.safety.high_certificate_qc_round < get_current_round(x)
    <3>1. y.safety.high_certificate_qc_round < r /\ y.safety.high_certificate_qc_round \in Nat
      BY <1>1, BaseTypes DEF NodeBase
    <3>2. x.safety.high_certificate_qc_round
            \in {y.safety.high_certificate_qc_round, cert.high_extend.qc.round}
      BY DEF Enters
    <3> QED BY <1>2, <1>4, <3>1, <3>2
  <2>2. hv <= get_current_round(x) /\ hv # get_current_round(x)
    BY <1>2, <1>4
  <2>3. /\ \A v \in y.votes : v.round <= hv /\ v.id \in tips
        /\ \A m \in y.timeouts : m.round <= hv
        /\ x.safety.maybe_high_tip # None => x.safety.maybe_high_tip \in tips
        /\ \A ne \in y.no_endorsements : ne.tip_qc_round < ne.round
    BY <1>1, <1>3 DEF NodeBase
  <2> QED BY <1>2, <1>3, <2>1, <2>2, <2>3 DEF NodeBase
<1>6. After(ns, x, R)
  BY <1>1, <1>3 DEF After
<1>7. ASSUME NEW b \in open PROVE Keeps(x, b) /\ NeKeeps(x, b)
  <2>1. NeKeeps(x, b)
    BY <1>1, <1>3 DEF NeKeeps
  <2>2. ASSUME VoteFor(BlockRound[b], b) \in x.votes
        PROVE  /\ BlockRound[b] <= x.high_certificate.high_extend.qc.round + 1
               /\ BlockRound[b] # get_current_round(x)
    <3>1. BlockRound[b] <= hv /\ BlockRound[b] \in Nat
      BY <1>1, <1>3, <2>2, BlockTypes DEF NodeBase, VoteFor
    <3>2. BlockRound[b] <= cert.round
      BY <1>2, <3>1
    <3> QED BY <1>2, <1>3, <1>4, <3>1, <3>2
  <2>3. ASSUME VoteFor(BlockRound[b], b) \in x.votes
        PROVE  /\ \A v \in x.votes : BlockRound[b] <= v.round => NotBelow(v.id, b)
               /\ x.safety.maybe_high_tip # None => NotBelow(x.safety.maybe_high_tip, b)
               /\ \A m \in x.timeouts : BlockRound[b] <= m.round => ReportsNotBelow(m, b)
    BY <1>1, <1>3, <2>3 DEF Keeps
  <2> QED BY <2>1, <2>2, <2>3 DEF Keeps
<1> QED BY <1>2, <1>5, <1>6, <1>7 DEF Follows

\* Pacemaker::local_timeout_round: the timeout reports the high tip, or the QC
\* that led to the round.
LEMMA LocalTimeoutFollows ==
  ASSUME NEW ns, NEW tips, NEW open \in SUBSET Block, NEW R, NEW y \in Follows(ns, tips, open, R),
         ns.safety.highest_vote \in Nat, \A b \in open : Consecutive(b)
  PROVE  LocalTimeout(y) \in Follows(ns, tips, open, R)
<1> DEFINE m == TimeoutOf(y)
           r == get_current_round(y)
           hv == y.safety.highest_vote
           tip == y.safety.maybe_high_tip
           x == LocalTimeout(y)
           votes == IF tip = None THEN y.votes ELSE y.votes \cup {VoteFor(r, tip)}
<1>1. NodeBase(y, tips) /\ After(ns, y, R) /\ \A b \in open : Keeps(y, b) /\ NeKeeps(y, b)
  BY DEF Follows
<1>2. /\ y \in NodeState /\ r \in Nat /\ hv \in Nat /\ tip \in Block \cup {None}
      /\ y.votes \subseteq Vote /\ y.timeouts \subseteq TimeoutMessage
  BY <1>1, BaseTypes
<1>3. TimesOut(y, x, m)
  BY <1>1, <1>2, LocalTimeoutEffect DEF NodeBase
<1> HIDE DEF m, x
<1>4. /\ m.round = r /\ m.high_extend.tip = tip
      /\ tip = None => m.high_extend.qc = y.high_certificate.high_extend.qc
  BY <1>3 DEF TimesOut
<1>5. /\ x.safety.highest_vote = r /\ x.safety.maybe_high_tip = tip
      /\ x.safety.high_certificate_qc_round = y.safety.high_certificate_qc_round
  BY <1>3 DEF TimesOut
<1>6. /\ x \in NodeState /\ x.high_certificate = y.high_certificate
       /\ x.votes = votes /\ x.timeouts = y.timeouts \cup {m} /\ x.proposals = y.proposals
       /\ x.no_endorsements = y.no_endorsements
  BY <1>3 DEF TimesOut, SameLeader
<1>7. votes = IF tip = None THEN y.votes ELSE y.votes \cup {VoteFor(r, tip)}
  OBVIOUS
<1> HIDE DEF votes
<1>8. get_current_round(x) = r
  BY <1>6 DEF get_current_round
<1>9. \A v \in votes : v.round \in Nat /\ v.round <= r /\ v.id \in tips
  <2>1. \A v \in y.votes : v.round \in Nat /\ v.round <= hv /\ v.id \in tips
    BY <1>1, <1>2 DEF NodeBase, Vote
  <2>2. hv <= r /\ (tip # None => tip \in tips)
    BY <1>1 DEF NodeBase
  <2> QED BY <1>2, <1>7, <2>1, <2>2 DEF VoteFor
<1>10. \A t \in x.timeouts : t.round \in Nat /\ t.round <= r
  <2>1. \A t \in y.timeouts : t.round \in Nat /\ t.round <= hv
    BY <1>1, <1>2 DEF NodeBase, TimeoutMessage
  <2>2. hv <= r
    BY <1>1 DEF NodeBase
  <2> QED BY <1>2, <1>4, <1>6, <2>1, <2>2
<1>11. NodeBase(x, tips)
  <2>1. tip # None => VoteFor(r, tip) \in votes
    BY <1>7
  <2>2. /\ WellFormed(y.high_certificate) /\ (tip # None => tip \in tips)
        /\ y.safety.high_certificate_qc_round < r
        /\ \A ne \in y.no_endorsements : ne.tip_qc_round < ne.round
    BY <1>1 DEF NodeBase
  <2> QED BY <1>2, <1>5, <1>6, <1>8, <1>9, <1>10, <2>1, <2>2 DEF NodeBase
\* A vote that is new is above highest_vote.
<1>12. \A v \in votes \ y.votes : v = VoteFor(r, tip) /\ tip # None /\ hv < r
  <2>1. hv <= r /\ (hv = r /\ tip # None => VoteFor(r, tip) \in y.votes)
    BY <1>1 DEF NodeBase
  <2> QED BY <1>2, <1>7, <2>1
<1>13. After(ns, x, R)
  <2>1. ns.safety.highest_vote <= hv /\ hv <= r
    BY <1>1 DEF After, NodeBase
  <2>2. \A v \in votes \ ns.votes : ns.safety.highest_vote < v.round
    BY <1>1, <1>2, <1>12, <2>1 DEF After, VoteFor
  <2>3. ns.safety.highest_vote <= r
    BY <1>2, <2>1
  <2> QED BY <1>1, <1>5, <1>7, <1>6, <2>2, <2>3 DEF After
<1>14. ASSUME NEW b \in open PROVE Keeps(x, b) /\ NeKeeps(x, b)
  <2> DEFINE rb == BlockRound[b]
  <2>1. NeKeeps(x, b)
    BY <1>1, <1>6 DEF NeKeeps
  <2>2. rb \in Nat /\ b \in Block
    BY BlockTypes
  <2>3. CASE VoteFor(rb, b) \in y.votes
    <3>1. /\ \A v \in y.votes : rb <= v.round => NotBelow(v.id, b)
          /\ tip # None => NotBelow(tip, b)
          /\ rb < r => rb <= y.high_certificate.high_extend.qc.round + 1
          /\ rb = r => tip = b
          /\ \A t \in y.timeouts : rb <= t.round => ReportsNotBelow(t, b)
      BY <1>1, <2>3 DEF Keeps
    <3>2. rb <= r
      BY <1>1, <1>2, <2>2, <2>3 DEF NodeBase, VoteFor
    <3>3. \A v \in votes : rb <= v.round => NotBelow(v.id, b)
      BY <1>7, <3>1 DEF VoteFor
    <3>4. ReportsNotBelow(m, b)
      <4>1. CASE tip = None
        <5>1. rb < r
          BY <1>2, <2>2, <3>1, <3>2, <4>1, BlockAssumption
        <5> QED BY <1>4, <3>1, <4>1, <5>1 DEF ReportsNotBelow
      <4>2. CASE tip # None
        BY <1>4, <3>1, <4>2 DEF ReportsNotBelow
      <4> QED BY <4>1, <4>2
    <3>5. \A t \in x.timeouts : rb <= t.round => ReportsNotBelow(t, b)
      BY <1>6, <3>1, <3>4
    <3> QED BY <1>5, <1>6, <1>8, <2>1, <3>1, <3>3, <3>5 DEF Keeps
  <2>4. CASE VoteFor(rb, b) \in votes \ y.votes
    <3>1. rb = r /\ tip = b /\ tip # None /\ hv < r
      BY <1>12, <2>4 DEF VoteFor
    <3>2. NotBelow(b, b)
      <4>1. rb \in Nat /\ BlockQc[b].round \in Nat  BY <2>2, BlockTypes
      <4>2. Consecutive(b)
        OBVIOUS
      <4> QED BY <4>1, <4>2 DEF NotBelow, Consecutive
    <3>3. \A v \in votes : rb <= v.round => v = VoteFor(rb, b)
      <4>1. \A v \in y.votes : v.round \in Nat /\ v.round <= hv
        BY <1>1, <1>2 DEF NodeBase, Vote
      <4> QED BY <1>2, <1>12, <3>1, <4>1
    <3>4. \A t \in x.timeouts : rb <= t.round => t = m
      <4>1. \A t \in y.timeouts : t.round \in Nat /\ t.round <= hv
        BY <1>1, <1>2 DEF NodeBase, TimeoutMessage
      <4> QED BY <1>2, <1>6, <3>1, <4>1
    <3>5. ReportsNotBelow(m, b)
      BY <1>4, <3>1, <3>2 DEF ReportsNotBelow
    <3>6. \A v \in votes : rb <= v.round => NotBelow(v.id, b)
      BY <3>2, <3>3 DEF VoteFor
    <3>7. ~ (rb < r)
      BY <1>2, <3>1
    <3> QED BY <1>5, <1>6, <1>8, <2>1, <3>1, <3>2, <3>4, <3>5, <3>6, <3>7 DEF Keeps
  <2>5. CASE VoteFor(rb, b) \notin votes
    BY <1>6, <2>1, <2>5 DEF Keeps
  <2> QED BY <2>3, <2>4, <2>5
<1> QED BY <1>6, <1>11, <1>13, <1>14 DEF Follows, x

\* ConsensusState::try_vote for a valid proposal: Safety::vote keeps the tip,
\* since no QC of the current round has been processed.
LEMMA TryVoteFollows ==
  ASSUME NEW ns, NEW tips \in SUBSET Block, NEW open \in SUBSET Block, NEW R,
         NEW y \in Follows(ns, tips, open, R),
         ns.safety.highest_vote \in Nat, \A b \in open : Consecutive(b),
         NEW p, p.tip \in tips, p.proposal_round = get_current_round(y),
         \A b \in open : BlockRound[b] < p.proposal_round => NotBelow(p.tip, b)
  PROVE  try_vote(y, p) \in Follows(ns, tips, open, R)
<1> DEFINE r == get_current_round(y)
           hv == y.safety.highest_vote
           x == try_vote(y, p)
           s == x.safety
<1>a. NodeBase(y, tips)
  BY DEF Follows
<1>b. After(ns, y, R)
  BY DEF Follows
<1>c. \A b \in open : Keeps(y, b)
  BY DEF Follows
<1>d. \A b \in open : NeKeeps(y, b)
  BY DEF Follows
<1>1. /\ y \in NodeState /\ r \in Nat /\ hv \in Nat /\ p.tip \in Block
      /\ y.safety.high_certificate_qc_round \in Nat
      /\ y.votes \subseteq Vote /\ y.timeouts \subseteq TimeoutMessage
  BY <1>a, BaseTypes
<1>2. CASE x = y
  BY <1>2
<1>3. CASE Votes(y, x, p.tip)
  <2> HIDE DEF x
  <2>1. hv < r
    BY <1>3 DEF Votes
  <2>3. /\ s.highest_vote = r /\ s.maybe_high_tip \in {p.tip, None}
        /\ BlockRound[p.tip] > y.safety.high_certificate_qc_round => s.maybe_high_tip = p.tip
        /\ s.high_certificate_qc_round = y.safety.high_certificate_qc_round
    BY <1>3 DEF Votes
  <2>6. /\ x \in NodeState /\ x.safety = s /\ x.high_certificate = y.high_certificate
        /\ x.votes = y.votes \cup {VoteFor(r, p.tip)} /\ x.timeouts = y.timeouts
        /\ x.proposals = y.proposals /\ x.no_endorsements = y.no_endorsements
    BY <1>3 DEF Votes, SameLeader
  <2> HIDE DEF s
  <2>7. get_current_round(x) = r
    BY <2>6 DEF get_current_round
  <2>8. \A v \in y.votes : v.round \in Nat /\ v.round < r /\ v.id \in tips
    BY <1>a, <1>1, <2>1 DEF NodeBase, Vote
  <2>9. \A m \in y.timeouts : m.round \in Nat /\ m.round < r
    BY <1>a, <1>1, <2>1 DEF NodeBase, TimeoutMessage
  <2>10. NodeBase(x, tips)
    <3>1. \A v \in x.votes : v.round <= r /\ v.id \in tips
      BY <1>1, <2>6, <2>8 DEF VoteFor
    <3>2. \A m \in x.timeouts : m.round <= r
      BY <1>1, <2>6, <2>9
    <3>3. s.maybe_high_tip # None => s.maybe_high_tip \in tips /\ VoteFor(r, s.maybe_high_tip) \in x.votes
      BY <2>3, <2>6
    <3>4. /\ WellFormed(y.high_certificate) /\ y.safety.high_certificate_qc_round < r
          /\ \A ne \in y.no_endorsements : ne.tip_qc_round < ne.round
      BY <1>a DEF NodeBase
    <3> QED BY <1>1, <2>3, <2>6, <2>7, <3>1, <3>2, <3>3, <3>4 DEF NodeBase
  <2>11. After(ns, x, R)
    <3>1. ns.safety.highest_vote <= hv
      BY <1>b DEF After
    <3>2. ns.safety.highest_vote < r
      BY <1>1, <2>1, <3>1
    <3>3. \A v \in x.votes \ ns.votes : ns.safety.highest_vote < v.round
      BY <1>b, <2>6, <3>2 DEF After, VoteFor
    <3>4. ns.safety.highest_vote <= s.highest_vote
      BY <1>1, <2>3, <3>2
    <3> QED BY <1>b, <2>6, <3>3, <3>4 DEF After
  <2>12. ASSUME NEW b \in open PROVE Keeps(x, b) /\ NeKeeps(x, b)
    <3> DEFINE rb == BlockRound[b]
    <3>1. NeKeeps(x, b)
      BY <1>d, <2>6 DEF NeKeeps
    <3>2. rb \in Nat /\ b \in Block /\ BlockQc[b].round \in Nat /\ Consecutive(b)
      BY BlockTypes
    <3>3. CASE VoteFor(rb, b) \in y.votes
      <4>1. rb < r
        BY <2>8, <3>3 DEF VoteFor
      <4>2. NotBelow(p.tip, b)
        BY <4>1
      <4>3. /\ \A v \in y.votes : rb <= v.round => NotBelow(v.id, b)
            /\ rb < r => rb <= y.high_certificate.high_extend.qc.round + 1
            /\ \A t \in y.timeouts : rb <= t.round => ReportsNotBelow(t, b)
        BY <1>c, <3>3 DEF Keeps
      <4>4. \A v \in x.votes : rb <= v.round => NotBelow(v.id, b)
        BY <2>6, <4>2, <4>3 DEF VoteFor
      <4>5. s.maybe_high_tip # None => NotBelow(s.maybe_high_tip, b)
        BY <2>3, <4>2
      <4>6. rb # r
        BY <1>1, <3>2, <4>1
      <4> QED BY <2>6, <2>7, <3>1, <4>3, <4>4, <4>5, <4>6 DEF Keeps
    <3>4. CASE VoteFor(rb, b) \in x.votes /\ VoteFor(rb, b) \notin y.votes
      <4>1. rb = r /\ p.tip = b
        BY <2>6, <3>4 DEF VoteFor
      <4>2. NotBelow(b, b)
        BY <3>2 DEF NotBelow, Consecutive
      <4>3. s.maybe_high_tip = b
        BY <1>a, <1>1, <2>3, <4>1 DEF NodeBase
      <4>4. \A v \in x.votes : rb <= v.round => NotBelow(v.id, b)
        BY <1>1, <2>6, <2>8, <4>1, <4>2 DEF VoteFor
      <4>5. \A t \in x.timeouts : ~ (rb <= t.round)
        BY <1>1, <2>6, <2>9, <4>1
      <4>6. ~ (rb < r)
        BY <1>1, <4>1
      <4> QED BY <2>6, <2>7, <3>1, <4>2, <4>3, <4>4, <4>5, <4>6 DEF Keeps
    <3>5. CASE VoteFor(rb, b) \notin x.votes
      BY <3>1, <3>5 DEF Keeps
    <3> QED BY <2>6, <3>3, <3>4, <3>5
  <2> QED BY <2>6, <2>10, <2>11, <2>12 DEF Follows, x
<1> QED BY <1>1, <1>2, <1>3, TryVoteEffect

\* A no-endorsement of the tip of a TC of the previous round.
LEMMA NoEndorseFollows ==
  ASSUME NEW ns, NEW tips, NEW open \in SUBSET Block, NEW R, NEW y \in Follows(ns, tips, open, R),
         NEW tip \in Block, get_current_round(y) \in R, BlockQc[tip].round < get_current_round(y),
         \A b \in open : BlockRound[b] < get_current_round(y) => BlockRound[b] <= BlockQc[tip].round + 1
  PROVE  no_endorse(y, tip) \in Follows(ns, tips, open, R)
<1> DEFINE r  == get_current_round(y)
           ne == [round |-> r, tip_qc_round |-> BlockQc[tip].round]
           x  == no_endorse(y, tip)
<1>a. NodeBase(y, tips)
  BY DEF Follows
<1>b. After(ns, y, R)
  BY DEF Follows
<1>c. \A b \in open : Keeps(y, b)
  BY DEF Follows
<1>d. \A b \in open : NeKeeps(y, b)
  BY DEF Follows
<1>1. /\ DoesNotEndorse(y, x, ne)
      /\ ne.round = r /\ ne.tip_qc_round = BlockQc[tip].round
  BY <1>a, NoEndorseEffect DEF NodeBase
<1> HIDE DEF ne, x
<1>2. /\ x.safety.highest_vote = y.safety.highest_vote
      /\ x.safety.maybe_high_tip = y.safety.maybe_high_tip
      /\ x.safety.high_certificate_qc_round = y.safety.high_certificate_qc_round
  BY <1>1 DEF DoesNotEndorse, SameVoter
<1>3. /\ x \in NodeState /\ x.high_certificate = y.high_certificate
      /\ x.votes = y.votes /\ x.timeouts = y.timeouts /\ x.proposals = y.proposals
      /\ x.no_endorsements = y.no_endorsements \cup {ne}
  BY <1>1 DEF DoesNotEndorse, SameVoter, SameLeader
<1>4. get_current_round(x) = r
  BY <1>3 DEF get_current_round
<1>5. NodeBase(x, tips)
  <2>1. \A e \in x.no_endorsements : e.tip_qc_round < e.round
    BY <1>a, <1>1, <1>3 DEF NodeBase
  <2> QED BY <1>a, <1>2, <1>3, <1>4, <2>1 DEF NodeBase
<1>6. After(ns, x, R)
  BY <1>b, <1>1, <1>2, <1>3 DEF After
<1>7. ASSUME NEW b \in open PROVE Keeps(x, b) /\ NeKeeps(x, b)
  <2>1. Keeps(x, b)
    BY <1>c, <1>2, <1>3, <1>4 DEF Keeps
  <2>2. NeKeeps(x, b)
    BY <1>d, <1>1, <1>3 DEF NeKeeps
  <2> QED BY <2>1, <2>2
<1> QED BY <1>3, <1>5, <1>6, <1>7 DEF Follows, x

\* No TC, proposal or recovery request hides a block in open.
TcsKeep(tcs, open) ==
  \A tc \in tcs :
    /\ WellFormed(tc) /\ tc.high_extend.qc.round < tc.round
    /\ \A b \in open : BlockRound[b] <= tc.round => BlockRound[b] <= tc.high_extend.qc.round + 1

ProposalsKeep(props, tips, open) ==
  \A p \in props :
    /\ p.tip \in tips
    /\ \A b \in open : BlockRound[b] < p.proposal_round => NotBelow(p.tip, b)

RecoveriesIn(recs, R) ==
  \A tc \in recs :
    /\ tc.high_extend.tip \in Block /\ tc.high_extend.qc = BlockQc[tc.high_extend.tip]
    /\ tc.round + 1 \in R

\* What this part adds up to.  tcs are the TCs that exist, props the
\* proposals and recs the TCs of recovery requests.
LEMMA FollowsClosed ==
  ASSUME NEW n, NEW ns, ns.safety.highest_vote \in Nat,
         NEW tips \in SUBSET Block, NEW open \in SUBSET Block, NEW R,
         NEW tcs \in SUBSET RoundCertificate, NEW props \in SUBSET ProposalMessage,
         NEW recs \in SUBSET tcs, \A b \in open : Consecutive(b),
         TcsKeep(tcs, open), ProposalsKeep(props, tips, open), RecoveriesIn(recs, R)
  PROVE  Closed(Follows(ns, tips, open, R), n, QuorumCertificate, tcs, props, recs, NoEndorsement)
<1> DEFINE S == Follows(ns, tips, open, R)
<1>1. S \subseteq NodeState /\ \A y \in S : WellFormed(y.high_certificate)
  BY ZenonT(30) DEF Follows, NodeBase
<1>2. \A x : \A y \in S : SameSigner(y, x) => x \in S
  BY SameSignerFollows
<1>3. \A y \in S : LocalTimeout(y) \in S
  BY LocalTimeoutFollows
<1>4. ASSUME NEW y \in S, NEW qc \in QuorumCertificate, ~ (qc.round < get_current_round(y))
      PROVE  EnterQc(y, qc) \in S
  <2>1. \A b \in open : BlockRound[b] <= qc.round => BlockRound[b] <= qc.round + 1
    BY QcCertType, BlockTypes
  <2>2. Enters(y, EnterQc(y, qc), QcCert(qc))
    BY <1>1, <1>4, EnterQcEffect
  <2>3. qc.round <= qc.round
    BY QcCertType
  <2> QED BY <1>4, <2>1, <2>2, <2>3, QcCertType, EnterFollows
<1>5. ASSUME NEW y \in S, NEW tc \in tcs, ~ (tc.round < get_current_round(y))
      PROVE  PacemakerProcessCertificate(y, tc) \in S
  <2>1. tc \in RoundCertificate /\ tc.high_extend.qc.round <= tc.round
    BY DEF TcsKeep, RoundCertificate, HighExtend, QuorumCertificate
  <2>2. Enters(y, PacemakerProcessCertificate(y, tc), tc)
    BY <1>1, <1>5, <2>1, EnterEffect
  <2> QED BY <1>5, <2>1, <2>2, EnterFollows DEF TcsKeep
<1>6. ASSUME NEW y \in S, NEW p \in props, p.proposal_round = get_current_round(y)
      PROVE  try_vote(y, p) \in S
  BY <1>6, TryVoteFollows DEF ProposalsKeep
<1>7. ASSUME NEW y \in S, NEW tc \in recs, tc.round + 1 = get_current_round(y)
       PROVE  no_endorse(y, tc.high_extend.tip) \in S
  <2> DEFINE tip == tc.high_extend.tip
  <2>1. tip \in Block /\ get_current_round(y) \in R /\ tc.high_extend.qc = BlockQc[tip]
    BY <1>7 DEF RecoveriesIn
  <2>2. tc.round \in Nat /\ BlockQc[tip].round \in Nat
    BY <2>1, BlockTypes DEF RoundCertificate
  <2>3. /\ BlockQc[tip].round < tc.round
        /\ \A b \in open : BlockRound[b] <= tc.round => BlockRound[b] <= BlockQc[tip].round + 1
    BY <2>1 DEF TcsKeep
  <2>4. BlockQc[tip].round < get_current_round(y)
    BY <1>7, <2>2, <2>3
  <2>5. \A b \in open : BlockRound[b] < get_current_round(y) => BlockRound[b] <= BlockQc[tip].round + 1
    BY <1>7, <2>2, <2>3, BlockTypes
  <2> HIDE DEF tip
  <2>6. no_endorse(y, tip) \in S
    BY <2>1, <2>4, <2>5, NoEndorseFollows
  <2> QED BY <2>6 DEF tip
<1> HIDE DEF S
<1>8. \A y \in S : try_propose(n, y) \subseteq S
  BY <1>1, <1>2, TryProposeSame
<1>9. ASSUME NEW y \in S, NEW p \in props PROVE Handled(y, p) \in S
  <2>1. Marks(y, Handled(y, p))
    BY <1>1, HandledEffect
  <2> QED BY <1>2, <2>1 DEF Marks, SameLeader, SameSigner
<1>10. ASSUME NEW y \in S, NEW ne \in NoEndorsement PROVE Collected(y, ne) \in S
  <2>1. Collects(y, Collected(y, ne), ne)
    BY <1>1, CollectedEffect
  <2> QED BY <1>2, <2>1 DEF Collects, SameSigner
<1>11. Closed(S, n, QuorumCertificate, tcs, props, recs, NoEndorsement)
  BY ZenonT(30), <1>3, <1>4, <1>5, <1>6, <1>7, <1>8, <1>9, <1>10 DEF Closed
<1> QED BY <1>11 DEF S

-----------------------------------------------------------------------------
(* What a node has sent *)

\* The no-endorsement ne answers a recovery request with the TC tc.
Answers(ne, tc) == ne.round = tc.round + 1 /\ ne.tip_qc_round = tc.high_extend.qc.round

Certs(qcs, tcs) == {QcCert(qc) : qc \in qcs} \cup tcs

\* A timeout reports a QC or a tip that exists, and comes with the certificate
\* of the previous round unless its QC is that certificate.
TimeoutMade(t, qcs, tcs, tips) ==
  LET rc == t.last_round_certificate
      he == t.high_extend
  IN  /\ \/ he.tip = None /\ he.qc \in qcs
         \/ he.tip \in tips /\ he.qc = BlockQc[he.tip]
      /\ rc # None => rc \in Certs(qcs, tcs) /\ t.round = rc.round + 1
      /\ t.round = he.qc.round + 1 <=> rc = None

\* A fresh block on a QC of the previous round.
OnQc(p, qcs) ==
  /\ p.last_round_tc = None /\ BlockQc[p.tip] \in qcs
  /\ p.proposal_round = BlockRound[p.tip] /\ p.proposal_round = BlockQc[p.tip].round + 1

\* The tip of a TC once more, or a fresh block on the QC of the TC, which has
\* no tip or one that was not endorsed.
OnTc(p, tcs, nes) ==
  LET tc == p.last_round_tc IN
  /\ tc \in tcs /\ p.proposal_round = tc.round + 1
  /\ \/ p.tip = tc.high_extend.tip
     \/ /\ p.proposal_round = BlockRound[p.tip] /\ BlockQc[p.tip] = tc.high_extend.qc
        /\ \/ tc.high_extend.tip = None
           \/ [round |-> p.proposal_round, tip_qc_round |-> BlockQc[p.tip].round] \in nes

ProposalMade(p, n, qcs, tcs, nes) ==
  /\ Leader[p.proposal_round] = n /\ p.tip \in Block
  /\ OnQc(p, qcs) \/ OnTc(p, tcs, nes)

\* A recovery request is for the tip of the TC that led the node, as leader,
\* to its round.
RecoveryMade(tc, y, n, tcs) ==
  /\ tc \in tcs /\ tc.high_extend.tip # None /\ Leader[tc.round + 1] = n
  /\ tc.round < get_current_round(y)
  /\ tc.round + 1 = get_current_round(y) => tc = y.high_certificate

\* The node keeps the no-endorsement certificates of its own requests.
NecMade(c, y, nes) == c \in nes /\ \E tc \in y.recoveries : Answers(c, tc)

Sound(y, n, qcs, tcs, tips, recs, nes) ==
  /\ y.high_certificate \in Certs(qcs, tcs) /\ y.safety.highest_vote <= get_current_round(y)
  /\ y.safety.maybe_high_tip # None => y.safety.maybe_high_tip \in tips
  /\ \A t \in y.timeouts : TimeoutMade(t, qcs, tcs, tips)
  /\ \A p \in y.proposals : ProposalMade(p, n, qcs, tcs, nes)
  /\ \A tc \in y.recoveries : RecoveryMade(tc, y, n, tcs)
  /\ \A c \in y.no_endorsement_state.certificates : NecMade(c, y, nes)
  /\ \A ne \in y.no_endorsements : \E tc \in recs : Answers(ne, tc)

\* The states that node n may be in after ns, when the QCs, TCs and tips that
\* exist are qcs, tcs and tips, recovery was requested with the TCs in recs,
\* and nes are the no-endorsements of which n may build a certificate.
Sends(ns, n, qcs, tcs, tips, recs, nes) ==
  {y \in NodeState : Kept(ns, y) /\ Sound(y, n, qcs, tcs, tips, recs, nes)}

\* What exists fits together.
TcsExist(qcs, tcs, tips) ==
  /\ tcs \subseteq RoundCertificate
  /\ \A tc \in tcs : /\ tc.kind = "Tc" /\ tc.high_extend.qc \in qcs
                     /\ \/ tc.high_extend.tip = None
                        \/ /\ tc.high_extend.tip \in tips
                           /\ tc.high_extend.qc = BlockQc[tc.high_extend.tip]

ReceivedExist(ns, tcs, tips, props, recs, nes) ==
  /\ props \subseteq ProposalMessage /\ \A p \in props : p.tip \in tips
  /\ recs \subseteq tcs /\ \A tc \in recs : tc.high_extend.tip # None
  /\ nes \subseteq NoEndorsement /\ \A ne \in nes : \E tc \in ns.recoveries : Answers(ne, tc)

\* x differs from y by what a step in the same round may add.
Adds(y, x, n, qcs, tcs, tips, recs, nes) ==
  /\ x \in NodeState /\ Kept(y, x) /\ x.high_certificate = y.high_certificate
  /\ x.safety.highest_vote <= get_current_round(y)
  /\ x.safety.maybe_high_tip # None => x.safety.maybe_high_tip \in tips
  /\ \A t \in x.timeouts \ y.timeouts : TimeoutMade(t, qcs, tcs, tips)
  /\ \A p \in x.proposals \ y.proposals : ProposalMade(p, n, qcs, tcs, nes)
  /\ \A tc \in x.recoveries \ y.recoveries : RecoveryMade(tc, y, n, tcs)
  /\ \A c \in x.no_endorsement_state.certificates \ y.no_endorsement_state.certificates : NecMade(c, y, nes)
  /\ \A ne \in x.no_endorsements \ y.no_endorsements : \E tc \in recs : Answers(ne, tc)

LEMMA AddsSends ==
  ASSUME NEW ns, NEW n, NEW qcs, NEW tcs, NEW tips, NEW recs, NEW nes,
         NEW y \in Sends(ns, n, qcs, tcs, tips, recs, nes), NEW x, Adds(y, x, n, qcs, tcs, tips, recs, nes)
  PROVE  x \in Sends(ns, n, qcs, tcs, tips, recs, nes)
<1>1. Kept(ns, y) /\ Sound(y, n, qcs, tcs, tips, recs, nes)
  BY ZenonT(30) DEF Sends
<1>2. Kept(ns, x)
  BY <1>1 DEF Kept, Adds
<1>3. get_current_round(x) = get_current_round(y)
  BY ZenonT(30) DEF Adds, get_current_round
<1>4. \A tc \in x.recoveries : RecoveryMade(tc, x, n, tcs)
  BY ZenonT(30), <1>1, <1>3 DEF Sound, Adds, RecoveryMade
<1>5. \A c \in x.no_endorsement_state.certificates : NecMade(c, x, nes)
  BY ZenonT(30), <1>1 DEF Sound, Adds, NecMade, Kept
<1>6. /\ \A t \in x.timeouts : TimeoutMade(t, qcs, tcs, tips)
      /\ \A p \in x.proposals : ProposalMade(p, n, qcs, tcs, nes)
      /\ \A ne \in x.no_endorsements : \E tc \in recs : Answers(ne, tc)
  BY ZenonT(30), <1>1 DEF Sound, Adds
<1>7. Sound(x, n, qcs, tcs, tips, recs, nes)
  BY ZenonT(30), <1>1, <1>3, <1>4, <1>5, <1>6 DEF Sound, Adds
<1> QED BY <1>2, <1>7 DEF Sends, Adds

\* The certificate that led to the round.
LEMMA CertFacts ==
  ASSUME NEW y \in NodeState, NEW qcs \in SUBSET QuorumCertificate, NEW tcs, NEW tips \in SUBSET Block,
         TcsExist(qcs, tcs, tips), NEW cert \in Certs(qcs, tcs)
  PROVE  /\ cert \in RoundCertificate /\ WellFormed(cert) /\ cert # None
         /\ cert.high_extend.qc \in qcs
         /\ cert.kind # "Tc" => /\ cert.high_extend.tip = None
                                /\ cert.round = cert.high_extend.qc.round
         /\ cert.kind = "Tc" => cert \in tcs
         /\ \/ cert.high_extend.tip = None
            \/ cert.high_extend.tip \in tips /\ cert.high_extend.qc = BlockQc[cert.high_extend.tip]
<1>1. CASE cert \in tcs
  <2>1. /\ cert \in RoundCertificate /\ cert.kind = "Tc" /\ cert.high_extend.qc \in qcs
        /\ \/ cert.high_extend.tip = None
           \/ cert.high_extend.tip \in tips /\ cert.high_extend.qc = BlockQc[cert.high_extend.tip]
    BY <1>1 DEF TcsExist
  <2> QED BY <1>1, <2>1, NoneAssumption DEF WellFormed
<1>2. ASSUME NEW qc \in qcs, cert = QcCert(qc)
      PROVE  /\ cert \in RoundCertificate /\ WellFormed(cert) /\ cert.kind = "Qc"
             /\ cert.high_extend.qc = qc /\ cert.high_extend.tip = None /\ cert.round = qc.round
  BY <1>2 DEF QcCert, ExtendQc, QuorumCertificate, RoundCertificate, HighExtend, WellFormed
<1> QED BY <1>1, <1>2, NoneAssumption DEF Certs

LEMMA SendsTypes ==
  ASSUME NEW ns, NEW n, NEW qcs, NEW tcs, NEW tips, NEW recs, NEW nes,
         NEW y \in Sends(ns, n, qcs, tcs, tips, recs, nes)
  PROVE  /\ y \in NodeState /\ y.safety.highest_vote <= get_current_round(y)
         /\ y.safety.maybe_high_tip # None => y.safety.maybe_high_tip \in tips
BY ZenonT(30) DEF Sends, Sound

LEMMA LocalTimeoutAdds ==
  ASSUME NEW ns, NEW n, NEW qcs \in SUBSET QuorumCertificate, NEW tcs, NEW tips \in SUBSET Block,
         NEW recs, NEW nes, TcsExist(qcs, tcs, tips), NEW y \in Sends(ns, n, qcs, tcs, tips, recs, nes)
  PROVE  Adds(y, LocalTimeout(y), n, qcs, tcs, tips, recs, nes)
<1> DEFINE m == TimeoutOf(y)
           r == get_current_round(y)
           tip == y.safety.maybe_high_tip
           cert == y.high_certificate
           x == LocalTimeout(y)
<1>1. /\ y \in NodeState /\ cert \in Certs(qcs, tcs) /\ (tip # None => tip \in tips)
      /\ y.safety.highest_vote <= r
  BY ZenonT(30) DEF Sends, Sound
<1>2. cert # None /\ cert.high_extend.qc \in qcs /\ r \in Nat /\ r = cert.round + 1
  <2>1. cert # None /\ cert.high_extend.qc \in qcs
    BY ZenonT(30), <1>1, CertFacts
  <2>2. r \in Nat
    BY ZenonT(30), <1>1, StateTypes
  <2>3. r = cert.round + 1
    BY Zenon DEF get_current_round
  <2> QED BY Zenon, <2>1, <2>2, <2>3
<1>3. TimesOut(y, x, m)
  BY ZenonT(30), <1>1, LocalTimeoutEffect
<1> HIDE DEF m, x
<1>4. TimeoutMade(m, qcs, tcs, tips)
  <2>1. /\ m.round = r /\ m.high_extend.tip = tip
        /\ m.high_extend.qc = IF tip = None THEN cert.high_extend.qc ELSE BlockQc[tip]
        /\ m.last_round_certificate = IF m.high_extend.qc.round + 1 = r THEN None ELSE cert
    BY <1>3 DEF TimesOut
  <2> HIDE DEF r
  <2> QED BY <1>1, <1>2, <2>1 DEF TimeoutMade
<1>5. x.safety.highest_vote <= r
  BY <1>2, <1>3 DEF TimesOut
<1> QED BY ZenonT(30), <1>1, <1>3, <1>4, <1>5 DEF Adds, Kept, TimesOut, SameLeader, x

\* ConsensusState::try_vote for a tip that exists.
LEMMA TryVoteAdds ==
  ASSUME NEW ns, NEW n, NEW qcs, NEW tcs, NEW tips \in SUBSET Block, NEW recs, NEW nes,
         NEW y \in Sends(ns, n, qcs, tcs, tips, recs, nes), NEW p, p.tip \in tips
  PROVE  Adds(y, try_vote(y, p), n, qcs, tcs, tips, recs, nes)
<1> DEFINE x == try_vote(y, p)
<1>1. /\ y \in NodeState /\ y.safety.highest_vote <= get_current_round(y)
      /\ y.safety.maybe_high_tip # None => y.safety.maybe_high_tip \in tips
  BY SendsTypes
<1>2. x = y \/ Votes(y, x, p.tip)
  BY <1>1, TryVoteEffect
<1>3. get_current_round(y) <= get_current_round(y)
  <2>1. get_current_round(y) \in Nat
    BY ZenonT(30), <1>1, StateTypes
  <2> QED BY Zenon, <2>1, NextRound
<1> HIDE DEF x
<1>4. CASE x = y
  BY ZenonT(30), <1>1, <1>4 DEF Adds, Kept, x
<1>5. CASE Votes(y, x, p.tip)
  BY ZenonT(30), <1>1, <1>3, <1>5 DEF Adds, Kept, Votes, SameLeader, x
<1> QED BY <1>2, <1>4, <1>5

\* A step that signs nothing.
LEMMA SignsNothing ==
  ASSUME NEW ns, NEW n, NEW qcs, NEW tcs, NEW tips, NEW recs, NEW nes,
         NEW y \in Sends(ns, n, qcs, tcs, tips, recs, nes), NEW x \in NodeState, SameVoter(y, x),
         y.no_endorsements \subseteq x.no_endorsements, y.proposals \subseteq x.proposals,
         y.recoveries \subseteq x.recoveries,
         \A p \in x.proposals \ y.proposals : ProposalMade(p, n, qcs, tcs, nes),
         \A tc \in x.recoveries \ y.recoveries : RecoveryMade(tc, y, n, tcs),
         \A c \in x.no_endorsement_state.certificates \ y.no_endorsement_state.certificates :
           NecMade(c, y, nes),
         \A ne \in x.no_endorsements \ y.no_endorsements : \E tc \in recs : Answers(ne, tc)
  PROVE  x \in Sends(ns, n, qcs, tcs, tips, recs, nes)
<1>1. /\ y.safety.highest_vote <= get_current_round(y)
      /\ y.safety.maybe_high_tip # None => y.safety.maybe_high_tip \in tips
  BY ZenonT(30), SendsTypes
<1>2. Adds(y, x, n, qcs, tcs, tips, recs, nes)
  BY ZenonT(30), <1>1 DEF Adds, Kept, SameVoter
<1> QED BY ZenonT(30), <1>2, AddsSends

LEMMA ProposeSends ==
  ASSUME NEW ns, NEW n, NEW qcs, NEW tcs, NEW tips, NEW recs, NEW nes,
         NEW y \in Sends(ns, n, qcs, tcs, tips, recs, nes), NEW b \in Block,
         NEW tc \in RoundCertificate \cup {None},
         ProposalMade([proposal_round |-> get_current_round(y), tip |-> b, last_round_tc |-> tc],
                      n, qcs, tcs, nes)
  PROVE  Propose(y, b, tc) \in Sends(ns, n, qcs, tcs, tips, recs, nes)
<1> DEFINE p == [proposal_round |-> get_current_round(y), tip |-> b, last_round_tc |-> tc]
           x == Propose(y, b, tc)
<1>1. y \in NodeState /\ ProposalMade(p, n, qcs, tcs, nes)
  BY SendsTypes
<1>2. Proposes(y, x, p)
  BY ZenonT(30), <1>1, ProposeEffect
<1> HIDE DEF p, x
<1>3. /\ x \in NodeState /\ SameVoter(y, x) /\ x.proposals = y.proposals \cup {p}
      /\ x.no_endorsements = y.no_endorsements /\ x.recoveries = y.recoveries
      /\ x.no_endorsement_state = y.no_endorsement_state
  BY ZenonT(30), <1>2 DEF Proposes
<1>4. x \in Sends(ns, n, qcs, tcs, tips, recs, nes)
  BY ZenonT(30), <1>1, <1>3, SignsNothing
<1> QED BY <1>4 DEF x

LEMMA RequestSends ==
  ASSUME NEW ns, NEW n, NEW qcs, NEW tcs, NEW tips, NEW recs, NEW nes,
         NEW y \in Sends(ns, n, qcs, tcs, tips, recs, nes), NEW tc \in RoundCertificate,
         RecoveryMade(tc, y, n, tcs)
  PROVE  RequestRecovery(y, tc) \in Sends(ns, n, qcs, tcs, tips, recs, nes)
<1> DEFINE x == RequestRecovery(y, tc)
<1>1. Requests(y, x, tc)
  BY SendsTypes, RequestEffect
<1> HIDE DEF x
<1>2. /\ x \in NodeState /\ SameVoter(y, x) /\ x.recoveries = y.recoveries \cup {tc}
      /\ x.no_endorsements = y.no_endorsements /\ x.proposals = y.proposals
      /\ x.no_endorsement_state = y.no_endorsement_state
  BY ZenonT(30), <1>1 DEF Requests
<1>3. x \in Sends(ns, n, qcs, tcs, tips, recs, nes)
  BY ZenonT(30), <1>2, SignsNothing
<1> QED BY <1>3 DEF x

\* ConsensusState::try_propose: what is proposed or requested fits the
\* certificate of the round.
LEMMA TryProposeSends ==
  ASSUME NEW ns, NEW n, NEW qcs \in SUBSET QuorumCertificate, NEW tcs, NEW tips \in SUBSET Block,
         NEW recs, NEW nes, TcsExist(qcs, tcs, tips), NEW y \in Sends(ns, n, qcs, tcs, tips, recs, nes)
  PROVE  try_propose(n, y) \subseteq Sends(ns, n, qcs, tcs, tips, recs, nes)
<1> DEFINE S == Sends(ns, n, qcs, tcs, tips, recs, nes)
           r == get_current_round(y)
           cert == y.high_certificate
           he == cert.high_extend
           nec == \E c \in y.no_endorsement_state.certificates : c.round = r
           tc == IF cert.kind = "Tc" THEN cert ELSE None
           fresh == {b \in Block : BlockRound[b] = r /\ BlockQc[b] = he.qc}
           P(b) == [proposal_round |-> r, tip |-> b, last_round_tc |-> tc]
<1>1. y \in NodeState /\ Sound(y, n, qcs, tcs, tips, recs, nes) /\ cert \in Certs(qcs, tcs)
  BY ZenonT(30) DEF Sends, Sound
<1>2. /\ cert \in RoundCertificate /\ cert # None /\ he.qc \in qcs
      /\ cert.kind # "Tc" => he.tip = None /\ cert.round = he.qc.round
      /\ cert.kind = "Tc" => cert \in tcs
      /\ he.tip = None \/ (he.tip \in tips /\ he.qc = BlockQc[he.tip])
  BY <1>1, CertFacts
<1>3. cert.round \in Nat /\ r \in Nat /\ r = cert.round + 1
  BY <1>2 DEF RoundCertificate, get_current_round
<1>4. CASE Leader[r] # n \/ ~ is_safe_to_propose(y.safety, r)
  BY <1>4 DEF try_propose
<1>5. CASE Leader[r] = n /\ is_safe_to_propose(y.safety, r) /\ he.tip # None /\ ~ nec
  <2>1. he.tip \in Block /\ tc = cert /\ cert \in tcs
    BY <1>2, <1>5, BlockAssumption
  <2>2. try_propose(n, y) \subseteq {y, Propose(y, he.tip, tc), RequestRecovery(y, tc)}
    BY ZenonT(30), <1>5 DEF try_propose
  <2> HIDE DEF tc
  <2>3. ProposalMade(P(he.tip), n, qcs, tcs, nes)
    BY ZenonT(30), <1>3, <1>5, <2>1 DEF ProposalMade, OnTc
  <2>4. RecoveryMade(tc, y, n, tcs)
    BY ZenonT(30), <1>3, <1>5, <2>1, NextRound DEF RecoveryMade
  <2>5. Propose(y, he.tip, tc) \in S
    BY ZenonT(30), <1>2, <2>1, <2>3, ProposeSends
  <2>6. RequestRecovery(y, tc) \in S
    BY <1>2, <2>1, <2>4, RequestSends
  <2> QED BY ZenonT(30), <2>2, <2>5, <2>6
<1>6. CASE Leader[r] = n /\ is_safe_to_propose(y.safety, r) /\ (he.tip = None \/ nec)
  <2>1. try_propose(n, y) = {y} \cup {Propose(y, b, tc) : b \in fresh}
    BY <1>6 DEF try_propose
  <2>2. tc \in RoundCertificate \cup {None}
    BY ZenonT(30), <1>2
  <2>3. ASSUME NEW b \in fresh PROVE ProposalMade(P(b), n, qcs, tcs, nes)
    <3> DEFINE p == P(b)
    <3>1. p.proposal_round = r /\ p.tip = b /\ p.last_round_tc = tc
      BY ZenonT(30)
    <3> HIDE DEF p
    <3>2. CASE cert.kind # "Tc"
      BY ZenonT(30), <1>2, <1>3, <1>6, <3>1, <3>2 DEF ProposalMade, OnQc
    <3>3. CASE cert.kind = "Tc" /\ he.tip = None
      BY ZenonT(30), <1>2, <1>3, <1>6, <3>1, <3>3 DEF ProposalMade, OnTc
    <3>4. CASE cert.kind = "Tc" /\ he.tip # None
      <4>1. PICK c \in y.no_endorsement_state.certificates : c.round = r
        BY ZenonT(30), <1>6, <3>4
      <4>2. NecMade(c, y, nes)
        BY ZenonT(30), <1>1, <4>1 DEF Sound
      <4>3. PICK t \in y.recoveries : Answers(c, t)
        BY ZenonT(30), <4>2 DEF NecMade
      <4>4. RecoveryMade(t, y, n, tcs)
        BY ZenonT(30), <1>1, <4>3 DEF Sound
      <4>5. t = cert
        BY ZenonT(30), <4>1, <4>3, <4>4 DEF Answers, RecoveryMade
      <4>6. c \in NoEndorsement
        BY <1>1, <4>1 DEF NodeState, NoEndorsementState
      <4>7. c = [round |-> r, tip_qc_round |-> BlockQc[b].round]
        BY ZenonT(30), <4>1, <4>3, <4>5, <4>6 DEF Answers, NoEndorsement
      <4>8. [round |-> r, tip_qc_round |-> BlockQc[b].round] \in nes
        BY <4>2, <4>7 DEF NecMade
      <4> QED BY ZenonT(30), <1>2, <1>3, <1>6, <3>1, <3>4, <4>8 DEF ProposalMade, OnTc
    <3> QED BY ZenonT(30), <3>2, <3>3, <3>4 DEF p
  <2> HIDE DEF tc
  <2>4. \A b \in fresh : Propose(y, b, tc) \in S
    BY ZenonT(30), <2>2, <2>3, ProposeSends
  <2> QED BY <2>1, <2>4
<1> QED BY ZenonT(30), <1>4, <1>5, <1>6

\* A later round is entered: what was requested in earlier rounds is of no use
\* any more.
LEMMA EnterSends ==
  ASSUME NEW ns, NEW n, NEW qcs \in SUBSET QuorumCertificate, NEW tcs, NEW tips \in SUBSET Block,
         NEW recs, NEW nes, TcsExist(qcs, tcs, tips), NEW y \in Sends(ns, n, qcs, tcs, tips, recs, nes),
         NEW cert \in Certs(qcs, tcs), ~ (cert.round < get_current_round(y)), NEW x, Enters(y, x, cert)
  PROVE  x \in Sends(ns, n, qcs, tcs, tips, recs, nes)
<1>1. y \in NodeState /\ Kept(ns, y) /\ Sound(y, n, qcs, tcs, tips, recs, nes)
  BY DEF Sends
<1>2. /\ cert.round \in Nat /\ get_current_round(y) \in Nat /\ y.safety.highest_vote \in Nat
      /\ y.safety.highest_vote <= get_current_round(y) /\ y.recoveries \subseteq RoundCertificate
  <2>1. cert \in RoundCertificate
    BY ZenonT(30), <1>1, CertFacts
  <2>2. cert.round \in Nat
    BY ZenonT(30), <2>1 DEF RoundCertificate
  <2>3. y.safety.highest_vote <= get_current_round(y)
    BY <1>1 DEF Sound
  <2> QED BY ZenonT(30), <1>1, <2>2, <2>3, StateTypes
<1>3. get_current_round(x) = cert.round + 1
  BY DEF Enters, get_current_round
<1>4. ASSUME NEW tc \in y.recoveries PROVE RecoveryMade(tc, x, n, tcs)
  <2>1. RecoveryMade(tc, y, n, tcs) /\ tc.round \in Nat
    BY ZenonT(30), <1>1, <1>2 DEF Sound, RoundCertificate
  <2>2. tc.round < cert.round + 1 /\ tc.round + 1 # cert.round + 1
    BY ZenonT(30), <1>2, <2>1, LaterRound DEF RecoveryMade
  <2> QED BY ZenonT(30), <1>3, <2>1, <2>2 DEF RecoveryMade
<1>5. \A c \in x.no_endorsement_state.certificates : NecMade(c, x, nes)
  BY ZenonT(30), <1>1 DEF Sound, NecMade, Enters
<1>6. /\ x.high_certificate = cert /\ x.recoveries = y.recoveries
      /\ x.safety.maybe_high_tip # None => x.safety.maybe_high_tip \in tips
      /\ \A t \in x.timeouts : TimeoutMade(t, qcs, tcs, tips)
      /\ \A p \in x.proposals : ProposalMade(p, n, qcs, tcs, nes)
      /\ \A ne \in x.no_endorsements : \E tc \in recs : Answers(ne, tc)
  BY ZenonT(30), <1>1 DEF Sound, Enters
<1>7. x.safety.highest_vote <= get_current_round(x)
  <2>1. x.safety.highest_vote = y.safety.highest_vote
    BY ZenonT(30) DEF Enters
  <2>2. y.safety.highest_vote <= cert.round + 1
    BY ZenonT(30), <1>2, LaterRound
  <2> QED BY Zenon, <1>3, <2>1, <2>2
<1>8. Sound(x, n, qcs, tcs, tips, recs, nes)
  BY ZenonT(30), <1>4, <1>5, <1>6, <1>7 DEF Sound
<1>9. Kept(ns, x) /\ x \in NodeState
  BY ZenonT(30), <1>1 DEF Kept, Enters
<1> QED BY <1>8, <1>9 DEF Sends

\* What this part adds up to.
LEMMA SendsClosed ==
  ASSUME NEW ns, NEW n, NEW qcs \in SUBSET QuorumCertificate, NEW tcs, NEW tips \in SUBSET Block,
         NEW props, NEW recs, NEW nes, TcsExist(qcs, tcs, tips),
         ReceivedExist(ns, tcs, tips, props, recs, nes)
  PROVE  Closed(Sends(ns, n, qcs, tcs, tips, recs, nes), n, qcs, tcs, props, recs, nes)
<1> DEFINE S == Sends(ns, n, qcs, tcs, tips, recs, nes)
<1>1. \A y \in S : y \in NodeState
  BY ZenonT(30), SendsTypes
<1>2. \A y \in S : LocalTimeout(y) \in S
  BY LocalTimeoutAdds, AddsSends
<1>3. \A y \in S : try_propose(n, y) \subseteq S
  BY TryProposeSends
<1>4. ASSUME NEW y \in S, NEW qc \in qcs, ~ (qc.round < get_current_round(y))
      PROVE  EnterQc(y, qc) \in S
  <2>1. QcCert(qc) \in Certs(qcs, tcs) /\ QcCert(qc).round = qc.round
    BY QcCertType DEF Certs
  <2>2. Enters(y, EnterQc(y, qc), QcCert(qc))
    BY <1>1, <1>4, EnterQcEffect
  <2> QED BY <1>4, <2>1, <2>2, EnterSends
<1>5. ASSUME NEW y \in S, NEW tc \in tcs, ~ (tc.round < get_current_round(y))
      PROVE  PacemakerProcessCertificate(y, tc) \in S
  <2>1. tc \in Certs(qcs, tcs) /\ tc \in RoundCertificate
    BY ZenonT(30) DEF Certs, TcsExist
  <2>2. Enters(y, PacemakerProcessCertificate(y, tc), tc)
    BY ZenonT(30), <1>1, <1>5, <2>1, EnterEffect
  <2> QED BY ZenonT(30), <1>5, <2>1, <2>2, EnterSends
<1>6. ASSUME NEW y \in S, NEW p \in props PROVE Handled(y, p) \in S
  <2>1. Marks(y, Handled(y, p))
    BY ZenonT(30), <1>1, HandledEffect DEF ReceivedExist
  <2> QED BY ZenonT(30), <2>1, SignsNothing DEF Marks, SameLeader
<1>7. \A y \in S, p \in props : try_vote(y, p) \in S
  BY TryVoteAdds, AddsSends DEF ReceivedExist
<1>8. ASSUME NEW y \in S, NEW tc \in recs, tc.round + 1 = get_current_round(y)
      PROVE  no_endorse(y, tc.high_extend.tip) \in S
  <2> DEFINE b  == tc.high_extend.tip
             ne == [round |-> get_current_round(y), tip_qc_round |-> BlockQc[b].round]
             x  == no_endorse(y, b)
  <2>1. b \in Block /\ tc.high_extend.qc = BlockQc[b]
    BY ZenonT(30) DEF ReceivedExist, TcsExist
  <2>2. DoesNotEndorse(y, x, ne) /\ ne.round = get_current_round(y) /\ ne.tip_qc_round = BlockQc[b].round
    BY ZenonT(30), <1>1, <2>1, NoEndorseEffect
  <2> HIDE DEF b, ne, x
  <2>3. Answers(ne, tc)
    BY ZenonT(30), <1>8, <2>1, <2>2 DEF Answers
  <2>4. x \in S
    BY ZenonT(30), <2>2, <2>3, SignsNothing DEF DoesNotEndorse, SameLeader
  <2> QED BY <2>4 DEF x, b
<1>9. ASSUME NEW y \in S, NEW ne \in nes PROVE Collected(y, ne) \in S
  <2>1. NecMade(ne, y, nes)
    BY ZenonT(30) DEF ReceivedExist, NecMade, Sends, Kept
  <2>2. Collects(y, Collected(y, ne), ne)
    BY ZenonT(30), <1>1, CollectedEffect DEF ReceivedExist
  <2> QED BY ZenonT(30), <2>1, <2>2, SignsNothing DEF Collects
<1> HIDE DEF S
<1> QED BY ZenonT(30), <1>2, <1>3, <1>4, <1>5, <1>6, <1>7, <1>8, <1>9 DEF Closed, S

\* What was made of fewer certificates, tips and requests is made of more.
LEMMA SoundStays ==
  ASSUME NEW y, NEW n, NEW qcs, NEW tcs, NEW tips, NEW recs, NEW nes,
         NEW qcs1, NEW tcs1, NEW tips1, NEW recs1, NEW nes1,
         qcs \subseteq qcs1, tcs \subseteq tcs1, tips \subseteq tips1, recs \subseteq recs1, nes \subseteq nes1,
         Sound(y, n, qcs, tcs, tips, recs, nes)
  PROVE  Sound(y, n, qcs1, tcs1, tips1, recs1, nes1)
<1>1. Certs(qcs, tcs) \subseteq Certs(qcs1, tcs1)
  BY DEF Certs
<1>2. \A t : TimeoutMade(t, qcs, tcs, tips) => TimeoutMade(t, qcs1, tcs1, tips1)
  BY <1>1 DEF TimeoutMade
<1>3. \A p : ProposalMade(p, n, qcs, tcs, nes) => ProposalMade(p, n, qcs1, tcs1, nes1)
  BY DEF ProposalMade, OnQc, OnTc
<1>4. \A tc : RecoveryMade(tc, y, n, tcs) => RecoveryMade(tc, y, n, tcs1)
  BY DEF RecoveryMade
<1>5. \A c : NecMade(c, y, nes) => NecMade(c, y, nes1)
  BY DEF NecMade
<1> QED BY <1>1, <1>2, <1>3, <1>4, <1>5 DEF Sound
=============================================================================
