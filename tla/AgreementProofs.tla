-------------------------- MODULE AgreementProofs --------------------------
(***************************************************************************)
(* Agreement of MonadBFT for every set of validators, blocks and rounds.   *)
(* HandlerProofs says what a handler keeps of its node; here is what       *)
(* follows for the certificates of the protocol.                           *)
(***************************************************************************)
EXTENDS MonadBFTProofs

-----------------------------------------------------------------------------
(* The invariant *)

\* Some supermajority has, in its correct members, voted or timed out in round
\* k - 1 or later.
Passed(k) ==
  \E Q \in SuperMajority : \A n \in Q \cap Honest : k <= nodes[n].safety.highest_vote + 1

\* b has a QC in its own round, or may yet get one.
MayBeCertified(b) ==
  \E P \in SuperMajority : \A n \in P \cap Honest :
    \/ VoteFor(BlockRound[b], b) \in nodes[n].votes
    \/ nodes[n].safety.highest_vote < BlockRound[b]

Open == {b \in Block : Consecutive(b) /\ MayBeCertified(b)}

\* A tip that was proposed later than in the round after its QC is never
\* certified in the round after its QC.
LateTip(b) ==
  LET r == BlockQc[b].round + 1 IN
  r < BlockRound[b] =>
    \E Q \in SuperMajority : \A n \in Q \cap Honest :
      r <= nodes[n].safety.highest_vote /\ VoteFor(r, b) \notin nodes[n].votes

AInv ==
  /\ \A n \in Honest : NodeBase(nodes[n], Tips)
  /\ \A n \in Honest : \A ne \in nodes[n].no_endorsements : Passed(ne.round)
  /\ \A b \in Tips : LateTip(b)
  /\ \A n \in Honest, b \in Open : Keeps(nodes[n], b) /\ NeKeeps(nodes[n], b)
  /\ \A q \in FormedQcs, b \in Open : BlockRound[b] <= q.round => BlockQc[b].id \in Chain[q.id]

-----------------------------------------------------------------------------
(* Chains and quorums *)

LEMMA ChainSelf ==
  ASSUME NEW id \in Ids
  PROVE  id \in Chain[id]
BY DEF Chain

LEMMA ChainParent ==
  ASSUME NEW b \in Block
  PROVE  /\ BlockQc[b].id \in Ids /\ b \in Ids
         /\ Chain[BlockQc[b].id] \subseteq Chain[b]
<1>1. BlockQc[b].id \in Ids /\ b \in Ids
  BY BlockAssumption DEF QuorumCertificate, Ids
<1>2. ASSUME NEW a \in Chain[BlockQc[b].id] PROVE a \in Chain[b]
  <2>1. a \in Ids /\ \A S \in ParentClosed : BlockQc[b].id \in S => a \in S
    BY <1>1, <1>2 DEF Chain
  <2>2. \A S \in ParentClosed : b \in S => a \in S
    BY <2>1 DEF ParentClosed
  <2> QED BY <1>1, <2>1, <2>2 DEF Chain
<1> QED BY <1>1, <1>2

-----------------------------------------------------------------------------
(* What the invariant says of tips, timeout certificates and proposals *)

\* One valid tip per round.
LEMMA UniqueTips ==
  ASSUME IInv, Orderly, NEW b \in Tips, NEW c \in Tips, BlockRound[b] = BlockRound[c]
  PROVE  b = c
<1> DEFINE l == Leader[BlockRound[b]]
<1>1. SignedTip(b) /\ SignedTip(c)
  BY DEF Tips, verify_tip
<1>2. CASE l \in Faulty
  <2>1. b \in faulty_blocks /\ c \in faulty_blocks
    BY <1>1, <1>2, QuorumAssumption DEF SignedTip
  <2> QED BY <2>1 DEF Orderly
<1>3. CASE l \notin Faulty
  <2>1. l \in Honest
    BY <1>1, <1>3 DEF SignedTip
  <2>2. PICK p \in nodes[l].proposals : p.tip = b /\ p.proposal_round = BlockRound[b]
    BY <1>1, <1>3 DEF SignedTip
  <2>3. PICK q \in nodes[l].proposals : q.tip = c /\ q.proposal_round = BlockRound[c]
    BY <1>1, <1>3 DEF SignedTip
  <2>4. p = q
    BY <2>1, <2>2, <2>3 DEF IInv, NodeInv, ProposeInv
  <2> QED BY <2>2, <2>3, <2>4
<1> QED BY <1>2, <1>3

\* A tip is of a later round than its QC.
LEMMA RoundsIncrease ==
  ASSUME AInv, NEW b \in Tips
  PROVE  BlockQc[b].round < BlockRound[b]
<1>1. b \in Block /\ BlockRound[b] \in Nat /\ BlockQc[b].round \in Nat
  BY TipQc, BlockTypes
<1> DEFINE r  == BlockRound[b]
           ne == [round |-> r, tip_qc_round |-> BlockQc[b].round]
<1>2. FreshCertified(b)
  BY DEF Tips, verify_tip
<1>3. CASE verify_nec(ne)
  <2>1. PICK n \in Honest : ne \in nodes[n].no_endorsements
    BY <1>3, SignedByHonest DEF verify_nec
  <2>2. ne.tip_qc_round < ne.round
    BY <2>1 DEF AInv, NodeBase
  <2> QED BY <2>2
<1>4. CASE r = BlockQc[b].round + 1 \/ BlockQc[b].round < r - 1
  BY <1>1, <1>4
<1> QED BY <1>2, <1>3, <1>4 DEF FreshCertified

\* The timeouts of a TC that ends the round of an open block, or a later
\* round: one of them is of a correct node that voted for the block.
LEMMA TcNotBelow ==
  ASSUME AInv, NEW w \in Nat, NEW he, he.qc.round \in Nat, he.tip \in Block \cup {None},
         TcSigned(w, he), NEW b \in Open, BlockRound[b] <= w
  PROVE  /\ b \in Tips
         /\ IF he.tip = None THEN BlockRound[b] <= he.qc.round + 1
            ELSE BlockRound[b] <= BlockRound[he.tip]
<1> DEFINE r == BlockRound[b]
<1>1. b \in Block /\ r \in Nat
  BY BlockTypes DEF Open
<1>2. PICK P \in SuperMajority :
        \A n \in P \cap Honest : VoteFor(r, b) \in nodes[n].votes \/ nodes[n].safety.highest_vote < r
  BY DEF Open, MayBeCertified
<1>3. PICK Q \in SuperMajority : \A n \in Q \cap Honest : \E m \in TimeoutsOf(n, w) : Below(m, he)
  BY DEF TcSigned
<1>4. PICK n \in Honest : n \in P /\ n \in Q
  BY <1>2, <1>3, QuorumAssumption
<1>5. PICK m \in nodes[n].timeouts : m.round = w /\ Below(m, he)
  BY <1>3, <1>4 DEF TimeoutsOf
<1>6. NodeBase(nodes[n], Tips)
  BY DEF AInv
<1>7. m \in TimeoutMessage /\ nodes[n].safety.highest_vote \in Nat /\ w <= nodes[n].safety.highest_vote
  BY <1>5, <1>6, BaseTypes DEF NodeBase
<1>8. VoteFor(r, b) \in nodes[n].votes
  BY <1>1, <1>2, <1>4, <1>7
<1>9. b \in Tips
  BY <1>6, <1>8 DEF NodeBase, VoteFor
<1>10. ReportsNotBelow(m, b)
  BY <1>5, <1>8 DEF AInv, Keeps
<1>11. m.high_extend.tip \in Block \cup {None} /\ m.high_extend.qc.round \in Nat
  BY <1>7 DEF TimeoutMessage, HighExtend, QuorumCertificate
<1>12. CASE m.high_extend.tip = None
  <2>1. r <= m.high_extend.qc.round + 1
    BY <1>10, <1>12 DEF ReportsNotBelow
  <2>2. CASE he.tip = None
    BY <1>1, <1>5, <1>9, <1>11, <2>1, <2>2 DEF Below
  <2>3. CASE he.tip # None
    <3>1. m.high_extend.qc.round < BlockRound[he.tip] /\ BlockRound[he.tip] \in Nat
      BY ZenonT(30), <1>5, <2>3, BlockTypes DEF Below
    <3> QED BY <1>1, <1>9, <1>11, <2>1, <2>3, <3>1
  <2> QED BY <2>2, <2>3
<1>13. CASE m.high_extend.tip # None
  <2>1. r <= BlockRound[m.high_extend.tip] /\ BlockRound[m.high_extend.tip] \in Nat
        /\ high_tip_round(m.high_extend) = BlockRound[m.high_extend.tip]
    BY ZenonT(30), <1>10, <1>11, <1>13, BlockTypes DEF ReportsNotBelow, NotBelow, high_tip_round
  <2>2. CASE he.tip = None
    BY <1>1, <1>5, <1>9, <1>11, <2>1, <2>2 DEF Below
  <2>3. CASE he.tip # None
    <3>1. BlockRound[m.high_extend.tip] <= BlockRound[he.tip] /\ BlockRound[he.tip] \in Nat
      BY ZenonT(30), <1>5, <2>1, <2>3, BlockTypes DEF Below
    <3> QED BY <1>1, <1>9, <1>11, <2>1, <2>3, <3>1
  <2> QED BY <2>2, <2>3
<1> QED BY <1>12, <1>13

\* A tip of a later round extends a QC that is not older than that of the
\* open block.
LEMMA TipNotBelow ==
  ASSUME AInv, NEW h \in Tips, NEW b \in Open, BlockRound[b] < BlockRound[h]
  PROVE  BlockRound[b] <= BlockQc[h].round + 1
<1> DEFINE r  == BlockRound[b]
           k  == BlockRound[h]
           qc == BlockQc[h]
           ne == [round |-> k, tip_qc_round |-> qc.round]
<1>1. /\ r \in Nat /\ h \in Block /\ k \in Nat /\ 0 < k
      /\ qc \in QuorumCertificate /\ qc.round \in Nat
  BY TipQc, BlockTypes DEF Open
<1>2. FreshCertified(h)
  BY DEF Tips, verify_tip
<1>3. CASE k = qc.round + 1
  BY <1>1, <1>3
<1>4. CASE verify_nec(ne)
  <2>1. PICK n \in Honest : ne \in nodes[n].no_endorsements
    BY <1>4, SignedByHonest DEF verify_nec
  <2>2. r < ne.round => r <= ne.tip_qc_round + 1
    BY <2>1 DEF AInv, NeKeeps
  <2> QED BY <2>2
<1>5. CASE TcSigned(k - 1, ExtendQc(qc))
  <2>1. k - 1 \in Nat /\ r <= k - 1
    BY <1>1
  <2>2. ExtendQc(qc).tip = None /\ ExtendQc(qc).qc = qc
    BY DEF ExtendQc
  <2> DEFINE he == ExtendQc(qc)
  <2>3. TcSigned(k - 1, he) /\ he.tip = None /\ he.qc = qc
    BY ZenonT(30), <1>5, <2>2
  <2> HIDE DEF he
  <2>4. IF he.tip = None THEN r <= he.qc.round + 1 ELSE r <= BlockRound[he.tip]
    BY ZenonT(30), <1>1, <2>1, <2>3, TcNotBelow
  <2> QED BY <2>3, <2>4
<1> QED BY <1>2, <1>3, <1>4, <1>5 DEF FreshCertified

\* A TC that ends the round of an open block, or a later one, carries a QC or
\* a tip that is not below the block.
LEMMA FormedTcNotBelow ==
  ASSUME IInv, AInv, Orderly, NEW tc \in FormedTcs, NEW b \in Open, BlockRound[b] <= tc.round
  PROVE  BlockRound[b] <= tc.high_extend.qc.round + 1
<1> DEFINE he == tc.high_extend
           r == BlockRound[b]
<1>1. r \in Nat /\ b \in Block /\ Consecutive(b)
  BY BlockTypes DEF Open
<1>2. /\ TcSigned(tc.round, he) /\ tc.round \in Nat
      /\ \/ he.tip = None /\ he.qc \in FormedQcs
         \/ he.tip \in Tips /\ he.qc = BlockQc[he.tip]
  BY FormedTcFacts
<1>3. he.tip \in Block \cup {None} /\ he.qc.round \in Nat
  <2>1. FormedQcs \subseteq QuorumCertificate
    BY FormedQcsType DEF IInv
  <2> QED BY <1>2, <2>1, TipQc DEF QuorumCertificate
<1>4. /\ b \in Tips
      /\ IF he.tip = None THEN r <= he.qc.round + 1 ELSE r <= BlockRound[he.tip]
  BY <1>2, <1>3, TcNotBelow
<1>5. CASE he.tip = None
  BY <1>4, <1>5
<1>6. CASE he.tip # None
  <2>1. he.tip \in Tips /\ he.qc = BlockQc[he.tip] /\ BlockRound[he.tip] \in Nat
    BY <1>2, <1>3, <1>6, BlockTypes
  <2>2. CASE r = BlockRound[he.tip]
    <3>1. he.tip = b
      BY <1>4, <2>1, <2>2, UniqueTips
    <3> QED BY <1>1, <2>1, <3>1, BlockTypes DEF Consecutive
  <2>3. CASE r < BlockRound[he.tip]
    BY <2>1, <2>3, TipNotBelow
  <2> QED BY <1>1, <1>4, <1>6, <2>1, <2>2, <2>3
<1> QED BY <1>5, <1>6

\* A proposal of a later round is not below an open block.
LEMMA ProposalNotBelow ==
  ASSUME IInv, AInv, Orderly, NEW p \in ValidProposals
  PROVE  /\ p.tip \in Tips
         /\ \A b \in Open : BlockRound[b] < p.proposal_round => NotBelow(p.tip, b)
<1> DEFINE tc == p.last_round_tc
           qc == BlockQc[p.tip]
<1>1. /\ p.tip \in Tips /\ tc \in {None} \cup FormedTcs
      /\ tc # None => p.proposal_round = tc.round + 1
      /\ well_formed_proposal(p)
  BY DEF ValidProposals
<1>2. p.tip \in Block /\ qc.round \in Nat /\ BlockRound[p.tip] \in Nat /\ qc.round < BlockRound[p.tip]
  BY <1>1, TipQc, BlockTypes, RoundsIncrease
<1>3. ASSUME NEW b \in Open, BlockRound[b] < p.proposal_round PROVE NotBelow(p.tip, b)
  <2>1. BlockRound[b] \in Nat
    BY BlockTypes DEF Open
  <2>2. BlockRound[b] <= qc.round + 1
    <3>1. CASE p.proposal_round = qc.round + 1
      BY <1>2, <1>3, <2>1, <3>1
    <3>2. CASE p.proposal_round # qc.round + 1
      <4>1. tc \in FormedTcs /\ tc.high_extend.qc.round = qc.round /\ p.proposal_round = tc.round + 1
        BY <1>1, <3>2 DEF well_formed_proposal
      <4>2. tc.round \in Nat
        BY <4>1, FormedTcFacts
      <4>3. BlockRound[b] <= tc.round
        BY <1>3, <2>1, <4>1, <4>2
      <4>4. BlockRound[b] <= tc.high_extend.qc.round + 1
        BY <4>1, <4>3, FormedTcNotBelow
      <4> QED BY <4>1, <4>4
    <3> QED BY <3>1, <3>2
  <2>3. BlockRound[b] <= BlockRound[p.tip]
    BY <1>2, <2>1, <2>2
  <2> QED BY <2>2, <2>3 DEF NotBelow
<1> QED BY <1>1, <1>3

-----------------------------------------------------------------------------
(* The invariant is inductive *)

\* The states that node n may be in after a step.
After1(n) == Follows(nodes[n], Tips, Open, {k \in Nat : Passed(k)})

\* Handlers lead to such states.
LEMMA HandlersFollow ==
  ASSUME IInv, AInv, Orderly, NEW n \in Honest
  PROVE  /\ nodes[n] \in After1(n)
         /\ Closed(After1(n), n, QuorumCertificate, FormedTcs, ValidProposals, ValidRecoveries,
                   NoEndorsement)
<1> DEFINE R == {k \in Nat : Passed(k)}
<1>1. NodeBase(nodes[n], Tips) /\ nodes[n].safety.highest_vote \in Nat /\ nodes[n] \in NodeState
  BY BaseTypes DEF AInv
<1>2. nodes[n] \in After1(n)
  <2>1. After(nodes[n], nodes[n], R)
    BY <1>1 DEF After
  <2> QED BY <1>1, <2>1 DEF After1, Follows, AInv
<1>3. /\ Tips \in SUBSET Block /\ Open \in SUBSET Block /\ \A b \in Open : Consecutive(b)
  BY DEF Tips, Open
<1>4. FormedTcs \in SUBSET RoundCertificate /\ ValidProposals \in SUBSET ProposalMessage
      /\ ValidRecoveries \in SUBSET FormedTcs
  BY FormedTcsType, ValidProposalsType DEF ValidRecoveries, IInv
<1>5. ASSUME NEW tc \in FormedTcs
      PROVE  /\ WellFormed(tc) /\ tc.high_extend.qc.round < tc.round
             /\ \A b \in Open : BlockRound[b] <= tc.round => BlockRound[b] <= tc.high_extend.qc.round + 1
  BY FormedTcsType, FormedTcNotBelow DEF IInv, Orderly, EarlierQcs
<1>6. ASSUME NEW tc \in ValidRecoveries
      PROVE  /\ tc.high_extend.tip \in Block /\ tc.high_extend.qc = BlockQc[tc.high_extend.tip]
             /\ tc.round + 1 \in R
  <2>1. tc \in FormedTcs /\ tc.high_extend.tip # None
    BY DEF ValidRecoveries
  <2>2. /\ TcSigned(tc.round, tc.high_extend) /\ tc.round \in Nat
        /\ tc.high_extend.tip \in Tips /\ tc.high_extend.qc = BlockQc[tc.high_extend.tip]
    BY ZenonT(30), <2>1, FormedTcFacts
  <2>3. PICK Q \in SuperMajority : \A m \in Q \cap Honest : TimeoutsOf(m, tc.round) # {}
    BY <2>2 DEF TcSigned
  <2>4. ASSUME NEW m \in Q \cap Honest PROVE tc.round + 1 <= nodes[m].safety.highest_vote + 1
    <3>1. tc.round <= nodes[m].safety.highest_vote
      BY <2>3 DEF TimeoutsOf, AInv, NodeBase
    <3>2. nodes[m].safety.highest_vote \in Nat
      BY BaseTypes DEF AInv
    <3> QED BY <2>2, <3>1, <3>2
  <2>5. Passed(tc.round + 1)
    BY <2>4 DEF Passed
  <2> QED BY <2>2, <2>5, TipQc
<1> HIDE DEF R
<1>7. TcsKeep(FormedTcs, Open) /\ RecoveriesIn(ValidRecoveries, R)
  BY <1>5, <1>6 DEF TcsKeep, RecoveriesIn
<1>8. ProposalsKeep(ValidProposals, Tips, Open)
  BY ProposalNotBelow DEF ProposalsKeep
<1>9. Closed(Follows(nodes[n], Tips, Open, R), n, QuorumCertificate, FormedTcs, ValidProposals,
             ValidRecoveries, NoEndorsement)
  BY ZenonT(30), <1>1, <1>3, <1>4, <1>7, <1>8, FollowsClosed
<1> QED BY <1>2, <1>9 DEF After1, R

\* A step that takes every node to a state that follows its own preserves
\* the invariant.
LEMMA StepPreserves ==
  ASSUME IInv, AInv, Orderly, Growth, \A n \in Honest : nodes'[n] \in After1(n)
  PROVE  AInv'
<1>1. ASSUME NEW n \in Honest
      PROVE  /\ NodeBase(nodes'[n], Tips) /\ After(nodes[n], nodes'[n], {k \in Nat : Passed(k)})
             /\ \A b \in Open : Keeps(nodes'[n], b) /\ NeKeeps(nodes'[n], b)
  BY ZenonT(30), <1>1 DEF After1, Follows
<1>2. ASSUME NEW n \in Honest
      PROVE  /\ nodes[n].safety.highest_vote \in Nat /\ nodes'[n].safety.highest_vote \in Nat
             /\ nodes[n].safety.highest_vote <= nodes'[n].safety.highest_vote
             /\ NodeBase(nodes[n], Tips)
  BY <1>1, BaseTypes DEF AInv, After
<1>3. Tips \subseteq Tips'
  BY TipsStay
<1>4. \A n \in Honest : NodeBase(nodes'[n], Tips')
  BY ZenonT(30), <1>1, <1>3 DEF NodeBase
<1>5. ASSUME NEW k \in Nat, Passed(k) PROVE Passed(k)'
  <2>1. PICK Q \in SuperMajority : \A n \in Q \cap Honest : k <= nodes[n].safety.highest_vote + 1
    BY <1>5 DEF Passed
  <2>2. \A n \in Q \cap Honest : k <= nodes'[n].safety.highest_vote + 1
    BY <1>2, <2>1
  <2> QED BY <2>2 DEF Passed
<1>6. ASSUME NEW n \in Honest, NEW ne \in nodes'[n].no_endorsements PROVE Passed(ne.round)'
  <2>0. nodes'[n].no_endorsements \subseteq NoEndorsement
    BY ZenonT(30), <1>1, BaseTypes
  <2>1. ne.round \in Nat
    BY ZenonT(30), <2>0 DEF NoEndorsement
  <2>2. Passed(ne.round)
    BY <1>1 DEF After, AInv
  <2> QED BY <1>5, <2>1, <2>2
<1>7. Open' \subseteq Open
  <2> SUFFICES ASSUME NEW b \in Block, MayBeCertified(b)' PROVE MayBeCertified(b)
    BY DEF Open, Consecutive
  <2> DEFINE r == BlockRound[b]
  <2>1. r \in Nat
    BY BlockTypes
  <2>2. PICK P \in SuperMajority : \A n \in P \cap Honest :
           VoteFor(r, b) \in nodes'[n].votes \/ nodes'[n].safety.highest_vote < r
    BY DEF MayBeCertified, VoteFor
  <2>3. ASSUME NEW n \in P \cap Honest
        PROVE  VoteFor(r, b) \in nodes[n].votes \/ nodes[n].safety.highest_vote < r
    <3>1. CASE VoteFor(r, b) \in nodes'[n].votes \ nodes[n].votes
      BY <1>1, <3>1 DEF After, VoteFor
    <3>2. CASE nodes'[n].safety.highest_vote < r
      BY <1>2, <2>1, <3>2
    <3> QED BY ZenonT(30), <2>2, <3>1, <3>2
  <2> QED BY <2>3 DEF MayBeCertified
<1>8. ASSUME NEW b \in Tips' PROVE LateTip(b)'
  <2> DEFINE r == BlockQc[b].round + 1
  <2>1. b \in Block /\ r \in Nat /\ BlockRound[b] \in Nat
    BY BlockTypes DEF Tips
  <2> SUFFICES ASSUME r < BlockRound[b]
               PROVE  \E Q \in SuperMajority : \A n \in Q \cap Honest :
                        r <= nodes'[n].safety.highest_vote /\ VoteFor(r, b) \notin nodes'[n].votes
    BY DEF LateTip, VoteFor
  <2>2. CASE b \in Tips
    <3>1. PICK Q \in SuperMajority : \A n \in Q \cap Honest :
             r <= nodes[n].safety.highest_vote /\ VoteFor(r, b) \notin nodes[n].votes
      BY ZenonT(30), <2>2 DEF AInv, LateTip
    <3>2. ASSUME NEW n \in Q \cap Honest
          PROVE  r <= nodes'[n].safety.highest_vote /\ VoteFor(r, b) \notin nodes'[n].votes
      <4>1. r <= nodes'[n].safety.highest_vote
        BY <1>2, <2>1, <3>1
      <4>2. VoteFor(r, b) \in nodes'[n].votes \ nodes[n].votes => nodes[n].safety.highest_vote < r
        BY <1>1 DEF After, VoteFor
      <4>3. ~ (nodes[n].safety.highest_vote < r)
        BY <1>2, <2>1, <3>1
      <4> QED BY ZenonT(30), <3>1, <4>1, <4>2, <4>3
    <3> QED BY <3>2
  <2>3. CASE b \notin Tips
    <3>1. \A n \in Honest : VoteFor(r, b) \notin nodes'[n].votes
      BY ZenonT(30), <1>1, <2>3 DEF NodeBase, VoteFor
    <3>2. \E Q \in SuperMajority : \A n \in Q \cap Honest : r <= nodes'[n].safety.highest_vote
      <4>1. FreshCertified(b)'
        BY DEF Tips, verify_tip
      <4> DEFINE k == BlockRound[b]
                 ne == [round |-> k, tip_qc_round |-> BlockQc[b].round]
      <4>2. verify_nec(ne)' \/ TcSigned(k - 1, ExtendQc(BlockQc[b]))'
        BY <2>1, <4>1 DEF FreshCertified
      <4>3. CASE verify_nec(ne)'
        <5>1. PICK n \in Honest : ne \in nodes'[n].no_endorsements
          <6>1. SignedBy(SuperMajority, {n \in Honest : ne \in nodes'[n].no_endorsements})
            BY <4>3 DEF verify_nec, SignedBy
          <6> QED BY <6>1, SignedByHonest
        <5>2. Passed(k)'
          BY <1>6, <5>1
        <5>3. PICK Q \in SuperMajority : \A m \in Q \cap Honest : k <= nodes'[m].safety.highest_vote + 1
          BY <5>2 DEF Passed
        <5>4. \A m \in Q \cap Honest : r <= nodes'[m].safety.highest_vote
          BY <1>2, <2>1, <5>3
        <5> QED BY <5>4
      <4>4. CASE TcSigned(k - 1, ExtendQc(BlockQc[b]))'
        <5>1. PICK Q \in SuperMajority : \A m \in Q \cap Honest : \E t \in nodes'[m].timeouts : t.round = k - 1
          BY <4>4 DEF TcSigned, TimeoutsOf
        <5>2. ASSUME NEW m \in Q \cap Honest PROVE r <= nodes'[m].safety.highest_vote
          <6>1. k - 1 <= nodes'[m].safety.highest_vote
            BY ZenonT(30), <1>1, <5>1 DEF NodeBase
          <6> QED BY <1>2, <2>1, <6>1
        <5> QED BY <5>2
      <4> QED BY <4>2, <4>3, <4>4
    <3> QED BY <3>1, <3>2
  <2> QED BY <2>2, <2>3
<1>9. ASSUME NEW q \in FormedQcs', NEW b \in Open', BlockRound[b] <= q.round
      PROVE  BlockQc[b].id \in Chain[q.id]
  <2> DEFINE r == BlockRound[b]
  <2>1. b \in Open /\ b \in Block /\ r \in Nat /\ 0 < r /\ Consecutive(b)
    BY <1>7, BlockTypes DEF Open
  <2>2. q # genesis_qc
    BY <1>9, <2>1 DEF genesis_qc, GENESIS_ROUND
  <2>3. /\ \E n \in Honest : q \in nodes'[n].votes
        /\ QcFormed(q.round, q.id)'
    BY <2>2 DEF FormedQcs
  <2>4. q \in Vote /\ q = VoteFor(q.round, q.id) /\ q.round \in Nat
    <3>1. PICK n \in Honest : q \in nodes'[n].votes
      BY <2>3
    <3>2. nodes'[n].votes \subseteq Vote
      BY ZenonT(30), <1>1, BaseTypes
    <3> QED BY <3>1, <3>2 DEF Vote, VoteFor
  <2>5. PICK Q \in SuperMajority : \A n \in Q \cap Honest : q \in nodes'[n].votes
    BY <2>3, <2>4 DEF QcFormed, SignedBy, VoteFor
  <2>6. PICK P \in SuperMajority : \A n \in P \cap Honest :
           VoteFor(r, b) \in nodes'[n].votes \/ nodes'[n].safety.highest_vote < r
    BY DEF Open, MayBeCertified, VoteFor
  <2>7. PICK n \in Honest : n \in P /\ n \in Q
    BY QuorumsMeet
  <2>8. q \in nodes'[n].votes /\ NodeBase(nodes'[n], Tips) /\ Keeps(nodes'[n], b)
    BY ZenonT(30), <1>1, <2>1, <2>5, <2>7
  <2>9. q.round <= nodes'[n].safety.highest_vote /\ q.id \in Tips
    BY <2>8 DEF NodeBase
  <2>10. VoteFor(r, b) \in nodes'[n].votes
    <3>1. nodes'[n].safety.highest_vote \in Nat
      BY <1>2
    <3>2. ~ (nodes'[n].safety.highest_vote < r)
      BY ZenonT(30), <1>9, <2>1, <2>4, <2>9, <3>1, OrderOfRounds
    <3> QED BY ZenonT(30), <2>6, <2>7, <3>2
  <2>11. b \in Tips
    BY ZenonT(30), <2>8, <2>10 DEF NodeBase, VoteFor
  <2>12. NotBelow(q.id, b)
    BY ZenonT(30), <1>9, <2>8, <2>10 DEF Keeps
  <2> DEFINE parent == BlockQc[q.id]
  <2>13. parent \in FormedQcs /\ BlockQc[b] \in FormedQcs /\ q.id \in Block
    BY ZenonT(30), <2>9, <2>11, TipQc
  <2>14. parent.round \in Nat /\ BlockQc[b].round \in Nat
    BY ZenonT(30), <2>1, <2>13, BlockTypes
  <2>15. BlockQc[b].id \in Chain[parent.id]
    <3>1. CASE parent.round = BlockQc[b].round
      <4>1. parent = BlockQc[b]
        BY ZenonT(30), <2>13, <3>1, QuorumsAgree DEF QcUnique
      <4> QED BY ZenonT(30), <2>1, <4>1, ChainParent, ChainSelf
    <3>2. CASE parent.round # BlockQc[b].round
      <4>1. r <= parent.round
        BY <2>1, <2>12, <2>14, <3>2 DEF NotBelow, Consecutive
      <4> QED BY ZenonT(30), <2>1, <2>13, <4>1 DEF AInv
    <3> QED BY <3>1, <3>2
  <2> QED BY ZenonT(30), <2>13, <2>15, ChainParent
<1>10. \A n \in Honest, b \in Open' : Keeps(nodes'[n], b) /\ NeKeeps(nodes'[n], b)
  BY ZenonT(30), <1>1, <1>7
<1> QED BY ZenonT(30), <1>4, <1>6, <1>8, <1>9, <1>10 DEF AInv, Keeps, NeKeeps, NodeBase

\* Every step of the specification that keeps the run orderly does so.
LEMMA StepFollows ==
  ASSUME IInv, AInv, Orderly, [Next]_vars, restarts' = 0
  PROVE  \A m \in Honest : nodes'[m] \in After1(m)
<1> DEFINE F == [n \in Honest |-> After1(n)]
<1>1. TypeOK /\ ~ Restart
  BY DEF IInv, TypeOK, Restart
<1>2. EnterQcs \subseteq QuorumCertificate
  BY <1>1, FormedExist
<1>3. \A p \in ValidProposals : BlockQc[p.tip] \in QuorumCertificate
  BY <1>2, TipQc DEF ValidProposals
<1>4. \A t \in ValidTimeouts(FormedTcs) : t.high_extend.qc \in QuorumCertificate
  BY ZenonT(30), <1>1, ValidTimeoutsType DEF TimeoutMessage, HighExtend
<1>5. ASSUME NEW n \in Honest
      PROVE  /\ nodes[n] \in After1(n) /\ After1(n) \subseteq NodeState
             /\ Closed(After1(n), n, QuorumCertificate, FormedTcs, ValidProposals, ValidRecoveries,
                       NesFor(n))
  <2>1. nodes[n] \in After1(n) /\ After1(n) \subseteq NodeState
    BY ZenonT(30), HandlersFollow DEF After1, Follows
  <2>2. Closed(After1(n), n, QuorumCertificate, FormedTcs, ValidProposals, ValidRecoveries, NoEndorsement)
    BY HandlersFollow
  <2>3. NesFor(n) \subseteq NoEndorsement
    BY DEF NesFor
  <2> QED BY ZenonT(30), <2>1, <2>2, <2>3 DEF Closed
<1>6. Steady(F, QuorumCertificate)
  BY ZenonT(30), <1>2, <1>3, <1>4, <1>5 DEF Steady
<1> HIDE DEF F
<1>7. \A m \in Honest : nodes'[m] \in F[m]
  BY <1>1, <1>6, StepSteady
<1> QED BY <1>7 DEF F

\* In the initial state nothing is signed but timeouts.
LEMMA InitAgrees == Init => AInv
<1> SUFFICES ASSUME Init PROVE AInv
  OBVIOUS
<1> DEFINE w == [Unstarted EXCEPT
                   !.high_certificate = QcCert(genesis_qc),
                   !.safety = NewSafety(QcCert(genesis_qc)),
                   !.no_endorsement_state =
                     [earliest_round |-> QcCert(genesis_qc).round + 1, certificates |-> {}]]
           x == LocalTimeout(w)
<1>1. nodes = [n \in Honest |-> x] /\ faulty_blocks = {}
  BY DEF Init, StartConsensus
<1>2. /\ w.high_certificate = QcCert(genesis_qc) /\ w.safety = NewSafety(QcCert(genesis_qc))
      /\ w.votes = {} /\ w.timeouts = {} /\ w.no_endorsements = {} /\ w.proposals = {}
  BY DEF Unstarted
<1>3. w \in NodeState /\ w.safety.highest_vote \in Nat
  <2>1. Unstarted \in NodeState /\ Unstarted.safety = NewSafety(QcCert(genesis_qc))
        /\ Unstarted.high_certificate = QcCert(genesis_qc)
    BY ZenonT(30), UnstartedInv DEF NodeInv, Unstarted
  <2>2. [earliest_round |-> QcCert(genesis_qc).round + 1, certificates |-> {}] \in NoEndorsementState
    BY DEF NoEndorsementState, QcCert, genesis_qc, GENESIS_ROUND
  <2>3. w \in NodeState
    BY ZenonT(30), <2>1, <2>2 DEF NodeState
  <2> QED BY ZenonT(30), <2>3 DEF NodeState, SafetyState
<1>4. w \in Follows(w, {}, {}, {})
  <2>1. NodeBase(w, {})
    BY <1>2, <1>3
       DEF NodeBase, NewSafety, QcCert, genesis_qc, GENESIS_ROUND, get_current_round, WellFormed, ExtendQc
  <2>2. After(w, w, {})
    BY <1>3 DEF After
  <2> QED BY ZenonT(30), <1>3, <2>1, <2>2 DEF Follows
<1>5. x \in Follows(w, {}, {}, {})
  BY ZenonT(30), <1>3, <1>4, LocalTimeoutFollows
<1>6. NodeBase(x, {}) /\ x.no_endorsements = {} /\ x.votes = {}
  <2>1. NodeBase(x, {}) /\ After(w, x, {})
    BY <1>5 DEF Follows
  <2>2. x.votes = {}
    BY <2>1 DEF NodeBase
  <2>3. x.no_endorsements = {}
    BY <2>1, <1>2 DEF After
  <2> QED BY <2>1, <2>2, <2>3
<1>7. x.proposals = {}
  BY <1>2, <1>3 DEF LocalTimeout, Panic, NodeState
<1> HIDE DEF w, x
<1>8. Tips = {}
  BY <1>1, <1>7 DEF Tips, verify_tip, SignedTip
<1>9. FormedQcs = {genesis_qc}
  BY <1>1, <1>6 DEF FormedQcs
<1>10. ASSUME NEW b \in Open PROVE ~ (BlockRound[b] <= genesis_qc.round)
  <2>1. b \in Block
    BY DEF Open
  <2>2. BlockRound[b] \in Nat /\ 0 < BlockRound[b]
    BY <2>1, BlockTypes
  <2> QED BY <2>2 DEF genesis_qc, GENESIS_ROUND
<1>11. ASSUME NEW b PROVE Keeps(x, b) /\ NeKeeps(x, b)
  BY <1>6 DEF Keeps, NeKeeps
<1> QED BY ZenonT(30), <1>1, <1>6, <1>8, <1>9, <1>10, <1>11 DEF AInv

\* While no correct node restarts, no faulty leader equivocates and TCs carry
\* earlier tips, what may still be committed constrains every node.
THEOREM AgreementInvariance == Spec => [](Orderly => AInv)
<1> DEFINE J == IInv /\ MInv /\ (Orderly => AInv)
<1>1. Init => J
  BY InitInv, InitMessages, InitAgrees
<1>2. J /\ [Next]_vars => J'
  <2> SUFFICES ASSUME J, [Next]_vars, Orderly' PROVE AInv'
    BY NextInv, MessagesStep
  <2>1. Growth
    BY MessagesStep
  <2>2. restarts <= restarts'
    <3>1. CASE UNCHANGED restarts
      BY <3>1 DEF IInv, TypeOK
    <3>2. CASE Restart
      BY <3>2 DEF Restart, IInv, TypeOK
    <3> QED BY ZenonT(30), <3>1, <3>2
            DEF Next, vars, HandleTimeoutExpiry, HandleProposal, HandleVote, HandleTimeout, ReceiveTimeout,
                HandleRoundRecovery, HandleNoEndorsement, HandleAdvanceRound, HandleBlockSync, SignBlock, Update
  <2>3. restarts = 0 /\ restarts' = 0
    BY <2>2 DEF Orderly, IInv, TypeOK
  <2>4. EarlierQcs
    BY <2>1, AllStay DEF Orderly, EarlierQcs
  <2>5. Orderly
    BY <2>1, <2>3, <2>4 DEF Orderly, Growth
  <2>6. \A m \in Honest : nodes'[m] \in After1(m)
    BY ZenonT(30), <2>3, <2>5, StepFollows
  <2> QED BY ZenonT(30), <2>1, <2>5, <2>6, StepPreserves
<1> QED BY <1>1, <1>2, PTL DEF Spec

\* A QC that commits a block certifies it in the block's own round, and leaves
\* the block one of those that constrain every later signature.
LEMMA CommittedOpen ==
  ASSUME IInv, AInv, Orderly, NEW p \in FormedQcs, get_committable_id(p) # None
  PROVE  /\ p.id \in Open /\ p.id \in Tips /\ BlockRound[p.id] = p.round /\ p.round \in Nat
         /\ get_committable_id(p) = BlockQc[p.id].id
<1> DEFINE b == p.id
           r == p.round
<1>1. b \in Block /\ r = BlockQc[b].round + 1 /\ get_committable_id(p) = BlockQc[b].id
  BY DEF get_committable_id
<1>2. BlockQc[b].round \in Nat /\ BlockRound[b] \in Nat /\ r \in Nat /\ 0 < r
  BY <1>1, BlockTypes
<1>3. p # genesis_qc
  BY <1>2 DEF genesis_qc, GENESIS_ROUND
<1>4. (\E n \in Honest : p \in nodes[n].votes) /\ QcFormed(r, b)
  BY <1>3 DEF FormedQcs
<1>5. PICK Q \in SuperMajority : \A n \in Q \cap Honest : VoteFor(r, b) \in nodes[n].votes
  BY ZenonT(30), <1>4 DEF QcFormed, SignedBy, VoteFor
<1>a. \A n \in Honest : NodeBase(nodes[n], Tips)
  BY ZenonT(30) DEF AInv
<1>6. b \in Tips
  BY SMTT(30), <1>4, <1>a DEF NodeBase
<1>7. BlockQc[b].round < BlockRound[b]
  BY <1>6, RoundsIncrease
<1>8. BlockRound[b] = r
  <2> SUFFICES ASSUME BlockRound[b] # r PROVE FALSE
    OBVIOUS
  <2>1. BlockQc[b].round + 1 < BlockRound[b]
    BY SMTT(30), <1>1, <1>2, <1>7
  <2>a. LateTip(b)
    BY <1>6 DEF AInv
  <2>2. PICK P \in SuperMajority : \A n \in P \cap Honest : VoteFor(r, b) \notin nodes[n].votes
    BY <1>1, <2>1, <2>a DEF LateTip
  <2>3. \E n \in Honest : n \in P /\ n \in Q
    BY ZenonT(30), QuorumsMeet
  <2> QED BY <1>5, <2>2, <2>3
<1>9. Consecutive(b) /\ MayBeCertified(b)
  BY <1>1, <1>5, <1>8 DEF Consecutive, MayBeCertified
<1> QED BY ZenonT(30), <1>1, <1>2, <1>6, <1>8, <1>9 DEF Open

\* Blocks that QCs commit are on one chain: when a QC commits a block, that
\* block is an ancestor of what every QC of that or a later round certifies
\* (BlockTree::try_commit, QuorumCertificate::get_committable_id).  For any
\* number of validators, rounds and blocks.
THEOREM CommitsAgree == Spec => []Agreement
<1>1. IInv /\ (Orderly => AInv) => Agreement
  <2> SUFFICES ASSUME IInv, AInv, Orderly, NEW p \in FormedQcs, NEW q \in FormedQcs,
                      get_committable_id(p) # None, q.round >= p.round
               PROVE  get_committable_id(p) \in Chain[q.id]
    BY DEF Agreement
  <2>1. /\ p.id \in Open /\ BlockRound[p.id] = p.round /\ p.round \in Nat
        /\ get_committable_id(p) = BlockQc[p.id].id
    BY CommittedOpen
  <2>2. q.round \in Nat
    BY FormedQcsType DEF IInv, QuorumCertificate
  <2>3. BlockRound[p.id] <= q.round
    BY ZenonT(30), <2>1, <2>2
  <2> QED BY <2>1, <2>3 DEF AInv
<1> QED BY Invariance, AgreementInvariance, <1>1, PTL

\* A tip of a round after a commit, voted for or not, extends the committed
\* block: no later proposal, reproposal or timeout can carry a tip that
\* conflicts with a commit (Safety::vote, HighExtend, FreshProposalCertificate).
THEOREM TipsFollowCommits == Spec => []TipsExtendCommits
<1>1. IInv /\ (Orderly => AInv) => TipsExtendCommits
  <2> SUFFICES ASSUME IInv, AInv, Orderly, NEW p \in FormedQcs, NEW h \in Tips,
                      get_committable_id(p) # None, BlockRound[h] > p.round
               PROVE  get_committable_id(p) \in Chain[h]
    BY DEF TipsExtendCommits
  <2> DEFINE b == p.id
             q == BlockQc[h]
  <2>1. /\ b \in Open /\ b \in Tips /\ BlockRound[b] = p.round /\ p.round \in Nat
        /\ get_committable_id(p) = BlockQc[b].id
    BY CommittedOpen
  <2>2. h \in Block /\ q \in FormedQcs /\ b \in Block /\ BlockQc[b] \in FormedQcs
    BY <2>1, TipQc
  <2>3. q.round \in Nat /\ BlockQc[b].round \in Nat /\ BlockRound[h] \in Nat
    BY <2>2, BlockTypes
  <2>4. BlockRound[b] <= q.round + 1
    BY ZenonT(30), <2>1, <2>3, TipNotBelow
  <2>5. BlockRound[b] = BlockQc[b].round + 1
    BY <2>1 DEF Open, Consecutive
  <2>6. BlockQc[b].id \in Chain[q.id]
    <3>1. CASE BlockRound[b] <= q.round
      BY <2>1, <2>2, <3>1 DEF AInv
    <3>2. CASE ~ (BlockRound[b] <= q.round)
      <4>1. q.round = BlockQc[b].round
        BY <2>1, <2>3, <2>4, <2>5, <3>2
      <4>2. q = BlockQc[b]
        BY <2>2, <4>1, QuorumsAgree DEF QcUnique
      <4> QED BY ZenonT(30), <2>2, <4>2, ChainParent, ChainSelf
    <3> QED BY ZenonT(30), <3>1, <3>2
  <2> QED BY ZenonT(30), <2>1, <2>2, <2>6, ChainParent
<1> QED BY Invariance, AgreementInvariance, <1>1, PTL

\* The runs that the next theorem is about.
LEMMA OrderlyRuns ==
  ASSUME ~ LaterQcs, ~ Equivocation, MaxRestarts = 0
  PROVE  Spec => []Orderly
<1> DEFINE J == /\ restarts = 0
                /\ \A b, c \in faulty_blocks : BlockRound[b] = BlockRound[c] => b = c
<1>1. Init => J
  BY DEF Init
<1>2. J /\ [Next]_vars => J'
  <2> SUFFICES ASSUME J, [Next]_vars PROVE J'
    OBVIOUS
  <2>1. CASE UNCHANGED <<faulty_blocks, restarts>>
    BY <2>1
  <2>2. CASE SignBlock
    BY <2>2 DEF SignBlock, MaySign
  <2>3. ~ Restart
    BY DEF Restart
  <2> QED BY ZenonT(30), <2>1, <2>2, <2>3
          DEF Next, vars, HandleTimeoutExpiry, HandleProposal, HandleVote, HandleTimeout, ReceiveTimeout,
              HandleRoundRecovery, HandleNoEndorsement, HandleAdvanceRound, HandleBlockSync, Update
<1>3. EarlierQcs
  BY DEF EarlierQcs, FormedTcs
<1>4. J => Orderly
  BY <1>3 DEF Orderly
<1> QED BY <1>1, <1>2, <1>4, PTL DEF Spec

\* What is committed is on the chain of every QC of that or a later round and
\* of every tip of a later round, without a condition on the state.
CommitsBind ==
  \A p \in FormedQcs :
    get_committable_id(p) # None =>
      /\ \A q \in FormedQcs : q.round >= p.round => get_committable_id(p) \in Chain[q.id]
      /\ \A b \in Tips : BlockRound[b] > p.round => get_committable_id(p) \in Chain[b]

\* Agreement outright: where no faulty signer misreports the QC of its tip
\* (~ LaterQcs), no faulty leader signs two blocks for a round and no node
\* restarts, no two nodes ever commit conflicting blocks and no leader can
\* propose against a commit (BlockTree::try_commit, Safety::vote), however many
\* faulty validators there are below the quorum bound and whatever else they
\* sign or withhold.
THEOREM CommitsAlwaysBind ==
  ASSUME ~ LaterQcs, ~ Equivocation, MaxRestarts = 0
  PROVE  Spec => []CommitsBind
<1>1. Orderly /\ Agreement /\ TipsExtendCommits => CommitsBind
  BY ZenonT(30) DEF Agreement, TipsExtendCommits, CommitsBind
<1> QED BY <1>1, OrderlyRuns, CommitsAgree, TipsFollowCommits, PTL
=============================================================================
