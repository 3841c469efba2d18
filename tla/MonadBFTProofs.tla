--------------------------- MODULE MonadBFTProofs ---------------------------
(***************************************************************************)
(* Safety of MonadBFT for every set of validators, blocks and rounds: no   *)
(* correct validator signs twice or fails an assertion, and a round has    *)
(* one QC.  The last part shows that what correct nodes send passes the    *)
(* validation of its receivers: it is the second part of HandlerProofs     *)
(* with the certificates, tips and requests that exist in a state of       *)
(* MonadBFT, which only grow.                                              *)
(***************************************************************************)
EXTENDS MonadBFT, HandlerProofs

-----------------------------------------------------------------------------
(* The invariant *)

\* No-endorsements are for rounds that a correct leader has entered: it asked
\* for them.
LeaderEntered(r) == Leader[r] \in Honest => r <= get_current_round(nodes[Leader[r]])

NeInv == \A n \in Honest : \A ne \in nodes[n].no_endorsements : LeaderEntered(ne.round)

\* The inductive invariant.
IInv ==
  /\ TypeOK
  /\ \A n \in Honest : NodeInv(nodes[n])
  /\ NeInv

-----------------------------------------------------------------------------
\* What is received has the type the handlers expect.

LEMMA FormedQcsType ==
  ASSUME TypeOK
  PROVE  FormedQcs \subseteq QuorumCertificate /\ EnterQcs \subseteq QuorumCertificate
<1>1. genesis_qc \in QuorumCertificate
  BY DEF genesis_qc, QuorumCertificate, GENESIS_ROUND
<1>2. \A n \in Honest : nodes[n].votes \subseteq QuorumCertificate
  BY DEF TypeOK, NodeState, Vote, QuorumCertificate
<1> QED BY <1>1, <1>2 DEF FormedQcs, EnterQcs

LEMMA ExtendsType ==
  ASSUME TypeOK
  PROVE  VerifiedExtends \subseteq HighExtend
<1>1. \A qc \in FormedQcs : ExtendQc(qc) \in HighExtend
  BY FormedQcsType DEF ExtendQc, HighExtend
<1>2. \A b \in Tips : ExtendTip(b) \in HighExtend
  BY BlockAssumption DEF ExtendTip, HighExtend, Tips
<1> QED BY <1>1, <1>2 DEF VerifiedExtends

LEMMA FormedTcsType ==
  ASSUME TypeOK
  PROVE  FormedTcs \subseteq RoundCertificate /\ \A tc \in FormedTcs : tc.kind = "Tc" /\ WellFormed(tc)
<1>1. VerifiedExtends \subseteq HighExtend
  BY ExtendsType
<1>2. FormedTcs \subseteq {TcCert(r, he) : r \in 1..(MaxRound - 1), he \in VerifiedExtends}
  BY DEF FormedTcs
<1>3. ASSUME NEW r \in 1..(MaxRound - 1), NEW he \in VerifiedExtends
      PROVE  TcCert(r, he) \in RoundCertificate /\ TcCert(r, he).kind = "Tc" /\ WellFormed(TcCert(r, he))
  <2>1. r \in Nat  BY ProtocolAssumption
  <2> QED BY <1>1, <2>1 DEF TcCert, RoundCertificate, WellFormed
<1> QED BY <1>2, <1>3

\* A TC that TimeoutCertificate::new makes has what verify_tc asks of the
\* timeouts of correct nodes.
LEMMA CountedBelow ==
  ASSUME TypeOK, NEW r, NEW he \in HighExtend, NEW n \in Honest, NEW m \in CountedTimeouts(n, r, he)
  PROVE  m \in TimeoutsOf(n, r) /\ Below(m, he) /\ (m.high_extend = he => Reaches(m, he))
<1> DEFINE e == m.high_extend
<1>1. m \in TimeoutsOf(n, r) /\ m.round = r /\ e.qc.round < r /\ ~ HigherExtend(e, he)
      /\ (e.tip # None => e.qc.round < BlockRound[e.tip])
  BY DEF CountedTimeouts, TimeoutsOf
<1>2. e \in HighExtend
  BY <1>1 DEF TimeoutsOf, TypeOK, NodeState, TimeoutMessage
<1>3. /\ e.qc.round \in Nat /\ he.qc.round \in Nat
      /\ e.tip # None => BlockRound[e.tip] \in Nat
      /\ he.tip # None => BlockRound[he.tip] \in Nat
  BY <1>2, BlockAssumption DEF HighExtend, QuorumCertificate
<1> HIDE DEF e
<1>4. Below(m, he)
  BY <1>1, <1>3 DEF Below, HigherExtend, high_tip_round, GENESIS_ROUND, e
<1>5. e = he => Reaches(m, he)
  BY DEF Reaches, high_tip_round, e
<1> QED BY <1>1, <1>4, <1>5 DEF e

LEMMA BuiltAreFormed ==
  ASSUME TypeOK
  PROVE  BuiltTcs \subseteq FormedTcs
<1> SUFFICES ASSUME NEW tc \in BuiltTcs PROVE tc \in FormedTcs
  OBVIOUS
<1>1. PICK r \in 1..(MaxRound - 1), he \in VerifiedExtends : tc = TcCert(r, he)
  BY DEF BuiltTcs
<1>2. tc.round = r /\ tc.high_extend = he
  BY ZenonT(30), <1>1 DEF TcCert
<1>3. HighestExtend(r, he) /\ he.qc.round < r
  BY <1>2 DEF BuiltTcs, HighestExtend
<1>4. he \in HighExtend
  BY ExtendsType
<1>5. TcSigned(r, he)
  <2>1. PICK Q \in SuperMajority :
          /\ \A n \in Q \cap Honest : CountedTimeouts(n, r, he) # {}
          /\ \/ Q \cap Faulty # {}
             \/ \E n \in Q \cap Honest : \E m \in CountedTimeouts(n, r, he) : m.high_extend = he
    BY <1>3 DEF HighestExtend
  <2>2. \A n \in Honest : \A m \in CountedTimeouts(n, r, he) :
          m \in TimeoutsOf(n, r) /\ Below(m, he) /\ (m.high_extend = he => Reaches(m, he))
    BY <1>4, CountedBelow
  <2> QED BY ZenonT(30), <2>1, <2>2 DEF TcSigned
<1>6. tc \in {TcCert(i, h) : i \in 1..(MaxRound - 1), h \in VerifiedExtends}
  BY <1>1
<1> QED BY <1>2, <1>3, <1>5, <1>6 DEF FormedTcs

LEMMA FormedCertificatesType ==
  ASSUME TypeOK, NEW cert \in FormedCertificates
  PROVE  cert \in RoundCertificate /\ WellFormed(cert)
BY FormedQcsType, FormedTcsType, QcCertType DEF FormedCertificates

LEMMA ValidProposalsType ==
  ASSUME TypeOK, NEW p \in ValidProposals
  PROVE  p \in ProposalMessage /\ (p.last_round_tc # None => WellFormed(p.last_round_tc))
<1> DEFINE tcs == {None} \cup FormedTcs
           Made(r) == {[proposal_round |-> r, tip |-> b, last_round_tc |-> tc] : b \in Tips, tc \in tcs}
           sent == UNION {nodes[n].proposals : n \in Honest}
<1>1. p.last_round_tc \in tcs
  BY DEF ValidProposals
<1>2. p \in sent \/ \E r \in 1..MaxRound : p \in Made(r)
  BY DEF ValidProposals
<1>3. sent \subseteq ProposalMessage
  BY DEF TypeOK, NodeState
<1>4. \A r \in 1..MaxRound : Made(r) \subseteq ProposalMessage
  BY FormedTcsType, ProtocolAssumption DEF ProposalMessage, Tips
<1> QED BY <1>1, <1>2, <1>3, <1>4, FormedTcsType

LEMMA ValidTimeoutsType ==
  ASSUME TypeOK, NEW t \in ValidTimeouts(FormedTcs)
  PROVE  t \in TimeoutMessage /\ Accompanied(t)
<1>1. t \in UNION {nodes[n].timeouts : n \in Honest}
  BY DEF ValidTimeouts
<1>2. t \in TimeoutMessage
  BY <1>1 DEF TypeOK, NodeState
<1>3. /\ t.last_round_certificate \in {None} \cup {QcCert(qc) : qc \in EnterQcs} \cup FormedTcs
      /\ t.last_round_certificate # None => t.round = t.last_round_certificate.round + 1
      /\ t.round = t.high_extend.qc.round + 1 <=> t.last_round_certificate = None
  BY DEF ValidTimeouts
<1>4. t.last_round_certificate # None => WellFormed(t.last_round_certificate)
  BY <1>3, FormedQcsType, FormedTcsType, QcCertType
<1> QED BY <1>2, <1>3, <1>4 DEF Accompanied

LEMMA ValidRecoveriesType ==
  ASSUME TypeOK, NEW tc \in ValidRecoveries
  PROVE  tc \in Tcs /\ tc.high_extend.tip \in Block
BY FormedTcsType DEF ValidRecoveries, RoundCertificate, HighExtend, Tcs

-----------------------------------------------------------------------------
\* A step that changes one node, to a state that its lemma allows.
LEMMA NodeStep ==
  ASSUME IInv, NEW n \in Honest, NEW x, NEW R, NodeInv(x), Grows(nodes[n], x, R),
         nodes' = [nodes EXCEPT ![n] = x], \A r \in R : LeaderEntered(r),
         faulty_blocks' \in SUBSET Block, restarts' \in 0..MaxRestarts
  PROVE  IInv' /\ NewVotesInLiveRounds
<1>1. nodes \in [Honest -> NodeState] /\ \A m \in Honest : NodeInv(nodes[m])
  BY DEF IInv, TypeOK
<1>2. nodes'[n] = x /\ \A m \in Honest : m # n => nodes'[m] = nodes[m]
  BY <1>1
<1>3. \A m \in Honest : NodeInv(nodes'[m])
  BY <1>1, <1>2
<1>4. TypeOK'
  BY ZenonT(30), <1>1 DEF TypeOK, NodeInv
<1>5. \A m \in Honest : /\ get_current_round(nodes[m]) \in Nat
                        /\ get_current_round(nodes'[m]) \in Nat
                        /\ get_current_round(nodes[m]) <= get_current_round(nodes'[m])
  BY <1>1, <1>2, <1>3 DEF Grows, NodeInv, NodeState, RoundCertificate, get_current_round
<1>6. ASSUME NEW m \in Honest, NEW ne \in nodes'[m].no_endorsements, Leader[ne.round] \in Honest
      PROVE  ne.round <= get_current_round(nodes'[Leader[ne.round]])
  <2>1. LeaderEntered(ne.round)
    BY <1>2 DEF Grows, IInv, NeInv
  <2>2. ne.round \in Nat
    BY <1>3 DEF NodeInv, NodeState, NoEndorsement
  <2> QED BY <1>5, <1>6, <2>1, <2>2 DEF LeaderEntered
<1>7. NeInv'
  BY <1>6 DEF NeInv, LeaderEntered
<1>8. NewVotesInLiveRounds
  BY <1>2 DEF NewVotesInLiveRounds, Grows, TimeoutsOf
<1> QED BY <1>3, <1>4, <1>7, <1>8 DEF IInv

LEMMA UpdateStep ==
  ASSUME IInv, NEW n \in Honest, NEW after, NEW R, Preserves(nodes[n], after, R),
         Update(n, after), \A r \in R : LeaderEntered(r)
  PROVE  IInv' /\ NewVotesInLiveRounds
<1>1. PICK x \in after : nodes' = [nodes EXCEPT ![n] = x]
  BY ZenonT(30) DEF Update
<1>2. faulty_blocks' \in SUBSET Block /\ restarts' \in 0..MaxRestarts
  BY DEF IInv, TypeOK, Update
<1> QED BY ZenonT(30), <1>1, <1>2, NodeStep DEF Preserves

-----------------------------------------------------------------------------
\* The initial state satisfies the invariant.
LEMMA InitInv == Init => IInv
<1> SUFFICES ASSUME Init PROVE IInv
  OBVIOUS
<1> DEFINE x == StartConsensus(Unstarted, QcCert(genesis_qc))
<1>1. NodeInv(x) /\ Grows(Unstarted, x, {})
  BY UnstartedInv, StartConsensusStep
<1>2. x.no_endorsements = {}
  BY ZenonT(30), <1>1 DEF Grows, Unstarted
<1> HIDE DEF x
<1>3. nodes = [n \in Honest |-> x] /\ faulty_blocks = {} /\ restarts = 0
  BY DEF Init, x
<1>4. TypeOK
  BY <1>1, <1>3, ProtocolAssumption DEF TypeOK, NodeInv
<1> QED BY <1>1, <1>2, <1>3, <1>4 DEF IInv, NeInv

\* Every step preserves the invariant, and no vote is added to a round that
\* was timed out.
LEMMA NextInv == IInv /\ [Next]_vars => IInv' /\ (NewVotesInLiveRounds \/ UNCHANGED vars)
<1> SUFFICES ASSUME IInv, [Next]_vars PROVE IInv' /\ (NewVotesInLiveRounds \/ UNCHANGED vars)
  OBVIOUS
<1>1. TypeOK /\ (\A n \in Honest : NodeInv(nodes[n])) /\ Running \subseteq Honest
  BY DEF IInv, Running
<1>2. CASE HandleTimeoutExpiry
  <2>1. PICK n \in Running :
          \E x \in handle_timeout_expiry(nodes[n]) : nodes' = [nodes EXCEPT ![n] = x]
    BY ZenonT(30), <1>2 DEF HandleTimeoutExpiry
  <2>2. PICK x \in handle_timeout_expiry(nodes[n]) : nodes' = [nodes EXCEPT ![n] = x]
    BY ZenonT(30), <2>1
  <2>3. n \in Honest /\ NodeInv(x) /\ Grows(nodes[n], x, {})
    BY <1>1, <2>2, HandleTimeoutExpiryStep DEF Preserves
  <2>4. faulty_blocks' \in SUBSET Block /\ restarts' \in 0..MaxRestarts
    BY <1>1, <1>2 DEF TypeOK, HandleTimeoutExpiry
  <2> DEFINE R == {}
  <2>5. Grows(nodes[n], x, R) /\ \A r \in R : LeaderEntered(r)
    BY <2>3
  <2> HIDE DEF R
  <2>6. IInv' /\ NewVotesInLiveRounds
    BY ZenonT(30), <2>2, <2>3, <2>4, <2>5, NodeStep
  <2> QED BY <2>6
<1>3. CASE HandleProposal
  <2>1. PICK p \in ValidProposals, n \in Running :
          Update(n, handle_proposal_message(n, nodes[n], Leader[p.proposal_round], p))
    BY <1>3 DEF HandleProposal
  <2>2. Preserves(nodes[n], handle_proposal_message(n, nodes[n], Leader[p.proposal_round], p), {})
    BY <1>1, ValidProposalsType, HandleProposalStep
  <2> QED BY <1>1, <2>1, <2>2, UpdateStep
<1>4. CASE HandleVote
  <2>1. PICK qc \in EnterQcs, n \in Running :
          Update(n, handle_vote_message(n, nodes[n], qc.round, {qc}))
    BY ZenonT(30), <1>4 DEF HandleVote
  <2>2. NodeInv(nodes[n]) /\ {qc} \in SUBSET QuorumCertificate
    BY <1>1, FormedQcsType
  <2>3. Preserves(nodes[n], handle_vote_message(n, nodes[n], qc.round, {qc}), {})
    BY ZenonT(30), <2>2, HandleVoteStep
  <2> QED BY <1>1, <2>1, <2>3, UpdateStep
<1>5. CASE HandleTimeout
  <2>1. PICK t \in ValidTimeouts(FormedTcs), n \in Running : ReceiveTimeout(n, t, BuiltTcs)
    BY <1>5 DEF HandleTimeout
  <2> DEFINE qcs    == EnterQcs \cap {[round |-> t.round, id |-> t.high_extend.tip]}
             honest == SignedBy(HonestVote, {m \in Honest : TimeoutsOf(m, t.round) # {}})
             tcs    == {tc \in BuiltTcs : tc.round = t.round}
  <2>2. Update(n, handle_timeout_message(n, nodes[n], t, qcs, honest, tcs))
    BY <2>1 DEF ReceiveTimeout
  <2>3. /\ qcs \in SUBSET QuorumCertificate /\ tcs \in SUBSET Tcs
        /\ \A tc \in tcs : tc.round = t.round
    BY ZenonT(30), <1>1, FormedQcsType, BuiltAreFormed, FormedTcsType DEF Tcs
  <2> HIDE DEF qcs, honest, tcs
  <2>4. Preserves(nodes[n], handle_timeout_message(n, nodes[n], t, qcs, honest, tcs), {})
    BY <1>1, <2>3, ValidTimeoutsType, HandleTimeoutStep
  <2> QED BY <1>1, <2>2, <2>4, UpdateStep
<1>6. CASE HandleRoundRecovery
  <2>1. PICK tc \in ValidRecoveries, n \in Running :
          Update(n, handle_round_recovery_message(n, nodes[n], Leader[tc.round + 1], tc))
    BY <1>6 DEF HandleRoundRecovery
  <2>2. Preserves(nodes[n], handle_round_recovery_message(n, nodes[n], Leader[tc.round + 1], tc),
                  {tc.round + 1})
    BY ZenonT(30), <1>1, ValidRecoveriesType, HandleRoundRecoveryStep
  <2>3. LeaderEntered(tc.round + 1)
    <3> SUFFICES ASSUME Leader[tc.round + 1] \in Honest
                 PROVE  tc.round + 1 <= get_current_round(nodes[Leader[tc.round + 1]])
      BY DEF LeaderEntered
    <3>1. tc \in nodes[Leader[tc.round + 1]].recoveries
      BY QuorumAssumption DEF ValidRecoveries
    <3>2. tc \in RoundCertificate
      BY <1>1, ValidRecoveriesType DEF Tcs
    <3> QED BY <1>1, <3>1, <3>2
            DEF NodeInv, NodeState, RecoveryInv, RoundCertificate, get_current_round
  <2> QED BY <1>1, <2>1, <2>2, <2>3, UpdateStep
<1>7. CASE HandleNoEndorsement
  <2>1. PICK ne \in UNION {nodes[m].no_endorsements : m \in Honest}, n \in Running :
          n = Leader[ne.round] /\ Update(n, handle_no_endorsement_message(n, nodes[n], ne))
    BY ZenonT(30), <1>7 DEF HandleNoEndorsement
  <2>2. ne \in NoEndorsement /\ ne.round <= get_current_round(nodes[n])
    BY <1>1, <2>1 DEF IInv, NeInv, LeaderEntered, NodeInv, NodeState
  <2>3. Preserves(nodes[n], handle_no_endorsement_message(n, nodes[n], ne), {})
    BY <1>1, <2>2, HandleNoEndorsementStep
  <2> QED BY <1>1, <2>1, <2>3, UpdateStep
<1>8. CASE HandleAdvanceRound
  <2>1. PICK cert \in FormedCertificates, n \in Running :
          Update(n, handle_advance_round_message(n, nodes[n], cert))
    BY <1>8 DEF HandleAdvanceRound
  <2>2. Preserves(nodes[n], handle_advance_round_message(n, nodes[n], cert), {})
    BY <1>1, FormedCertificatesType, HandleAdvanceRoundStep
  <2> QED BY <1>1, <2>1, <2>2, UpdateStep
<1>9. CASE HandleBlockSync
  <2>1. PICK n \in Running : Update(n, try_propose(n, nodes[n]))
    BY <1>9 DEF HandleBlockSync
  <2>2. Preserves(nodes[n], try_propose(n, nodes[n]), {})
    BY <1>1, TryPropose
  <2> QED BY <1>1, <2>1, <2>2, UpdateStep
<1>10. CASE Restart
  <2>1. PICK n \in Running : nodes' = [nodes EXCEPT ![n] = StartConsensus(@, @.high_certificate)]
    BY ZenonT(30), <1>10 DEF Restart
  <2> DEFINE x == StartConsensus(nodes[n], nodes[n].high_certificate)
  <2>2. nodes' = [nodes EXCEPT ![n] = x]
    BY <2>1
  <2>3. n \in Honest /\ NodeInv(x) /\ Grows(nodes[n], x, {})
    BY <1>1, StartConsensusStep
  <2>4. faulty_blocks' \in SUBSET Block /\ restarts' \in 0..MaxRestarts
    BY <1>1, <1>10, ProtocolAssumption DEF TypeOK, Restart
  <2> HIDE DEF x
  <2> DEFINE R == {}
  <2>5. Grows(nodes[n], x, R) /\ \A r \in R : LeaderEntered(r)
    BY <2>3
  <2> HIDE DEF R
  <2>6. IInv' /\ NewVotesInLiveRounds
    BY ZenonT(30), <2>2, <2>3, <2>4, <2>5, NodeStep
  <2> QED BY <2>6
<1>11. CASE SignBlock \/ UNCHANGED vars
  <2>1. nodes' = nodes /\ restarts' = restarts /\ faulty_blocks' \in SUBSET Block
    BY <1>1, <1>11 DEF SignBlock, vars, TypeOK
  <2>2. IInv'
    BY <2>1 DEF IInv, TypeOK, NeInv, LeaderEntered
  <2>3. NewVotesInLiveRounds
    BY <2>1 DEF NewVotesInLiveRounds
  <2> QED BY <2>2, <2>3
<1> QED BY ZenonT(30), <1>2, <1>3, <1>4, <1>5, <1>6, <1>7, <1>8, <1>9, <1>10, <1>11 DEF Next

\* The inductive invariant holds in every reachable state.
THEOREM Invariance == Spec => []IInv
<1>1. IInv /\ [Next]_vars => IInv'
  BY NextInv
<1> QED BY InitInv, <1>1, PTL DEF Spec

-----------------------------------------------------------------------------
\* Every node stays in a NodeState and the bounds are kept, whatever messages
\* are lost, duplicated or reordered and whichever nodes restart.
THEOREM TypeCorrect == Spec => []TypeOK
<1>1. IInv => TypeOK
  BY ZenonT(30) DEF IInv
<1> QED BY Invariance, <1>1, PTL

\* A validator signs at most one vote per round (Safety::is_safe_to_vote,
\* Safety::timeout, Safety::new), for any number of validators, rounds,
\* blocks and restarts.
THEOREM NoDoubleVote == Spec => []VoteOnce
<1>1. IInv => VoteOnce
  BY ZenonT(30) DEF IInv, VoteOnce, NodeInv, VoteInv
<1> QED BY Invariance, <1>1, PTL

\* A leader signs at most one proposal per round (Safety::is_safe_to_propose).
THEOREM NoDoublePropose == Spec => []ProposeOnce
<1>1. IInv => ProposeOnce
  BY DEF IInv, ProposeOnce, NodeInv, ProposeInv
<1> QED BY Invariance, <1>1, PTL

\* No assertion that NoPanic lists fails.
THEOREM AssertionsHold == Spec => []NoPanic
<1>1. IInv => NoPanic
  BY DEF IInv, NoPanic, NodeInv
<1> QED BY Invariance, <1>1, PTL

\* Two supermajorities share a correct validator (QuorumAssumption), which
\* votes once per round; so a round has at most one quorum certificate.
LEMMA QuorumsAgree == IInv => QcUnique
<1> SUFFICES ASSUME IInv, NEW p \in FormedQcs, NEW q \in FormedQcs, p.round = q.round
             PROVE  p = q
  BY DEF QcUnique
<1> DEFINE voters(c) == {n \in Honest : [round |-> c.round, id |-> c.id] \in nodes[n].votes}
<1>1. ASSUME NEW c \in FormedQcs, c # genesis_qc
      PROVE  /\ c \in Vote /\ 0 < c.round
             /\ \E Q \in SuperMajority : Q \cap Honest \subseteq voters(c)
  <2>1. PICK n \in Honest : c \in nodes[n].votes
    BY <1>1 DEF FormedQcs
  <2>2. QcFormed(c.round, c.id)
    BY <1>1 DEF FormedQcs
  <2>3. c \in Vote /\ 0 < c.round
    BY <2>1 DEF IInv, NodeInv, NodeState, VoteInv, GENESIS_ROUND
  <2> QED BY <2>2, <2>3 DEF QcFormed, SignedBy
<1>2. genesis_qc.round = 0
  BY DEF genesis_qc, GENESIS_ROUND
<1> HIDE DEF voters
<1>3. CASE p = genesis_qc \/ q = genesis_qc
  <2>1. p # genesis_qc => p.round \in Nat /\ 0 < p.round
    BY <1>1 DEF Vote
  <2>2. q # genesis_qc => q.round \in Nat /\ 0 < q.round
    BY <1>1 DEF Vote
  <2> QED BY <1>2, <1>3, <2>1, <2>2
<1>4. CASE p # genesis_qc /\ q # genesis_qc
  <2>1. PICK P \in SuperMajority : P \cap Honest \subseteq voters(p)
    BY <1>1, <1>4
  <2>2. PICK Q \in SuperMajority : Q \cap Honest \subseteq voters(q)
    BY <1>1, <1>4
  <2>3. PICK n \in Honest : n \in P /\ n \in Q
    BY <2>1, <2>2, QuorumAssumption
  <2>4. n \in voters(p) /\ n \in voters(q)
    BY <2>1, <2>2, <2>3
  <2>5. p.id = q.id
    <3> DEFINE v == [round |-> p.round, id |-> p.id]
               w == [round |-> q.round, id |-> q.id]
    <3>1. v \in nodes[n].votes /\ w \in nodes[n].votes /\ v.round = w.round
      BY ZenonT(30), <2>4 DEF voters
    <3>2. v = w
      BY <2>3, <3>1 DEF IInv, NodeInv, VoteInv
    <3> QED BY <3>2
  <2>6. p \in Vote /\ q \in Vote
    BY <1>1, <1>4
  <2> QED BY <2>5, <2>6 DEF Vote
<1> QED BY <1>3, <1>4

\* At most one quorum certificate per round, for every validator set whose
\* supermajorities intersect in a correct validator, with leaders that
\* equivocate.
THEOREM UniqueCertificates == Spec => []QcUnique
BY Invariance, QuorumsAgree, PTL

\* A timeout is a node's last word on its round: no later vote contradicts it.
THEOREM TimeoutsAreFinal == Spec => TimeoutIsFinal
<1>1. IInv /\ [Next]_vars => [NewVotesInLiveRounds]_vars
  BY NextInv
<1> QED BY Invariance, <1>1, PTL DEF Spec, TimeoutIsFinal

-----------------------------------------------------------------------------
(* The certificates and tips that exist *)

LEMMA QuorumsMeet ==
  ASSUME NEW P \in SuperMajority, NEW Q \in SuperMajority
  PROVE  \E n \in Honest : n \in P /\ n \in Q
BY QuorumAssumption

\* The correct validators behind a set of signatures.
LEMMA SignedByHonest ==
  ASSUME NEW W, SignedBy(SuperMajority, W)
  PROVE  \E n \in Honest : n \in W
BY QuorumAssumption DEF SignedBy

LEMMA VerifiedQc ==
  ASSUME NEW qc \in QuorumCertificate, verify_qc(qc)
  PROVE  qc \in FormedQcs
<1>1. CASE qc = genesis_qc
  BY <1>1 DEF FormedQcs
<1>2. CASE qc # genesis_qc
  <2>1. QcFormed(qc.round, qc.id)
    BY <1>2 DEF verify_qc
  <2>2. PICK n \in Honest : [round |-> qc.round, id |-> qc.id] \in nodes[n].votes
    BY <2>1, SignedByHonest DEF QcFormed
  <2>3. qc = [round |-> qc.round, id |-> qc.id]
    BY DEF QuorumCertificate
  <2> QED BY <2>1, <2>2, <2>3 DEF FormedQcs
<1> QED BY <1>1, <1>2

LEMMA FormedQcVerified ==
  ASSUME IInv, NEW qc \in FormedQcs
  PROVE  verify_qc(qc)
<1>1. CASE qc = genesis_qc
  BY <1>1 DEF verify_qc
<1>2. CASE qc # genesis_qc
  <2>1. PICK n \in Honest : qc \in nodes[n].votes
    BY <1>2 DEF FormedQcs
  <2>2. qc.round > GENESIS_ROUND
    BY <2>1 DEF IInv, NodeInv, NodeState, Vote, VoteInv, GENESIS_ROUND
  <2> QED BY <1>2, <2>2 DEF FormedQcs, verify_qc
<1> QED BY <1>1, <1>2

\* The QC that a tip extends was formed.
LEMMA TipQc ==
  ASSUME NEW b \in Tips
  PROVE  b \in Block /\ BlockQc[b] \in FormedQcs /\ BlockQc[b] \in EnterQcs
BY ZenonT(30), VerifiedQc, BlockAssumption, ProtocolAssumption DEF Tips, verify_tip, EnterQcs

LEMMA FormedTcFacts ==
  ASSUME NEW tc \in FormedTcs
  PROVE  /\ TcSigned(tc.round, tc.high_extend) /\ tc.round \in Nat /\ tc.round < MaxRound
         /\ tc.high_extend.tip = None => tc.high_extend.qc.round < tc.round
         /\ \/ tc.high_extend.tip = None /\ tc.high_extend.qc \in FormedQcs
            \/ tc.high_extend.tip \in Tips /\ tc.high_extend.qc = BlockQc[tc.high_extend.tip]
         /\ tc = TcCert(tc.round, tc.high_extend)
<1>1. PICK r \in 1..(MaxRound - 1), he \in VerifiedExtends : tc = TcCert(r, he)
  BY DEF FormedTcs
<1>2. tc.round = r /\ tc.high_extend = he /\ r \in Nat /\ r < MaxRound
  <2>1. tc.round = r /\ tc.high_extend = he
    BY ZenonT(30), <1>1 DEF TcCert
  <2>2. r \in Nat /\ r < MaxRound
    BY ProtocolAssumption
  <2> QED BY Zenon, <2>1, <2>2
<1>3. \/ he.tip = None /\ he.qc \in FormedQcs
      \/ he.tip \in Tips /\ he.qc = BlockQc[he.tip]
  BY <1>1 DEF VerifiedExtends, ExtendQc, ExtendTip
<1>4. /\ TcSigned(tc.round, tc.high_extend)
      /\ tc.high_extend.tip = None => tc.high_extend.qc.round < tc.round
  BY DEF FormedTcs
<1> QED BY <1>1, <1>2, <1>3, <1>4

\* The no-endorsements of which n can build a certificate.
NesFor(n) == {ne \in NoEndorsement : verify_nec(ne) /\ Leader[ne.round] = n}

-----------------------------------------------------------------------------
(* Steps of the handlers *)

\* Steps of the handlers stay in sets that are closed under them.
Steady(F, qcs) ==
  /\ EnterQcs \subseteq qcs /\ qcs \subseteq QuorumCertificate
  /\ \A p \in ValidProposals : BlockQc[p.tip] \in qcs
  /\ \A t \in ValidTimeouts(FormedTcs) : t.high_extend.qc \in qcs
  /\ \A n \in Honest :
       /\ nodes[n] \in F[n] /\ F[n] \subseteq NodeState
       /\ Closed(F[n], n, qcs, FormedTcs, ValidProposals, ValidRecoveries, NesFor(n))

LEMMA ProposalTc ==
  ASSUME NEW p \in ValidProposals
  PROVE  p.last_round_tc \in {None} \cup FormedTcs
BY DEF ValidProposals

LEMMA StepSteady ==
  ASSUME IInv, [Next]_vars, ~ Restart, NEW F, NEW qcs, Steady(F, qcs)
  PROVE  faulty_blocks \subseteq faulty_blocks' /\ \A m \in Honest : nodes'[m] \in F[m]
<1> DEFINE Goal == faulty_blocks \subseteq faulty_blocks' /\ \A m \in Honest : nodes'[m] \in F[m]
<1>1. TypeOK /\ Running \subseteq Honest
  BY DEF IInv, Running
<1>a. ASSUME NEW n \in Running
      PROVE  /\ n \in Honest /\ nodes[n] \in F[n] /\ F[n] \subseteq NodeState
             /\ Closed(F[n], n, qcs, FormedTcs, ValidProposals, ValidRecoveries, NesFor(n))
  BY ZenonT(30), <1>1 DEF Steady
<1>b. ASSUME NEW n \in Running, NEW x \in F[n], nodes' = [nodes EXCEPT ![n] = x]
      PROVE  \A m \in Honest : nodes'[m] \in F[m]
  BY <1>1, <1>b DEF Steady, TypeOK
<1>c. ASSUME NEW n \in Running, NEW after, Update(n, after), after \subseteq F[n]
      PROVE  Goal
  BY ZenonT(30), <1>b, <1>c DEF Update
<1>d. /\ EnterQcs \subseteq qcs /\ qcs \in SUBSET QuorumCertificate
      /\ FormedTcs \in SUBSET RoundCertificate /\ \A tc \in FormedTcs : tc.kind = "Tc"
  BY ZenonT(30), <1>1, FormedTcsType DEF Steady
<1>e. ASSUME NEW cert, cert \in {None} \cup {QcCert(qc) : qc \in EnterQcs} \cup FormedTcs
      PROVE  Known(cert, qcs, FormedTcs)
  BY <1>d, <1>e DEF QcCert, ExtendQc, Known
<1> SUFFICES Goal
  OBVIOUS
<1> HIDE DEF Goal
<1>2. CASE HandleTimeoutExpiry
  <2>1. PICK n \in Running : nodes' = [nodes EXCEPT ![n] = LocalTimeout(nodes[n])]
    BY ZenonT(30), <1>2 DEF HandleTimeoutExpiry, handle_timeout_expiry
  <2>2. LocalTimeout(nodes[n]) \in F[n]
    BY ZenonT(30), <1>a DEF Closed
  <2> QED BY ZenonT(30), <1>2, <1>b, <2>1, <2>2 DEF HandleTimeoutExpiry, Goal
<1>3. CASE HandleProposal
  <2>1. PICK p \in ValidProposals, n \in Running :
          Update(n, handle_proposal_message(n, nodes[n], Leader[p.proposal_round], p))
    BY ZenonT(30), <1>3 DEF HandleProposal
  <2>2. BlockQc[p.tip] \in qcs /\ p.last_round_tc \in {None} \cup FormedTcs
    BY ZenonT(30), ProposalTc DEF Steady
  <2>3. Known(p.last_round_tc, qcs, FormedTcs)
    BY ZenonT(30), <1>e, <2>2
  <2>4. handle_proposal_message(n, nodes[n], Leader[p.proposal_round], p) \subseteq F[n]
    BY ZenonT(30), <1>a, <2>2, <2>3, ClosedProposal
  <2> QED BY <1>c, <2>1, <2>4
<1>4. CASE HandleVote
  <2>1. PICK qc \in EnterQcs, n \in Running :
          Update(n, handle_vote_message(n, nodes[n], qc.round, {qc}))
    BY ZenonT(30), <1>4 DEF HandleVote
  <2>2. {qc} \in SUBSET qcs
    BY <1>d
  <2>3. handle_vote_message(n, nodes[n], qc.round, {qc}) \subseteq F[n]
    BY <1>a, <2>2, ClosedVote
  <2> QED BY <1>c, <2>1, <2>3
<1>5. CASE HandleTimeout
  <2>1. PICK t \in ValidTimeouts(FormedTcs), n \in Running : ReceiveTimeout(n, t, BuiltTcs)
    BY ZenonT(30), <1>5 DEF HandleTimeout
  <2> DEFINE fqcs   == EnterQcs \cap {[round |-> t.round, id |-> t.high_extend.tip]}
             honest == SignedBy(HonestVote, {m \in Honest : TimeoutsOf(m, t.round) # {}})
             ftcs   == {tc \in BuiltTcs : tc.round = t.round}
             after  == handle_timeout_message(n, nodes[n], t, fqcs, honest, ftcs)
  <2>2. Update(n, after)
    BY <2>1 DEF ReceiveTimeout
  <2>3. fqcs \in SUBSET qcs /\ ftcs \in SUBSET FormedTcs /\ \A tc \in ftcs : tc.round = t.round
    BY <1>1, <1>d, BuiltAreFormed
  <2>4. t \in TimeoutMessage /\ Accompanied(t)
    BY <1>1, ValidTimeoutsType
  <2>5. t.round \in Nat /\ t.high_extend.qc \in qcs
    BY <2>4 DEF TimeoutMessage, Steady
  <2>6. t.last_round_certificate \in {None} \cup {QcCert(qc) : qc \in EnterQcs} \cup FormedTcs
    BY DEF ValidTimeouts
  <2>7. Known(t.last_round_certificate, qcs, FormedTcs)
    BY ZenonT(30), <1>e, <2>6
  <2> HIDE DEF fqcs, honest, ftcs
  <2>8. /\ F[n] \in SUBSET NodeState /\ nodes[n] \in F[n]
        /\ Closed(F[n], n, qcs, FormedTcs, ValidProposals, ValidRecoveries, NesFor(n))
    BY <1>a
  <2>9. after \subseteq F[n]
    BY ZenonT(30), <1>d, <2>3, <2>4, <2>5, <2>7, <2>8, ClosedTimeout
  <2> HIDE DEF after
  <2> QED BY <1>c, <2>2, <2>9
<1>6. CASE HandleRoundRecovery
  <2>1. PICK tc \in ValidRecoveries, n \in Running :
          Update(n, handle_round_recovery_message(n, nodes[n], Leader[tc.round + 1], tc))
    BY <1>6 DEF HandleRoundRecovery
  <2>2. tc \in FormedTcs
    BY DEF ValidRecoveries
  <2>3. handle_round_recovery_message(n, nodes[n], Leader[tc.round + 1], tc) \subseteq F[n]
    BY <1>a, <2>2, ClosedRecovery
  <2> QED BY <1>c, <2>1, <2>3
<1>7. CASE HandleNoEndorsement
  <2>1. PICK ne \in {z \in UNION {nodes[m].no_endorsements : m \in Honest} : verify_nec(z)}, n \in Running :
          n = Leader[ne.round] /\ Update(n, handle_no_endorsement_message(n, nodes[n], ne))
    BY <1>7 DEF HandleNoEndorsement
  <2>2. ne \in NoEndorsement
    BY <1>1 DEF TypeOK, NodeState
  <2>3. ne \in NesFor(n)
    BY ZenonT(30), <2>1, <2>2 DEF NesFor
  <2>4. handle_no_endorsement_message(n, nodes[n], ne) \subseteq F[n]
    BY ZenonT(30), <1>a, <2>3, ClosedNoEndorsement
  <2> QED BY <1>c, <2>1, <2>4
<1>8. CASE HandleAdvanceRound
  <2>1. PICK cert \in FormedCertificates, n \in Running :
          Update(n, handle_advance_round_message(n, nodes[n], cert))
    BY <1>8 DEF HandleAdvanceRound
  <2>2. Known(cert, qcs, FormedTcs)
    BY ZenonT(30), <1>e DEF FormedCertificates
  <2>3. process_optional(n, nodes[n], cert) \subseteq F[n]
    BY ZenonT(30), <1>a, <2>2, ClosedOptional
  <2> QED BY <1>c, <2>1, <2>3 DEF handle_advance_round_message
<1>9. CASE HandleBlockSync
  <2>1. PICK n \in Running : Update(n, try_propose(n, nodes[n]))
    BY ZenonT(30), <1>9 DEF HandleBlockSync
  <2>2. try_propose(n, nodes[n]) \subseteq F[n]
    BY ZenonT(30), <1>a DEF Closed
  <2> QED BY <1>c, <2>1, <2>2
<1>10. CASE SignBlock \/ UNCHANGED vars
  <2>1. nodes' = nodes /\ faulty_blocks \subseteq faulty_blocks'
    BY <1>10 DEF SignBlock, vars
  <2> QED BY <2>1 DEF Goal, Steady
<1> QED BY ZenonT(30), <1>2, <1>3, <1>4, <1>5, <1>6, <1>7, <1>8, <1>9, <1>10 DEF Next

-----------------------------------------------------------------------------
(* What exists stays: it rests on what is signed once and for all *)

Growth ==
  /\ faulty_blocks \subseteq faulty_blocks'
  /\ \A n \in Honest : Kept(nodes[n], nodes'[n])

LEMMA CertificatesStay ==
  ASSUME Growth
  PROVE  /\ \A r, id : QcFormed(r, id) => QcFormed(r, id)'
         /\ \A ne : verify_nec(ne) => verify_nec(ne)'
         /\ \A r, he : TcSigned(r, he) => TcSigned(r, he)'
<1>1. ASSUME NEW r, NEW id, QcFormed(r, id) PROVE QcFormed(r, id)'
  <2>1. {n \in Honest : [round |-> r, id |-> id] \in nodes[n].votes}
          \subseteq {n \in Honest : [round |-> r, id |-> id] \in nodes'[n].votes}
    BY DEF Growth, Kept
  <2> QED BY <1>1, <2>1 DEF QcFormed, SignedBy
<1>2. ASSUME NEW ne, verify_nec(ne) PROVE verify_nec(ne)'
  <2>1. {n \in Honest : ne \in nodes[n].no_endorsements}
          \subseteq {n \in Honest : ne \in nodes'[n].no_endorsements}
    BY DEF Growth, Kept
  <2> QED BY <1>2, <2>1 DEF verify_nec, SignedBy
<1>3. ASSUME NEW r, NEW he, TcSigned(r, he) PROVE TcSigned(r, he)'
  <2>1. \A n \in Honest : TimeoutsOf(n, r) \subseteq TimeoutsOf(n, r)'
    BY DEF TimeoutsOf, Growth, Kept
  <2> QED BY <1>3, <2>1 DEF TcSigned
<1> QED BY <1>1, <1>2, <1>3

LEMMA TipsStay ==
  ASSUME Growth
  PROVE  Tips \subseteq Tips'
<1> SUFFICES ASSUME NEW b \in Block, verify_tip(b) PROVE verify_tip(b)'
  BY ZenonT(30) DEF Tips
<1>1. SignedTip(b)'
  BY DEF verify_tip, SignedTip, Growth, Kept
<1>2. verify_qc(BlockQc[b])'
  BY ZenonT(30), CertificatesStay DEF verify_tip, verify_qc
<1>3. FreshCertified(b)'
  BY ZenonT(30), CertificatesStay DEF verify_tip, FreshCertified
<1> QED BY <1>1, <1>2, <1>3 DEF verify_tip

LEMMA AllStay ==
  ASSUME Growth
  PROVE  /\ EnterQcs \subseteq EnterQcs' /\ Tips \subseteq Tips' /\ FormedTcs \subseteq FormedTcs'
         /\ ValidRecoveries \subseteq ValidRecoveries' /\ \A n : NesFor(n) \subseteq NesFor(n)'
<1>1. FormedQcs \subseteq FormedQcs'
  BY CertificatesStay DEF FormedQcs, Growth, Kept
<1>2. EnterQcs \subseteq EnterQcs'
  BY <1>1 DEF EnterQcs
<1>3. Tips \subseteq Tips'
  BY ZenonT(30), TipsStay
<1>4. FormedTcs \subseteq FormedTcs'
  <2> SUFFICES ASSUME NEW tc \in FormedTcs PROVE tc \in FormedTcs'
    OBVIOUS
  <2>1. PICK r \in 1..(MaxRound - 1), he \in VerifiedExtends : tc = TcCert(r, he)
    BY DEF FormedTcs
  <2>2. he \in VerifiedExtends'
    BY <1>1, <1>3 DEF VerifiedExtends
  <2>3. /\ TcSigned(tc.round, tc.high_extend)
        /\ tc.high_extend.tip = None => tc.high_extend.qc.round < tc.round
    BY DEF FormedTcs
  <2>4. TcSigned(tc.round, tc.high_extend)'
    BY <2>3, CertificatesStay
  <2>5. tc \in {TcCert(i, h) : i \in 1..(MaxRound - 1), h \in VerifiedExtends'}
    BY <2>1, <2>2
  <2> QED BY <2>3, <2>4, <2>5 DEF FormedTcs
<1>5. ValidRecoveries \subseteq ValidRecoveries'
  <2> SUFFICES ASSUME NEW tc \in ValidRecoveries PROVE tc \in ValidRecoveries'
    OBVIOUS
  <2> DEFINE l == Leader[tc.round + 1]
  <2>1. tc \in FormedTcs /\ tc.high_extend.tip # None /\ (l \in Faulty \/ tc \in nodes[l].recoveries)
    BY ZenonT(30) DEF ValidRecoveries
  <2>2. tc.round + 1 \in 1..MaxRound
    BY <2>1, FormedTcFacts, ProtocolAssumption
  <2>3. l \in Honest \cup Faulty
    BY <2>2, ProtocolAssumption DEF Validator
  <2>4. l \in Faulty \/ tc \in nodes'[l].recoveries
    BY <2>1, <2>3 DEF Growth, Kept
  <2> QED BY ZenonT(30), <1>4, <2>1, <2>4 DEF ValidRecoveries
<1>6. \A n : NesFor(n) \subseteq NesFor(n)'
  BY CertificatesStay DEF NesFor
<1> QED BY ZenonT(30), <1>2, <1>3, <1>4, <1>5, <1>6

-----------------------------------------------------------------------------
(* What exists in a state of MonadBFT *)

LEMMA FormedExist ==
  ASSUME TypeOK
  PROVE  /\ EnterQcs \in SUBSET QuorumCertificate /\ Tips \in SUBSET Block
         /\ TcsExist(EnterQcs, FormedTcs, Tips)
<1>1. EnterQcs \in SUBSET QuorumCertificate /\ FormedQcs \in SUBSET QuorumCertificate
      /\ Tips \in SUBSET Block
  BY FormedQcsType DEF Tips
<1>2. FormedTcs \subseteq RoundCertificate /\ \A tc \in FormedTcs : tc.kind = "Tc"
  BY FormedTcsType
<1>3. ASSUME NEW tc \in FormedTcs
      PROVE  /\ tc.high_extend.qc \in EnterQcs
             /\ \/ tc.high_extend.tip = None
                \/ /\ tc.high_extend.tip \in Tips
                   /\ tc.high_extend.qc = BlockQc[tc.high_extend.tip]
  <2>1. CASE tc.high_extend.tip = None
    <3>1. /\ tc.high_extend.qc \in FormedQcs /\ tc.high_extend.qc.round < tc.round
          /\ tc.round \in Nat /\ tc.round < MaxRound
      <4>1. None \notin Tips
        BY <1>1, BlockAssumption
      <4> QED BY <2>1, <4>1, FormedTcFacts
    <3>2. tc.high_extend.qc.round \in Nat
      BY <1>1, <3>1 DEF QuorumCertificate
    <3>3. tc.high_extend.qc.round < MaxRound
      BY <3>1, <3>2, ProtocolAssumption
    <3> QED BY <2>1, <3>1, <3>3 DEF EnterQcs
  <2>2. CASE tc.high_extend.tip # None
    BY <2>2, FormedTcFacts, TipQc
  <2> QED BY <2>1, <2>2
<1> QED BY <1>1, <1>2, <1>3 DEF TcsExist

\* What every correct node has sent.
MInv == \A n \in Honest : Sound(nodes[n], n, EnterQcs, FormedTcs, Tips, ValidRecoveries, NesFor(n))

SentBy(n) == Sends(nodes[n], n, EnterQcs, FormedTcs, Tips, ValidRecoveries, NesFor(n))

\* Recovery was requested with the TC that a no-endorsement answers; by the
\* leader of the round, if it is correct.
LEMMA Requested ==
  ASSUME MInv, NEW ne, verify_nec(ne)
  PROVE  /\ \E m \in Honest : ne \in nodes[m].no_endorsements
         /\ \E tc \in ValidRecoveries :
              /\ Answers(ne, tc)
              /\ Leader[ne.round] \in Honest => tc \in nodes[Leader[ne.round]].recoveries
<1>1. PICK m \in Honest : ne \in nodes[m].no_endorsements
  BY SignedByHonest DEF verify_nec
<1>2. PICK tc \in ValidRecoveries : Answers(ne, tc)
  BY <1>1 DEF MInv, Sound
<1>3. Leader[ne.round] \in Honest => tc \in nodes[Leader[ne.round]].recoveries
  BY <1>2, QuorumAssumption DEF ValidRecoveries, Answers
<1> QED BY <1>1, <1>2, <1>3

LEMMA HandlersSend ==
  ASSUME IInv, MInv, NEW n \in Honest
  PROVE  /\ nodes[n] \in SentBy(n) /\ SentBy(n) \subseteq NodeState
         /\ Closed(SentBy(n), n, EnterQcs, FormedTcs, ValidProposals, ValidRecoveries, NesFor(n))
<1>1. TypeOK
  BY DEF IInv
<1>2. nodes[n] \in SentBy(n) /\ SentBy(n) \subseteq NodeState
  BY <1>1 DEF MInv, SentBy, Sends, Kept, TypeOK
<1>3. ValidProposals \subseteq ProposalMessage /\ \A p \in ValidProposals : p.tip \in Tips
  BY <1>1, ValidProposalsType DEF ValidProposals
<1>4. ValidRecoveries \subseteq FormedTcs /\ \A tc \in ValidRecoveries : tc.high_extend.tip # None
  BY DEF ValidRecoveries
<1>5. ASSUME NEW ne \in NesFor(n) PROVE \E tc \in nodes[n].recoveries : Answers(ne, tc)
  BY Requested DEF NesFor
<1>6. ReceivedExist(nodes[n], FormedTcs, Tips, ValidProposals, ValidRecoveries, NesFor(n))
  BY <1>3, <1>4, <1>5 DEF ReceivedExist, NesFor
<1>7. Closed(SentBy(n), n, EnterQcs, FormedTcs, ValidProposals, ValidRecoveries, NesFor(n))
  BY <1>1, <1>6, FormedExist, SendsClosed DEF SentBy
<1> QED BY <1>2, <1>7

-----------------------------------------------------------------------------
(* The invariant is inductive *)

\* A node that starts from its checkpoint has lost its tip and its
\* no-endorsement certificates.
LEMMA RestartSends ==
  ASSUME IInv, MInv, NEW n \in Honest
  PROVE  StartConsensus(nodes[n], nodes[n].high_certificate) \in SentBy(n)
<1> DEFINE y == nodes[n]
           cert == y.high_certificate
           state == [earliest_round |-> cert.round + 1, certificates |-> {}]
           w == [y EXCEPT !.high_certificate = cert, !.safety = NewSafety(cert),
                          !.no_endorsement_state = state]
<1>1. y \in SentBy(n) /\ y \in NodeState
  BY ZenonT(30), HandlersSend
<1>2. cert \in RoundCertificate /\ cert.round \in Nat /\ cert.high_extend.qc.round \in Nat
  BY <1>1 DEF NodeState, RoundCertificate, HighExtend, QuorumCertificate
<1>3. state \in NoEndorsementState /\ state.certificates = {}
  BY <1>2 DEF NoEndorsementState
<1>4. /\ NewSafety(cert) \in SafetyState /\ NewSafety(cert).maybe_high_tip = None
      /\ NewSafety(cert).highest_vote <= get_current_round(y)
  BY <1>2 DEF NewSafety, SafetyState, HighNoEndorse, get_current_round
<1>5. StartConsensus(y, cert) = LocalTimeout(w)
  BY DEF StartConsensus
<1> HIDE DEF y, state
<1>6. w \in NodeState
  BY ZenonT(30), <1>1, <1>2, <1>3, <1>4 DEF NodeState
<1>7. /\ w.safety = NewSafety(cert) /\ w.high_certificate = cert
      /\ w.votes = y.votes /\ w.timeouts = y.timeouts /\ w.proposals = y.proposals
      /\ w.no_endorsements = y.no_endorsements /\ w.recoveries = y.recoveries
      /\ w.no_endorsement_state = state
  BY ZenonT(30), <1>1 DEF NodeState
<1> HIDE DEF w
<1>8. Adds(y, w, n, EnterQcs, FormedTcs, Tips, ValidRecoveries, NesFor(n))
  BY ZenonT(30), <1>3, <1>4, <1>6, <1>7 DEF Adds, Kept
<1>9. w \in SentBy(n)
  BY ZenonT(30), <1>1, <1>8, AddsSends DEF SentBy
<1>10. LocalTimeout(w) \in SentBy(n)
  BY ZenonT(30), <1>9, HandlersSend DEF Closed
<1> QED BY <1>5, <1>10 DEF y

LEMMA MessagesStep ==
  ASSUME IInv, MInv, [Next]_vars
  PROVE  Growth /\ MInv'
<1>1. faulty_blocks \subseteq faulty_blocks' /\ \A m \in Honest : nodes'[m] \in SentBy(m)
  <2>1. CASE Restart
    <3>1. PICK n \in Running : nodes' = [nodes EXCEPT ![n] = StartConsensus(@, @.high_certificate)]
      BY ZenonT(30), <2>1 DEF Restart
    <3> DEFINE x == StartConsensus(nodes[n], nodes[n].high_certificate)
    <3>2. nodes' = [nodes EXCEPT ![n] = x] /\ n \in Honest
      BY <3>1 DEF Running
    <3>3. x \in SentBy(n)
      BY <3>2, RestartSends
    <3> HIDE DEF x
    <3>4. \A m \in Honest : nodes'[m] \in SentBy(m)
      BY <3>2, <3>3, HandlersSend DEF IInv, TypeOK
    <3> QED BY <2>1, <3>4 DEF Restart
  <2>2. CASE ~ Restart
    <3> DEFINE F == [n \in Honest |-> SentBy(n)]
    <3>1. \A p \in ValidProposals : BlockQc[p.tip] \in EnterQcs
      BY TipQc DEF ValidProposals
    <3>2. ASSUME NEW t \in ValidTimeouts(FormedTcs) PROVE t.high_extend.qc \in EnterQcs
      <4>1. PICK n \in Honest : t \in nodes[n].timeouts
        BY ZenonT(30) DEF ValidTimeouts
      <4>2. TimeoutMade(t, EnterQcs, FormedTcs, Tips)
        BY ZenonT(30), <4>1 DEF MInv, Sound
      <4> QED BY <4>2, TipQc DEF TimeoutMade
    <3>3. Steady(F, EnterQcs)
      BY <3>1, <3>2, HandlersSend, FormedExist DEF Steady, IInv
    <3>4. faulty_blocks \subseteq faulty_blocks' /\ \A m \in Honest : nodes'[m] \in F[m]
      BY <2>2, <3>3, StepSteady
    <3> QED BY <3>4
  <2> QED BY <2>1, <2>2
<1>2. ASSUME NEW m \in Honest
      PROVE  /\ Kept(nodes[m], nodes'[m])
             /\ Sound(nodes'[m], m, EnterQcs, FormedTcs, Tips, ValidRecoveries, NesFor(m))
  BY <1>1 DEF SentBy, Sends
<1>3. Growth
  BY ZenonT(30), <1>1, <1>2 DEF Growth
<1>4. ASSUME NEW m \in Honest
      PROVE  Sound(nodes'[m], m, EnterQcs', FormedTcs', Tips', ValidRecoveries', NesFor(m)')
  <2>1. /\ EnterQcs \subseteq EnterQcs' /\ Tips \subseteq Tips' /\ FormedTcs \subseteq FormedTcs'
        /\ ValidRecoveries \subseteq ValidRecoveries' /\ NesFor(m) \subseteq NesFor(m)'
    BY <1>3, AllStay
  <2> QED BY <1>2, <2>1, SoundStays
<1> QED BY <1>3, <1>4 DEF MInv

\* In the initial state nothing is sent but timeouts on the genesis QC.
LEMMA InitMessages == Init => MInv
<1> SUFFICES ASSUME Init, NEW n \in Honest
             PROVE  Sound(nodes[n], n, EnterQcs, FormedTcs, Tips, ValidRecoveries, NesFor(n))
  BY DEF MInv
<1> DEFINE cert == QcCert(genesis_qc)
           state == [earliest_round |-> cert.round + 1, certificates |-> {}]
           w == [Unstarted EXCEPT !.high_certificate = cert, !.safety = NewSafety(cert),
                                  !.no_endorsement_state = state]
           S == Sends(w, n, EnterQcs, FormedTcs, Tips, ValidRecoveries, NesFor(n))
<1>1. nodes[n] = LocalTimeout(w)
  BY DEF Init, StartConsensus
<1>2. TypeOK
  BY InitInv DEF IInv
<1>3. genesis_qc \in EnterQcs
  BY ProtocolAssumption DEF EnterQcs, FormedQcs, genesis_qc, GENESIS_ROUND
<1>4. /\ w.high_certificate = cert /\ w.safety = NewSafety(cert) /\ w.no_endorsement_state = state
      /\ w.timeouts = {} /\ w.no_endorsements = {} /\ w.proposals = {} /\ w.recoveries = {}
  BY DEF Unstarted
<1>5. w \in NodeState
  <2>1. Unstarted \in NodeState /\ Unstarted.safety = NewSafety(cert) /\ Unstarted.high_certificate = cert
    BY ZenonT(30), UnstartedInv DEF NodeInv, Unstarted
  <2>2. state \in NoEndorsementState
    BY DEF NoEndorsementState, QcCert, genesis_qc, GENESIS_ROUND
  <2> HIDE DEF state, cert
  <2> QED BY ZenonT(30), <2>1, <2>2 DEF NodeState
<1>6. /\ state.certificates = {} /\ NewSafety(cert).maybe_high_tip = None
      /\ NewSafety(cert).highest_vote <= cert.round + 1
  BY DEF NewSafety, QcCert, genesis_qc, GENESIS_ROUND
<1> HIDE DEF w, state
<1>7. w \in S
  <2>1. cert \in Certs(EnterQcs, FormedTcs)
    BY ZenonT(30), <1>3 DEF Certs
  <2> HIDE DEF cert
  <2>2. Sound(w, n, EnterQcs, FormedTcs, Tips, ValidRecoveries, NesFor(n))
    BY <1>4, <1>6, <2>1 DEF Sound, get_current_round
  <2> QED BY <1>5, <2>2 DEF Sends, Kept
<1>8. LocalTimeout(w) \in S
  BY <1>2, <1>7, FormedExist, LocalTimeoutAdds, AddsSends
<1> QED BY <1>1, <1>8 DEF Sends

\* Whatever is lost, repeated or reordered, whichever nodes restart and
\* whatever faulty nodes sign, a correct node sends what its certificate, its
\* high tip and its recovery request allow.
THEOREM MessagesAreMade == Spec => [](IInv /\ MInv)
<1>1. Init => IInv /\ MInv
  BY InitInv, InitMessages
<1>2. (IInv /\ MInv) /\ [Next]_vars => (IInv /\ MInv)'
  BY ZenonT(30), NextInv, MessagesStep
<1> QED BY <1>1, <1>2, PTL DEF Spec

-----------------------------------------------------------------------------
(* What is sent is valid *)

\* A tip is of a later round than its QC.
LEMMA TipsIncrease ==
  ASSUME IInv, MInv, EarlierQcs, NEW b \in Tips
  PROVE  BlockQc[b].round < BlockRound[b]
<1> DEFINE r  == BlockRound[b]
           ne == [round |-> r, tip_qc_round |-> BlockQc[b].round]
<1>1. b \in Block /\ r \in Nat /\ BlockQc[b].round \in Nat
  BY TipQc, BlockTypes
<1>2. FreshCertified(b)
  BY DEF Tips, verify_tip
<1>3. CASE verify_nec(ne)
  <2>1. PICK tc \in ValidRecoveries : Answers(ne, tc)
    BY ZenonT(30), <1>3, Requested
  <2>2. tc \in FormedTcs /\ tc.round \in Nat /\ tc.high_extend.qc.round < tc.round
    BY <2>1, FormedTcFacts DEF ValidRecoveries, EarlierQcs
  <2>3. r = tc.round + 1 /\ BlockQc[b].round = tc.high_extend.qc.round
    BY <2>1 DEF Answers
  <2> QED BY ZenonT(30), <1>1, <2>2, <2>3, NextRound
<1>4. CASE r = BlockQc[b].round + 1 \/ BlockQc[b].round < r - 1
  BY <1>1, <1>4
<1> QED BY <1>2, <1>3, <1>4 DEF FreshCertified

LEMMA ProposalsValid ==
  ASSUME IInv, MInv, EarlierQcs, NEW n \in Honest, NEW p \in nodes[n].proposals
  PROVE  p \in ValidProposals
<1> DEFINE tc == p.last_round_tc
           b  == p.tip
           qc == BlockQc[b]
<1>1. ProposalMade(p, n, EnterQcs, FormedTcs, NesFor(n))
  BY DEF MInv, Sound
<1>2. Leader[p.proposal_round] = n /\ b \in Block /\ BlockRound[b] \in Nat /\ qc.round \in Nat
  BY <1>1, BlockTypes DEF ProposalMade
<1>3. TypeOK /\ p \in ProposalMessage /\ p.proposal_round \in Nat
  BY DEF IInv, TypeOK, NodeState, ProposalMessage
<1>4. p \in UNION {nodes[m].proposals : m \in Honest}
  OBVIOUS
<1>5. p.proposal_round = BlockRound[b] => SignedTip(b)
  BY <1>2 DEF SignedTip
<1>6. CASE OnQc(p, EnterQcs)
  <2>1. /\ tc = None /\ qc \in FormedQcs
        /\ p.proposal_round = BlockRound[b] /\ p.proposal_round = qc.round + 1
    BY <1>6 DEF OnQc, EnterQcs
  <2>2. b \in Tips
    BY ZenonT(30), <1>2, <1>5, <2>1, FormedQcVerified DEF Tips, verify_tip, FreshCertified
  <2>3. well_formed_proposal(p)
    BY <2>1 DEF well_formed_proposal
  <2> QED BY <1>4, <2>1, <2>2, <2>3 DEF ValidProposals
<1>7. CASE OnTc(p, FormedTcs, NesFor(n))
  <2>1. tc \in FormedTcs /\ p.proposal_round = tc.round + 1
    BY ZenonT(30), <1>7 DEF OnTc
  <2>2. /\ TcSigned(tc.round, tc.high_extend) /\ tc.round \in Nat
        /\ tc.high_extend.qc.round < tc.round
        /\ \/ tc.high_extend.tip = None /\ tc.high_extend.qc \in FormedQcs
           \/ tc.high_extend.tip \in Tips /\ tc.high_extend.qc = BlockQc[tc.high_extend.tip]
    BY ZenonT(30), <2>1, FormedTcFacts DEF EarlierQcs
  <2>3. tc # None /\ tc \in RoundCertificate
    BY ZenonT(30), <1>3, <2>1, FormedTcsType, NoneAssumption
  <2>4. tc.high_extend.qc \in FormedQcs
    BY <2>2, TipQc
  <2>5. CASE b = tc.high_extend.tip
    <3>1. b \in Tips /\ qc = tc.high_extend.qc
      BY ZenonT(30), <1>2, <2>2, <2>5, BlockAssumption
    <3>2. well_formed_proposal(p)
      BY <1>2, <2>1, <2>2, <2>3, <2>5, <3>1 DEF well_formed_proposal, TcTip
    <3> QED BY <1>4, <2>1, <3>1, <3>2 DEF ValidProposals
  <2>6. CASE b # tc.high_extend.tip
    <3>1. /\ p.proposal_round = BlockRound[b] /\ qc = tc.high_extend.qc
          /\ \/ tc.high_extend.tip = None
             \/ [round |-> p.proposal_round, tip_qc_round |-> qc.round] \in NesFor(n)
      BY <1>7, <2>6 DEF OnTc
    <3>2. FreshCertified(b)
      <4>1. CASE tc.high_extend.tip = None
        <5>1. tc.high_extend \in HighExtend
          BY ZenonT(30), <2>3 DEF RoundCertificate
        <5>2. tc.high_extend = ExtendQc(qc)
          BY ZenonT(30), <3>1, <4>1, <5>1 DEF HighExtend, ExtendQc
        <5>3. BlockRound[b] - 1 = tc.round
          BY ZenonT(30), <2>1, <2>2, <3>1, NextRound
        <5> QED BY ZenonT(30), <2>2, <3>1, <5>2, <5>3 DEF FreshCertified
      <4>2. CASE [round |-> p.proposal_round, tip_qc_round |-> qc.round] \in NesFor(n)
        BY <3>1, <4>2 DEF NesFor, FreshCertified
      <4> QED BY ZenonT(30), <3>1, <4>1, <4>2
    <3>3. b \in Tips
      BY ZenonT(30), <1>2, <1>5, <2>4, <3>1, <3>2, FormedQcVerified DEF Tips, verify_tip
    <3>4. well_formed_proposal(p)
      BY <1>2, <2>1, <2>2, <2>3, <3>1 DEF well_formed_proposal
    <3> QED BY <1>4, <2>1, <3>3, <3>4 DEF ValidProposals
  <2> QED BY ZenonT(30), <2>5, <2>6
<1> QED BY ZenonT(30), <1>1, <1>6, <1>7 DEF ProposalMade

LEMMA TimeoutsValid ==
  ASSUME IInv, MInv, EarlierQcs, NEW n \in Honest, NEW t \in nodes[n].timeouts
  PROVE  t \in ValidTimeouts(FormedTcs)
<1> DEFINE rc == t.last_round_certificate
           he == t.high_extend
<1>1. TimeoutMade(t, EnterQcs, FormedTcs, Tips)
  BY ZenonT(30) DEF MInv, Sound
<1>2. /\ rc \in {None} \cup {QcCert(qc) : qc \in EnterQcs} \cup FormedTcs
      /\ rc # None => t.round = rc.round + 1
      /\ t.round = he.qc.round + 1 <=> rc = None
  BY <1>1 DEF TimeoutMade, Certs
<1>3. CASE he.tip = None /\ he.qc \in EnterQcs
  <2>1. verify_qc(he.qc)
    BY <1>3, FormedQcVerified DEF EnterQcs
  <2>2. verify_high_extend(he)
    BY <1>3, <2>1 DEF verify_high_extend
  <2> QED BY <1>2, <1>3, <2>2 DEF ValidTimeouts
<1>4. CASE he.tip \in Tips /\ he.qc = BlockQc[he.tip]
  <2>1. he.tip # None /\ he.qc.round < BlockRound[he.tip]
    BY <1>4, TipQc, TipsIncrease, BlockAssumption
  <2>2. verify_high_extend(he)
    BY <1>4, <2>1 DEF verify_high_extend, Tips
  <2> QED BY <1>2, <2>1, <2>2 DEF ValidTimeouts
<1> QED BY ZenonT(30), <1>1, <1>3, <1>4 DEF TimeoutMade

\* What a correct validator sends passes the validation of its receivers, for
\* any validators, blocks and rounds and with restarts, while no TC carries a
\* tip on a QC of its own round or a later one, unless it carries a TC
\* with a tip of a later round than its own, which the node built of the
\* timeout of a faulty one (TimeoutCertificate::new, TimeoutMessage::validate).
THEOREM MessagesAreValid == Spec => []ValidMessages
<1>1. IInv /\ MInv => ValidMessages
  <2> SUFFICES ASSUME IInv, MInv, EarlierQcs, NEW n \in Honest
               PROVE  /\ nodes[n].proposals \subseteq ValidProposals
                      /\ nodes[n].recoveries \subseteq ValidRecoveries
                      /\ nodes[n].timeouts \subseteq ValidTimeouts(FormedTcs)
    BY ZenonT(30) DEF ValidMessages
  <2>1. nodes[n].recoveries \subseteq ValidRecoveries
    BY DEF MInv, Sound, RecoveryMade, ValidRecoveries
  <2> QED BY <2>1, ProposalsValid, TimeoutsValid
<1> QED BY MessagesAreMade, <1>1, PTL
=============================================================================
