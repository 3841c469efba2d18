------------------------------ MODULE MonadBFT ------------------------------
(***************************************************************************)
(* The consensus protocol: every correct validator runs the handlers of    *)
(* ConsensusState; the network may lose, delay, duplicate and reorder      *)
(* messages; a node may restart from its checkpoint; faulty validators may *)
(* sign anything that the receivers' validation lets through.              *)
(*                                                                         *)
(* What correct nodes have signed is in nodes[n]; signatures of faulty     *)
(* nodes exist whenever they are needed.  The validity of a certificate    *)
(* (monad-consensus/src/validation/signing.rs) is therefore a predicate on *)
(* nodes: enough validators, counting every faulty one, have signed it.    *)
(***************************************************************************)
EXTENDS ConsensusState

CONSTANTS
  Honest,         \* validators that follow the code
  Faulty,         \* the others
  SuperMajority,  \* sets of validators for which has_super_majority_votes holds
  HonestVote,     \* sets of validators for which has_honest_vote holds
  Equivocation,   \* may a faulty leader sign two blocks for one round?
  LaterQcs,       \* may a TC carry a tip on a QC of its own round or a later one?
  MaxRound,       \* bound: no node enters a round above MaxRound
  MaxRestarts     \* bound: number of restarts

VARIABLES
  nodes,          \* Honest -> NodeState
  faulty_blocks,  \* blocks signed by a faulty leader of their round
  restarts        \* number of restarts so far

vars == <<nodes, faulty_blocks, restarts>>

Validator == Honest \cup Faulty

\* What ValidatorSet guarantees when the faulty stake is below
\* has_honest_vote's threshold.
ASSUME QuorumAssumption ==
  /\ Honest \cap Faulty = {}
  /\ SuperMajority \subseteq SUBSET Validator
  /\ HonestVote \subseteq SUBSET Validator
  /\ \A P, Q \in SuperMajority : P \cap Q \cap Honest # {}
  /\ \A P \in HonestVote : P \cap Honest # {}

ASSUME ProtocolAssumption ==
  /\ \A r \in 1..MaxRound : Leader[r] \in Validator
  /\ Equivocation \in BOOLEAN /\ LaterQcs \in BOOLEAN
  /\ MaxRound \in Nat \ {0}
  /\ \A b \in Block : BlockQc[b].round < MaxRound
  /\ MaxRestarts \in Nat

-----------------------------------------------------------------------------
(* Validity of what is received *)

\* Every validator in some set of S has signed, if the honest ones are in W.
SignedBy(S, W) == \E Q \in S : Q \cap Honest \subseteq W

\* verify_qc
QcFormed(r, id) ==
  SignedBy(SuperMajority, {n \in Honest : [round |-> r, id |-> id] \in nodes[n].votes})

verify_qc(qc) == qc = genesis_qc \/ (qc.round > GENESIS_ROUND /\ QcFormed(qc.round, qc.id))

\* verify_nec
verify_nec(ne) == SignedBy(SuperMajority, {n \in Honest : ne \in nodes[n].no_endorsements})

TimeoutsOf(n, r) == {m \in nodes[n].timeouts : m.round = r}

\* verify_tc on one signed TimeoutInfo: no QC of this round or later, and
\* neither its tip nor its QC is above the TC's high_extend.
Below(m, he) ==
  /\ m.high_extend.qc.round < m.round
  /\ IF he.tip = None
     THEN /\ m.high_extend.qc.round <= he.qc.round
          /\ high_tip_round(m.high_extend) <= he.qc.round
     ELSE /\ m.high_extend.qc.round < BlockRound[he.tip]
          /\ high_tip_round(m.high_extend) <= BlockRound[he.tip]

\* ... and one of them is exactly the high_extend's.
Reaches(m, he) ==
  IF he.tip = None THEN m.high_extend.qc.round = he.qc.round
  ELSE high_tip_round(m.high_extend) = BlockRound[he.tip]

\* verify_tc, the signatures: a faulty signer may report any rounds.
TcSigned(r, he) ==
  \E Q \in SuperMajority :
    /\ \A n \in Q \cap Honest : \E m \in TimeoutsOf(n, r) : Below(m, he)
    /\ \/ Q \cap Faulty # {}
       \/ \E n \in Q \cap Honest : \E m \in TimeoutsOf(n, r) : Below(m, he) /\ Reaches(m, he)

\* ConsensusTip::signature_author: the leader of the block's round signed it.
SignedTip(b) ==
  LET l == Leader[BlockRound[b]] IN
  \/ l \in Faulty /\ b \in faulty_blocks
  \/ l \in Honest /\ \E p \in nodes[l].proposals :
                        p.tip = b /\ p.proposal_round = BlockRound[b]

\* Fault: the NEC is not compared with the QC of the tip.
Bad_fresh_certified(b) ==
  LET r  == BlockRound[b]
      qc == BlockQc[b]
  IN  \/ r = qc.round + 1
      \/ \E q \in 0..r : verify_nec([round |-> r, tip_qc_round |-> q])
      \/ TcSigned(r - 1, ExtendQc(qc)) /\ qc.round < r - 1

\* The certificate a tip needs when its QC is not of the previous round: a
\* NoEndorsementCertificate, or a NoTipCertificate.
FreshCertified(b) ==
  LET r  == BlockRound[b]
      qc == BlockQc[b]
  IN  \/ r = qc.round + 1
      \/ verify_nec([round |-> r, tip_qc_round |-> qc.round])
      \/ TcSigned(r - 1, ExtendQc(qc)) /\ qc.round < r - 1

\* verify_tip
verify_tip(b) == SignedTip(b) /\ verify_qc(BlockQc[b]) /\ FreshCertified(b)

\* verify_high_extend
verify_high_extend(he) == IF he.tip = None THEN verify_qc(he.qc) ELSE verify_tip(he.tip)

\* ProposalMessage::well_formed_proposal
well_formed_proposal(p) ==
  LET tc == p.last_round_tc
      qc == BlockQc[p.tip]
  IN  IF p.proposal_round = qc.round + 1 THEN tc = None
      ELSE /\ tc # None
           /\ tc.high_extend.qc.round = qc.round
           /\ \/ TcTip(tc) \in {None, p.tip}
              \/ p.proposal_round = BlockRound[p.tip]

-----------------------------------------------------------------------------
(* The certificates and messages that can be received *)

FormedQcs ==
  {genesis_qc} \cup {v \in UNION {nodes[n].votes : n \in Honest} : QcFormed(v.round, v.id)}

Tips == {b \in Block : verify_tip(b)}

\* The QCs and tips that pass verify_high_extend.
VerifiedExtends == {ExtendQc(qc) : qc \in FormedQcs} \cup {ExtendTip(b) : b \in Tips}

\* The TCs that pass verify_tc (and verify_high_extend), up to the bound on
\* rounds.  verify_tc compares the QC rounds that the signers report with the
\* round of the TC.  In the timeouts of correct nodes that is the QC of the
\* tip; a faulty signer may report another one (LaterQcs).
FormedTcs ==
  LET tcs == {TcCert(r, he) : r \in 1..(MaxRound - 1), he \in VerifiedExtends}
  IN  {tc \in tcs : /\ TcSigned(tc.round, tc.high_extend)
                    /\ tc.high_extend.tip = None \/ ~ LaterQcs =>
                         tc.high_extend.qc.round < tc.round}

\* The timeouts of correct node n that a TC for round r on he may be made of:
\* TimeoutMessage::validate has let them through (signing.rs:609), their QC
\* has not taken the receiver out of the round, and he is the highest extend
\* so far.
CountedTimeouts(n, r, he) ==
  {m \in TimeoutsOf(n, r) :
     /\ m.high_extend.qc.round < r
     /\ m.high_extend.tip # None => m.high_extend.qc.round < BlockRound[m.high_extend.tip]
     /\ ~ HigherExtend(m.high_extend, he)}

\* TimeoutCertificate::new: he is the highest extend of a supermajority.
\* Nothing compares the rounds that the signers report with r: a faulty one
\* may come with a tip of any round, so long as its own QC does not end the
\* round.
HighestExtend(r, he) ==
  /\ he.qc.round < r
  /\ \E Q \in SuperMajority :
       /\ \A n \in Q \cap Honest : CountedTimeouts(n, r, he) # {}
       /\ \/ Q \cap Faulty # {}
          \/ \E n \in Q \cap Honest : \E m \in CountedTimeouts(n, r, he) : m.high_extend = he

\* The TCs that process_remote_timeout may build of the timeouts received.
BuiltTcs ==
  LET tcs == {TcCert(r, he) : r \in 1..(MaxRound - 1), he \in VerifiedExtends}
  IN  {tc \in tcs : HighestExtend(tc.round, tc.high_extend)}

\* Certificates that take a node to a round within the bound.
EnterQcs == {qc \in FormedQcs : qc.round < MaxRound}

FormedCertificates == {QcCert(qc) : qc \in EnterQcs} \cup FormedTcs

\* Proposals that pass ProposalMessage::validate, by honest and faulty leaders.
ValidProposals ==
  LET tips == Tips
      tcs  == {None} \cup FormedTcs
      sent == UNION {nodes[n].proposals : n \in Honest}
      Made(r) == {[proposal_round |-> r, tip |-> b, last_round_tc |-> tc] : b \in tips, tc \in tcs}
  IN  {p \in sent \cup UNION {Made(r) : r \in {x \in 1..MaxRound : Leader[x] \in Faulty}} :
         /\ p.tip \in tips
         /\ p.last_round_tc \in tcs
         /\ p.last_round_tc # None => p.proposal_round = p.last_round_tc.round + 1
         /\ well_formed_proposal(p)}

\* Timeouts of honest nodes that pass TimeoutMessage::validate and
\* well_formed_timeout.  What a timeout of a faulty node adds (its
\* certificates, its weight in a collection) is in FormedCertificates, in
\* HonestVote and in FormedTcs.
ValidTimeouts(tcs) ==
  LET certs == {None} \cup {QcCert(qc) : qc \in EnterQcs} \cup tcs
      Valid(t) ==
        LET rc == t.last_round_certificate
            he == t.high_extend
        IN  /\ rc \in certs
            /\ rc # None => t.round = rc.round + 1
            /\ verify_high_extend(he)
            /\ he.tip # None => he.qc.round < BlockRound[he.tip]
            /\ t.round = he.qc.round + 1 <=> rc = None
  IN  {t \in UNION {nodes[n].timeouts : n \in Honest} : Valid(t)}

\* RoundRecoveryMessage::validate: the TC has a tip.
ValidRecoveries ==
  {tc \in FormedTcs :
     /\ tc.high_extend.tip # None
     /\ LET l == Leader[tc.round + 1] IN l \in Faulty \/ tc \in nodes[l].recoveries}

-----------------------------------------------------------------------------
(* Actions *)

Init ==
  /\ nodes = [n \in Honest |-> StartConsensus(Unstarted, QcCert(genesis_qc))]
  /\ faulty_blocks = {}
  /\ restarts = 0

\* The nodes that have not failed an assertion.
Running == {n \in Honest : ~ nodes[n].panicked}

\* Node n handles an event; `after` are the states that may result.  An event
\* that changes nothing is no step.
Update(n, after) ==
  /\ \E x \in after \ {nodes[n]} : nodes' = [nodes EXCEPT ![n] = x]
  /\ UNCHANGED <<faulty_blocks, restarts>>

\* The round timer; it is set again and again until the node leaves the round.
HandleTimeoutExpiry ==
  /\ \E n \in Running : \E x \in handle_timeout_expiry(nodes[n]) : nodes' = [nodes EXCEPT ![n] = x]
  /\ UNCHANGED <<faulty_blocks, restarts>>

HandleProposal ==
  \E p \in ValidProposals : \E n \in Running :
    Update(n, handle_proposal_message(n, nodes[n], Leader[p.proposal_round], p))

HandleVote ==
  \E qc \in EnterQcs : \E n \in Running :
    Update(n, handle_vote_message(n, nodes[n], qc.round, {qc}))

\* Node n receives the timeout t while the TCs that can be built are tcs.
ReceiveTimeout(n, t, tcs) ==
  LET vote     == [round |-> t.round, id |-> t.high_extend.tip]
      timedOut == {m \in Honest : TimeoutsOf(m, t.round) # {}}
  IN  Update(n, handle_timeout_message(n, nodes[n], t, EnterQcs \cap {vote},
                                       SignedBy(HonestVote, timedOut),
                                       {tc \in tcs : tc.round = t.round}))

HandleTimeout ==
  \E tcs \in {BuiltTcs} : \E t \in ValidTimeouts(FormedTcs), n \in Running : ReceiveTimeout(n, t, tcs)

HandleRoundRecovery ==
  \E tc \in ValidRecoveries : \E n \in Running :
    Update(n, handle_round_recovery_message(n, nodes[n], Leader[tc.round + 1], tc))

\* No-endorsements are sent to the leader that asked for them.
HandleNoEndorsement ==
  \E ne \in {x \in UNION {nodes[m].no_endorsements : m \in Honest} : verify_nec(x)} :
    \E n \in Running \cap {Leader[ne.round]} :
      Update(n, handle_no_endorsement_message(n, nodes[n], ne))

HandleAdvanceRound ==
  \E cert \in FormedCertificates : \E n \in Running :
    Update(n, handle_advance_round_message(n, nodes[n], cert))

\* handle_block_sync: a block arrives, and the leader may now be able to
\* propose.
HandleBlockSync == \E n \in Running : Update(n, try_propose(n, nodes[n]))

\* The node stops and starts again from its checkpoint, which was written when
\* it entered its current round and holds the certificate of that round.
Restart ==
  /\ restarts < MaxRestarts
  /\ \E n \in Running : nodes' = [nodes EXCEPT ![n] = StartConsensus(@, @.high_certificate)]
  /\ restarts' = restarts + 1
  /\ UNCHANGED faulty_blocks

\* ParentExecutor::exec hands the messages of an event to the router before it
\* writes the checkpoint of the event: the node handles a proposal, its vote
\* is sent, and it stops and starts again from the checkpoint it had before.
\* (Not part of Next: see CrashSpec.)
CrashBeforeCheckpoint ==
  /\ restarts < MaxRestarts
  /\ \E p \in ValidProposals, n \in Running :
       \E x \in handle_proposal_message(n, nodes[n], Leader[p.proposal_round], p) :
         nodes' = [nodes EXCEPT ![n] = StartConsensus(x, @.high_certificate)]
  /\ restarts' = restarts + 1
  /\ UNCHANGED faulty_blocks

\* A faulty leader signs a block of its round.
MaySign(b) ==
  /\ Leader[BlockRound[b]] \in Faulty
  /\ verify_qc(BlockQc[b]) /\ FreshCertified(b)
  /\ Equivocation \/ \A c \in faulty_blocks : BlockRound[c] # BlockRound[b]

SignBlock ==
  /\ \E b \in {x \in Block \ faulty_blocks : MaySign(x)} : faulty_blocks' = faulty_blocks \cup {b}
  /\ UNCHANGED <<nodes, restarts>>

Next ==
  \/ HandleTimeoutExpiry
  \/ HandleProposal
  \/ HandleVote
  \/ HandleTimeout
  \/ HandleRoundRecovery
  \/ HandleNoEndorsement
  \/ HandleAdvanceRound
  \/ HandleBlockSync
  \/ Restart
  \/ SignBlock

Spec == Init /\ [][Next]_vars

CrashSpec == Init /\ [][Next \/ CrashBeforeCheckpoint]_vars

\* A TC with a tip of a later round than its own.  Only a timeout of a faulty
\* node brings it about, and that may have reported a QC round that verify_tc
\* rejects (signing.rs:845) and validate does not (signing.rs:609): a node that
\* has built such a TC may hold a certificate that no other node accepts.
Misreported(cert) == cert # None /\ high_tip_round(cert.high_extend) > cert.round

\* The round timer of a running node fires, and it sends its timeout again
\* each time it does, so that a timeout is received in the end, if its
\* receivers accept the certificate it carries.  Nothing is assumed of
\* proposals, votes, recoveries or AdvanceRound messages.
Fairness ==
  \A n \in Honest :
    /\ WF_vars(n \in Running /\ Update(n, handle_timeout_expiry(nodes[n])))
    /\ WF_vars(/\ n \in Running
               /\ \E t \in ValidTimeouts(FormedTcs) :
                    ~ Misreported(t.last_round_certificate) /\ ReceiveTimeout(n, t, BuiltTcs))

FairSpec == Spec /\ Fairness

-----------------------------------------------------------------------------
(* Properties *)

\* The state of every node is a NodeState, and the bounds are kept.
TypeOK ==
  /\ nodes \in [Honest -> NodeState]
  /\ faulty_blocks \subseteq Block
  /\ restarts \in 0..MaxRestarts

\* "This makes sure that we don't double vote" (safety.rs:32): a validator
\* signs at most one vote per round, counting the votes inside its timeouts
\* and the votes it signed before it was restarted.
VoteOnce == \A n \in Honest : \A v, w \in nodes[n].votes : v.round = w.round => v = w

\* "... double propose" (safety.rs:32): a leader signs at most one proposal
\* per round, whichever of its handlers calls try_propose and however often,
\* and across restarts.
ProposeOnce ==
  \A n \in Honest : \A p, q \in nodes[n].proposals : p.proposal_round = q.proposal_round => p = q

\* At most one quorum certificate can be formed in a round, out of the votes
\* of vote messages and of timeout messages, even if a faulty leader proposes
\* several blocks in the round and faulty validators vote for all of them.
QcUnique == \A p, q \in FormedQcs : p.round = q.round => p = q

\* No handler fails an assertion: Safety::timeout (safety.rs:173) for the
\* round being timed out, Pacemaker::process_remote_timeout (pacemaker.rs:313)
\* for the round of a received timeout, and NoEndorsementState
\* (no_endorsement_state.rs:155) for a certificate that exists already.
NoPanic == \A n \in Honest : ~ nodes[n].panicked

\* No TC carries a tip on a QC of its own round or a later one, be it that
\* there is no faulty signer who would help to make it or that faulty signers
\* do not (~ LaterQcs).  Once false it stays false.
EarlierQcs == \A tc \in FormedTcs : tc.high_extend.qc.round < tc.round

\* What a correct validator sends passes the validation of its receivers
\* (signing.rs): the certificates in its proposals, timeouts and recovery
\* requests fit the rounds and tips they come with, whatever was lost and
\* whichever nodes were restarted.  The exception are messages with a TC that
\* the node built of a faulty timeout and that is Misreported: they may be
\* rejected.
ValidMessages ==
  EarlierQcs =>
    \A n \in Honest :
      /\ {p \in nodes[n].proposals : ~ Misreported(p.last_round_tc)} \subseteq ValidProposals
      /\ {tc \in nodes[n].recoveries : ~ Misreported(tc)} \subseteq ValidRecoveries
      /\ {t \in nodes[n].timeouts : ~ Misreported(t.last_round_certificate)}
           \subseteq ValidTimeouts(FormedTcs)

\* The ids of the chain that ends in id: the least set that contains id and
\* the parent of each of its blocks.
Ids == Block \cup {Genesis}

ParentClosed == {S \in SUBSET Ids : \A b \in S \cap Block : BlockQc[b].id \in S}

Chain == [id \in Ids |-> {a \in Ids : \A S \in ParentClosed : id \in S => a \in S}]

\* What Agreement takes for granted: EarlierQcs, no correct node has lost its
\* high tip in a restart, and no faulty leader has signed two blocks for one
\* round (no correct one does: ProposeOnce).  Once false it stays false.
Orderly ==
  /\ EarlierQcs
  /\ restarts = 0
  /\ \A b, c \in faulty_blocks : BlockRound[b] = BlockRound[c] => b = c

\* Agreement: what a quorum certificate commits (get_committable_id, acted
\* upon by try_commit) is on the chain of every certificate of that round or a
\* later one, so no node ever commits a conflicting block.
Agreement ==
  Orderly =>
    \A p, q \in FormedQcs :
      /\ get_committable_id(p) # None
      /\ q.round >= p.round
      => get_committable_id(p) \in Chain[q.id]

\* A commit binds the leaders that follow: a tip of a later round that passes
\* verify_tip, on a no-tip or a no-endorsement certificate as well as on a QC
\* of the previous round, extends what was committed.
TipsExtendCommits ==
  Orderly =>
    \A p \in FormedQcs, b \in Tips :
      /\ get_committable_id(p) # None
      /\ BlockRound[b] > p.round
      => get_committable_id(p) \in Chain[b]

\* A new vote is for a round the node has not timed out.
NewVotesInLiveRounds ==
  \A n \in Honest : \A v \in nodes'[n].votes \ nodes[n].votes : TimeoutsOf(n, v.round) = {}

\* A node that has sent a timeout for a round never signs another vote for
\* it, before or after a restart: what its timeout reports stays true.
TimeoutIsFinal == [][NewVotesInLiveRounds]_vars

\* Rounds that make no progress end: by timeouts alone every correct node
\* reaches every round, whatever was voted, proposed or no-endorsed before.
\* Signatures are valid here; that invalid ones do not keep a TC from being
\* built is NoTcMissed of Pacemaker.
RoundsAdvance == \A n \in Honest : <>(get_current_round(nodes[n]) = MaxRound)

=============================================================================
